------------------------------ MODULE TableApi ------------------------------
(***************************************************************************)
(* The table API (CompatHandler): generic reads and writes of most tables, *)
(* every write that succeeded followed by records in audit_logs, on a pool *)
(* with a fixed number of connections.                                     *)
(*                                                                         *)
(* A statement takes a connection from the pool, or waits for one, and     *)
(* gives it back when it is done: Acquire and the statement are two steps. *)
(* The reads of orders and of the menu keep theirs while they query the    *)
(* items of each row with a second one.                                    *)
(*                                                                         *)
(* Rows are those of two kinds of tables: with a parent and its items      *)
(* (orders, menu items), and with one row per user or gateway.  An id is   *)
(* named for the request that generated it.                                *)
(***************************************************************************)
EXTENDS Integers, Sequences, FiniteSets

CONSTANTS
    Request,
    MayAsk,     \* what each request may be for; every operation, but for a bound in a run
    Key,        \* users and gateways: one row for each at most
    Batch,      \* rows in one insert of items
    Conns,      \* MaxConns of the pool
    Seed,       \* a row that was there before
    None

Fresh(r, i) == <<r, i>>
Id == (Request \X (1..Batch)) \cup {Seed}

\* What a request is for, by the handler that serves it.
Reading == {"read", "expand"}
ByParent == {"items", "clear"}
ById == {"update", "noop", "delete"}
ByKey == {"upsert", "setting", "role", "updateUser", "deleteRole"}
Op == Reading \cup ByParent \cup ById \cup ByKey \cup {"insert"}

ASSUME TableApiAssumption ==
    /\ Batch \in Nat \ {0} /\ Conns \in Nat \ {0}
    /\ IsFiniteSet(Request) /\ MayAsk \in [Request -> SUBSET Op]
    /\ Seed \notin Request \X (1..Batch) /\ Key \cap Id = {}
    /\ None \notin Key \cup Id \cup Op \cup {"ok", "refused", "failed"}

VARIABLES
    rows,       \* ids of the rows of tables with parents
    parent,     \* the parent of each item that was ever inserted
    keyed,      \* the row of each key
    trail,      \* audit_logs: who, and the record id, if any
    ask,        \* what each request is for
    at,         \* where it is
    held,       \* how many connections it has
    count,      \* items inserted, or rows still to expand
    names,      \* record ids still to be audited
    answer,

    \* A history variable: no guard reads it.
    did         \* the rows a request has changed

tables == <<rows, parent, keyed>>
mine == <<ask, at, held, count, names, answer>>
vars == <<tables, trail, mine, did>>

Hotel == {"demo", "other"}
Name == Id \cup Key \cup {None}
NoAsk == [op |-> None, on |-> None, hotel |-> None]
Taken == {c \in Request \X (1..2) : c[2] <= held[c[1]]}
InUse == Cardinality(Taken)

TypeOK ==
    /\ rows \subseteq Id
    /\ parent \in [Id -> Id \cup {None}]
    /\ keyed \in [Key -> Id \cup {None}]
    /\ trail \subseteq Request \X Name
    /\ ask \in [Request -> [op : Op, on : Name, hotel : Hotel] \cup {NoAsk}]
    /\ at \in [Request -> {"idle", "run", "expand", "audit", "done"}]
    /\ held \in [Request -> 0..2] /\ InUse <= Conns
    /\ count \in [Request -> 0..Batch]
    /\ names \in [Request -> Seq(Name)]
    /\ answer \in [Request -> {"ok", "refused", "failed", None}]
    /\ did \in [Request -> SUBSET Id]

Init ==
    /\ rows = {Seed} /\ parent = [i \in Id |-> None]
    /\ keyed = [k \in Key |-> None]
    /\ trail = {}
    /\ ask = [r \in Request |-> NoAsk]
    /\ at = [r \in Request |-> "idle"]
    /\ held = [r \in Request |-> 0] /\ count = [r \in Request |-> 0]
    /\ names = [r \in Request |-> <<>>]
    /\ answer = [r \in Request |-> None]
    /\ did = [r \in Request |-> {}]

Does(r, op) == ask[r].op = op
Mutates(r) == ask[r].op \notin Reading
Items(i) == {j \in rows : parent[j] = i}

-----------------------------------------------------------------------------
(* The request and its answer.                                             *)

\* What can be named by a caller: rows it has seen, and users and gateways.  Its hotel
\* matters to deletes only.
Ask ==
    [op : Reading \cup {"insert"}, on : {None}, hotel : {"demo"}]
        \cup [op : ByParent, on : {i \in rows : parent[i] = None}, hotel : {"demo"}]
        \cup [op : ById, on : rows, hotel : {"demo"}]
        \cup [op : {"delete"}, on : rows, hotel : Hotel]
        \cup [op : ByKey, on : Key, hotel : {"demo"}]

Goto(r, to) == at' = [at EXCEPT ![r] = to]

Finish(r, a) ==
    /\ Goto(r, "done")
    /\ answer' = [answer EXCEPT ![r] = a]

\* Insert, Update, Delete, Select: the table is one they know, filters and values are
\* there.  An update that names no column it may change is done at once.
Begin(r) ==
    /\ at[r] = "idle"
    /\ \E a \in Ask :
        /\ a.op \in MayAsk[r]
        /\ ask' = [ask EXCEPT ![r] = a]
        /\ IF a.op = "noop"
           THEN /\ Goto(r, "audit")
                /\ names' = [names EXCEPT ![r] = <<a.on>>]
           ELSE Goto(r, "run") /\ UNCHANGED names
    /\ UNCHANGED <<tables, trail, held, count, answer, did>>

Refuse(r) ==
    /\ at[r] = "idle"
    /\ Finish(r, "refused")
    /\ UNCHANGED <<tables, trail, ask, held, count, names, did>>

-----------------------------------------------------------------------------
(* The pool.                                                               *)

Needs(r) == CASE at[r] \in {"run", "audit"} -> 1
              [] at[r] = "expand" -> IF count[r] > 0 THEN 2 ELSE 1
              [] OTHER -> 0

\* Mutant: one connection more.
AcquireExtra(r) ==
    /\ held[r] < Needs(r) /\ InUse <= Conns
    /\ held' = [held EXCEPT ![r] = @ + 1]
    /\ UNCHANGED <<tables, trail, ask, at, count, names, answer, did>>

Acquire(r) ==
    /\ held[r] < Needs(r) /\ InUse < Conns
    /\ held' = [held EXCEPT ![r] = @ + 1]
    /\ UNCHANGED <<tables, trail, ask, at, count, names, answer, did>>

Release(r) == held' = [held EXCEPT ![r] = 0]

\* The statement of a request can be executed.
Connected(r) == at[r] = "run" /\ held[r] = 1

-----------------------------------------------------------------------------
(* Reads.                                                                  *)

Read(r) ==
    /\ Connected(r) /\ Does(r, "read")
    /\ Finish(r, "ok") /\ Release(r)
    /\ UNCHANGED <<tables, trail, ask, count, names, did>>

\* selectOrders, selectMenuItems: the rows stay open
OpenRows(r) ==
    /\ Connected(r) /\ Does(r, "expand")
    /\ Goto(r, "expand")
    /\ \E n \in 0..Batch : count' = [count EXCEPT ![r] = n]
    /\ UNCHANGED <<tables, trail, ask, held, names, answer, did>>

\* while orderItemsFor, menuCustomizationsFor query the items of each,
NextRow(r) ==
    /\ at[r] = "expand" /\ held[r] = 2
    /\ held' = [held EXCEPT ![r] = 1]
    /\ count' = [count EXCEPT ![r] = @ - 1]
    /\ UNCHANGED <<tables, trail, ask, at, names, answer, did>>

CloseRows(r) ==
    /\ at[r] = "expand" /\ count[r] = 0
    /\ Finish(r, "ok") /\ Release(r)
    /\ UNCHANGED <<tables, trail, ask, count, names, did>>

\* or until that fails.
ExpandFails(r) ==
    /\ at[r] = "expand" /\ held[r] = 2
    /\ Finish(r, "failed") /\ Release(r)
    /\ UNCHANGED <<tables, trail, ask, count, names, did>>

-----------------------------------------------------------------------------
(* Writes.  Each ends with the record ids to audit: those in the response, *)
(* or else the one in the filters of the request, or else none.            *)

Done(r, ids, changed) ==
    /\ Goto(r, "audit")
    /\ names' = [names EXCEPT ![r] = ids]
    /\ did' = [did EXCEPT ![r] = @ \cup changed]
    /\ Release(r)
    /\ UNCHANGED <<trail, ask, answer>>

\* The single inserts; what they refer to may be gone, which fails them.
Insert(r) ==
    /\ Connected(r) /\ Does(r, "insert")
    /\ rows' = rows \cup {Fresh(r, 1)}
    /\ Done(r, <<Fresh(r, 1)>>, {Fresh(r, 1)})
    /\ UNCHANGED <<parent, keyed, count>>

\* insertOrderItems, insertMenuCustomizations: one statement for each item, without a
\* transaction around them.
InsertItem(r) ==
    LET i == Fresh(r, count[r] + 1) IN
    /\ Connected(r) /\ Does(r, "items") /\ ask[r].on \in rows
    /\ rows' = rows \cup {i}
    /\ parent' = [parent EXCEPT ![i] = ask[r].on]
    /\ count' = [count EXCEPT ![r] = @ + 1]
    /\ IF count[r] + 1 = Batch
       THEN Done(r, [n \in 1..Batch |-> Fresh(r, n)], {i})
       ELSE /\ did' = [did EXCEPT ![r] = @ \cup {i}]
            /\ Release(r)
            /\ UNCHANGED <<trail, ask, at, names, answer>>
    /\ UNCHANGED keyed

Row(r) == IF keyed[ask[r].on] = None THEN Fresh(r, 1) ELSE keyed[ask[r].on]

\* Mutant: the id is the one that was generated, not that of the row.
UpsertFresh(r) ==
    /\ Connected(r) /\ ask[r].op \in {"upsert", "role"}
    /\ keyed' = [keyed EXCEPT ![ask[r].on] = Row(r)]
    /\ Done(r, <<Fresh(r, 1)>>, {Row(r)})
    /\ UNCHANGED <<rows, parent, count>>

\* insertProfile, insertGuestPreferences, insertUserRole: an insert becomes an update if
\* there is a row already; the statement returns its id.
Upsert(r) ==
    /\ Connected(r) /\ ask[r].op \in {"upsert", "role"}
    /\ keyed' = [keyed EXCEPT ![ask[r].on] = Row(r)]
    /\ Done(r, <<Row(r)>>, {Row(r)})
    /\ UNCHANGED <<rows, parent, count>>

\* insertPaymentSetting answers with the id it generated, whichever row it was.
UpsertSetting(r) ==
    /\ Connected(r) /\ Does(r, "setting")
    /\ keyed' = [keyed EXCEPT ![ask[r].on] = Row(r)]
    /\ Done(r, <<Fresh(r, 1)>>, {Row(r)})
    /\ UNCHANGED <<rows, parent, count>>

\* updateAllowed: the row may be gone, which is no error.
Update(r) ==
    /\ Connected(r) /\ Does(r, "update")
    /\ Done(r, <<ask[r].on>>, {ask[r].on} \cap rows)
    /\ UNCHANGED <<tables, count>>

\* updateProfile, updateGuestPreferences by user: the audit gets the user's id.
UpdateUser(r) ==
    /\ Connected(r) /\ Does(r, "updateUser")
    /\ Done(r, <<ask[r].on>>, {keyed[ask[r].on]} \ {None})
    /\ UNCHANGED <<tables, count>>

\* Delete by id takes the items along.  Rows are inserted for the demo hotel, and only
\* items are deleted by callers of another one.
Delete(r) ==
    LET i == ask[r].on
        gone == IF ask[r].hotel = "demo" \/ parent[i] # None THEN ({i} \cap rows) \cup Items(i) ELSE {}
    IN
    /\ Connected(r) /\ Does(r, "delete")
    /\ rows' = rows \ gone
    /\ Done(r, <<i>>, gone)
    /\ UNCHANGED <<parent, keyed, count>>

\* deleteByIDOrColumn with a parent: nothing names the rows.
Clear(r) ==
    /\ Connected(r) /\ Does(r, "clear")
    /\ rows' = rows \ Items(ask[r].on)
    /\ Done(r, <<None>>, Items(ask[r].on))
    /\ UNCHANGED <<parent, keyed, count>>

\* Delete from user_roles by user and role: the audit gets the user's id.
DeleteRole(r) ==
    /\ Connected(r) /\ Does(r, "deleteRole")
    /\ keyed' = [keyed EXCEPT ![ask[r].on] = None]
    /\ Done(r, <<ask[r].on>>, {keyed[ask[r].on]} \ {None})
    /\ UNCHANGED <<rows, parent, count>>

\* Mutant: it is tried again, as often as it fails.
FailsAgain(r) ==
    /\ Connected(r)
    /\ Release(r)
    /\ UNCHANGED <<tables, trail, ask, at, count, names, answer, did>>

\* A statement fails; items inserted before it stay.
Fails(r) ==
    /\ Connected(r)
    /\ Finish(r, "refused") /\ Release(r)
    /\ UNCHANGED <<tables, trail, ask, count, names, did>>

\* insertUserRole takes an error that comes with the result for an empty result.
RoleFails(r) ==
    /\ Connected(r) /\ Does(r, "role")
    /\ Done(r, <<None>>, {})
    /\ UNCHANGED <<tables, count>>

-----------------------------------------------------------------------------
(* withCompatAudit.                                                        *)

\* Mutant: only the first record id is audited.
AuditFirst(r) ==
    /\ at[r] = "audit" /\ held[r] = 1
    /\ trail' = trail \cup {<<r, Head(names[r])>>}
    /\ names' = [names EXCEPT ![r] = <<>>]
    /\ Finish(r, "ok") /\ Release(r)
    /\ UNCHANGED <<tables, ask, count, did>>

Audit(r) ==
    /\ at[r] = "audit" /\ held[r] = 1
    /\ trail' = trail \cup {<<r, Head(names[r])>>}
    /\ names' = [names EXCEPT ![r] = Tail(@)]
    /\ IF Len(names[r]) = 1 THEN Finish(r, "ok") ELSE UNCHANGED <<at, answer>>
    /\ Release(r)
    /\ UNCHANGED <<tables, ask, count, did>>

\* The change stays.
AuditFails(r) ==
    /\ at[r] = "audit" /\ held[r] = 1
    /\ Finish(r, "failed") /\ Release(r)
    /\ UNCHANGED <<tables, trail, ask, count, names, did>>

-----------------------------------------------------------------------------

Write(r) ==
    \/ Insert(r) \/ InsertItem(r) \/ Upsert(r) \/ UpsertSetting(r)
    \/ Update(r) \/ UpdateUser(r) \/ Delete(r) \/ Clear(r) \/ DeleteRole(r)

Serve(r) ==
    \/ Acquire(r) \/ Read(r) \/ OpenRows(r) \/ NextRow(r) \/ CloseRows(r) \/ ExpandFails(r)
    \/ Write(r) \/ Fails(r) \/ RoleFails(r) \/ Audit(r) \/ AuditFails(r)

\* Every connection is with a request that waits for another one.
Stuck ==
    /\ InUse = Conns
    /\ \A r \in Request : held[r] > 0 => held[r] < Needs(r)

Idle == (Stuck \/ \A r \in Request : at[r] = "done") /\ UNCHANGED vars

Next == (\E r \in Request : Begin(r) \/ Refuse(r) \/ Serve(r)) \/ Idle

Spec == Init /\ [][Next]_vars

\* Statements end, and the pool is served in turn.
FairSpec == Spec /\ \A r \in Request : WF_vars(Serve(r))

-----------------------------------------------------------------------------
(* Properties.                                                             *)

\* withCompatAudit: a write that answers with success has left a record.  If it inserted
\* rows, the records name every row it inserted or updated, all rows it was asked for.
SuccessIsOnRecord ==
    \A r \in Request : answer[r] = "ok" /\ Mutates(r) =>
        LET named == {n \in Name : <<r, n>> \in trail} IN
        /\ named # {}
        /\ ask[r].op \in {"insert", "upsert", "items"} => did[r] # {} /\ named = did[r]
        /\ Does(r, "items") => did[r] = {Fresh(r, n) : n \in 1..Batch}

\* A row that audit_logs name was changed by the request, with these exceptions: another
\* request had deleted it, the caller could not reach it, no column was to be changed, or a
\* payment setting was there under another id.
TrailIsTrue ==
    \A r \in Request, i \in Id : <<r, i>> \in trail =>
        \/ i \in did[r]
        \/ ask[r].op \in {"update", "delete"}
           /\ \E d \in Request \ {r} : ask[d].op \in {"delete", "clear"} /\ i \in did[d]
        \/ Does(r, "delete") /\ ask[r].hotel # "demo" /\ parent[i] = None
        \/ Does(r, "noop")
        \/ Does(r, "setting") /\ did[r] # {}

\* Every request that has begun is answered, or the pool gets stuck, as it may when as many
\* orders or menus are read at once as it has connections.
AnsweredUnlessStuck == \A r \in Request : (at[r] # "idle") ~> (at[r] = "done" \/ Stuck)

=============================================================================
