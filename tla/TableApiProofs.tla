--------------------------- MODULE TableApiProofs ---------------------------
(* Theorems about TableApi, for any requests, keys, batch and pool.         *)
EXTENDS TableApi, FiniteSetTheorems, SequenceTheorems, TLAPS

-----------------------------------------------------------------------------
(* The inductive invariant.                                                *)

\* The record ids that the audit of a request has, or has left to do.
Told(r) == {n \in Name : <<r, n>> \in trail} \cup {names[r][i] : i \in 1..Len(names[r])}

\* A request has no more connections than the statement it is at needs; what it asks for
\* and what it has done so far are told by its place.
Stage(r) ==
    /\ held[r] <= Needs(r)
    /\ at[r] = "idle" => ask[r] = NoAsk /\ count[r] = 0
    /\ ask[r] = NoAsk => at[r] \in {"idle", "done"} /\ answer[r] # "ok" /\ did[r] = {}
    /\ ask[r].op \in ByKey => ask[r].on \in Key
    /\ ask[r].op \in ByParent \cup ById => ask[r].on \in Id
    /\ at[r] # "done" => answer[r] = None
    /\ at[r] = "expand" => Does(r, "expand")
    /\ at[r] = "run" /\ Does(r, "items") => count[r] < Batch
    /\ at[r] \in {"idle", "run", "expand"} => names[r] = <<>> /\ Told(r) = {}
    /\ at[r] \in {"idle", "run", "expand"} /\ ~Does(r, "items") => did[r] = {}

\* The items of a request are inserted one after another.
InOrder(r) == Does(r, "items") => did[r] = {Fresh(r, n) : n \in 1..count[r]}

\* A write whose statement was executed is to audit what it did, and nothing else.
OnRecord(r) ==
    /\ at[r] = "audit" => Mutates(r) /\ names[r] # <<>>
    /\ Mutates(r) /\ (at[r] = "audit" \/ answer[r] = "ok") =>
           /\ ask[r].op \in {"insert", "upsert", "items"} => did[r] # {} /\ Told(r) = did[r]
           /\ Does(r, "items") => count[r] = Batch
    /\ Mutates(r) /\ answer[r] = "ok" => names[r] = <<>> /\ Told(r) # {}

\* The rows that were ever there, of the tables with parents among others.
Made == {Seed} \cup {i \in Request \X (1..Batch) : i \in did[i[1]]}

\* Another request has deleted the row.
DeletedBy(d, i) == ask[d].op \in {"delete", "clear"} /\ i \in did[d]

\* What a request names was there, and still is unless a request has deleted it.
Named(r) ==
    ask[r].on \in Id =>
        /\ ask[r].on \in Made
        /\ ask[r].on \in rows \/ \E d \in Request : DeletedBy(d, ask[r].on)

\* Why a request may audit a row, before it does.
Explains(r, i) ==
    \/ i \in did[r]
    \/ ask[r].op \in {"update", "delete"} /\ \E d \in Request \ {r} : DeletedBy(d, i)
    \/ Does(r, "delete") /\ ask[r].hotel # "demo" /\ parent[i] = None
    \/ Does(r, "noop")
    \/ Does(r, "setting") /\ did[r] # {}

Explained(r) ==
    /\ ask[r].op \in ById => Told(r) \subseteq {ask[r].on}
    /\ \A i \in Told(r) \cap Id : Explains(r, i)

Local == \A r \in Request : Stage(r) /\ InOrder(r) /\ OnRecord(r)
Shared == rows \subseteq Made /\ \A r \in Request : Named(r) /\ Explained(r)

IInv == TypeOK /\ Local /\ Shared

LEMMA InitInvariant == Init => IInv
<1> SUFFICES ASSUME Init PROVE IInv
  OBVIOUS
<1> USE TableApiAssumption DEF Init
<1>1. InUse = 0
  <2>1. Taken = {}
    BY DEF Taken
  <2> QED
    BY <2>1, FS_EmptySet DEF InUse
<1>2. TypeOK
  BY <1>1 DEF TypeOK, Name, Id, NoAsk
<1>3. Local
  <2> SUFFICES ASSUME NEW r \in Request PROVE Stage(r) /\ InOrder(r) /\ OnRecord(r)
    BY DEF Local
  <2>1. Told(r) = {}
    BY DEF Told
  <2>2. /\ ask[r] = NoAsk /\ ask[r].op = None /\ at[r] = "idle" /\ answer[r] = None
        /\ held[r] = 0 /\ count[r] = 0 /\ names[r] = <<>> /\ did[r] = {}
    BY DEF NoAsk
  <2>3. None \notin ByKey \cup ByParent \cup ById /\ None \notin {"expand", "items"} /\ None # "ok"
    BY DEF Op, Reading, ByParent
  <2>4. Needs(r) = 0
    BY DEF Needs
  <2>5. Stage(r)
    BY <2>1, <2>2, <2>3, <2>4 DEF Stage, Does
  <2>6. InOrder(r) /\ OnRecord(r)
    BY <2>2, <2>3 DEF InOrder, OnRecord, Does
  <2> QED
    BY <2>5, <2>6
<1>4. ASSUME NEW r \in Request PROVE Named(r) /\ Explained(r)
  <2>1. ask[r].on = None /\ None \notin Id
    BY DEF NoAsk
  <2>2. Told(r) = {}
    BY DEF Told
  <2> QED
    BY <2>1, <2>2 DEF Named, Explained
<1>5. Shared
  BY <1>4 DEF Shared, Made
<1> QED
  BY <1>2, <1>3, <1>5 DEF IInv

-----------------------------------------------------------------------------
(* The pool.                                                               *)

LEMMA TakenFinite == IsFiniteSet(Taken)
<1>0. 1 \in Int /\ 2 \in Int
  OBVIOUS
<1>1. IsFiniteSet(1..2)
  BY <1>0, FS_Interval
<1>2. IsFiniteSet(Request \X (1..2))
  BY <1>1, TableApiAssumption, FS_Product
<1>3. Taken \in SUBSET (Request \X (1..2))
  BY DEF Taken
<1> QED
  BY <1>2, <1>3, FS_Subset

\* A step that acquires no connection keeps the pool within its bound,
LEMMA ReleaseKeepsBound ==
  ASSUME TypeOK, \A r \in Request : held'[r] \in 0..2 /\ held'[r] <= held[r]
  PROVE  InUse' <= Conns
<1>1. Taken' \in SUBSET Taken
  <2>1. \A c \in Request \X (1..2) : c[1] \in Request /\ c[2] \in 1..2
    OBVIOUS
  <2>2. held \in [Request -> 0..2]
    BY DEF TypeOK
  <2>3. \A r \in Request, i \in 1..2 : i <= held'[r] => i <= held[r]
    BY <2>2
  <2> QED
    BY <2>1, <2>3 DEF Taken
<1>2. IsFiniteSet(Taken') /\ Cardinality(Taken') <= Cardinality(Taken)
  BY <1>1, TakenFinite, FS_Subset
<1>3. Cardinality(Taken) \in Nat /\ Cardinality(Taken') \in Nat
  BY <1>2, TakenFinite, FS_CardinalityType
<1> QED
  BY <1>2, <1>3, TableApiAssumption DEF InUse, TypeOK

\* and one that acquires one does so as long as there is one.
LEMMA AcquireKeepsBound ==
  ASSUME TypeOK, NEW r \in Request, Acquire(r)
  PROVE  InUse' <= Conns
<1> DEFINE more == Taken \cup {<<r, held[r] + 1>>}
<1>1. Taken' \in SUBSET more
  <2>1. \A c \in Request \X (1..2) : c[1] \in Request /\ c[2] \in 1..2 /\ c = <<c[1], c[2]>>
    OBVIOUS
  <2>2. held \in [Request -> 0..2] /\ held' = [held EXCEPT ![r] = @ + 1]
    BY DEF TypeOK, Acquire
  <2>3. \A d \in Request, i \in 1..2 : i <= held'[d] => i <= held[d] \/ (d = r /\ i = held[r] + 1)
    BY <2>2
  <2> QED
    BY <2>1, <2>3 DEF Taken
<1>2. IsFiniteSet(more) /\ Cardinality(Taken) \in Nat
      /\ (Cardinality(more) = Cardinality(Taken) + 1 \/ Cardinality(more) = Cardinality(Taken))
  BY TakenFinite, FS_AddElement, FS_CardinalityType
<1> HIDE DEF more
<1>3. IsFiniteSet(Taken') /\ Cardinality(Taken') <= Cardinality(more)
  BY <1>1, <1>2, FS_Subset
<1>4. Cardinality(Taken') \in Nat
  BY <1>3, FS_CardinalityType
<1>5. Cardinality(Taken) < Conns
  BY DEF Acquire, InUse
<1> QED
  BY <1>2, <1>3, <1>4, <1>5, TableApiAssumption DEF InUse

-----------------------------------------------------------------------------
(* What a step leaves alone.                                               *)

\* The step is one of r.
Mine(r) ==
    \A d \in Request \ {r} :
        /\ ask'[d] = ask[d] /\ at'[d] = at[d] /\ held'[d] = held[d] /\ count'[d] = count[d]
        /\ names'[d] = names[d] /\ answer'[d] = answer[d] /\ did'[d] = did[d]
        /\ \A n \in Name : <<d, n>> \in trail' <=> <<d, n>> \in trail

\* It changes nothing but the place, the connections and the counter of r.
Quiet(r) ==
    Acquire(r) \/ Read(r) \/ OpenRows(r) \/ NextRow(r) \/ CloseRows(r) \/ ExpandFails(r)
        \/ Fails(r) \/ AuditFails(r) \/ Refuse(r)

LEMMA QuietStep ==
  ASSUME TypeOK, NEW r \in Request, Quiet(r)
  PROVE  Mine(r) /\ UNCHANGED <<tables, trail, ask, names, did>>
BY DEF Quiet, Acquire, Read, OpenRows, NextRow, CloseRows, ExpandFails, Fails, AuditFails, Refuse,
       Finish, Release, Goto, Mine, TypeOK, tables

LEMMA BeginStep ==
  ASSUME TypeOK, NEW r \in Request, Begin(r)
  PROVE  Mine(r) /\ UNCHANGED <<tables, trail, held, count, answer, did>>
BY DEF Begin, Goto, Mine, TypeOK, tables

LEMMA WriteStep ==
  ASSUME TypeOK, NEW r \in Request, Write(r) \/ RoleFails(r)
  PROVE  /\ Mine(r) /\ UNCHANGED <<trail, ask, answer>>
         /\ Connected(r) /\ held' = [held EXCEPT ![r] = 0]
         /\ did[r] \subseteq did'[r]
BY DEF Write, Insert, InsertItem, Upsert, UpsertSetting, Update, UpdateUser, Delete, Clear, DeleteRole,
       RoleFails, Done, Release, Goto, Mine, TypeOK

LEMMA AuditStep ==
  ASSUME TypeOK, NEW r \in Request, Audit(r)
  PROVE  Mine(r) /\ UNCHANGED <<tables, ask, count, did>>
BY DEF Audit, Finish, Release, Goto, Mine, TypeOK, tables

\* What holds of the other requests goes on to hold,
LEMMA OthersStay ==
  ASSUME TypeOK, Local, NEW r \in Request, Mine(r), NEW d \in Request \ {r}
  PROVE  Stage(d)' /\ InOrder(d)' /\ OnRecord(d)' /\ Told(d)' = Told(d)
<1>1. Stage(d) /\ InOrder(d) /\ OnRecord(d)
  BY DEF Local
<1>2. /\ ask'[d] = ask[d] /\ at'[d] = at[d] /\ held'[d] = held[d] /\ count'[d] = count[d]
      /\ names'[d] = names[d] /\ answer'[d] = answer[d] /\ did'[d] = did[d]
  BY DEF Mine
<1>3. Told(d)' = Told(d)
  BY <1>2 DEF Told, Mine
<1>4. Stage(d)'
  BY <1>1, <1>2, <1>3 DEF Stage, Needs, Does
<1>5. InOrder(d)'
  BY <1>1, <1>2 DEF InOrder, Does
<1>6. OnRecord(d)'
  BY <1>1, <1>2, <1>3 DEF OnRecord, Does, Mutates
<1> QED
  BY <1>3, <1>4, <1>5, <1>6

\* and so does what relates them to the rows, as long as only deletes remove rows, and what
\* was there keeps its parent.
Steady(r) ==
    /\ Mine(r)
    /\ did[r] \subseteq did'[r] /\ (did[r] # {} => ask'[r] = ask[r])
    /\ \A i \in Made : parent'[i] = parent[i]
    /\ \A i \in rows : i \in rows' \/ DeletedBy(r, i)'

LEMMA SteadyGrows ==
  ASSUME TypeOK, NEW r \in Request, Steady(r)
  PROVE  /\ Made \subseteq Made'
         /\ \A d \in Request, i \in Id : DeletedBy(d, i) => DeletedBy(d, i)'
<1>1. \A d \in Request : did[d] \subseteq did'[d]
  BY DEF Steady, Mine
<1>2. \A i \in Request \X (1..Batch) : i[1] \in Request
  OBVIOUS
<1>3. Made \subseteq Made'
  BY <1>1, <1>2 DEF Made
<1>4. \A d \in Request : did[d] # {} => ask'[d] = ask[d]
  BY DEF Steady, Mine
<1> QED
  BY <1>1, <1>3, <1>4 DEF DeletedBy

LEMMA NamedStays ==
  ASSUME IInv, NEW r \in Request, Steady(r), NEW d \in Request, ask'[d] = ask[d]
  PROVE  Named(d)'
<1>1. Named(d) /\ TypeOK
  BY DEF IInv, Shared
<1>2. Made \subseteq Made' /\ \A e \in Request, i \in Id : DeletedBy(e, i) => DeletedBy(e, i)'
  BY <1>1, SteadyGrows
<1> QED
  BY <1>1, <1>2 DEF Named, Steady

LEMMA ExplainedStays ==
  ASSUME IInv, NEW r \in Request, Steady(r),
         NEW d \in Request, ask'[d] = ask[d], Told(d)' \subseteq Told(d)
  PROVE  Explained(d)'
<1>1. Named(d) /\ Explained(d) /\ Stage(d)
  BY DEF IInv, Shared, Local
<1>2. Made \subseteq Made' /\ \A e \in Request, i \in Id : DeletedBy(e, i) => DeletedBy(e, i)'
  BY SteadyGrows DEF IInv
<1>3. ASSUME NEW i \in Told(d) \cap Id PROVE Explains(d, i)'
  <2>1. did[d] \subseteq did'[d]
    BY DEF Steady, Mine
  <2>2. Does(d, "delete") => i \in Made
    BY <1>1, <1>3 DEF Explained, Stage, Named, Does, ById
  <2>3. Does(d, "delete") => parent'[i] = parent[i]
    BY <2>2 DEF Steady
  <2>4. Explains(d, i)
    BY <1>1, <1>3 DEF Explained
  <2> QED
    BY <1>2, <2>1, <2>3, <2>4 DEF Explains, Does
<1> QED
  BY <1>1, <1>3 DEF Explained

-----------------------------------------------------------------------------
(* Every step keeps the invariant.                                         *)

LEMMA QuietType == ASSUME IInv, NEW r \in Request, Quiet(r) PROVE TypeOK'
<1> USE DEF IInv, Finish, Release, Goto, tables
<1>1. /\ at' \in [Request -> {"idle", "run", "expand", "audit", "done"}]
      /\ held' \in [Request -> 0..2]
      /\ count' \in [Request -> 0..Batch]
      /\ answer' \in [Request -> {"ok", "refused", "failed", None}]
  <2>1. /\ held[r] \in 0..2 /\ count[r] \in 0..Batch /\ held[r] <= Needs(r)
        /\ held \in [Request -> 0..2] /\ count \in [Request -> 0..Batch]
    BY DEF TypeOK, Local, Stage
  <2>2. CASE Acquire(r)
    BY <2>1, <2>2 DEF Acquire, Needs, TypeOK
  <2>3. CASE NextRow(r)
    BY <2>1, <2>3, TableApiAssumption DEF NextRow, Needs, TypeOK
  <2>4. CASE OpenRows(r)
    BY <2>1, <2>4 DEF OpenRows, TypeOK
  <2>5. CASE Read(r) \/ CloseRows(r) \/ ExpandFails(r) \/ Fails(r) \/ AuditFails(r) \/ Refuse(r)
    <3>1. PICK a \in {"ok", "refused", "failed"} :
            /\ at' = [at EXCEPT ![r] = "done"] /\ answer' = [answer EXCEPT ![r] = a]
            /\ held' \in {held, [held EXCEPT ![r] = 0]} /\ count' = count
      BY <2>5 DEF Read, CloseRows, ExpandFails, Fails, AuditFails, Refuse
    <3>2. /\ at \in [Request -> {"idle", "run", "expand", "audit", "done"}]
          /\ answer \in [Request -> {"ok", "refused", "failed", None}]
      BY DEF TypeOK
    <3>3. at' \in [Request -> {"idle", "run", "expand", "audit", "done"}]
      BY <3>1, <3>2
    <3>4. answer' \in [Request -> {"ok", "refused", "failed", None}]
      BY <3>1, <3>2
    <3> QED
      BY <2>1, <3>1, <3>3, <3>4
  <2> QED
    BY <2>2, <2>3, <2>4, <2>5 DEF Quiet
<1>2. InUse' <= Conns
  <2>1. CASE Acquire(r)
    BY <2>1, AcquireKeepsBound
  <2>2. CASE ~Acquire(r)
    <3>1. held' \in {held, [held EXCEPT ![r] = 0]} \/ (held[r] = 2 /\ held' = [held EXCEPT ![r] = 1])
      BY <2>2 DEF Quiet, Read, OpenRows, NextRow, CloseRows, ExpandFails, Fails, AuditFails, Refuse
    <3>2. held \in [Request -> 0..2]
      BY DEF TypeOK
    <3>3. \A d \in Request : held'[d] \in 0..2 /\ held'[d] <= held[d]
      BY <3>1, <3>2
    <3> QED
      BY <3>3, ReleaseKeepsBound
  <2> QED
    BY <2>1, <2>2
<1> QED
  BY <1>1, <1>2, QuietStep DEF TypeOK

LEMMA QuietLocal ==
  ASSUME IInv, NEW r \in Request, Quiet(r)
  PROVE  Stage(r)' /\ InOrder(r)' /\ OnRecord(r)' /\ Told(r)' = Told(r)
<1>1. Stage(r) /\ InOrder(r) /\ OnRecord(r) /\ TypeOK
  BY DEF IInv, Local
<1>2. UNCHANGED <<trail, ask, names, did>>
  BY <1>1, QuietStep
<1>3. Told(r)' = Told(r)
  BY <1>2 DEF Told
<1>4. Stage(r)'
  <2> USE <1>1, <1>2, <1>3 DEF Finish, Release, Goto, Does, Stage, Needs, Connected
  <2>1. CASE Acquire(r)
    <3>1. held[r] \in Int /\ Needs(r) \in Int /\ held'[r] = held[r] + 1 /\ held[r] < Needs(r)
      BY <2>1 DEF Acquire, TypeOK
    <3>2. held'[r] <= Needs(r) /\ Needs(r)' = Needs(r)
      BY <2>1, <3>1 DEF Acquire
    <3> QED
      BY <2>1, <3>2 DEF Acquire
  <2>2. CASE NextRow(r)
    BY <2>2 DEF NextRow, TypeOK
  <2>3. CASE OpenRows(r)
    BY <2>3 DEF OpenRows, TypeOK
  <2>4. CASE Read(r)
    BY <2>4 DEF Read, TypeOK
  <2>5. CASE CloseRows(r)
    BY <2>5 DEF CloseRows, TypeOK
  <2>6. CASE ExpandFails(r) \/ Fails(r) \/ AuditFails(r)
    BY <2>6 DEF ExpandFails, Fails, AuditFails, TypeOK
  <2>7. CASE Refuse(r)
    BY <2>7 DEF Refuse, TypeOK
  <2> QED
    BY <2>1, <2>2, <2>3, <2>4, <2>5, <2>6, <2>7 DEF Quiet
<1>5. InOrder(r)'
  <2>1. Does(r, "items") => count'[r] = count[r]
    BY <1>1 DEF Quiet, Acquire, Read, OpenRows, NextRow, CloseRows, ExpandFails, Fails, AuditFails, Refuse,
                Does, Stage
  <2> QED
    BY <1>1, <1>2, <2>1 DEF InOrder, Does
<1>6. OnRecord(r)'
  <2>1. Mutates(r) => at'[r] # "audit" \/ at[r] = "audit"
    BY <1>1 DEF Quiet, Acquire, Read, OpenRows, NextRow, CloseRows, ExpandFails, Fails, AuditFails, Refuse,
                Finish, Goto, TypeOK, Stage
  <2>2. Mutates(r) => answer'[r] # "ok" \/ answer[r] = "ok"
    BY <1>1 DEF Quiet, Acquire, Read, OpenRows, NextRow, CloseRows, ExpandFails, Fails, AuditFails, Refuse,
                Finish, Goto, TypeOK, Stage, Mutates, Does, Reading
  <2>3. Does(r, "items") => count'[r] = count[r]
    BY <1>1 DEF Quiet, Acquire, Read, OpenRows, NextRow, CloseRows, ExpandFails, Fails, AuditFails, Refuse,
                Does, Stage
  <2>4. at'[r] = "audit" => at[r] = "audit"
    BY <1>1 DEF Quiet, Acquire, Read, OpenRows, NextRow, CloseRows, ExpandFails, Fails, AuditFails, Refuse,
                Finish, Goto, TypeOK
  <2> QED
    BY <1>1, <1>2, <1>3, <2>1, <2>2, <2>3, <2>4 DEF OnRecord, Mutates, Does
<1> QED
  BY <1>3, <1>4, <1>5, <1>6

\* What requests ask for: a row that is there, a user or gateway, or nothing.
LEMMA Asked ==
  ASSUME TypeOK, NEW a \in Ask
  PROVE  /\ a \in [op : Op, on : Name, hotel : Hotel] /\ a # NoAsk /\ a.op # None
         /\ a.op \in ByKey => a.on \in Key
         /\ a.op \in ByParent \cup ById => a.on \in rows
         /\ a.on \in Id => a.on \in rows
<1>1. rows \subseteq Id /\ None \notin Id /\ Key \cap Id = {} /\ None \notin Op
  BY TableApiAssumption DEF TypeOK
<1>2. a.op \in Op /\ a.hotel \in Hotel /\ a = [op |-> a.op, on |-> a.on, hotel |-> a.hotel]
  BY DEF Ask, Op, Hotel, Reading, ById, ByParent, ByKey
<1>3. a.on \in Name
  BY <1>1 DEF Ask, Name
<1>4. a.on \in Id => a.on \in rows
  BY <1>1 DEF Ask
<1>5. a.op \in ByKey => a.on \in Key
  BY DEF Ask, Reading, ById, ByParent, ByKey
<1>6. a.op \in ByParent \cup ById => a.on \in rows
  BY DEF Ask, Reading, ById, ByParent, ByKey
<1>7. a # NoAsk
  BY <1>1, <1>2 DEF NoAsk
<1> QED
  BY <1>1, <1>2, <1>3, <1>4, <1>5, <1>6, <1>7

\* The record ids that are told of a request whose names are changed.
LEMMA OneTold ==
  ASSUME NEW r \in Request, Told(r) = {}, trail' = trail, TypeOK,
         NEW n \in Name, names' = [names EXCEPT ![r] = <<n>>]
  PROVE  Told(r)' = {n} /\ names'[r] = <<n>> /\ names' \in [Request -> Seq(Name)]
<1>1. names'[r] = <<n>> /\ Len(<<n>>) = 1 /\ names' \in [Request -> Seq(Name)]
  BY DEF TypeOK
<1>2. {m \in Name : <<r, m>> \in trail} = {}
  BY DEF Told
<1>3. {names'[r][i] : i \in 1..Len(names'[r])} = {n}
  BY <1>1
<1> QED
  BY <1>1, <1>2, <1>3 DEF Told

LEMMA BeginPreserves ==
  ASSUME IInv, NEW r \in Request, Begin(r)
  PROVE  /\ TypeOK' /\ Steady(r)
         /\ Stage(r)' /\ InOrder(r)' /\ OnRecord(r)' /\ Named(r)' /\ Explained(r)'
<1>1. TypeOK /\ Stage(r) /\ InOrder(r) /\ OnRecord(r) /\ rows \subseteq Made
  BY DEF IInv, Local, Shared
<1>2. Mine(r) /\ UNCHANGED <<tables, trail, held, count, answer, did>>
  BY <1>1, BeginStep
<1>3. PICK a \in Ask :
        /\ at[r] = "idle" /\ ask' = [ask EXCEPT ![r] = a]
        /\ \/ a.op = "noop" /\ at' = [at EXCEPT ![r] = "audit"] /\ names' = [names EXCEPT ![r] = <<a.on>>]
           \/ a.op # "noop" /\ at' = [at EXCEPT ![r] = "run"] /\ names' = names
  BY DEF Begin, Goto
<1>4. /\ a \in [op : Op, on : Name, hotel : Hotel] /\ a # NoAsk /\ a.op # None
      /\ a.op \in ByKey => a.on \in Key
      /\ a.op \in ByParent \cup ById => a.on \in rows
      /\ a.on \in Id => a.on \in rows
  BY <1>1, Asked
<1>5. /\ ask'[r] = a /\ did[r] = {} /\ count[r] = 0 /\ names[r] = <<>> /\ Told(r) = {}
      /\ answer[r] = None /\ held[r] = 0
  <2>1. held[r] \in 0..2 /\ held[r] <= Needs(r) /\ Needs(r) = 0
    BY <1>1, <1>3 DEF TypeOK, Stage, Needs
  <2>2. did[r] = {}
    BY <1>1, <1>3 DEF Stage
  <2> QED
    BY <1>1, <1>3, <2>1, <2>2 DEF Stage, TypeOK
<1>6. TypeOK'
  <2>1. ask' \in [Request -> [op : Op, on : Name, hotel : Hotel] \cup {NoAsk}]
    BY <1>1, <1>3, <1>4 DEF TypeOK
  <2>2. at' \in [Request -> {"idle", "run", "expand", "audit", "done"}]
    BY <1>1, <1>3 DEF TypeOK
  <2>3. names' \in [Request -> Seq(Name)]
    BY <1>1, <1>2, <1>3, <1>4, <1>5, OneTold DEF TypeOK
  <2>4. InUse' = InUse
    BY <1>2 DEF InUse, Taken
  <2> QED
    BY <1>1, <1>2, <2>1, <2>2, <2>3, <2>4 DEF TypeOK, tables
<1>7. Steady(r)
  BY <1>2, <1>5 DEF Steady, tables
<1>8. CASE a.op = "noop"
  <2>1. Told(r)' = {a.on} /\ names'[r] = <<a.on>> /\ at'[r] = "audit"
    BY <1>1, <1>2, <1>3, <1>4, <1>5, <1>8, OneTold DEF TypeOK
  <2>2. Stage(r)'
    BY <1>1, <1>2, <1>4, <1>5, <1>8, <2>1 DEF Stage, Needs, Does, TypeOK, ById, ByParent, ByKey
  <2>3. InOrder(r)' /\ OnRecord(r)'
    BY <1>2, <1>5, <1>8, <2>1, TableApiAssumption DEF InOrder, OnRecord, Mutates, Does, Reading
  <2>4. Explained(r)'
    BY <1>5, <1>8, <2>1 DEF Explained, Explains, Does
  <2> QED
    BY <1>1, <1>2, <1>4, <1>5, <1>6, <1>7, <2>2, <2>3, <2>4, SteadyGrows DEF Named, tables
<1>9. CASE a.op # "noop"
  <2>1. Told(r)' = {} /\ names'[r] = <<>> /\ at'[r] = "run"
    BY <1>1, <1>2, <1>3, <1>5, <1>9 DEF TypeOK, Told
  <2>2. Stage(r)'
    BY <1>1, <1>2, <1>4, <1>5, <2>1, TableApiAssumption DEF Stage, Needs, Does, TypeOK
  <2>3. InOrder(r)' /\ OnRecord(r)'
    BY <1>2, <1>5, <2>1, TableApiAssumption DEF InOrder, OnRecord, Mutates, Does, Reading
  <2>4. Explained(r)'
    BY <2>1 DEF Explained
  <2> QED
    BY <1>1, <1>2, <1>4, <1>5, <1>6, <1>7, <2>2, <2>3, <2>4, SteadyGrows DEF Named, tables
<1> QED
  BY <1>8, <1>9

\* An audit takes the first name left and writes it to the trail: what is told stays.
LEMMA AuditPreserves ==
  ASSUME IInv, NEW r \in Request, Audit(r)
  PROVE  /\ TypeOK' /\ Steady(r) /\ ask'[r] = ask[r]
         /\ Stage(r)' /\ InOrder(r)' /\ OnRecord(r)' /\ Told(r)' = Told(r)
<1>1. TypeOK /\ Stage(r) /\ InOrder(r) /\ OnRecord(r)
  BY DEF IInv, Local
<1>2. Mine(r) /\ UNCHANGED <<tables, ask, count, did>>
  BY <1>1, AuditStep
<1>3. /\ at[r] = "audit" /\ trail' = trail \cup {<<r, Head(names[r])>>}
      /\ names' = [names EXCEPT ![r] = Tail(names[r])] /\ held' = [held EXCEPT ![r] = 0]
      /\ \/ Len(names[r]) = 1 /\ at' = [at EXCEPT ![r] = "done"] /\ answer' = [answer EXCEPT ![r] = "ok"]
         \/ Len(names[r]) # 1 /\ UNCHANGED <<at, answer>>
  BY DEF Audit, Finish, Release, Goto
<1>4. names[r] \in Seq(Name) /\ names[r] # <<>> /\ Mutates(r) /\ answer[r] = None
  BY <1>1, <1>3 DEF TypeOK, OnRecord, Stage
<1>5. /\ Len(names[r]) \in Nat \ {0} /\ Head(names[r]) = names[r][1] /\ Head(names[r]) \in Name
      /\ Tail(names[r]) \in Seq(Name) /\ Len(Tail(names[r])) = Len(names[r]) - 1
      /\ \A i \in 1..(Len(names[r]) - 1) : Tail(names[r])[i] = names[r][i + 1]
  BY <1>4
<1>6. names'[r] = Tail(names[r]) /\ names' \in [Request -> Seq(Name)]
  BY <1>1, <1>3, <1>5 DEF TypeOK
<1>7. Told(r)' = Told(r) /\ Told(r) # {}
  <2> DEFINE left == {names[r][i] : i \in 1..Len(names[r])}
  <2>1. left = {Head(names[r])} \cup {names'[r][i] : i \in 1..Len(names'[r])}
    <3>1. \A i \in 1..Len(names[r]) : i = 1 \/ (i - 1 \in 1..Len(names'[r]) /\ names[r][i] = names'[r][i - 1])
      BY <1>5, <1>6
    <3>2. \A i \in 1..Len(names'[r]) : i + 1 \in 1..Len(names[r]) /\ names'[r][i] = names[r][i + 1]
      BY <1>5, <1>6
    <3>3. 1 \in 1..Len(names[r]) /\ names[r][1] = Head(names[r])
      BY <1>5
    <3>4. ASSUME NEW n \in left PROVE n = Head(names[r]) \/ \E i \in 1..Len(names'[r]) : n = names'[r][i]
      BY <3>1, <3>3
    <3>5. \A i \in 1..Len(names'[r]) : names'[r][i] \in left
      BY <3>2
    <3> QED
      BY <3>3, <3>4, <3>5
  <2>2. {n \in Name : <<r, n>> \in trail'} = {n \in Name : <<r, n>> \in trail} \cup {Head(names[r])}
    BY <1>3, <1>5
  <2> QED
    BY <2>1, <2>2 DEF Told
<1>8. TypeOK'
  <2>1. InUse' <= Conns
    <3>1. \A d \in Request : held'[d] \in 0..2 /\ held'[d] <= held[d]
      <4>1. held \in [Request -> 0..2]
        BY <1>1 DEF TypeOK
      <4> QED
        BY <1>3, <4>1
    <3> QED
      BY <1>1, <3>1, ReleaseKeepsBound
  <2>2. trail' \subseteq Request \X Name
    BY <1>1, <1>3, <1>5 DEF TypeOK
  <2>3. at' \in [Request -> {"idle", "run", "expand", "audit", "done"}]
    BY <1>1, <1>3 DEF TypeOK
  <2>4. answer' \in [Request -> {"ok", "refused", "failed", None}]
    BY <1>1, <1>3 DEF TypeOK
  <2>5. held' \in [Request -> 0..2]
    BY <1>1, <1>3 DEF TypeOK
  <2> QED
    BY <1>1, <1>2, <1>6, <2>1, <2>2, <2>3, <2>4, <2>5 DEF TypeOK, tables
<1>9. \/ at'[r] = "audit" /\ answer'[r] = None /\ names'[r] # <<>>
      \/ at'[r] = "done" /\ answer'[r] = "ok" /\ names'[r] = <<>>
  <2>1. names'[r] \in Seq(Name) /\ Len(names'[r]) = Len(names[r]) - 1
    BY <1>5, <1>6
  <2>2. \A s \in Seq(Name) : s = <<>> <=> Len(s) = 0
    BY EmptySeq
  <2>3. at \in [Request -> {"idle", "run", "expand", "audit", "done"}]
        /\ answer \in [Request -> {"ok", "refused", "failed", None}]
    BY <1>1 DEF TypeOK
  <2>4. names'[r] = <<>> <=> Len(names'[r]) = 0
    BY <2>1, <2>2
  <2>5. CASE Len(names[r]) = 1
    BY <1>3, <2>1, <2>3, <2>4, <2>5
  <2>6. CASE Len(names[r]) # 1
    <3>1. Len(names'[r]) # 0
      BY <1>5, <2>1, <2>6
    <3> QED
      BY <1>3, <1>4, <2>4, <2>6, <3>1
  <2> QED
    BY <2>5, <2>6
<1>10. Stage(r)'
  <2>1. held'[r] = 0
    BY <1>1, <1>3 DEF TypeOK
  <2>2. ask[r] # NoAsk
    BY <1>1, <1>3 DEF Stage
  <2>3. held'[r] <= Needs(r)'
    BY <1>9, <2>1 DEF Needs
  <2> QED
    BY <1>1, <1>2, <1>9, <2>2, <2>3 DEF Stage, Does
<1>11. InOrder(r)' /\ OnRecord(r)'
  BY <1>1, <1>2, <1>3, <1>4, <1>7, <1>9, TableApiAssumption DEF InOrder, OnRecord, Mutates, Does
<1>12. Steady(r)
  BY <1>2 DEF Steady, tables
<1> QED
  BY <1>2, <1>7, <1>8, <1>10, <1>11, <1>12

\* A statement that was executed: its rows, and the one name that is to be audited.
Executed(r, n, changed) ==
    /\ Connected(r)
    /\ at' = [at EXCEPT ![r] = "audit"] /\ held' = [held EXCEPT ![r] = 0]
    /\ names' = [names EXCEPT ![r] = <<n>>]
    /\ did' = [did EXCEPT ![r] = did[r] \cup changed]
    /\ UNCHANGED <<trail, ask, answer, count>>

\* What is typed, but for the tables.
TypeOfRequests ==
    /\ trail \subseteq Request \X Name
    /\ ask \in [Request -> [op : Op, on : Name, hotel : Hotel] \cup {NoAsk}]
    /\ at \in [Request -> {"idle", "run", "expand", "audit", "done"}]
    /\ held \in [Request -> 0..2] /\ InUse <= Conns
    /\ count \in [Request -> 0..Batch]
    /\ names \in [Request -> Seq(Name)]
    /\ answer \in [Request -> {"ok", "refused", "failed", None}]
    /\ did \in [Request -> SUBSET Id]

LEMMA ReleaseStep ==
  ASSUME TypeOK, NEW r \in Request, held' = [held EXCEPT ![r] = 0]
  PROVE  held' \in [Request -> 0..2] /\ InUse' <= Conns
<1>1. held \in [Request -> 0..2]
  BY DEF TypeOK
<1>2. \A d \in Request : held'[d] \in 0..2 /\ held'[d] <= held[d]
  BY <1>1
<1> QED
  BY <1>1, <1>2, ReleaseKeepsBound

LEMMA ExecutedKeeps ==
  ASSUME IInv, NEW r \in Request, NEW n \in Name, NEW changed \in SUBSET Id, Executed(r, n, changed),
         Mutates(r), ~Does(r, "items"), ask[r].op \in {"insert", "upsert"} => changed = {n}
  PROVE  /\ Mine(r) /\ TypeOfRequests'
         /\ Stage(r)' /\ InOrder(r)' /\ OnRecord(r)'
         /\ Told(r)' = {n} /\ did[r] = {} /\ did'[r] = changed
<1>1. TypeOK /\ Stage(r) /\ at[r] = "run"
  BY DEF IInv, Local, Executed, Connected
<1>2. did[r] = {} /\ Told(r) = {} /\ answer[r] = None /\ ask[r] # NoAsk
  BY <1>1 DEF Stage
<1>3. Told(r)' = {n} /\ names'[r] = <<n>> /\ names' \in [Request -> Seq(Name)]
  BY <1>1, <1>2, OneTold DEF Executed
<1>4. did'[r] = changed /\ at'[r] = "audit" /\ held'[r] = 0
  BY <1>1, <1>2 DEF Executed, TypeOK
<1>5. TypeOfRequests'
  <2>1. did' \in [Request -> SUBSET Id]
    BY <1>1 DEF Executed, TypeOK
  <2>2. at' \in [Request -> {"idle", "run", "expand", "audit", "done"}]
    BY <1>1 DEF Executed, TypeOK
  <2>3. held' \in [Request -> 0..2] /\ InUse' <= Conns
    BY <1>1, ReleaseStep DEF Executed
  <2> QED
    BY <1>1, <1>3, <2>1, <2>2, <2>3 DEF TypeOfRequests, Executed, TypeOK
<1>6. Mine(r)
  BY <1>1 DEF Executed, TypeOK, Mine
<1>7. Stage(r)'
  BY <1>1, <1>2, <1>4 DEF Executed, Stage, Needs, Does
<1>8. InOrder(r)' /\ OnRecord(r)'
  BY <1>2, <1>3, <1>4, TableApiAssumption DEF Executed, InOrder, OnRecord, Mutates, Does
<1> QED
  BY <1>2, <1>3, <1>4, <1>5, <1>6, <1>7, <1>8

\* The row that an upsert is of.
LEMMA RowType ==
  ASSUME TypeOK, NEW r \in Request
  PROVE  Fresh(r, 1) \in Id /\ (ask[r].on \in Key => Row(r) \in Id)
<1>1. Fresh(r, 1) \in Id
  BY TableApiAssumption DEF Fresh, Id
<1> QED
  BY <1>1 DEF Row, TypeOK

\* Every write but that of items keeps what holds of the request and of the tables.
Kept(r) ==
    /\ TypeOK' /\ Steady(r) /\ rows' \subseteq Made'
    /\ Stage(r)' /\ InOrder(r)' /\ OnRecord(r)' /\ Explained(r)'

LEMMA KeyedWrite ==
  ASSUME IInv, NEW r \in Request,
         Upsert(r) \/ UpsertSetting(r) \/ UpdateUser(r) \/ DeleteRole(r) \/ RoleFails(r)
  PROVE  Kept(r)
<1>1. TypeOK /\ ask[r].on \in Key /\ keyed[ask[r].on] \in Id \cup {None} /\ Row(r) \in Id /\ Fresh(r, 1) \in Id
  <2>1. ask[r].op \in ByKey
    BY DEF Upsert, UpsertSetting, UpdateUser, DeleteRole, RoleFails, Does, ByKey
  <2>2. ask[r].on \in Key
    BY <2>1 DEF IInv, Local, Stage
  <2> QED
    BY <2>2, RowType DEF IInv, TypeOK
<1>2. None \notin Id /\ Key \cap Id = {} /\ Id \cup Key \cup {None} = Name
  BY TableApiAssumption DEF Name
<1>3. PICK n \in Name, changed \in SUBSET Id :
        /\ Executed(r, n, changed)
        /\ ask[r].op \in ByKey
        /\ ask[r].op = "upsert" => changed = {n}
        /\ n \in Id => n \in changed \/ (Does(r, "setting") /\ changed # {})
  <2> DEFINE old == {keyed[ask[r].on]} \ {None}
  <2> USE <1>1, <1>2 DEF Does, ByKey
  <2>0. old \in SUBSET Id /\ ask[r].on \in Name /\ ask[r].on \notin Id
    OBVIOUS
  <2>1. CASE Upsert(r)
    <3>1. Executed(r, Row(r), {Row(r)}) /\ ask[r].op \in {"upsert", "role"}
      BY <2>1 DEF Upsert, Executed, Done, Goto, Release
    <3> QED
      BY <3>1
  <2>2. CASE UpsertSetting(r)
    <3>1. Executed(r, Fresh(r, 1), {Row(r)}) /\ ask[r].op = "setting"
      BY <2>2 DEF UpsertSetting, Executed, Done, Goto, Release
    <3> QED
      BY <3>1
  <2>3. CASE UpdateUser(r)
    <3>1. Executed(r, ask[r].on, old) /\ ask[r].op = "updateUser"
      BY <2>3 DEF UpdateUser, tables, Executed, Done, Goto, Release
    <3> QED
      BY <3>1, <2>0
  <2>4. CASE DeleteRole(r)
    <3>1. Executed(r, ask[r].on, old) /\ ask[r].op = "deleteRole"
      BY <2>4 DEF DeleteRole, Executed, Done, Goto, Release
    <3> QED
      BY <3>1, <2>0
  <2>5. CASE RoleFails(r)
    <3>1. Executed(r, None, {}) /\ ask[r].op = "role"
      BY <2>5 DEF RoleFails, Executed, Done, Goto, Release
    <3>2. None \in Name /\ {} \in SUBSET Id
      OBVIOUS
    <3> QED
      BY <3>1, <3>2
  <2> QED
    BY <2>1, <2>2, <2>3, <2>4, <2>5
<1>4. /\ Mine(r) /\ TypeOfRequests' /\ Stage(r)' /\ InOrder(r)' /\ OnRecord(r)'
      /\ Told(r)' = {n} /\ did[r] = {} /\ did'[r] = changed
  BY <1>3, ExecutedKeeps DEF Mutates, Does, Reading, ByKey
<1>5. UNCHANGED <<rows, parent>> /\ keyed' \in [Key -> Id \cup {None}]
  BY <1>1 DEF Upsert, UpsertSetting, UpdateUser, DeleteRole, RoleFails, TypeOK, tables
<1>6. TypeOK'
  BY <1>1, <1>4, <1>5 DEF TypeOK, TypeOfRequests
<1>7. Steady(r)
  BY <1>4, <1>5 DEF Steady
<1>8. rows' \subseteq Made'
  BY <1>1, <1>5, <1>7, SteadyGrows DEF IInv, Shared
<1>9. Explained(r)'
  BY <1>3, <1>4 DEF Explained, Explains, Executed, Does, ByKey, ById
<1> QED
  BY <1>4, <1>6, <1>7, <1>8, <1>9 DEF Kept

\* An update names the row of the request, which it changes unless a request has deleted it.
LEMMA UpdateKeeps == ASSUME IInv, NEW r \in Request, Update(r) PROVE Kept(r)
<1> DEFINE i == ask[r].on
           changed == {i} \cap rows
<1>1. Executed(r, i, changed) /\ ask[r].op = "update" /\ UNCHANGED tables
  BY DEF Update, Executed, Done, Goto, Release, Does, tables
<1>2. TypeOK /\ i \in Id /\ Named(r)
  BY <1>1 DEF IInv, Local, Shared, Stage, ById
<1>3. i \in Name /\ changed \in SUBSET Id
  BY <1>2 DEF Name
<1>4. /\ Mine(r) /\ TypeOfRequests' /\ Stage(r)' /\ InOrder(r)' /\ OnRecord(r)'
      /\ Told(r)' = {i} /\ did[r] = {} /\ did'[r] = changed
  BY <1>1, <1>3, ExecutedKeeps DEF Mutates, Does, Reading
<1>5. TypeOK' /\ Steady(r)
  BY <1>1, <1>2, <1>4 DEF TypeOK, TypeOfRequests, tables, Steady, Executed
<1>6. rows' \subseteq Made'
  BY <1>1, <1>2, <1>5, SteadyGrows DEF IInv, Shared, tables
<1>7. Explained(r)'
  <2>1. ask'[r] = ask[r] /\ did'[r] = changed
    BY <1>1, <1>4 DEF Executed
  <2>2. CASE i \in rows
    BY <1>4, <2>1, <2>2 DEF Explained, Explains
  <2>3. CASE i \notin rows
    <3>1. PICK d \in Request : DeletedBy(d, i)
      BY <1>2, <2>3 DEF Named
    <3>2. d # r
      BY <1>1, <3>1 DEF DeletedBy
    <3>3. DeletedBy(d, i)'
      BY <1>2, <1>5, <2>1, <3>1, SteadyGrows DEF DeletedBy
    <3>4. Explains(r, i)'
      BY <1>1, <2>1, <3>2, <3>3 DEF Explains
    <3> QED
      BY <1>4, <2>1, <3>4 DEF Explained
  <2> QED
    BY <2>2, <2>3
<1> QED
  BY <1>4, <1>5, <1>6, <1>7 DEF Kept

\* A delete removes the row and its items, if the caller reaches them.
LEMMA DeleteKeeps == ASSUME IInv, NEW r \in Request, Delete(r) PROVE Kept(r)
<1> DEFINE i == ask[r].on
           reached == ask[r].hotel = "demo" \/ parent[i] # None
           gone == IF reached THEN ({i} \cap rows) \cup Items(i) ELSE {}
<1>1. /\ Executed(r, i, gone) /\ ask[r].op = "delete"
      /\ rows' = rows \ gone /\ UNCHANGED <<parent, keyed>>
  BY DEF Delete, Executed, Done, Goto, Release, Does
<1>2. TypeOK /\ i \in Id /\ Named(r)
  BY <1>1 DEF IInv, Local, Shared, Stage, ById
<1>3. i \in Name /\ gone \in SUBSET Id
  BY <1>2 DEF Name, Items, TypeOK
<1>4. {i} \cap rows \subseteq gone \/ ~reached
  OBVIOUS
<1> HIDE DEF gone
<1>5. /\ Mine(r) /\ TypeOfRequests' /\ Stage(r)' /\ InOrder(r)' /\ OnRecord(r)'
      /\ Told(r)' = {i} /\ did[r] = {} /\ did'[r] = gone
  BY <1>1, <1>3, ExecutedKeeps DEF Mutates, Does, Reading
<1>6. ask'[r] = ask[r] /\ parent' = parent
  BY <1>1 DEF Executed
<1>7. TypeOK'
  BY <1>1, <1>2, <1>5 DEF TypeOK, TypeOfRequests
<1>8. Steady(r)
  BY <1>1, <1>5, <1>6 DEF Steady, DeletedBy
<1>9. rows' \subseteq Made'
  BY <1>1, <1>2, <1>8, SteadyGrows DEF IInv, Shared
<1>10. Explained(r)'
  <2>1. CASE ~reached
    BY <1>1, <1>5, <1>6, <2>1 DEF Explained, Explains, Does
  <2>2. CASE reached /\ i \in rows
    BY <1>4, <1>5, <1>6, <2>2 DEF Explained, Explains
  <2>3. CASE i \notin rows
    <3>1. PICK d \in Request : DeletedBy(d, i)
      BY <1>2, <2>3 DEF Named
    <3>2. d # r
      BY <1>5, <3>1 DEF DeletedBy
    <3>3. DeletedBy(d, i)'
      BY <1>2, <1>6, <1>8, <3>1, SteadyGrows DEF DeletedBy
    <3>4. Explains(r, i)'
      BY <1>1, <1>6, <3>2, <3>3 DEF Explains
    <3> QED
      BY <1>5, <1>6, <3>4 DEF Explained
  <2> QED
    BY <2>1, <2>2, <2>3
<1> QED
  BY <1>5, <1>7, <1>8, <1>9, <1>10 DEF Kept

\* Clearing a parent removes rows that no record names.
LEMMA ClearKeeps == ASSUME IInv, NEW r \in Request, Clear(r) PROVE Kept(r)
<1> DEFINE gone == Items(ask[r].on)
<1>1. /\ Executed(r, None, gone) /\ ask[r].op = "clear"
      /\ rows' = rows \ gone /\ UNCHANGED <<parent, keyed>>
  BY DEF Clear, Executed, Done, Goto, Release, Does
<1>2. TypeOK /\ None \in Name /\ None \notin Id /\ gone \in SUBSET Id
  BY TableApiAssumption DEF IInv, Name, Items, TypeOK
<1> HIDE DEF gone
<1>3. /\ Mine(r) /\ TypeOfRequests' /\ Stage(r)' /\ InOrder(r)' /\ OnRecord(r)'
      /\ Told(r)' = {None} /\ did[r] = {} /\ did'[r] = gone
  BY <1>1, <1>2, ExecutedKeeps DEF Mutates, Does, Reading
<1>4. TypeOK'
  BY <1>1, <1>2, <1>3 DEF TypeOK, TypeOfRequests
<1>5. Steady(r)
  BY <1>1, <1>3 DEF Steady, DeletedBy, Executed
<1>6. rows' \subseteq Made'
  BY <1>1, <1>2, <1>5, SteadyGrows DEF IInv, Shared
<1>7. Explained(r)'
  BY <1>1, <1>2, <1>3 DEF Explained, Executed, ById
<1> QED
  BY <1>3, <1>4, <1>5, <1>6, <1>7 DEF Kept

LEMMA InsertKeeps == ASSUME IInv, NEW r \in Request, Insert(r) PROVE Kept(r)
<1> DEFINE i == Fresh(r, 1)
<1>1. /\ Executed(r, i, {i}) /\ ask[r].op = "insert"
      /\ rows' = rows \cup {i} /\ UNCHANGED <<parent, keyed>>
  BY DEF Insert, Executed, Done, Goto, Release, Does
<1>2. TypeOK /\ i \in Id /\ i \in Name /\ i \in Request \X (1..Batch) /\ i[1] = r
  BY TableApiAssumption DEF IInv, Name, Id, Fresh
<1>3. /\ Mine(r) /\ TypeOfRequests' /\ Stage(r)' /\ InOrder(r)' /\ OnRecord(r)'
      /\ Told(r)' = {i} /\ did[r] = {} /\ did'[r] = {i}
  BY <1>1, <1>2, ExecutedKeeps DEF Mutates, Does, Reading
<1>4. TypeOK'
  BY <1>1, <1>2, <1>3 DEF TypeOK, TypeOfRequests
<1>5. Steady(r)
  BY <1>1, <1>3 DEF Steady, Executed
<1>6. rows' \subseteq Made'
  <2>1. i \in Made'
    BY <1>2, <1>3 DEF Made
  <2> QED
    BY <1>1, <1>2, <1>5, <2>1, SteadyGrows DEF IInv, Shared
<1>7. Explained(r)'
  BY <1>1, <1>3 DEF Explained, Explains, Executed, ById
<1> QED
  BY <1>3, <1>4, <1>5, <1>6, <1>7 DEF Kept

\* The next item of a request was never there; the last one completes the list of names.
LEMMA InsertItemKeeps == ASSUME IInv, NEW r \in Request, InsertItem(r) PROVE Kept(r)
<1> DEFINE k == count[r] + 1
           i == Fresh(r, k)
           all == [n \in 1..Batch |-> Fresh(r, n)]
<1>1. /\ Connected(r) /\ ask[r].op = "items" /\ ask[r].on \in rows
      /\ rows' = rows \cup {i} /\ parent' = [parent EXCEPT ![i] = ask[r].on] /\ keyed' = keyed
      /\ count' = [count EXCEPT ![r] = k] /\ held' = [held EXCEPT ![r] = 0]
      /\ did' = [did EXCEPT ![r] = did[r] \cup {i}]
      /\ UNCHANGED <<trail, ask, answer>>
      /\ \/ k = Batch /\ at' = [at EXCEPT ![r] = "audit"] /\ names' = [names EXCEPT ![r] = all]
         \/ k # Batch /\ UNCHANGED <<at, names>>
  BY DEF InsertItem, Done, Goto, Release, Does
<1>2. TypeOK /\ Stage(r) /\ InOrder(r) /\ at[r] = "run"
  BY <1>1 DEF IInv, Local, Connected
<1>3. count[r] \in 0..Batch /\ count[r] < Batch /\ Batch \in Nat /\ k \in 1..Batch
  BY <1>1, <1>2, TableApiAssumption DEF TypeOK, Stage, Does
<1>4. i \in Request \X (1..Batch) /\ i[1] = r /\ i \in Id /\ i # Seed
  BY <1>3, TableApiAssumption DEF Id, Fresh
<1>5. i \notin Made
  <2>1. did[r] = {Fresh(r, n) : n \in 1..count[r]}
    BY <1>1, <1>2 DEF InOrder, Does
  <2>2. i \notin did[r]
    BY <1>3, <2>1 DEF Fresh
  <2> QED
    BY <1>4, <2>2 DEF Made
<1>6. count'[r] = k /\ count' \in [Request -> 0..Batch]
  BY <1>1, <1>2, <1>3 DEF TypeOK
<1>7. did'[r] = {Fresh(r, n) : n \in 1..k}
  <2>1. did'[r] = did[r] \cup {i} /\ did[r] = {Fresh(r, n) : n \in 1..count[r]}
    BY <1>1, <1>2 DEF InOrder, Does, TypeOK
  <2>2. \A n : n \in 1..k <=> n \in 1..count[r] \/ n = k
    BY <1>3
  <2> QED
    BY <2>1, <2>2
<1>8. Mine(r)
  BY <1>1, <1>2 DEF Mine, TypeOK
<1>9. Steady(r)
  BY <1>1, <1>2, <1>5, <1>8 DEF Steady, TypeOK
<1>10. rows' \subseteq Made'
  <2>1. i \in Made'
    BY <1>1, <1>2, <1>4 DEF Made, TypeOK
  <2> QED
    BY <1>1, <1>2, <1>9, <2>1, SteadyGrows DEF IInv, Shared
<1>11. all \in Seq(Name) /\ Len(all) = Batch /\ all # <<>>
  <2>1. \A n \in 1..Batch : Fresh(r, n) \in Name
    BY DEF Fresh, Name, Id
  <2>2. all \in Seq(Name) /\ Len(all) = Batch
    BY <1>3, <2>1
  <2>3. Len(<<>>) = 0 /\ Batch # 0
    BY TableApiAssumption
  <2> QED
    BY <2>2, <2>3
<1>12. TypeOK'
  <2>1. held' \in [Request -> 0..2] /\ InUse' <= Conns
    BY <1>1, <1>2, ReleaseStep
  <2>2. rows' \subseteq Id /\ ask[r].on \in Id
    BY <1>1, <1>2, <1>4 DEF TypeOK
  <2>3. parent' \in [Id -> Id \cup {None}]
    BY <1>1, <1>2, <2>2 DEF TypeOK
  <2>4. at' \in [Request -> {"idle", "run", "expand", "audit", "done"}]
    BY <1>1, <1>2 DEF TypeOK
  <2>5. names' \in [Request -> Seq(Name)]
    BY <1>1, <1>2, <1>11 DEF TypeOK
  <2>6. did' \in [Request -> SUBSET Id]
    BY <1>1, <1>2, <1>4 DEF TypeOK
  <2> QED
    BY <1>1, <1>2, <1>6, <2>1, <2>2, <2>3, <2>4, <2>5, <2>6 DEF TypeOK
<1>13. ask'[r] = ask[r] /\ held'[r] = 0 /\ answer'[r] = None /\ ask[r] # NoAsk
  BY <1>1, <1>2 DEF TypeOK, Stage
<1>14. CASE k # Batch
  <2>1. at'[r] = "run" /\ names'[r] = <<>> /\ Told(r)' = {} /\ count'[r] < Batch
    BY <1>1, <1>2, <1>3, <1>6, <1>14 DEF Stage, Told
  <2>2. Stage(r)'
    BY <1>1, <1>2, <1>13, <2>1 DEF Stage, Needs, Does
  <2>3. InOrder(r)' /\ OnRecord(r)' /\ Explained(r)'
    BY <1>6, <1>7, <1>13, <2>1, TableApiAssumption DEF InOrder, OnRecord, Explained
  <2> QED
    BY <1>9, <1>10, <1>12, <2>2, <2>3 DEF Kept
<1>15. CASE k = Batch
  <2>1. at'[r] = "audit" /\ names'[r] = all
    BY <1>1, <1>2, <1>15 DEF TypeOK
  <2>2. Told(r)' = did'[r] /\ did'[r] # {}
    <3>1. {n \in Name : <<r, n>> \in trail'} = {}
      BY <1>1, <1>2 DEF Stage, Told
    <3>2. {names'[r][n] : n \in 1..Len(names'[r])} = {Fresh(r, n) : n \in 1..Batch}
      <4>1. Len(names'[r]) = Batch /\ \A n \in 1..Batch : names'[r][n] = Fresh(r, n)
        BY <1>11, <2>1
      <4> QED
        BY <4>1
    <3>3. k \in 1..k
      BY <1>3
    <3> QED
      BY <1>7, <1>15, <3>1, <3>2, <3>3 DEF Told
  <2>3. Stage(r)'
    BY <1>1, <1>2, <1>13, <2>1 DEF Stage, Needs, Does
  <2>4. InOrder(r)' /\ OnRecord(r)'
    BY <1>1, <1>6, <1>7, <1>11, <1>13, <1>15, <2>1, <2>2, TableApiAssumption
    DEF InOrder, OnRecord, Mutates, Reading, Does
  <2>5. Explained(r)'
    BY <1>1, <1>13, <2>2 DEF Explained, Explains, ById
  <2> QED
    BY <1>9, <1>10, <1>12, <2>3, <2>4, <2>5 DEF Kept
<1> QED
  BY <1>14, <1>15

-----------------------------------------------------------------------------
(* The theorems.                                                           *)

LEMMA WriteKeeps == ASSUME IInv, NEW r \in Request, Write(r) \/ RoleFails(r) PROVE Kept(r)
BY InsertKeeps, InsertItemKeeps, KeyedWrite, UpdateKeeps, DeleteKeeps, ClearKeeps DEF Write

\* A step of one request keeps the invariant for all of them.
LEMMA StepPreserves ==
  ASSUME IInv, NEW r \in Request, Begin(r) \/ Refuse(r) \/ Serve(r)
  PROVE  IInv'
<1>1. TypeOK /\ Local /\ rows \subseteq Made
  BY DEF IInv, Shared
<1>2. /\ TypeOK' /\ Steady(r) /\ rows' \subseteq Made'
      /\ Stage(r)' /\ InOrder(r)' /\ OnRecord(r)' /\ Named(r)' /\ Explained(r)'
  <2>1. CASE Quiet(r)
    <3>1. Mine(r) /\ UNCHANGED <<tables, trail, ask, names, did>>
      BY <1>1, <2>1, QuietStep
    <3>2. Stage(r)' /\ InOrder(r)' /\ OnRecord(r)' /\ Told(r)' = Told(r)
      BY <2>1, QuietLocal
    <3>3. Steady(r)
      BY <3>1 DEF Steady, tables
    <3>4. Named(r)' /\ Explained(r)'
      BY <3>1, <3>2, <3>3, NamedStays, ExplainedStays
    <3> QED
      BY <1>1, <2>1, <3>1, <3>2, <3>3, <3>4, QuietType, SteadyGrows DEF tables
  <2>2. CASE Begin(r)
    <3>1. Steady(r) /\ UNCHANGED rows
      BY <1>1, <2>2, BeginPreserves, BeginStep DEF tables
    <3> QED
      BY <1>1, <2>2, <3>1, BeginPreserves, SteadyGrows
  <2>3. CASE Audit(r)
    <3>1. Steady(r) /\ UNCHANGED rows /\ ask'[r] = ask[r] /\ Told(r)' = Told(r)
      BY <1>1, <2>3, AuditPreserves, AuditStep DEF tables
    <3>2. Named(r)' /\ Explained(r)'
      BY <3>1, NamedStays, ExplainedStays
    <3> QED
      BY <1>1, <2>3, <3>1, <3>2, AuditPreserves, SteadyGrows
  <2>4. CASE Write(r) \/ RoleFails(r)
    <3>1. Kept(r) /\ ask'[r] = ask[r]
      BY <1>1, <2>4, WriteKeeps, WriteStep
    <3>2. Named(r)'
      BY <3>1, NamedStays DEF Kept
    <3> QED
      BY <3>1, <3>2 DEF Kept
  <2> QED
    BY <2>1, <2>2, <2>3, <2>4 DEF Serve, Quiet
<1>3. ASSUME NEW d \in Request \ {r}
      PROVE  Stage(d)' /\ InOrder(d)' /\ OnRecord(d)' /\ Named(d)' /\ Explained(d)'
  <2>1. Mine(r) /\ ask'[d] = ask[d]
    BY <1>2 DEF Steady, Mine
  <2>2. Stage(d)' /\ InOrder(d)' /\ OnRecord(d)' /\ Told(d)' = Told(d)
    BY <1>1, <2>1, OthersStay
  <2> QED
    BY <1>2, <2>1, <2>2, NamedStays, ExplainedStays
<1> QED
  BY <1>2, <1>3 DEF IInv, Local, Shared

LEMMA StutterPreserves == IInv /\ UNCHANGED vars => IInv'
<1> SUFFICES ASSUME IInv, UNCHANGED vars PROVE IInv'
  OBVIOUS
<1>1. /\ UNCHANGED <<rows, parent, keyed, trail, ask, at, held, count, names, answer, did>>
  BY DEF vars, tables, mine
<1>2. TypeOK'
  BY <1>1 DEF IInv, TypeOK, InUse, Taken
<1>3. ASSUME NEW r \in Request PROVE Told(r)' = Told(r) /\ Needs(r)' = Needs(r)
  BY <1>1 DEF Told, Needs
<1>4. Made' = Made
  BY <1>1 DEF Made
<1>5. Local'
  BY <1>1, <1>3 DEF IInv, Local, Stage, InOrder, OnRecord, Does, Mutates
<1>6. Shared'
  BY <1>1, <1>3, <1>4 DEF IInv, Shared, Named, Explained, Explains, DeletedBy, Does
<1> QED
  BY <1>2, <1>5, <1>6 DEF IInv

\* The inductive invariant holds of every behaviour.
THEOREM Invariant == Spec => []IInv
<1>1. IInv /\ [Next]_vars => IInv'
  BY StepPreserves, StutterPreserves DEF Next, Idle
<1> QED
  BY InitInvariant, <1>1, PTL DEF Spec

\* The tables, the trail and the requests keep their types, and the pool its bound.
THEOREM TypeCorrect == Spec => []TypeOK
<1>1. IInv => TypeOK
  BY DEF IInv
<1> QED
  BY Invariant, <1>1, PTL

\* withCompatAudit, for any batch, pool and number of requests: what was answered with
\* success is on record, and an insert with every row that it inserted.
THEOREM AnsweredOnRecord == Spec => []SuccessIsOnRecord
<1>1. IInv => SuccessIsOnRecord
  <2> SUFFICES ASSUME IInv, NEW r \in Request, answer[r] = "ok", Mutates(r)
               PROVE  LET named == {n \in Name : <<r, n>> \in trail} IN
                      /\ named # {}
                      /\ ask[r].op \in {"insert", "upsert", "items"} => did[r] # {} /\ named = did[r]
                      /\ Does(r, "items") => did[r] = {Fresh(r, n) : n \in 1..Batch}
    BY DEF SuccessIsOnRecord
  <2>1. OnRecord(r) /\ InOrder(r)
    BY DEF IInv, Local
  <2>2. names[r] = <<>> /\ Told(r) # {}
    BY <2>1 DEF OnRecord
  <2>3. Told(r) = {n \in Name : <<r, n>> \in trail}
    BY <2>2 DEF Told
  <2> QED
    BY <2>1, <2>2, <2>3 DEF OnRecord, InOrder
<1> QED
  BY Invariant, <1>1, PTL

\* And what the trail names was changed, but for the exceptions that TrailIsTrue lists.
THEOREM NamedWasChanged == Spec => []TrailIsTrue
<1>1. IInv => TrailIsTrue
  <2> SUFFICES ASSUME IInv, NEW r \in Request, NEW i \in Id, <<r, i>> \in trail
               PROVE  Explains(r, i)
    BY DEF TrailIsTrue, Explains, DeletedBy
  <2>1. i \in Told(r) \cap Id
    BY DEF Told, Name
  <2> QED
    BY <2>1 DEF IInv, Shared, Explained
<1> QED
  BY Invariant, <1>1, PTL

=============================================================================
