------------------------------ MODULE Booking ------------------------------
(***************************************************************************)
(* The three ways a guest books a room (PaymentService.BookingCheckout,    *)
(* CreateRazorpayBookingOrder and HoldBooking), as concurrent requests     *)
(* that share the room, stay and payment tables and the Redis lock.        *)
(*                                                                         *)
(* A request is a saga: lock, find a room, insert the stay, insert the     *)
(* payment, mark the room occupied, call the gateway; a later failure is   *)
(* compensated by deleting what was inserted and freeing the room.  Every  *)
(* call is one step, any call may fail, the lock may time out under its    *)
(* holder (TTL 10 s, gateway calls take up to 15 s) and the process may    *)
(* die between any two steps.                                              *)
(*                                                                         *)
(* The room-list cache entries the sagas delete are modelled in RoomLists; *)
(* nothing here reads them.                                                *)
(***************************************************************************)
EXTENDS HotelTables, Integers

CONSTANTS
    RoomType,
    Guest,      \* who books and for which dates: the user and date part of a key
    Kind,       \* the booking endpoints in use
    TypeOf,     \* [Room -> RoomType]
    Price,      \* [Room -> Int]
    NoRoom      \* request that has not resolved a room

Want == Room \cup RoomType

\* A request asks for a room, or for the cheapest room of a type. What it asks
\* is also the key of its lock: "lock:<kind>:<user>:<room or type>:<in>:<out>".
Key == [kind : Kind, guest : Guest, want : Want]

ASSUME BookingAssumption ==
    /\ Kind \subseteq {"stripe", "razorpay", "hold"}
    /\ TypeOf \in [Room -> RoomType]
    /\ Price \in [Room -> Int]
    /\ Room \cap RoomType = {}
    /\ NoRoom \notin Room

VARIABLES
    pc,         \* the call each request makes next
    req,        \* what each request asks, which is also its lock key
    chosen,     \* the room it resolved
    locked,     \* the lock keys set in Redis
    held,       \* requests whose deferred Delete(lockKey) is armed

    \* History variables: no guard reads them.
    degraded,   \* keys once entered without the lock, or timed out under a holder
    contended,  \* rooms once resolved by two requests in progress
    unwritten,  \* rooms whose status write once failed
    residue     \* requests whose clean-up was skipped or failed

saga == <<pc, req, chosen, locked, held>>
history == <<degraded, contended, unwritten, residue>>
vars == <<tables, saga, history>>

Active == {"resolve", "stay", "payment", "occupy", "gateway", "note", "dropStay",
           "undoPayment", "undoStay", "undoRoom", "returnOk", "returnErr"}

PC == Active \cup {"lock", "ok", "failed", "crashed"}

TypeOK ==
    /\ TablesTypeOK
    /\ pc \in [Request -> PC]
    /\ req \in [Request -> Key]
    /\ chosen \in [Request -> Room \cup {NoRoom}]
    /\ locked \subseteq Key
    /\ held \subseteq Request
    /\ degraded \subseteq Key
    /\ contended \subseteq Room
    /\ unwritten \subseteq Room
    /\ residue \subseteq Request

Init ==
    /\ roomStatus = [r \in Room |-> "available"]
    /\ stays = [q \in Request |-> NoStay]
    /\ payments = [q \in Request |-> NoPayment]
    /\ pc = [q \in Request |-> "lock"]
    /\ req \in [Request -> Key]
    /\ chosen = [q \in Request |-> NoRoom]
    /\ locked = {}
    /\ held = {}
    /\ degraded = {}
    /\ contended = {}
    /\ unwritten = {}
    /\ residue = {}

-----------------------------------------------------------------------------
(* Steps of a saga.                                                        *)

Goto(q, from, to) == pc[q] = from /\ pc' = [pc EXCEPT ![q] = to]

\* The gateway is not configured, or charges are disabled: nothing happened yet.
NotConfigured(q) ==
    /\ req[q].kind # "hold"
    /\ Goto(q, "lock", "failed")
    /\ UNCHANGED <<tables, req, chosen, locked, held, history>>

\* Mutant: SET without NX.
AcquireLockSet(q) ==
    /\ Goto(q, "lock", "resolve")
    /\ locked' = locked \cup {req[q]}
    /\ held' = held \cup {q}
    /\ UNCHANGED <<tables, req, chosen, history>>

AcquireLock(q) ==
    /\ req[q] \notin locked
    /\ Goto(q, "lock", "resolve")
    /\ locked' = locked \cup {req[q]}
    /\ held' = held \cup {q}
    /\ UNCHANGED <<tables, req, chosen, history>>

\* "booking is already being processed"
LockBusy(q) ==
    /\ req[q] \in locked
    /\ Goto(q, "lock", "failed")
    /\ UNCHANGED <<tables, req, chosen, locked, held, history>>

\* SetNX failed: the error is logged and the request goes on without a lock.
LockUnavailable(q) ==
    /\ Goto(q, "lock", "resolve")
    /\ degraded' = degraded \cup {req[q]}
    /\ UNCHANGED <<tables, req, chosen, locked, held, contended, unwritten, residue>>

\* Still working towards, or rolling back, a booking of the room it resolved.
Working(q) == pc[q] \in Active \ {"returnErr"} /\ chosen[q] # NoRoom

\* Mutant: a room asked for by id is not checked for its status.
OfferedUnchecked(q) ==
    LET alike == {r \in Room : roomStatus[r] = "available" /\ TypeOf[r] = req[q].want}
    IN  IF req[q].want \in Room THEN {req[q].want}
        ELSE {r \in alike : \A other \in alike : Price[r] <= Price[other]}

Offered(q) ==
    LET free == {r \in Room : roomStatus[r] = "available"}
        alike == {r \in free : TypeOf[r] = req[q].want}
    IN  IF req[q].want \in Room THEN free \cap {req[q].want}
        ELSE {r \in alike : \A other \in alike : Price[r] <= Price[other]}

ResolveRoom(q) ==
    /\ Goto(q, "resolve", "stay")
    /\ \E r \in Offered(q) :
         /\ chosen' = [chosen EXCEPT ![q] = r]
         /\ contended' = IF \E other \in Request \ {q} :
                              Working(other) /\ chosen[other] = r
                         THEN contended \cup {r} ELSE contended
    /\ UNCHANGED <<tables, req, locked, held, degraded, unwritten, residue>>

\* The returns before anything is inserted: wrong currency, no room left, no
\* exchange rate, or CreateStay itself failed.
EarlyError(q) ==
    /\ \/ Goto(q, "resolve", "returnErr")
       \/ Goto(q, "stay", "returnErr")
    /\ UNCHANGED <<tables, req, chosen, locked, held, history>>

InsertStay(q) ==
    /\ Goto(q, "stay", "payment")
    /\ CreateStay(q, chosen[q])
    /\ UNCHANGED <<roomStatus, payments, req, chosen, locked, held, history>>

InsertPayment(q) ==
    /\ Goto(q, "payment", "occupy")
    /\ CreatePayment(q, q)
    /\ UNCHANGED <<roomStatus, stays, req, chosen, locked, held, history>>

\* Mutant: no endpoint deletes the stay.
PaymentFailsKeepsStay(q) ==
    /\ Goto(q, "payment", "returnErr")
    /\ residue' = IF req[q].kind = "stripe" THEN residue \cup {q} ELSE residue
    /\ UNCHANGED <<tables, req, chosen, locked, held, degraded, contended, unwritten>>

\* BookingCheckout returns at once and leaves its stay; the other two delete it.
PaymentFails(q) ==
    /\ IF req[q].kind = "stripe"
       THEN Goto(q, "payment", "returnErr") /\ residue' = residue \cup {q}
       ELSE Goto(q, "payment", "dropStay") /\ UNCHANGED residue
    /\ UNCHANGED <<tables, req, chosen, locked, held, degraded, contended, unwritten>>

AfterOccupy(q) == IF req[q].kind = "hold" THEN "returnOk" ELSE "gateway"

\* Mutant: the room is marked with a status the domain does not have.
OccupyRoomReserved(q) ==
    /\ Goto(q, "occupy", AfterOccupy(q))
    /\ UpdateRoomStatus(chosen[q], "reserved")
    /\ UNCHANGED <<stays, payments, req, chosen, locked, held, history>>

\* Mutant: the room is not marked at all.
OccupyRoomForgotten(q) ==
    /\ Goto(q, "occupy", AfterOccupy(q))
    /\ UNCHANGED <<tables, req, chosen, locked, held, history>>

OccupyRoom(q) ==
    /\ Goto(q, "occupy", AfterOccupy(q))
    /\ UpdateRoomStatus(chosen[q], "occupied")
    /\ UNCHANGED <<stays, payments, req, chosen, locked, held, history>>

\* The result of UpdateRoomStatus is discarded.
OccupyLost(q) ==
    /\ Goto(q, "occupy", AfterOccupy(q))
    /\ unwritten' = unwritten \cup {chosen[q]}
    /\ UNCHANGED <<tables, req, chosen, locked, held, degraded, contended, residue>>

GatewayAccepts(q) ==
    /\ Goto(q, "gateway", IF req[q].kind = "razorpay" THEN "note" ELSE "returnOk")
    /\ UNCHANGED <<tables, req, chosen, locked, held, history>>

\* An error answer, or none within the client's timeout.
GatewayFails(q) ==
    /\ Goto(q, "gateway", "undoPayment")
    /\ UNCHANGED <<tables, req, chosen, locked, held, history>>

\* The order id is kept only in the notes of the payment; a failure is ignored.
RecordOrder(q) ==
    /\ Goto(q, "note", "returnOk")
    /\ NoteOrder(q, q) \/ UNCHANGED payments
    /\ UNCHANGED <<roomStatus, stays, req, chosen, locked, held, history>>

-----------------------------------------------------------------------------
(* Compensation.  Every result is discarded, so each write may be lost.    *)

UndoPayment(q) ==
    /\ Goto(q, "undoPayment", "undoStay")
    /\ \/ DeletePayment(q) /\ UNCHANGED residue
       \/ UNCHANGED payments /\ residue' = residue \cup {q}
    /\ UNCHANGED <<roomStatus, stays, req, chosen, locked, held,
                   degraded, contended, unwritten>>

EraseStay(q) ==
    /\ \/ DeleteStay(q) /\ UNCHANGED residue
       \/ UNCHANGED <<stays, payments>> /\ residue' = residue \cup {q}
    /\ UNCHANGED <<roomStatus, req, chosen, locked, held,
                   degraded, contended, unwritten>>

UndoStay(q) == Goto(q, "undoStay", "undoRoom") /\ EraseStay(q)

DropStay(q) == Goto(q, "dropStay", "returnErr") /\ EraseStay(q)

UndoRoom(q) ==
    /\ Goto(q, "undoRoom", "returnErr")
    /\ \/ UpdateRoomStatus(chosen[q], "available") /\ UNCHANGED unwritten
       \/ UNCHANGED roomStatus /\ unwritten' = unwritten \cup {chosen[q]}
    /\ UNCHANGED <<stays, payments, req, chosen, locked, held,
                   degraded, contended, residue>>

-----------------------------------------------------------------------------
(* The return, the lock's deferred release, and the environment.           *)

\* The deferred Delete names only the key: it removes whichever lock is there.
Released(q) == IF q \in held THEN {locked \ {req[q]}, locked} ELSE {locked}

Return(q) ==
    /\ Goto(q, "returnOk", "ok") \/ Goto(q, "returnErr", "failed")
    /\ locked' \in Released(q)
    /\ held' = held \ {q}
    /\ UNCHANGED <<tables, req, chosen, history>>

\* Redis drops the key TTLLock after SetNX, whether or not its holder is done.
LockExpires(k) ==
    /\ k \in locked
    /\ locked' = locked \ {k}
    /\ degraded' = IF \E q \in held : req[q] = k THEN degraded \cup {k} ELSE degraded
    /\ UNCHANGED <<tables, pc, req, chosen, held, contended, unwritten, residue>>

\* The process dies: no compensation runs, nor does the deferred release.
Crash(q) ==
    /\ pc[q] \in Active
    /\ pc' = [pc EXCEPT ![q] = "crashed"]
    /\ held' = held \ {q}
    /\ UNCHANGED <<tables, req, chosen, locked, history>>

Forward(q) ==
    \/ AcquireLock(q) \/ LockBusy(q) \/ LockUnavailable(q)
    \/ ResolveRoom(q) \/ EarlyError(q) \/ InsertStay(q) \/ InsertPayment(q)
    \/ PaymentFails(q) \/ OccupyRoom(q) \/ OccupyLost(q)
    \/ GatewayAccepts(q) \/ GatewayFails(q) \/ RecordOrder(q)
    \/ UndoPayment(q) \/ UndoStay(q) \/ DropStay(q) \/ UndoRoom(q) \/ Return(q)

Finished(q) == pc[q] \in {"ok", "failed", "crashed"}

\* Every request answered: the system rests.
Idle == (\A q \in Request : Finished(q)) /\ UNCHANGED vars

Next ==
    \/ \E q \in Request : Forward(q) \/ NotConfigured(q) \/ Crash(q)
    \/ \E k \in Key : LockExpires(k)
    \/ Idle

Spec == Init /\ [][Next]_vars

-----------------------------------------------------------------------------
(* Properties.                                                             *)

\* Two requests of one guest for one thing are in progress together only when the
\* lock gave way: Redis failed, or the key timed out under its holder. The release
\* by key, the crash that leaves its lock behind and the expiry never break this
\* on their own.
LockExclusion ==
    \A p, q \in Request :
        p # q /\ pc[p] \in Active /\ pc[q] \in Active /\ req[p] = req[q]
        => req[q] \in degraded

\* A booking the guest was told is confirmed.
Confirmed(q) == pc[q] = "ok"

\* As long as no two requests worked on a room at once and no status write of it was
\* lost, a room with a confirmed booking is never shown available again: neither a
\* compensation nor a crash of another request frees it.
BookedRoomStaysTaken ==
    \A q \in Request :
        Confirmed(q) /\ chosen[q] \notin contended \cup unwritten
        => roomStatus[chosen[q]] # "available"

\* Under the same condition a room is confirmed to one guest only: the check of the
\* room's status is then as good as a reservation of the room.
SerialBookingsShareNoRoom ==
    \A p, q \in Request :
        p # q /\ Confirmed(p) /\ Confirmed(q) /\ chosen[p] = chosen[q]
        => chosen[p] \in contended \cup unwritten

\* What the guest was told of a room stays true: it is not offered again, nor is it sold twice.
ConfirmedRoomIsKept == BookedRoomStaysTaken /\ SerialBookingsShareNoRoom

\* The sagas keep the promise of BookingContract to every request.
Outcome(q) ==
    CASE pc[q] = "ok" -> "confirmed"
      [] pc[q] = "failed" -> IF q \in residue THEN "abandoned" ELSE "rejected"
      [] pc[q] = "crashed" -> "abandoned"
      [] OTHER -> "open"

Records(q) == (IF stays[q] # NoStay THEN {"stay"} ELSE {})
              \cup (IF payments[q] # NoPayment THEN {"payment"} ELSE {})

Contract == INSTANCE BookingContract WITH
    outcome <- [q \in Request |-> Outcome(q)],
    records <- [q \in Request |-> Records(q)]

KeepsContract == Contract!Spec

-----------------------------------------------------------------------------
(* The inductive invariant behind LockExclusion, BookedRoomStaysTaken,     *)
(* SerialBookingsShareNoRoom and KeepsContract.                            *)

\* From the resolution of the room to the end, the request knows its room; before
\* the resolution it has none.
RoomKnown ==
    \A q \in Request :
        /\ pc[q] \notin {"lock", "resolve", "returnErr", "failed", "crashed"}
             => chosen[q] \in Room
        /\ pc[q] \in {"lock", "resolve"} => chosen[q] = NoRoom

\* A request in progress holds its lock, its lock is still set, and no other holds
\* it: each of these only until the key is degraded.
LockAccounted ==
    /\ \A q \in held : pc[q] \in Active
    /\ \A q \in Request : pc[q] \in Active => q \in held \/ req[q] \in degraded
    /\ \A q \in held : req[q] \in locked \cup degraded
    /\ \A p, q \in held : p # q /\ req[p] = req[q] => req[q] \in degraded

\* A request claims its room while it works on it and once it is confirmed.
Claims(q) == Working(q) \/ Confirmed(q)

Disturbed == contended \cup unwritten

SoleClaim ==
    \A p, q \in Request :
        p # q /\ Claims(p) /\ Claims(q) /\ chosen[p] = chosen[q]
        => chosen[p] \in Disturbed

\* From OccupyRoom on, and until its own roll-back frees it, the room is occupied.
MarkedOccupied ==
    \A q \in Request :
        pc[q] \in {"gateway", "note", "returnOk", "ok", "undoPayment", "undoStay", "undoRoom"}
        => chosen[q] \in Disturbed \/ roomStatus[chosen[q]] = "occupied"

\* Which rows of the request exist, by the call it makes next.
RecordsTracked ==
    \A q \in Request :
        /\ pc[q] \in {"payment", "dropStay", "occupy", "gateway", "note",
                      "undoPayment", "returnOk"} => stays[q] # NoStay
        /\ \/ pc[q] \in {"lock", "resolve", "stay"}
           \/ pc[q] \in {"undoRoom", "returnErr"} /\ q \notin residue
           => stays[q] = NoStay
        /\ pc[q] \in {"occupy", "gateway", "note", "undoPayment", "returnOk"}
             => payments[q] # NoPayment
        /\ \/ pc[q] \in {"lock", "resolve", "stay", "payment", "dropStay"}
           \/ pc[q] \in {"undoStay", "undoRoom", "returnErr"} /\ q \notin residue
           => payments[q] = NoPayment

IInv ==
    TypeOK /\ RoomKnown /\ LockAccounted /\ SoleClaim /\ MarkedOccupied /\ RecordsTracked

-----------------------------------------------------------------------------
(* What the source says of these endpoints and the runs refute.            *)

\* resolveBookingRoom: "selected room type is no longer available" is the answer for a room
\* that is taken; so two guests who both hold their locks, and whose writes of the room's
\* status succeed, are not both sold it.
NoDoubleBooking ==
    \A p, q \in Request :
        /\ req[p].guest # req[q].guest /\ {req[p], req[q]} \cap degraded = {}
        /\ Confirmed(p) /\ Confirmed(q) /\ chosen[p] \notin unwritten
        => chosen[p] # chosen[q]

=============================================================================
