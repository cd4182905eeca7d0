--------------------------- MODULE BookingProofs ---------------------------
(* Theorems about Booking for every set of rooms, requests and guests.     *)
EXTENDS Booking, TLAPS

\* The type invariant, and which requests know their room, are inductive together.
LEMMA TypePreserved == TypeOK /\ RoomKnown /\ [Next]_vars => (TypeOK /\ RoomKnown)'
<1> SUFFICES ASSUME TypeOK, RoomKnown, [Next]_vars PROVE (TypeOK /\ RoomKnown)'
  OBVIOUS
<1> USE DEF TypeOK, TablesTypeOK, RoomKnown, PC, Active, tables, history, Goto
<1>1. ASSUME NEW q \in Request,
         \/ NotConfigured(q)
         \/ AcquireLock(q)
         \/ LockBusy(q)
         \/ LockUnavailable(q)
         \/ EarlyError(q)
         \/ PaymentFails(q)
         \/ OccupyLost(q)
         \/ GatewayAccepts(q)
         \/ GatewayFails(q)
         \/ Return(q)
         \/ Crash(q)
      PROVE (TypeOK /\ RoomKnown)'
  BY <1>1 DEF NotConfigured, AcquireLock, LockBusy, LockUnavailable, EarlyError, PaymentFails, OccupyLost, AfterOccupy, GatewayAccepts, GatewayFails, Return, Released, Crash
<1>2. ASSUME NEW q \in Request,
         ResolveRoom(q)
      PROVE (TypeOK /\ RoomKnown)'
  BY <1>2 DEF ResolveRoom, Offered, Want, Key
<1>3. ASSUME NEW q \in Request,
         InsertStay(q)
      PROVE (TypeOK /\ RoomKnown)'
  BY <1>3 DEF InsertStay, CreateStay, Stay
<1>4. ASSUME NEW q \in Request,
         InsertPayment(q)
      PROVE (TypeOK /\ RoomKnown)'
  BY <1>4 DEF InsertPayment, CreatePayment, Payment
<1>5. ASSUME NEW q \in Request,
         OccupyRoom(q)
      PROVE (TypeOK /\ RoomKnown)'
  BY <1>5 DEF OccupyRoom, UpdateRoomStatus, RoomStatus, AfterOccupy
<1>6. ASSUME NEW q \in Request,
         RecordOrder(q)
      PROVE (TypeOK /\ RoomKnown)'
  BY <1>6 DEF RecordOrder, NoteOrder, Payment
<1>7. ASSUME NEW q \in Request,
         UndoPayment(q)
      PROVE (TypeOK /\ RoomKnown)'
  BY <1>7 DEF UndoPayment, DeletePayment
<1>8. ASSUME NEW q \in Request,
         UndoStay(q)
      PROVE (TypeOK /\ RoomKnown)'
  BY <1>8 DEF UndoStay, EraseStay, DeleteStay, Payment
<1>9. ASSUME NEW q \in Request,
         DropStay(q)
      PROVE (TypeOK /\ RoomKnown)'
  BY <1>9 DEF DropStay, EraseStay, DeleteStay, Payment
<1>10. ASSUME NEW q \in Request,
         UndoRoom(q)
      PROVE (TypeOK /\ RoomKnown)'
  BY <1>10 DEF UndoRoom, UpdateRoomStatus, RoomStatus
<1>11. ASSUME NEW k \in Key, LockExpires(k) PROVE (TypeOK /\ RoomKnown)'
  BY <1>11 DEF LockExpires
<1>12. CASE UNCHANGED vars
  BY <1>12 DEF vars, saga
<1>13. QED
  BY <1>1, <1>2, <1>3, <1>4, <1>5, <1>6, <1>7, <1>8, <1>9, <1>10, <1>11, <1>12 DEF Next, Forward, Idle

\* The accounting of the lock is inductive.
LEMMA LockPreserved == TypeOK /\ LockAccounted /\ [Next]_vars => LockAccounted'
<1> SUFFICES ASSUME TypeOK, LockAccounted, [Next]_vars PROVE LockAccounted'
  OBVIOUS
<1> USE DEF TypeOK, LockAccounted, PC, Active, tables, history, Goto
<1>1. ASSUME NEW q \in Request,
         \/ NotConfigured(q)
         \/ LockBusy(q)
         \/ ResolveRoom(q)
         \/ EarlyError(q)
         \/ InsertStay(q)
         \/ InsertPayment(q)
         \/ PaymentFails(q)
         \/ OccupyRoom(q)
         \/ OccupyLost(q)
         \/ GatewayAccepts(q)
         \/ GatewayFails(q)
         \/ RecordOrder(q)
         \/ UndoPayment(q)
         \/ UndoStay(q)
         \/ DropStay(q)
         \/ UndoRoom(q)
      PROVE LockAccounted'
  BY <1>1 DEF NotConfigured, LockBusy, ResolveRoom, EarlyError, InsertStay, InsertPayment, PaymentFails, OccupyRoom, AfterOccupy, OccupyLost, GatewayAccepts, GatewayFails, RecordOrder, UndoPayment, UndoStay, EraseStay, DropStay, UndoRoom
<1>2. ASSUME NEW q \in Request,
         AcquireLock(q)
      PROVE LockAccounted'
  BY <1>2 DEF AcquireLock
<1>3. ASSUME NEW q \in Request,
         LockUnavailable(q)
      PROVE LockAccounted'
  BY <1>3 DEF LockUnavailable
<1>4. ASSUME NEW q \in Request,
         Return(q)
      PROVE LockAccounted'
  BY <1>4 DEF Return, Released
<1>5. ASSUME NEW q \in Request,
         Crash(q)
      PROVE LockAccounted'
  BY <1>5 DEF Crash
<1>6. ASSUME NEW k \in Key, LockExpires(k) PROVE LockAccounted'
  BY <1>6 DEF LockExpires
<1>7. CASE UNCHANGED vars
  BY <1>7 DEF vars, saga
<1>8. QED
  BY <1>1, <1>2, <1>3, <1>4, <1>5, <1>6, <1>7 DEF Next, Forward, Idle

\* Who claims a room, and that it stays marked occupied, are inductive together.
LEMMA RoomPreserved == TypeOK /\ RoomKnown /\ SoleClaim /\ MarkedOccupied /\ [Next]_vars => (SoleClaim /\ MarkedOccupied)'
<1> SUFFICES ASSUME TypeOK, RoomKnown, SoleClaim, MarkedOccupied, [Next]_vars PROVE (SoleClaim /\ MarkedOccupied)'
  OBVIOUS
<1> USE BookingAssumption DEF TypeOK, TablesTypeOK, RoomKnown, SoleClaim, MarkedOccupied, Claims, Working, Confirmed,
        Disturbed, Active, tables, history, Goto
<1>1. ASSUME NEW q \in Request,
         \/ NotConfigured(q)
         \/ AcquireLock(q)
         \/ LockBusy(q)
         \/ LockUnavailable(q)
      PROVE (SoleClaim /\ MarkedOccupied)'
  BY <1>1 DEF NotConfigured, AcquireLock, LockBusy, LockUnavailable
<1>2. ASSUME NEW q \in Request,
         \/ EarlyError(q)
         \/ InsertStay(q)
      PROVE (SoleClaim /\ MarkedOccupied)'
  BY <1>2 DEF EarlyError, InsertStay, CreateStay
<1>3. ASSUME NEW q \in Request,
         \/ InsertPayment(q)
         \/ PaymentFails(q)
      PROVE (SoleClaim /\ MarkedOccupied)'
  BY <1>3 DEF InsertPayment, CreatePayment, PaymentFails
<1>4. ASSUME NEW q \in Request,
         \/ GatewayAccepts(q)
         \/ GatewayFails(q)
         \/ RecordOrder(q)
      PROVE (SoleClaim /\ MarkedOccupied)'
  BY <1>4 DEF GatewayAccepts, GatewayFails, RecordOrder
<1>5. ASSUME NEW q \in Request,
         \/ UndoPayment(q)
         \/ UndoStay(q)
         \/ DropStay(q)
      PROVE (SoleClaim /\ MarkedOccupied)'
  BY <1>5 DEF UndoPayment, UndoStay, EraseStay, DropStay
<1>6. ASSUME NEW q \in Request,
         ResolveRoom(q)
      PROVE (SoleClaim /\ MarkedOccupied)'
  BY <1>6 DEF ResolveRoom, Offered
<1>7. ASSUME NEW q \in Request,
         OccupyRoom(q)
      PROVE (SoleClaim /\ MarkedOccupied)'
  BY <1>7 DEF OccupyRoom, UpdateRoomStatus, AfterOccupy
<1>8. ASSUME NEW q \in Request,
         OccupyLost(q)
      PROVE (SoleClaim /\ MarkedOccupied)'
  BY <1>8 DEF OccupyLost, AfterOccupy
<1>9. ASSUME NEW q \in Request,
         UndoRoom(q)
      PROVE (SoleClaim /\ MarkedOccupied)'
  BY <1>9 DEF UndoRoom, UpdateRoomStatus
<1>10. ASSUME NEW q \in Request,
         Return(q)
      PROVE (SoleClaim /\ MarkedOccupied)'
  BY <1>10 DEF Return, Released
<1>11. ASSUME NEW q \in Request,
         Crash(q)
      PROVE (SoleClaim /\ MarkedOccupied)'
  BY <1>11 DEF Crash
<1>12. ASSUME NEW k \in Key, LockExpires(k) PROVE (SoleClaim /\ MarkedOccupied)'
  BY <1>12 DEF LockExpires
<1>13. CASE UNCHANGED vars
  BY <1>13 DEF vars, saga
<1> QED
  BY <1>1, <1>2, <1>3, <1>4, <1>5, <1>6, <1>7, <1>8, <1>9, <1>10, <1>11, <1>12, <1>13 DEF Next, Forward, Idle

\* The rows that exist at each call of a request are inductive.
LEMMA RecordsPreserved == TypeOK /\ RoomKnown /\ RecordsTracked /\ [Next]_vars => RecordsTracked'
<1> SUFFICES ASSUME TypeOK, RoomKnown, RecordsTracked, [Next]_vars PROVE RecordsTracked'
  OBVIOUS
<1> USE DEF TypeOK, TablesTypeOK, RecordsTracked, Active, tables, history, Goto
<1>1. ASSUME NEW q \in Request,
         \/ NotConfigured(q)
         \/ AcquireLock(q)
         \/ LockBusy(q)
         \/ LockUnavailable(q)
         \/ ResolveRoom(q)
         \/ EarlyError(q)
         \/ PaymentFails(q)
      PROVE RecordsTracked'
  BY <1>1 DEF NotConfigured, AcquireLock, LockBusy, LockUnavailable, ResolveRoom, EarlyError, PaymentFails
<1>2. ASSUME NEW q \in Request,
         \/ OccupyRoom(q)
         \/ OccupyLost(q)
         \/ GatewayAccepts(q)
         \/ GatewayFails(q)
         \/ UndoRoom(q)
         \/ Return(q)
         \/ Crash(q)
      PROVE RecordsTracked'
  BY <1>2 DEF OccupyRoom, AfterOccupy, OccupyLost, GatewayAccepts, GatewayFails, UndoRoom, Return, Crash
<1>3. ASSUME NEW q \in Request, InsertStay(q) PROVE RecordsTracked'
  <2>1. chosen[q] \in Room
    BY <1>3 DEF InsertStay, RoomKnown
  <2>2. [room |-> chosen[q], arrived |-> FALSE, left |-> FALSE] \in Stay
    BY <2>1 DEF Stay
  <2>3. [room |-> chosen[q], arrived |-> FALSE, left |-> FALSE] # NoStay
    BY <2>2, SentinelAssumption
  <2> QED
    BY <1>3, <2>3 DEF InsertStay, CreateStay
<1>4. ASSUME NEW q \in Request, InsertPayment(q) PROVE RecordsTracked'
  <2>1. [stay |-> q, order |-> NoOrder] # NoPayment
    BY SentinelAssumption DEF Payment
  <2> QED
    BY <1>4, <2>1 DEF InsertPayment, CreatePayment
<1>5. ASSUME NEW q \in Request, RecordOrder(q) PROVE RecordsTracked'
  BY <1>5, SentinelAssumption DEF RecordOrder, NoteOrder, Payment
<1>6. ASSUME NEW q \in Request, UndoPayment(q) PROVE RecordsTracked'
  BY <1>6 DEF UndoPayment, DeletePayment
<1>7. ASSUME NEW q \in Request, UndoStay(q) \/ DropStay(q) PROVE RecordsTracked'
  BY <1>7, SentinelAssumption DEF UndoStay, DropStay, EraseStay, DeleteStay, Payment
<1>8. ASSUME NEW k \in Key, LockExpires(k) PROVE RecordsTracked'
  BY <1>8 DEF LockExpires
<1>9. CASE UNCHANGED vars
  BY <1>9 DEF vars, saga
<1>10. QED
  BY <1>1, <1>2, <1>3, <1>4, <1>5, <1>6, <1>7, <1>8, <1>9 DEF Next, Forward, Idle

\* The initial states satisfy the inductive invariant.
LEMMA InitInvariant == Init => IInv
<1> SUFFICES ASSUME Init PROVE IInv
  OBVIOUS
<1> USE DEF Init
<1>1. TypeOK
  BY DEF TypeOK, TablesTypeOK, RoomStatus, PC
<1>2. RoomKnown /\ LockAccounted
  BY DEF RoomKnown, LockAccounted, Active
<1>3. SoleClaim /\ MarkedOccupied
  BY DEF SoleClaim, MarkedOccupied, Claims, Working, Confirmed, Active
<1>4. RecordsTracked
  BY DEF RecordsTracked
<1> QED
  BY <1>1, <1>2, <1>3, <1>4 DEF IInv

\* The inductive invariant of the sagas holds of every behaviour.
THEOREM Invariant == Spec => []IInv
<1>1. IInv /\ [Next]_vars => IInv'
  BY TypePreserved, LockPreserved, RoomPreserved, RecordsPreserved DEF IInv
<1> QED
  BY InitInvariant, <1>1, PTL DEF Spec

\* Every variable keeps its type, the status of a room its CHECK constraint.
THEOREM TypeCorrect == Spec => []TypeOK
<1>1. IInv => TypeOK
  BY DEF IInv
<1> QED
  BY Invariant, <1>1, PTL

\* Two requests with one lock key are in progress together only if Redis failed or
\* the key timed out under its holder, however many requests, guests and rooms.
THEOREM LocksExclude == Spec => []LockExclusion
<1>1. IInv => LockExclusion
  BY DEF IInv, LockAccounted, LockExclusion
<1> QED
  BY Invariant, <1>1, PTL

\* A confirmed room is never shown available again, unless two requests worked on it
\* at once or a status write of it was lost.
THEOREM ConfirmedRoomTaken == Spec => []BookedRoomStaysTaken
<1>1. IInv => BookedRoomStaysTaken
  BY DEF IInv, MarkedOccupied, BookedRoomStaysTaken, Confirmed, Disturbed
<1> QED
  BY Invariant, <1>1, PTL

\* Under the same condition a room is confirmed to at most one request.
THEOREM RoomsNotShared == Spec => []SerialBookingsShareNoRoom
<1>1. IInv => SerialBookingsShareNoRoom
  BY DEF IInv, SoleClaim, SerialBookingsShareNoRoom, Claims, Disturbed
<1> QED
  BY Invariant, <1>1, PTL

\* What a guest was told of a room stays true, under the same condition.
THEOREM ConfirmedRoomKept == Spec => []ConfirmedRoomIsKept
BY ConfirmedRoomTaken, RoomsNotShared, PTL DEF ConfirmedRoomIsKept

-----------------------------------------------------------------------------
(* The sagas implement BookingContract.                                    *)

Moves(q) == Forward(q) \/ NotConfigured(q) \/ Crash(q)

\* A request leaves the answer and the rows of every other request alone.
LEMMA OthersUntouched ==
  ASSUME IInv, NEW q \in Request, Moves(q), NEW p \in Request, p # q
  PROVE  Outcome(p)' = Outcome(p) /\ Records(p)' = Records(p)
<1> USE DEF Goto, history, tables
<1>1. pc'[p] = pc[p] /\ (p \in residue' <=> p \in residue)
  BY DEF IInv, TypeOK, Moves, Forward, NotConfigured, AcquireLock, LockBusy, LockUnavailable,
         ResolveRoom, EarlyError, InsertStay, InsertPayment, PaymentFails, OccupyRoom, OccupyLost,
         GatewayAccepts, GatewayFails, RecordOrder, UndoPayment, UndoStay, DropStay, EraseStay,
         UndoRoom, Return, Crash
<1>2. stays'[p] = stays[p]
  BY DEF IInv, TypeOK, TablesTypeOK, Moves, Forward, NotConfigured, AcquireLock, LockBusy,
         LockUnavailable, ResolveRoom, EarlyError, InsertStay, CreateStay, InsertPayment,
         PaymentFails, OccupyRoom, OccupyLost, GatewayAccepts, GatewayFails, RecordOrder,
         UndoPayment, UndoStay, DropStay, EraseStay, DeleteStay, UndoRoom, Return, Crash
<1>3. payments'[p] = NoPayment <=> payments[p] = NoPayment
  <2>1. CASE UndoStay(q) \/ DropStay(q)
    BY <2>1, SentinelAssumption
    DEF IInv, TypeOK, TablesTypeOK, UndoStay, DropStay, EraseStay, DeleteStay, Payment
  <2>2. CASE ~(UndoStay(q) \/ DropStay(q))
    BY <2>2 DEF IInv, TypeOK, TablesTypeOK, Moves, Forward, NotConfigured, AcquireLock, LockBusy,
         LockUnavailable, ResolveRoom, EarlyError, InsertStay, InsertPayment, CreatePayment,
         PaymentFails, OccupyRoom, OccupyLost, GatewayAccepts, GatewayFails, RecordOrder,
         NoteOrder, UndoPayment, DeletePayment, UndoRoom, Return, Crash
  <2> QED
    BY <2>1, <2>2
<1> QED
  BY <1>1, <1>2, <1>3 DEF Outcome, Records

\* The move of a request is a move of the contract by the same request.
LEMMA OwnMove ==
  ASSUME IInv, NEW q \in Request, Moves(q)
  PROVE  /\ Outcome(q) = "open"
         /\ Outcome(q)' = "confirmed" => Records(q) = {"stay", "payment"}
         /\ Outcome(q)' = "rejected" => Records(q) = {}
         /\ Outcome(q)' # "open" => Records(q)' = Records(q)
         /\ Outcome(q)' \in {"open", "confirmed", "rejected", "abandoned"}
<1> USE DEF Goto, history, tables
<1>1. pc[q] \in Active \cup {"lock"}
  BY DEF Moves, Forward, NotConfigured, AcquireLock, LockBusy, LockUnavailable,
         ResolveRoom, EarlyError, InsertStay, InsertPayment, PaymentFails, OccupyRoom, OccupyLost,
         GatewayAccepts, GatewayFails, RecordOrder, UndoPayment, UndoStay, DropStay,
         UndoRoom, Return, Crash, Active
<1>2. Outcome(q) = "open"
  BY <1>1 DEF Outcome, Active
<1>3. pc'[q] \in {"ok", "failed", "crashed"} =>
        NotConfigured(q) \/ LockBusy(q) \/ Return(q) \/ Crash(q)
  BY DEF IInv, TypeOK, Moves, Forward, AcquireLock, LockUnavailable,
         ResolveRoom, EarlyError, InsertStay, InsertPayment, PaymentFails, OccupyRoom, OccupyLost,
         AfterOccupy, GatewayAccepts, GatewayFails, RecordOrder, UndoPayment, UndoStay, DropStay,
         UndoRoom
<1>4. Outcome(q)' # "open" => pc'[q] \in {"ok", "failed", "crashed"}
  BY DEF Outcome
<1>5. Outcome(q)' # "open" => Records(q)' = Records(q) /\ (q \in residue' <=> q \in residue)
  BY <1>3, <1>4 DEF NotConfigured, LockBusy, Return, Crash, Records
<1>6. pc'[q] = "ok" => pc[q] = "returnOk"
  BY <1>3 DEF IInv, TypeOK, NotConfigured, LockBusy, Return, Crash
<1>7. pc'[q] = "failed" => pc[q] \in {"lock", "returnErr"}
  BY <1>3 DEF IInv, TypeOK, NotConfigured, LockBusy, Return, Crash
<1>8. Outcome(q)' = "confirmed" => Records(q) = {"stay", "payment"}
  BY <1>6 DEF Outcome, IInv, RecordsTracked, Records
<1>9. Outcome(q)' = "rejected" => Records(q) = {}
  BY <1>5, <1>7 DEF Outcome, IInv, RecordsTracked, Records
<1> QED
  BY <1>2, <1>5, <1>8, <1>9 DEF Outcome

\* A step of a request is a step of the contract.
LEMMA MoveKeepsContract == ASSUME IInv, NEW q \in Request, Moves(q) PROVE Contract!Next
<1> DEFINE out == [p \in Request |-> Outcome(p)]
           rec == [p \in Request |-> Records(p)]
<1>1. out' = [out EXCEPT ![q] = Outcome(q)']
  BY OthersUntouched
<1>2. rec' = [rec EXCEPT ![q] = Records(q)']
  BY OthersUntouched
<1>3. out[q] = "open" /\ rec[q] = Records(q) /\ Records(q) \in SUBSET {"stay", "payment"}
        /\ Records(q)' \in SUBSET {"stay", "payment"}
  BY OwnMove DEF Records
<1>4. CASE Outcome(q)' = "open"
  <2>1. out' = out
    BY <1>1, <1>3, <1>4
  <2> QED
    BY <1>2, <1>3, <2>1 DEF Contract!Next, Contract!Work, Contract!Record
<1>5. CASE Outcome(q)' # "open"
  <2>1. rec' = rec
    BY <1>2, <1>3, <1>5, OwnMove
  <2>2. CASE Outcome(q)' = "confirmed"
    <3> QED
      BY <1>1, <1>3, <2>1, <2>2, OwnMove DEF Contract!Next, Contract!Confirm, Contract!Answer, Contract!Record
  <2>3. CASE Outcome(q)' = "rejected"
    <3> QED
      BY <1>1, <1>3, <2>1, <2>3, OwnMove DEF Contract!Next, Contract!Reject, Contract!Answer
  <2>4. CASE Outcome(q)' = "abandoned"
    <3> QED
      BY <1>1, <1>3, <2>1, <2>4, OwnMove DEF Contract!Next, Contract!Abandon, Contract!Answer, Contract!Record
  <2> QED
    BY <1>5, <2>2, <2>3, <2>4, OwnMove
<1> QED
  BY <1>4, <1>5

\* Whatever the interleaving, a booking is confirmed only with its stay and its
\* payment on record and rejected only with nothing left of it.
THEOREM ContractKept == Spec => KeepsContract
<1>1. Init => Contract!Init
  BY DEF Init, Contract!Init, Outcome, Records
<1>2. IInv /\ [Next]_vars => [Contract!Next]_(Contract!vars)
  <2> SUFFICES ASSUME IInv, [Next]_vars PROVE [Contract!Next]_(Contract!vars)
    OBVIOUS
  <2>1. ASSUME NEW q \in Request, Moves(q) PROVE Contract!Next
    BY <2>1, MoveKeepsContract
  <2>2. ASSUME NEW k \in Key, LockExpires(k) PROVE UNCHANGED Contract!vars
    BY <2>2 DEF LockExpires, Contract!vars, Outcome, Records, tables
  <2>3. CASE UNCHANGED vars
    BY <2>3 DEF vars, saga, history, tables, Contract!vars, Outcome, Records
  <2> QED
    BY <2>1, <2>2, <2>3 DEF Next, Moves, Idle
<1> QED
  BY Invariant, <1>1, <1>2, PTL DEF Spec, KeepsContract, Contract!Spec

=============================================================================
