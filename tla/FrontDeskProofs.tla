-------------------------- MODULE FrontDeskProofs --------------------------
(***************************************************************************)
(* Proofs about FrontDesk: type correctness, that a guest who has arrived  *)
(* loses the stay only to a cancel that read it before, and that the room  *)
(* of a guest in the house is occupied unless it was disturbed.            *)
(***************************************************************************)
EXTENDS FrontDesk, TLAPS

\* A call that marks a room has one to mark, and is one of the calls that do.
RoomRead ==
    \A c \in Call :
        /\ call[c].at \in {"room", "delete"} =>
               call[c].room \in Room /\ call[c].op \in {"cancel", "checkin", "checkout"}
        /\ call[c].at = "find" => call[c].op \in {"checkin", "checkout"}

\* A call has no room before it reads one, and a call about to delete a stay is a cancel.
RoomUnread ==
    \A c \in Call :
        /\ call[c].at \in {"start", "find"} => call[c].room = NoRoom
        /\ call[c].at = "delete" => call[c].op = "cancel"

\* What holds of a room r that is not disturbed. It is reserved once,
ReservedOnce(r) == \A p, q \in Request : StayRoom(p) = r /\ StayRoom(q) = r => p = q

\* a call that has read it is about the stay in it, and a cancel has deleted that stay,
CallsFit(r) ==
    \A c \in Call, q \in Request :
        call[c].at \in {"delete", "room"} /\ call[c].room = r /\ StayRoom(q) = r
        => q = call[c].stay /\ ~(call[c].op = "cancel" /\ call[c].at = "room")

\* once the guest has arrived one call at a time is about it,
OneCall(r) ==
    \A q \in Request, c, d \in Call :
        StayRoom(q) = r /\ stays[q].arrived
            /\ InProgress(c) /\ InProgress(d) /\ RoomOf(c) = r /\ RoomOf(d) = r
        => c = d

\* a check-out is of a guest who has left, or not arrived,
GuestLeaves(r) ==
    \A c \in Call, q \in Request :
        call[c].op = "checkout" /\ call[c].stay = q
            /\ InProgress(c) /\ RoomOf(c) = r /\ StayRoom(q) = r
        => ~InHouse(q)

\* and it is occupied once a guest is in, or the check-in has still to mark it.
GuestIn(r) ==
    \A q \in Request :
        InHouse(q) /\ stays[q].room = r
        => \/ roomStatus[r] = "occupied"
           \/ \E c \in Call :
                /\ call[c].op = "checkin" /\ call[c].stay = q
                /\ InProgress(c) /\ RoomOf(c) = r

Orderly(r) == ReservedOnce(r) /\ CallsFit(r) /\ OneCall(r) /\ GuestLeaves(r) /\ GuestIn(r)

UndisturbedOrderly == \A r \in Room \ disturbed : Orderly(r)

IInv == TypeOK /\ RoomRead /\ CancelFresh /\ RoomUnread /\ UndisturbedOrderly

LEMMA InitInvariant == Init => IInv
<1> SUFFICES ASSUME Init PROVE IInv
  OBVIOUS
<1>1. TypeOK /\ RoomRead /\ CancelFresh /\ RoomUnread
  BY DEF Init, TypeOK, TablesTypeOK, RoomRead, CancelFresh, RoomUnread, At, RoomStatus, Stay
<1>2. ASSUME NEW r \in Room PROVE Orderly(r)
  <2>1. \A q \in Request : StayRoom(q) = NoRoom /\ ~InHouse(q)
    BY DEF Init, StayRoom, InHouse
  <2>2. \A c \in Call : ~InProgress(c) /\ call[c].at = "start"
    BY DEF Init, InProgress
  <2> QED
    BY <2>1, <2>2, FrontDeskAssumption
       DEF Orderly, ReservedOnce, CallsFit, OneCall, GuestLeaves, GuestIn
<1> QED
  BY <1>1, <1>2 DEF IInv, UndisturbedOrderly

\* What each step does to the row of one stay.
LEMMA StayWrites ==
  ASSUME TypeOK, NEW c \in Call, Serve(c)
  PROVE  stays' \in [Request -> Stay \cup {NoStay}]
<1> USE DEF TypeOK, TablesTypeOK
<1>1. CASE Create(c)
  BY <1>1 DEF Create, CreateStay, Stay, Step
<1>2. CASE CancelStay(c)
  BY <1>2 DEF CancelStay, DeleteStay
<1>3. CASE StampArrival(c)
  BY <1>3 DEF StampArrival, Stamp, Stay
<1>4. CASE StampDeparture(c)
  BY <1>4 DEF StampDeparture, Stamp, Stay
<1>5. CASE ReadForCancel(c) \/ FindRoom(c) \/ MarkRoom(c) \/ SetStatus(c) \/ Fails(c)
  BY <1>5 DEF ReadForCancel, FindRoom, MarkRoom, SetStatus, Fails, tables
<1> QED
  BY <1>1, <1>2, <1>3, <1>4, <1>5 DEF Serve

\* What each step does to the calls: one of them moves, and keeps its operation and stay.
LEMMA CallMoves ==
  ASSUME TypeOK, NEW c \in Call, Serve(c)
  PROVE  \E to \in At, r \in Room \cup {NoRoom} : Step(c, call[c].at, to, r)
<1> USE DEF TypeOK, TablesTypeOK, At
<1>1. CASE Create(c) \/ SetStatus(c)
  BY <1>1 DEF Create, SetStatus, Step
<1>2. CASE ReadForCancel(c)
  BY <1>2 DEF ReadForCancel, Step, Stay
<1>3. CASE FindRoom(c)
  BY <1>3 DEF FindRoom, Step, Stay
<1>4. CASE CancelStay(c) \/ StampArrival(c) \/ StampDeparture(c) \/ MarkRoom(c) \/ Fails(c)
  BY <1>4 DEF CancelStay, StampArrival, StampDeparture, Stamp, MarkRoom, Fails, Step
<1> QED
  BY <1>1, <1>2, <1>3, <1>4 DEF Serve

\* Types are kept, and so is the room a call has read.
LEMMA TypePreserved == TypeOK /\ RoomRead /\ [Next]_vars => TypeOK' /\ RoomRead'
<1> SUFFICES ASSUME TypeOK, RoomRead, [Next]_vars PROVE TypeOK' /\ RoomRead'
  OBVIOUS
<1>1. CASE UNCHANGED vars
  BY <1>1 DEF vars, tables, TypeOK, TablesTypeOK, RoomRead
<1>2. ASSUME NEW c \in Call, Serve(c) PROVE TypeOK' /\ RoomRead'
  <2> USE DEF TypeOK, TablesTypeOK
  <2>1. stays' \in [Request -> Stay \cup {NoStay}]
    BY <1>2, StayWrites
  <2>2. call' \in [Call -> [op : Op, stay : Request, room : Room \cup {NoRoom}, at : At]]
    <3>1. PICK to \in At, r \in Room \cup {NoRoom} : Step(c, call[c].at, to, r)
      BY <1>2, CallMoves
    <3> QED
      BY <3>1 DEF Step
  <2>3. payments' \in [Request -> Payment \cup {NoPayment}]
    <3>1. CASE CancelStay(c)
      BY <1>2, <3>1 DEF CancelStay, DeleteStay, Payment
    <3>2. CASE payments' = payments
      BY <3>2
    <3> QED
      BY <1>2, <3>1, <3>2 DEF Serve, Create, CreateStay, ReadForCancel, StampArrival, StampDeparture,
         Stamp, FindRoom, MarkRoom, SetStatus, Fails, tables
  <2>4. roomStatus' \in [Room -> RoomStatus]
    <3>1. CASE MarkRoom(c)
      <4>1. call[c].op \in {"cancel", "checkin", "checkout"} => NewStatus(call[c].op) \in RoomStatus
        BY DEF NewStatus, RoomStatus
      <4>2. call[c].at = "room"
        BY <3>1 DEF MarkRoom, Step
      <4> QED
        BY <3>1, <4>1, <4>2 DEF MarkRoom, UpdateRoomStatus, RoomRead
    <3>2. CASE SetStatus(c)
      BY <3>2 DEF SetStatus, UpdateRoomStatus
    <3>3. CASE roomStatus' = roomStatus
      BY <3>3
    <3> QED
      BY <1>2, <3>1, <3>2, <3>3 DEF Serve, Create, CancelStay, ReadForCancel, StampArrival, StampDeparture,
         Stamp, FindRoom, Fails, tables
  <2>5. checkedIn' \subseteq Request
    BY <1>2 DEF Serve, Create, CancelStay, ReadForCancel, StampArrival, StampDeparture,
         Stamp, FindRoom, MarkRoom, SetStatus, Fails
  <2>6. disturbed' \subseteq Room
    <3>1. CASE MarkRoom(c)
      BY <3>1 DEF MarkRoom, Step, RoomRead
    <3> QED
      BY <1>2, <3>1 DEF Serve, Create, CancelStay, ReadForCancel, StampArrival, StampDeparture,
         Stamp, FindRoom, SetStatus, Fails, Overlaps
  <2>7. RoomRead'
    <3>1. CASE Create(c) \/ SetStatus(c) \/ MarkRoom(c) \/ Fails(c)
      BY <3>1 DEF Create, SetStatus, MarkRoom, Fails, Step, RoomRead
    <3>2. CASE ReadForCancel(c)
      BY <3>2 DEF ReadForCancel, Step, RoomRead, Stay
    <3>3. CASE CancelStay(c)
      BY <3>3 DEF CancelStay, Step, RoomRead
    <3>4. CASE StampArrival(c) \/ StampDeparture(c)
      BY <3>4 DEF StampArrival, StampDeparture, Stamp, Step, RoomRead
    <3>5. CASE FindRoom(c)
      BY <3>5 DEF FindRoom, Step, RoomRead, Stay
    <3> QED
      BY <1>2, <3>1, <3>2, <3>3, <3>4, <3>5 DEF Serve
  <2> QED
    BY <2>1, <2>2, <2>3, <2>4, <2>5, <2>6, <2>7
<1> QED
  BY <1>1, <1>2 DEF Next, Idle

\* Whatever the rest of the desk does, rooms stay disturbed, ...
LEMMA DisturbedGrows == ASSUME NEW c \in Call, Serve(c) PROVE disturbed \subseteq disturbed'
BY DEF Serve, Create, ReadForCancel, CancelStay, StampArrival, StampDeparture, Stamp, FindRoom, MarkRoom,
       SetStatus, Fails

\* ... and a call has no room until it has read one.
LEMMA UnreadPreserved == ASSUME TypeOK, RoomUnread, NEW c \in Call, Serve(c) PROVE RoomUnread'
<1> USE DEF TypeOK, RoomUnread
<1>1. CASE Create(c) \/ SetStatus(c) \/ MarkRoom(c) \/ CancelStay(c)
  BY <1>1 DEF Create, SetStatus, MarkRoom, CancelStay, Step
<1>2. CASE ReadForCancel(c) \/ FindRoom(c) \/ Fails(c)
  BY <1>2 DEF ReadForCancel, FindRoom, Fails, Step
<1>3. CASE StampArrival(c) \/ StampDeparture(c)
  BY <1>3 DEF StampArrival, StampDeparture, Stamp, Step
<1> QED
  BY <1>1, <1>2, <1>3 DEF Serve

\* A new stay in a room nobody has disturbed is the only one, and no call is about it.
LEMMA CreateOrderly ==
  ASSUME TypeOK, RoomRead, RoomUnread, NEW c \in Call, Create(c),
         NEW r \in Room, r \notin disturbed', Orderly(r)
  PROVE  Orderly(r)'
<1> USE DEF TypeOK, TablesTypeOK, Orderly
<1>0. PICK q \in Request : q = call[c].stay
  OBVIOUS
<1>1. PICK t \in Room :
         /\ Step(c, "start", "done", t)
         /\ CreateStay(q, t)
         /\ disturbed' = IF \/ \E p \in Request \ {q} : StayRoom(p) = t
                            \/ \E d \in Call \ {c} : InProgress(d) /\ RoomOf(d) = t
                         THEN disturbed \cup {t} ELSE disturbed
  BY <1>0 DEF Create
<1>2. /\ \A p \in Request \ {q} : stays'[p] = stays[p] /\ StayRoom(p)' = StayRoom(p)
      /\ stays'[q] = [room |-> t, arrived |-> FALSE, left |-> FALSE]
      /\ StayRoom(q)' = t /\ StayRoom(q) = NoRoom /\ roomStatus' = roomStatus
  <2>1. [room |-> t, arrived |-> FALSE, left |-> FALSE] \in Stay
    BY DEF Stay
  <2>2. [room |-> t, arrived |-> FALSE, left |-> FALSE] # NoStay
    BY <2>1, SentinelAssumption
  <2>3. /\ stays' = [stays EXCEPT ![q] = [room |-> t, arrived |-> FALSE, left |-> FALSE]]
        /\ stays[q] = NoStay /\ roomStatus' = roomStatus
    BY <1>0, <1>1 DEF Create, CreateStay
  <2>4. /\ stays'[q] = [room |-> t, arrived |-> FALSE, left |-> FALSE]
        /\ \A p \in Request \ {q} : stays'[p] = stays[p]
    BY <2>3
  <2> QED
    BY <2>2, <2>3, <2>4 DEF StayRoom
<1>3. /\ \A d \in Call \ {c} : call'[d] = call[d]
      /\ call'[c].at = "done"
  BY <1>1 DEF Step
<1>4. /\ \A d \in Call : InProgress(d)' => d # c /\ InProgress(d)
      /\ \A d \in Call \ {c} : InProgress(d)' = InProgress(d)
  BY <1>3 DEF InProgress
<1>5. \A d \in Call \ {c} : RoomOf(d)' = RoomOf(d)
                            \/ (call[d].stay = q /\ RoomOf(d) = NoRoom /\ RoomOf(d)' = t)
  <2> SUFFICES ASSUME NEW d \in Call \ {c}
               PROVE  \/ RoomOf(d)' = RoomOf(d)
                      \/ call[d].stay = q /\ RoomOf(d) = NoRoom /\ RoomOf(d)' = t
    OBVIOUS
  <2>1. CASE call[d].room # NoRoom
    BY <1>3, <2>1 DEF RoomOf
  <2>2. CASE call[d].room = NoRoom
    <3>1. PICK p \in Request : p = call[d].stay /\ p = call'[d].stay
      BY <1>3
    <3>2. RoomOf(d) = StayRoom(p) /\ RoomOf(d)' = StayRoom(p)'
      BY <1>3, <2>2, <3>1 DEF RoomOf, StayRoom
    <3> QED
      BY <1>2, <3>1, <3>2
  <2> QED
    BY <2>1, <2>2
<1>6. ReservedOnce(r)'
  BY <1>1, <1>2, FrontDeskAssumption DEF ReservedOnce
<1>7. CallsFit(r)'
  BY <1>1, <1>2, <1>3, <1>4, FrontDeskAssumption DEF CallsFit, RoomOf, InProgress
<1>8. OneCall(r)'
  BY <1>1, <1>2, <1>3, <1>4, <1>5, FrontDeskAssumption DEF OneCall
<1>9. GuestLeaves(r)'
  BY <1>2, <1>3, <1>4, <1>5, FrontDeskAssumption DEF GuestLeaves, InHouse
<1>10. GuestIn(r)'
  BY <1>1, <1>2, <1>3, <1>4, <1>5, FrontDeskAssumption DEF GuestIn, InHouse, InProgress, Step
<1> QED
  BY <1>6, <1>7, <1>8, <1>9, <1>10

\* What a step of a call does to the calls.
LEMMA StepFacts ==
  ASSUME TypeOK, NEW c \in Call, NEW from, NEW to, NEW t, Step(c, from, to, t)
  PROVE  /\ call[c].at = from
         /\ \A d \in Call \ {c} : call'[d] = call[d]
         /\ call'[c].op = call[c].op /\ call'[c].stay = call[c].stay
         /\ call'[c].at = to /\ call'[c].room = t
BY DEF TypeOK, Step

\* While the stays keep their rooms, so do the calls that do not move.
LEMMA OthersKept ==
  ASSUME TypeOK, \A p \in Request : StayRoom(p)' = StayRoom(p), NEW d \in Call, call'[d] = call[d]
  PROVE  RoomOf(d)' = RoomOf(d) /\ InProgress(d)' = InProgress(d)
<1>1. InProgress(d)' = InProgress(d)
  BY DEF InProgress
<1>2. PICK p \in Request : p = call[d].stay /\ p = call'[d].stay
  BY DEF TypeOK
<1>3. CASE call[d].room # NoRoom
  BY <1>1, <1>3 DEF RoomOf
<1>4. CASE call[d].room = NoRoom
  <2>1. RoomOf(d) = StayRoom(p) /\ RoomOf(d)' = StayRoom(p)'
    BY <1>2, <1>4 DEF RoomOf, StayRoom
  <2> QED
    BY <1>1, <2>1
<1> QED
  BY <1>3, <1>4

\* A step that leaves the stays alone leaves their rooms and guests alone.
LEMMA StaysKept ==
  ASSUME UNCHANGED stays
  PROVE  \A p \in Request : StayRoom(p)' = StayRoom(p) /\ InHouse(p)' = InHouse(p)
BY DEF StayRoom, InHouse

\* A cancel that has read a stay is the only call about its room.
LEMMA ReadForCancelOrderly ==
  ASSUME TypeOK, RoomRead, RoomUnread, NEW c \in Call, ReadForCancel(c),
         NEW r \in Room, r \notin disturbed', Orderly(r)
  PROVE  Orderly(r)'
<1> USE DEF Orderly
<1>0. PICK q \in Request : q = call[c].stay
  BY DEF TypeOK
<1>1. /\ call[c].op = "cancel" /\ stays[q] # NoStay /\ ~stays[q].arrived
      /\ Step(c, "start", "delete", stays[q].room)
      /\ disturbed' = disturbed \cup Overlaps(c)
      /\ UNCHANGED <<roomStatus, stays>>
  BY <1>0 DEF ReadForCancel, tables
<1>2. /\ \A p \in Request : StayRoom(p)' = StayRoom(p) /\ InHouse(p)' = InHouse(p)
      /\ StayRoom(q) = stays[q].room
  BY <1>1, StaysKept DEF StayRoom
<1>3. /\ call[c].at = "start" /\ \A d \in Call \ {c} : call'[d] = call[d]
      /\ call'[c].op = "cancel" /\ call'[c].stay = q
      /\ call'[c].at = "delete" /\ call'[c].room = StayRoom(q)
  BY <1>0, <1>1, <1>2, StepFacts
<1>4. \A d \in Call \ {c} : RoomOf(d)' = RoomOf(d) /\ InProgress(d)' = InProgress(d)
  BY <1>2, <1>3, OthersKept
<1>5. ~InProgress(c) /\ RoomOf(c) = StayRoom(q) /\ RoomOf(c)' = StayRoom(q)
  <2>1. StayRoom(q) \in Room /\ StayRoom(q) # NoRoom
    BY <1>1, <1>2, FrontDeskAssumption DEF TypeOK, TablesTypeOK, Stay
  <2> QED
    BY <1>0, <1>3, <2>1 DEF InProgress, RoomOf, RoomUnread
<1>6. StayRoom(q) = r => \A d \in Call \ {c} : ~(InProgress(d) /\ RoomOf(d) = r)
  BY <1>1, <1>5 DEF Overlaps
<1>7. ReservedOnce(r)'
  BY <1>2 DEF ReservedOnce
<1>8. CallsFit(r)'
  BY <1>2, <1>3 DEF CallsFit, ReservedOnce
<1>9. OneCall(r)'
  BY <1>1, <1>2, <1>4, <1>5, <1>6 DEF OneCall, ReservedOnce
<1>10. GuestLeaves(r)'
  BY <1>2, <1>3, <1>4 DEF GuestLeaves
<1>11. GuestIn(r)'
  BY <1>1, <1>2, <1>3, <1>4 DEF GuestIn
<1> QED
  BY <1>7, <1>8, <1>9, <1>10, <1>11

\* A call that reads its stay again for the room was about that room before.
LEMMA FindRoomOrderly ==
  ASSUME TypeOK, RoomRead, RoomUnread, NEW c \in Call, FindRoom(c),
         NEW r \in Room, r \notin disturbed', Orderly(r)
  PROVE  Orderly(r)'
<1> USE DEF Orderly
<1>0. PICK q \in Request : q = call[c].stay
  BY DEF TypeOK
<1>1. UNCHANGED <<roomStatus, stays>>
  BY DEF FindRoom, tables
<1>2. \A p \in Request : StayRoom(p)' = StayRoom(p) /\ InHouse(p)' = InHouse(p)
  BY <1>1, StaysKept
<1>3. CASE stays[q] # NoStay /\ Step(c, "find", "room", stays[q].room)
  <2>1. /\ call[c].at = "find" /\ \A d \in Call \ {c} : call'[d] = call[d]
        /\ call'[c].op = call[c].op /\ call'[c].stay = q
        /\ call'[c].at = "room" /\ call'[c].room = StayRoom(q)
        /\ call[c].op # "cancel"
    BY <1>0, <1>3, StepFacts DEF RoomRead, StayRoom
  <2>2. \A d \in Call \ {c} : RoomOf(d)' = RoomOf(d) /\ InProgress(d)' = InProgress(d)
    BY <1>2, <2>1, OthersKept
  <2>3. InProgress(c) /\ InProgress(c)' /\ RoomOf(c) = StayRoom(q) /\ RoomOf(c)' = StayRoom(q)
    <3>1. StayRoom(q) \in Room /\ StayRoom(q) # NoRoom
      BY <1>3, FrontDeskAssumption DEF TypeOK, TablesTypeOK, Stay, StayRoom
    <3> QED
      BY <1>0, <2>1, <3>1 DEF InProgress, RoomOf, RoomUnread
  <2>4. \A d \in Call : RoomOf(d)' = RoomOf(d) /\ (InProgress(d)' <=> InProgress(d))
    BY <2>2, <2>3
  <2>5. \A d \in Call : call'[d].op = call[d].op /\ call'[d].stay = call[d].stay
    BY <1>0, <2>1
  <2>6. ReservedOnce(r)'
    BY <1>2 DEF ReservedOnce
  <2>7. CallsFit(r)'
    BY <1>2, <2>1 DEF CallsFit, ReservedOnce
  <2>8. OneCall(r)'
    BY <1>1, <1>2, <2>4 DEF OneCall
  <2>9. GuestLeaves(r)'
    BY <1>2, <2>4, <2>5 DEF GuestLeaves
  <2>10. GuestIn(r)'
    BY <1>1, <1>2, <2>4, <2>5 DEF GuestIn
  <2> QED
    BY <2>6, <2>7, <2>8, <2>9, <2>10
<1>4. CASE Step(c, "find", "done", call[c].room) /\ disturbed' = disturbed \cup ({StayRoom(q)} \cap Room)
  <2>1. /\ call[c].at = "find" /\ \A d \in Call \ {c} : call'[d] = call[d]
        /\ call'[c].op = call[c].op /\ call'[c].stay = q
        /\ call'[c].at = "done"
        /\ StayRoom(q) # r
    BY <1>0, <1>4, StepFacts
  <2>2. \A d \in Call \ {c} : RoomOf(d)' = RoomOf(d) /\ InProgress(d)' = InProgress(d)
    BY <1>2, <2>1, OthersKept
  <2>3. ~InProgress(c)'
    BY <2>1 DEF InProgress
  <2>4. \A d \in Call : call'[d].op = call[d].op /\ call'[d].stay = call[d].stay
    BY <1>0, <2>1
  <2>5. ReservedOnce(r)'
    BY <1>2 DEF ReservedOnce
  <2>6. CallsFit(r)'
    BY <1>2, <2>1 DEF CallsFit
  <2>7. OneCall(r)'
    BY <1>1, <1>2, <2>2, <2>3 DEF OneCall
  <2>8. GuestLeaves(r)'
    BY <1>2, <2>2, <2>3, <2>4 DEF GuestLeaves
  <2>9. GuestIn(r)'
    <3>1. ASSUME NEW p \in Request, InHouse(p), stays[p].room = r PROVE p # q
      BY <2>1, <3>1 DEF InHouse, StayRoom
    <3> QED
      BY <1>0, <1>1, <1>2, <2>1, <2>2, <2>4, <3>1 DEF GuestIn
  <2> QED
    BY <2>5, <2>6, <2>7, <2>8, <2>9
<1> QED
  BY <1>0, <1>3, <1>4 DEF FindRoom

\* A room is marked by a call about it: for the guest who is in it, or with nobody in it.
LEMMA MarkRoomOrderly ==
  ASSUME TypeOK, RoomRead, RoomUnread, NEW c \in Call, MarkRoom(c),
         NEW r \in Room, r \notin disturbed', Orderly(r)
  PROVE  Orderly(r)'
<1> USE DEF Orderly
<1>1. UNCHANGED stays
  BY DEF MarkRoom
<1>2. \A p \in Request : StayRoom(p)' = StayRoom(p) /\ InHouse(p)' = InHouse(p)
  BY <1>1, StaysKept
<1>3. /\ call[c].at = "room" /\ \A d \in Call \ {c} : call'[d] = call[d]
      /\ call'[c].op = call[c].op /\ call'[c].stay = call[c].stay
      /\ call'[c].at = "done" /\ call[c].room \in Room
      /\ call[c].op \in {"cancel", "checkin", "checkout"}
  BY StepFacts DEF MarkRoom, RoomRead
<1>4. \A d \in Call \ {c} : RoomOf(d)' = RoomOf(d) /\ InProgress(d)' = InProgress(d)
  BY <1>2, <1>3, OthersKept
<1>5. ~InProgress(c)' /\ InProgress(c) /\ RoomOf(c) = call[c].room
  BY <1>3, FrontDeskAssumption DEF InProgress, RoomOf
<1>6. \A d \in Call : call'[d].op = call[d].op /\ call'[d].stay = call[d].stay
  BY <1>3
<1>7. ReservedOnce(r)'
  BY <1>2 DEF ReservedOnce
<1>8. CallsFit(r)'
  BY <1>2, <1>3 DEF CallsFit
<1>9. OneCall(r)'
  BY <1>1, <1>2, <1>4, <1>5 DEF OneCall
<1>10. GuestLeaves(r)'
  BY <1>2, <1>4, <1>5, <1>6 DEF GuestLeaves
<1>11. GuestIn(r)'
  <2>1. CASE call[c].room # r
    <3>1. roomStatus'[r] = roomStatus[r]
      BY <2>1 DEF MarkRoom, UpdateRoomStatus, TypeOK, TablesTypeOK
    <3> QED
      BY <1>1, <1>2, <1>4, <1>5, <1>6, <2>1, <3>1 DEF GuestIn
  <2>2. CASE call[c].room = r
    <3>1. roomStatus'[r] = NewStatus(call[c].op)
      BY <2>2 DEF MarkRoom, UpdateRoomStatus, TypeOK, TablesTypeOK
    <3>2. ASSUME NEW q \in Request, InHouse(q), stays[q].room = r PROVE call[c].op = "checkin"
      <4>1. StayRoom(q) = r
        BY <3>2 DEF InHouse, StayRoom
      <4>2. q = call[c].stay /\ call[c].op # "cancel"
        BY <1>3, <2>2, <4>1 DEF CallsFit
      <4>3. call[c].op # "checkout"
        BY <1>5, <2>2, <3>2, <4>1, <4>2 DEF GuestLeaves
      <4> QED
        BY <1>3, <4>2, <4>3
    <3> QED
      BY <1>1, <1>2, <3>1, <3>2 DEF GuestIn, NewStatus
  <2> QED
    BY <2>1, <2>2
<1> QED
  BY <1>7, <1>8, <1>9, <1>10, <1>11

\* Staff set the status of a room with nobody in it, or disturb the room.
LEMMA SetStatusOrderly ==
  ASSUME TypeOK, NEW c \in Call, SetStatus(c),
         NEW r \in Room, r \notin disturbed', Orderly(r)
  PROVE  Orderly(r)'
<1> USE DEF Orderly
<1>1. PICK t \in Room, status \in RoomStatus :
         /\ Step(c, "start", "done", t)
         /\ UpdateRoomStatus(t, status)
         /\ disturbed' = IF \E q \in Request : StayRoom(q) = t
                         THEN disturbed \cup {t} ELSE disturbed
         /\ UNCHANGED stays
  BY DEF SetStatus
<1>2. \A p \in Request : StayRoom(p)' = StayRoom(p) /\ InHouse(p)' = InHouse(p)
  BY <1>1, StaysKept
<1>3. /\ call[c].at = "start" /\ \A d \in Call \ {c} : call'[d] = call[d]
      /\ call'[c].op = call[c].op /\ call'[c].stay = call[c].stay
      /\ call'[c].at = "done"
  BY <1>1, StepFacts
<1>4. \A d \in Call \ {c} : RoomOf(d)' = RoomOf(d) /\ InProgress(d)' = InProgress(d)
  BY <1>2, <1>3, OthersKept
<1>5. ~InProgress(c)' /\ ~InProgress(c)
  BY <1>3 DEF InProgress
<1>6. \A d \in Call : call'[d].op = call[d].op /\ call'[d].stay = call[d].stay
  BY <1>3
<1>7. ReservedOnce(r)'
  BY <1>2 DEF ReservedOnce
<1>8. CallsFit(r)'
  BY <1>2, <1>3 DEF CallsFit
<1>9. OneCall(r)'
  BY <1>1, <1>2, <1>4, <1>5 DEF OneCall
<1>10. GuestLeaves(r)'
  BY <1>2, <1>4, <1>5, <1>6 DEF GuestLeaves
<1>11. GuestIn(r)'
  <2> SUFFICES ASSUME NEW q \in Request, InHouse(q), stays[q].room = r
               PROVE  \/ roomStatus'[r] = "occupied"
                      \/ \E d \in Call : /\ (call[d].op = "checkin")' /\ call'[d].stay = q
                                         /\ InProgress(d)' /\ RoomOf(d)' = r
    BY <1>1, <1>2 DEF GuestIn
  <2>1. StayRoom(q) = r /\ t # r
    BY <1>1 DEF InHouse, StayRoom
  <2>2. roomStatus'[r] = roomStatus[r]
    BY <1>1, <2>1 DEF UpdateRoomStatus, TypeOK, TablesTypeOK
  <2> QED
    BY <1>4, <1>5, <1>6, <2>2 DEF GuestIn
<1> QED
  BY <1>7, <1>8, <1>9, <1>10, <1>11

\* A call that ends with an error was not the one to mark the room.
LEMMA FailsOrderly ==
  ASSUME TypeOK, RoomUnread, NEW c \in Call, Fails(c),
         NEW r \in Room, r \notin disturbed', Orderly(r)
  PROVE  Orderly(r)'
<1> USE DEF Orderly
<1>1. UNCHANGED <<stays, roomStatus>>
  BY DEF Fails, tables
<1>2. \A p \in Request : StayRoom(p)' = StayRoom(p) /\ InHouse(p)' = InHouse(p)
  BY <1>1, StaysKept
<1>3. /\ call[c].at \in {"start", "delete"} /\ \A d \in Call \ {c} : call'[d] = call[d]
      /\ call'[c].op = call[c].op /\ call'[c].stay = call[c].stay
      /\ call'[c].at = "done"
  BY StepFacts DEF Fails
<1>4. \A d \in Call \ {c} : RoomOf(d)' = RoomOf(d) /\ InProgress(d)' = InProgress(d)
  BY <1>2, <1>3, OthersKept
<1>5. ~InProgress(c)' /\ ~(call[c].op = "checkin" /\ InProgress(c))
  BY <1>3 DEF InProgress, RoomUnread
<1>6. \A d \in Call : call'[d].op = call[d].op /\ call'[d].stay = call[d].stay
  BY <1>3
<1>7. ReservedOnce(r)'
  BY <1>2 DEF ReservedOnce
<1>8. CallsFit(r)'
  BY <1>2, <1>3 DEF CallsFit
<1>9. OneCall(r)'
  BY <1>1, <1>2, <1>4, <1>5 DEF OneCall
<1>10. GuestLeaves(r)'
  BY <1>2, <1>4, <1>5, <1>6 DEF GuestLeaves
<1>11. GuestIn(r)'
  BY <1>1, <1>2, <1>4, <1>5, <1>6 DEF GuestIn
<1> QED
  BY <1>7, <1>8, <1>9, <1>10, <1>11

\* A stamp leaves the rooms of the stays alone, and finds no other call about its room.
LEMMA StampFacts ==
  ASSUME TypeOK, RoomUnread, NEW c \in Call, StampArrival(c) \/ StampDeparture(c),
         NEW q \in Request, q = call[c].stay, NEW r \in Room, r \notin disturbed'
  PROVE  /\ \A p \in Request : StayRoom(p)' = StayRoom(p)
         /\ \A p \in Request \ {q} : stays'[p] = stays[p] /\ InHouse(p)' = InHouse(p)
         /\ roomStatus' = roomStatus
         /\ \A d \in Call \ {c} :
              call'[d] = call[d] /\ RoomOf(d)' = RoomOf(d) /\ InProgress(d)' = InProgress(d)
         /\ call'[c].op = call[c].op /\ call'[c].stay = q
         /\ call'[c].at = "find" /\ call[c].at = "start"
         /\ ~InProgress(c) /\ InProgress(c)' /\ RoomOf(c)' = StayRoom(q)
         /\ \A d \in Call \ {c} : StayRoom(q) = r /\ InProgress(d) => RoomOf(d) # r
<1>1. /\ Step(c, "start", "find", call[c].room)
      /\ disturbed' = disturbed \cup Overlaps(c)
      /\ roomStatus' = roomStatus
  BY DEF StampArrival, StampDeparture, Stamp
<1>2. /\ \A p \in Request \ {q} : stays'[p] = stays[p]
      /\ stays[q] = NoStay => stays'[q] = NoStay
      /\ stays[q] # NoStay => stays'[q] # NoStay /\ stays'[q].room = stays[q].room
  <2>1. PICK n : /\ stays' = [stays EXCEPT ![q] = IF @ = NoStay THEN NoStay ELSE n]
                 /\ n = [stays[q] EXCEPT !.arrived = TRUE] \/ n = [stays[q] EXCEPT !.left = TRUE]
    BY DEF StampArrival, StampDeparture, Stamp
  <2>2. stays[q] # NoStay => n \in Stay /\ n.room = stays[q].room
    BY <2>1 DEF TypeOK, TablesTypeOK, Stay
  <2> QED
    BY <2>1, <2>2, SentinelAssumption DEF TypeOK, TablesTypeOK
<1>3. \A p \in Request : StayRoom(p)' = StayRoom(p)
  BY <1>2 DEF StayRoom
<1>4. \A p \in Request \ {q} : InHouse(p)' = InHouse(p)
  BY <1>2 DEF InHouse
<1>5. /\ call[c].at = "start" /\ \A d \in Call \ {c} : call'[d] = call[d]
      /\ call'[c].op = call[c].op /\ call'[c].stay = q
      /\ call'[c].at = "find" /\ call'[c].room = call[c].room
  BY <1>1, StepFacts
<1>6. \A d \in Call \ {c} : RoomOf(d)' = RoomOf(d) /\ InProgress(d)' = InProgress(d)
  BY <1>3, <1>5, OthersKept
<1>7. ~InProgress(c) /\ InProgress(c)'
  BY <1>5 DEF InProgress
<1>8. RoomOf(c) = StayRoom(q) /\ RoomOf(c)' = StayRoom(q)
  <2>1. RoomOf(c) = StayRoom(q)
    BY <1>5 DEF RoomOf, RoomUnread
  <2>2. RoomOf(c)' = StayRoom(q)'
    BY <1>5 DEF RoomOf, RoomUnread, StayRoom
  <2> QED
    BY <1>3, <2>1, <2>2
<1>9. \A d \in Call \ {c} : StayRoom(q) = r /\ InProgress(d) => RoomOf(d) # r
  BY <1>1, <1>8 DEF Overlaps
<1> QED
  BY <1>1, <1>2, <1>3, <1>4, <1>5, <1>6, <1>7, <1>8, <1>9

\* A guest who arrives is the only one about whose room there is a call, which will mark it.
LEMMA StampArrivalOrderly ==
  ASSUME TypeOK, RoomUnread, NEW c \in Call, StampArrival(c),
         NEW r \in Room, r \notin disturbed', Orderly(r)
  PROVE  Orderly(r)'
<1> USE DEF Orderly
<1>0. PICK q \in Request : q = call[c].stay
  BY DEF TypeOK
<1>1. /\ \A p \in Request : StayRoom(p)' = StayRoom(p)
      /\ \A p \in Request \ {q} : stays'[p] = stays[p] /\ InHouse(p)' = InHouse(p)
      /\ roomStatus' = roomStatus
      /\ \A d \in Call \ {c} :
           call'[d] = call[d] /\ RoomOf(d)' = RoomOf(d) /\ InProgress(d)' = InProgress(d)
      /\ call'[c].op = call[c].op /\ call'[c].stay = q
      /\ call'[c].at = "find" /\ call[c].at = "start"
      /\ ~InProgress(c) /\ InProgress(c)' /\ RoomOf(c)' = StayRoom(q)
      /\ \A d \in Call \ {c} : StayRoom(q) = r /\ InProgress(d) => RoomOf(d) # r
  BY <1>0, StampFacts
<1>2. call[c].op = "checkin"
  BY DEF StampArrival, Stamp
<1>3. ReservedOnce(r)'
  BY <1>1 DEF ReservedOnce
<1>4. CallsFit(r)'
  BY <1>1 DEF CallsFit
<1>5. OneCall(r)'
  BY <1>1 DEF OneCall, ReservedOnce
<1>6. GuestLeaves(r)'
  BY <1>1, <1>2 DEF GuestLeaves
<1>7. GuestIn(r)'
  <2>1. ASSUME NEW p \in Request, InHouse(p)', (stays[p].room = r)', p = q
        PROVE  InProgress(c)' /\ RoomOf(c)' = r
    <3>1. StayRoom(q)' = r
      BY <2>1 DEF InHouse, StayRoom
    <3> QED
      BY <1>1, <3>1
  <2> QED
    BY <1>1, <1>2, <2>1 DEF GuestIn
<1> QED
  BY <1>3, <1>4, <1>5, <1>6, <1>7

\* A guest who leaves is not in the house, whoever marks the room.
LEMMA StampDepartureOrderly ==
  ASSUME TypeOK, RoomUnread, NEW c \in Call, StampDeparture(c),
         NEW r \in Room, r \notin disturbed', Orderly(r)
  PROVE  Orderly(r)'
<1> USE DEF Orderly
<1>0. PICK q \in Request : q = call[c].stay
  BY DEF TypeOK
<1>1. /\ \A p \in Request : StayRoom(p)' = StayRoom(p)
      /\ \A p \in Request \ {q} : stays'[p] = stays[p] /\ InHouse(p)' = InHouse(p)
      /\ roomStatus' = roomStatus
      /\ \A d \in Call \ {c} :
           call'[d] = call[d] /\ RoomOf(d)' = RoomOf(d) /\ InProgress(d)' = InProgress(d)
      /\ call'[c].op = call[c].op /\ call'[c].stay = q
      /\ call'[c].at = "find" /\ call[c].at = "start"
      /\ ~InProgress(c) /\ InProgress(c)' /\ RoomOf(c)' = StayRoom(q)
      /\ \A d \in Call \ {c} : StayRoom(q) = r /\ InProgress(d) => RoomOf(d) # r
  BY <1>0, StampFacts
<1>2. ~InHouse(q)'
  <2>1. stays'[q] = IF stays[q] = NoStay THEN NoStay ELSE [stays[q] EXCEPT !.left = TRUE]
    BY <1>0 DEF StampDeparture, Stamp, TypeOK, TablesTypeOK
  <2> QED
    BY <2>1 DEF InHouse, TypeOK, TablesTypeOK, Stay
<1>3. ReservedOnce(r)'
  BY <1>1 DEF ReservedOnce
<1>4. CallsFit(r)'
  BY <1>1 DEF CallsFit
<1>5. OneCall(r)'
  BY <1>1 DEF OneCall, ReservedOnce
<1>6. GuestLeaves(r)'
  BY <1>1, <1>2 DEF GuestLeaves
<1>7. GuestIn(r)'
  BY <1>1, <1>2 DEF GuestIn
<1> QED
  BY <1>3, <1>4, <1>5, <1>6, <1>7

\* Once its stay is deleted a cancel is about a room with nobody in it.
LEMMA CancelStayOrderly ==
  ASSUME TypeOK, RoomRead, RoomUnread, NEW c \in Call, CancelStay(c),
         NEW r \in Room, r \notin disturbed', Orderly(r)
  PROVE  Orderly(r)'
<1> USE DEF Orderly
<1>0. PICK q \in Request : q = call[c].stay
  BY DEF TypeOK
<1>1. /\ call[c].op = "cancel" /\ Step(c, "delete", "room", call[c].room)
      /\ stays' = [stays EXCEPT ![q] = NoStay] /\ UNCHANGED <<roomStatus, disturbed>>
  BY <1>0 DEF CancelStay, DeleteStay
<1>2. /\ \A p \in Request \ {q} : stays'[p] = stays[p]
      /\ \A p \in Request \ {q} : StayRoom(p)' = StayRoom(p) /\ InHouse(p)' = InHouse(p)
      /\ ~InHouse(q)' /\ StayRoom(q)' = NoRoom
  <2>1. stays'[q] = NoStay /\ \A p \in Request \ {q} : stays'[p] = stays[p]
    BY <1>1 DEF TypeOK, TablesTypeOK
  <2> QED
    BY <2>1 DEF StayRoom, InHouse
<1>3. /\ call[c].at = "delete" /\ \A d \in Call \ {c} : call'[d] = call[d]
      /\ call'[c].op = "cancel" /\ call'[c].stay = q
      /\ call'[c].at = "room" /\ call'[c].room = call[c].room /\ call[c].room \in Room
  BY <1>0, <1>1, StepFacts DEF RoomRead
<1>4. \A d \in Call : InProgress(d)' <=> InProgress(d)
  BY <1>3 DEF InProgress
<1>5. \A d \in Call : \/ RoomOf(d)' = RoomOf(d)
                      \/ call[d].stay = q /\ RoomOf(d)' = NoRoom
  <2> SUFFICES ASSUME NEW d \in Call
               PROVE  RoomOf(d)' = RoomOf(d) \/ (call[d].stay = q /\ RoomOf(d)' = NoRoom)
    OBVIOUS
  <2>1. PICK p \in Request : p = call[d].stay /\ p = call'[d].stay /\ call'[d].room = call[d].room
    BY <1>0, <1>3 DEF TypeOK
  <2>2. CASE call[d].room # NoRoom
    BY <2>1, <2>2 DEF RoomOf
  <2>3. CASE call[d].room = NoRoom
    <3>1. RoomOf(d) = StayRoom(p) /\ RoomOf(d)' = StayRoom(p)'
      BY <2>1, <2>3 DEF RoomOf, StayRoom
    <3> QED
      BY <1>2, <2>1, <3>1
  <2> QED
    BY <2>2, <2>3
<1>6. \A d \in Call : call'[d].op = call[d].op /\ call'[d].stay = call[d].stay
  BY <1>0, <1>1, <1>3
<1>7. ReservedOnce(r)'
  BY <1>2, FrontDeskAssumption DEF ReservedOnce
<1>8. CallsFit(r)'
  BY <1>0, <1>2, <1>3, FrontDeskAssumption DEF CallsFit
<1>9. OneCall(r)'
  BY <1>2, <1>4, <1>5, FrontDeskAssumption DEF OneCall
<1>10. GuestLeaves(r)'
  BY <1>2, <1>4, <1>5, <1>6, FrontDeskAssumption DEF GuestLeaves
<1>11. GuestIn(r)'
  BY <1>1, <1>2, <1>4, <1>5, <1>6, FrontDeskAssumption DEF GuestIn
<1> QED
  BY <1>7, <1>8, <1>9, <1>10, <1>11

\* A cancel stays justified, whatever the other calls do.
LEMMA CancelPreserved == TypeOK /\ RoomRead /\ CancelFresh /\ [Next]_vars => CancelFresh'
<1> SUFFICES ASSUME TypeOK, RoomRead, CancelFresh, [Next]_vars PROVE CancelFresh'
  OBVIOUS
<1> USE DEF TypeOK, TablesTypeOK, CancelFresh
<1>1. CASE UNCHANGED vars
  BY <1>1 DEF vars, tables
<1>2. ASSUME NEW c \in Call, Serve(c) PROVE CancelFresh'
  <2>1. CASE Create(c)
    BY <2>1 DEF Create, CreateStay, Step
  <2>2. CASE ReadForCancel(c)
    BY <2>2 DEF ReadForCancel, Step, tables
  <2>3. CASE CancelStay(c)
    BY <2>3 DEF CancelStay, DeleteStay, Step
  <2>4. CASE StampArrival(c)
    BY <2>4 DEF StampArrival, Stamp, Step
  <2>5. CASE StampDeparture(c)
    BY <2>5 DEF StampDeparture, Stamp, Step, Stay
  <2>6. CASE FindRoom(c) \/ MarkRoom(c) \/ SetStatus(c) \/ Fails(c)
    BY <2>6 DEF FindRoom, MarkRoom, SetStatus, Fails, Step, tables
  <2> QED
    BY <1>2, <2>1, <2>2, <2>3, <2>4, <2>5, <2>6 DEF Serve
<1> QED
  BY <1>1, <1>2 DEF Next, Idle

\* A room nobody has disturbed stays in order.
LEMMA OrderPreserved ==
  TypeOK /\ RoomRead /\ RoomUnread /\ UndisturbedOrderly /\ [Next]_vars
  => RoomUnread' /\ UndisturbedOrderly'
<1> SUFFICES ASSUME TypeOK, RoomRead, RoomUnread, UndisturbedOrderly, [Next]_vars
             PROVE  RoomUnread' /\ UndisturbedOrderly'
  OBVIOUS
<1>1. CASE UNCHANGED vars
  <2>1. RoomUnread'
    BY <1>1 DEF vars, RoomUnread
  <2>2. ASSUME NEW r \in Room, Orderly(r) PROVE Orderly(r)'
    BY <1>1, <2>2 DEF vars, tables, Orderly, ReservedOnce, CallsFit, OneCall, GuestLeaves, GuestIn,
                      StayRoom, RoomOf, InProgress, InHouse
  <2> QED
    BY <1>1, <2>1, <2>2 DEF vars, UndisturbedOrderly
<1>2. ASSUME NEW c \in Call, Serve(c) PROVE RoomUnread' /\ UndisturbedOrderly'
  <2>1. ASSUME NEW r \in Room, r \notin disturbed' PROVE Orderly(r)'
    <3>1. Orderly(r)
      BY <1>2, <2>1, DisturbedGrows DEF UndisturbedOrderly
    <3> QED
      BY <1>2, <2>1, <3>1, CreateOrderly, ReadForCancelOrderly, CancelStayOrderly, StampArrivalOrderly,
         StampDepartureOrderly, FindRoomOrderly, MarkRoomOrderly, SetStatusOrderly, FailsOrderly
         DEF Serve
  <2> QED
    BY <1>2, <2>1, UnreadPreserved DEF UndisturbedOrderly
<1> QED
  BY <1>1, <1>2 DEF Next, Idle

\* The inductive invariant holds of every behaviour.
THEOREM Invariant == Spec => []IInv
<1>1. IInv /\ [Next]_vars => IInv'
  BY TypePreserved, CancelPreserved, OrderPreserved DEF IInv
<1> QED
  BY InitInvariant, <1>1, PTL DEF Spec

\* The tables and the calls keep their types.
THEOREM TypeCorrect == Spec => []TypeOK
<1>1. IInv => TypeOK
  BY DEF IInv
<1> QED
  BY Invariant, <1>1, PTL

\* Once the desk is done with it, the room of a guest in the house is occupied, unless it
\* was disturbed, for any number of rooms, stays and calls.
THEOREM InHouseRoomsOccupied == Spec => []InHouseIsOccupied
<1>1. IInv => InHouseIsOccupied
  <2> SUFFICES ASSUME IInv, NEW q \in Request, InHouse(q), stays[q].room \notin disturbed,
                      \A c \in Call : ~(InProgress(c) /\ call[c].stay = q)
               PROVE  roomStatus[stays[q].room] = "occupied"
    BY DEF InHouseIsOccupied
  <2>1. stays[q].room \in Room
    BY DEF IInv, TypeOK, TablesTypeOK, InHouse, Stay
  <2>2. GuestIn(stays[q].room)
    BY <2>1 DEF IInv, UndisturbedOrderly, Orderly
  <2> QED
    BY <2>2 DEF GuestIn
<1> QED
  BY Invariant, <1>1, PTL

\* However the desk's calls interleave, a guest who has arrived loses the stay only to a
\* cancel that read it before the check-in.
THEOREM ArrivalsLostToRaces == Spec => ArrivalsSurvive
<1> DEFINE Kept == \A q \in Request :
         stays[q] # NoStay /\ stays[q].arrived /\ stays'[q] = NoStay => q \in checkedIn
<1>1. IInv /\ [Next]_vars => [Kept]_vars
  <2> SUFFICES ASSUME IInv, Next,
                      NEW q \in Request, stays[q] # NoStay, stays[q].arrived, stays'[q] = NoStay
               PROVE  q \in checkedIn
    OBVIOUS
  <2> USE DEF IInv, TypeOK, TablesTypeOK
  <2>1. stays[q] \in Stay /\ NoStay \notin Stay
    BY SentinelAssumption
  <2>2. PICK c \in Call : Serve(c)
    BY <2>1 DEF Next, Idle, vars, tables
  <2>3. CASE CancelStay(c)
    <3>1. call[c].op = "cancel" /\ call[c].at = "delete" /\ call[c].stay = q
      BY <2>1, <2>3 DEF CancelStay, DeleteStay, Step
    <3> QED
      BY <2>1, <3>1 DEF CancelFresh
  <2>4. CASE Create(c)
    <3>1. \A r \in Room : [room |-> r, arrived |-> FALSE, left |-> FALSE] \in Stay
      BY DEF Stay
    <3> QED
      BY <2>1, <2>4, <3>1 DEF Create, CreateStay
  <2>5. CASE StampArrival(c) \/ StampDeparture(c)
    <3>1. /\ \A s \in Stay : [s EXCEPT !.arrived = TRUE] \in Stay
          /\ \A s \in Stay : [s EXCEPT !.left = TRUE] \in Stay
      BY DEF Stay
    <3> QED
      BY <2>1, <2>5, <3>1 DEF StampArrival, StampDeparture, Stamp
  <2>6. CASE ReadForCancel(c) \/ FindRoom(c) \/ MarkRoom(c) \/ SetStatus(c) \/ Fails(c)
    BY <2>1, <2>6 DEF ReadForCancel, FindRoom, MarkRoom, SetStatus, Fails, tables
  <2> QED
    BY <2>2, <2>3, <2>4, <2>5, <2>6 DEF Serve
<1> QED
  BY Invariant, <1>1, PTL DEF Spec, ArrivalsSurvive

=============================================================================
