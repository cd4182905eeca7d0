----------------------------- MODULE FrontDesk -----------------------------
(***************************************************************************)
(* The reservation desk (ReservationHandler: Create, Cancel, CheckIn,      *)
(* CheckOut) and the room status route staff use, on the tables of         *)
(* HotelTables.  A stay is named by a member of Request.                   *)
(*                                                                         *)
(* Check-in, check-out and cancel each write the stay and then the room,   *)
(* in separate statements, and take no lock; cancel decides on a row it    *)
(* has read before.  Update changes names, dates and notes only, which     *)
(* nothing here reads; the e-mails and messages sent are not modelled.     *)
(***************************************************************************)
EXTENDS HotelTables

CONSTANTS
    Call,       \* requests to the desk
    Op,         \* the desk endpoints in use
    NoRoom      \* call that has not read a stay

ASSUME FrontDeskAssumption ==
    /\ Op \subseteq {"create", "cancel", "checkin", "checkout", "status"}
    /\ NoRoom \notin Room

VARIABLES
    call,       \* [op, stay, room, at]: each call, the room it has read, its next step

    \* History variables: no guard reads them.
    checkedIn,  \* stays stamped as arrived after the last cancel that read them
    disturbed   \* rooms whose calls overlapped, were shared, lost a write, or were set by staff

vars == <<tables, call, checkedIn, disturbed>>

At == {"start", "find", "delete", "room", "done"}

TypeOK ==
    /\ TablesTypeOK
    /\ call \in [Call -> [op : Op, stay : Request, room : Room \cup {NoRoom}, at : At]]
    /\ checkedIn \subseteq Request
    /\ disturbed \subseteq Room

Init ==
    /\ roomStatus = [r \in Room |-> "available"]
    /\ stays = [q \in Request |-> NoStay]
    /\ payments = [q \in Request |-> NoPayment]
    /\ call \in [Call -> [op : Op, stay : Request, room : {NoRoom}, at : {"start"}]]
    /\ checkedIn = {}
    /\ disturbed = {}

-----------------------------------------------------------------------------

StayRoom(q) == IF stays[q] = NoStay THEN NoRoom ELSE stays[q].room

\* The room a call is about: as read, or the one of its stay.
RoomOf(c) == IF call[c].room # NoRoom THEN call[c].room ELSE StayRoom(call[c].stay)

InProgress(c) == call[c].at \notin {"start", "done"}

\* Starting c disturbs its room if another call on it is in progress.
Overlaps(c) == {RoomOf(d) : d \in {d \in Call \ {c} : InProgress(d) /\ RoomOf(d) = RoomOf(c)}}
               \cap Room

Step(c, from, to, room) ==
    /\ call[c].at = from
    /\ call' = [call EXCEPT ![c].at = to, ![c].room = room]

\* Any error return: no such stay, the stay is checked in, the database fails.
Fails(c) ==
    /\ call[c].at \in {"start", "delete"}
    /\ Step(c, call[c].at, "done", call[c].room)
    /\ UNCHANGED <<tables, checkedIn, disturbed>>

\* Create looks at neither the status of the room nor its other stays, and does not
\* mark the room.
Create(c) ==
    LET q == call[c].stay
    IN  /\ call[c].op = "create"
        /\ stays[q] = NoStay
        /\ \E r \in Room :
             /\ Step(c, "start", "done", r)
             /\ CreateStay(q, r)
             /\ disturbed' = IF \/ \E p \in Request \ {q} : StayRoom(p) = r
                                \/ \E d \in Call \ {c} : InProgress(d) /\ RoomOf(d) = r
                             THEN disturbed \cup {r} ELSE disturbed
        /\ UNCHANGED <<roomStatus, payments, checkedIn>>

\* Mutant: a cancel does not look whether the guest has arrived.
ReadForCancelUnchecked(c) ==
    LET q == call[c].stay
    IN  /\ call[c].op = "cancel"
        /\ stays[q] # NoStay
        /\ Step(c, "start", "delete", stays[q].room)
        /\ checkedIn' = checkedIn \ {q}
        /\ disturbed' = disturbed \cup Overlaps(c)
        /\ UNCHANGED tables

\* "cannot cancel checked-in reservation"
ReadForCancel(c) ==
    LET q == call[c].stay
    IN  /\ call[c].op = "cancel"
        /\ stays[q] # NoStay
        /\ ~stays[q].arrived
        /\ Step(c, "start", "delete", stays[q].room)
        /\ checkedIn' = checkedIn \ {q}
        /\ disturbed' = disturbed \cup Overlaps(c)
        /\ UNCHANGED tables

CancelStay(c) ==
    /\ call[c].op = "cancel"
    /\ Step(c, "delete", "room", call[c].room)
    /\ DeleteStay(call[c].stay)
    /\ UNCHANGED <<roomStatus, checkedIn, disturbed>>

\* UpdateStay on a stay that is gone updates no row and reports no error.
Stamp(c, op, stamped) ==
    LET q == call[c].stay
    IN  /\ call[c].op = op
        /\ Step(c, "start", "find", call[c].room)
        /\ stays' = [stays EXCEPT ![q] = IF @ = NoStay THEN NoStay ELSE stamped]
        /\ disturbed' = disturbed \cup Overlaps(c)
        /\ UNCHANGED <<roomStatus, payments>>

StampArrival(c) ==
    /\ Stamp(c, "checkin", [stays[call[c].stay] EXCEPT !.arrived = TRUE])
    /\ checkedIn' = checkedIn \cup {call[c].stay}

\* A check-out needs no check-in.
StampDeparture(c) ==
    /\ Stamp(c, "checkout", [stays[call[c].stay] EXCEPT !.left = TRUE])
    /\ UNCHANGED checkedIn

\* Mutant: the room is marked although the stay is gone.
FindRoomUnchecked(c) ==
    /\ Step(c, "find", "room", StayRoom(call[c].stay))
    /\ UNCHANGED <<tables, checkedIn, disturbed>>

\* The stay is read again for its room; without one the room is left alone.
FindRoom(c) ==
    /\ \/ /\ stays[call[c].stay] # NoStay
          /\ Step(c, "find", "room", stays[call[c].stay].room)
          /\ UNCHANGED disturbed
       \/ /\ Step(c, "find", "done", call[c].room)
          /\ disturbed' = disturbed \cup ({StayRoom(call[c].stay)} \cap Room)
    /\ UNCHANGED <<tables, checkedIn>>

\* Mutant: arrival and departure are taken for one another.
NewStatusSwapped(op) ==
    CASE op = "cancel" -> "available" [] op = "checkin" -> "cleaning" [] op = "checkout" -> "occupied"

NewStatus(op) ==
    CASE op = "cancel" -> "available" [] op = "checkin" -> "occupied" [] op = "checkout" -> "cleaning"

\* The result of UpdateRoomStatus is discarded.
MarkRoom(c) ==
    /\ Step(c, "room", "done", call[c].room)
    /\ \/ UpdateRoomStatus(call[c].room, NewStatus(call[c].op)) /\ UNCHANGED disturbed
       \/ UNCHANGED roomStatus /\ disturbed' = disturbed \cup {call[c].room}
    /\ UNCHANGED <<stays, payments, checkedIn>>

\* PATCH /rooms/:id/status: any status, whoever is in the room.
SetStatus(c) ==
    /\ call[c].op = "status"
    /\ \E r \in Room, s \in RoomStatus :
         /\ Step(c, "start", "done", r)
         /\ UpdateRoomStatus(r, s)
         /\ disturbed' = IF \E q \in Request : StayRoom(q) = r
                         THEN disturbed \cup {r} ELSE disturbed
    /\ UNCHANGED <<stays, payments, checkedIn>>

Serve(c) ==
    \/ Create(c) \/ ReadForCancel(c) \/ CancelStay(c) \/ StampArrival(c) \/ StampDeparture(c)
    \/ FindRoom(c) \/ MarkRoom(c) \/ SetStatus(c) \/ Fails(c)

Idle == (\A c \in Call : call[c].at = "done") /\ UNCHANGED vars

Next == (\E c \in Call : Serve(c)) \/ Idle

Spec == Init /\ [][Next]_vars

-----------------------------------------------------------------------------
(* Properties.                                                             *)

\* deriveReservationStatus: "in_house"
InHouse(q) == stays[q] # NoStay /\ stays[q].arrived /\ ~stays[q].left

\* A guest who has checked in loses the stay only to a cancel that read it before the
\* check-in.
ArrivalsSurvive ==
    [][\A q \in Request :
         stays[q] # NoStay /\ stays[q].arrived /\ stays'[q] = NoStay => q \in checkedIn]_vars

\* Once the desk is done with it, the room of a guest in the house is occupied, unless
\* calls on it overlapped, a write was lost, it was set by staff, or it was reserved a
\* second time: the desk reserves a room whatever its other stays, and the cancel of
\* one of two reservations frees the room of the other.
InHouseIsOccupied ==
    \A q \in Request :
        InHouse(q) /\ stays[q].room \notin disturbed
            /\ (\A c \in Call : ~(InProgress(c) /\ call[c].stay = q))
        => roomStatus[stays[q].room] = "occupied"

\* The inductive invariant behind ArrivalsSurvive: what a cancel is about to delete has
\* not arrived, or arrived after the cancel had read it.
CancelFresh ==
    \A c \in Call :
        LET q == call[c].stay
        IN  call[c].op = "cancel" /\ call[c].at = "delete"
            => stays[q] = NoStay \/ ~stays[q].arrived \/ q \in checkedIn

=============================================================================
