---------------------------- MODULE HotelTables ----------------------------
(***************************************************************************)
(* The three tables every reservation flow writes: rooms, guest_stays and  *)
(* payments, and the repository calls that write them.  Each repository    *)
(* method is one SQL statement on an autocommit pool, so each is one       *)
(* atomic step; nothing in the services groups several of them into a      *)
(* transaction.                                                            *)
(*                                                                         *)
(* A row is named by the request that inserts it: uuid.New() never repeats *)
(* and a request inserts at most one stay and one payment.                 *)
(***************************************************************************)

CONSTANTS
    Room,       \* rooms of the hotel
    Request,    \* HTTP requests; also the identities of the rows they insert
    NoStay,     \* NULL guest_stay_id, and the absent stay row
    NoPayment,  \* the absent payment row
    NoOrder     \* no gateway order recorded in the notes of a payment

VARIABLES
    roomStatus, \* rooms.status
    stays,      \* guest_stays rows, NoStay where there is none
    payments    \* payments rows, NoPayment where there is none

tables == <<roomStatus, stays, payments>>

RoomStatus == {"available", "occupied", "cleaning", "maintenance"}

Stay == [room : Room, arrived : BOOLEAN, left : BOOLEAN]

Payment == [stay : Request \cup {NoStay}, order : Request \cup {NoOrder}]

ASSUME SentinelAssumption ==
    /\ NoStay \notin Request \cup Stay
    /\ NoPayment \notin Payment
    /\ NoOrder \notin Request

TablesTypeOK ==
    /\ roomStatus \in [Room -> RoomStatus]
    /\ stays \in [Request -> Stay \cup {NoStay}]
    /\ payments \in [Request -> Payment \cup {NoPayment}]

-----------------------------------------------------------------------------

UpdateRoomStatus(r, status) == roomStatus' = [roomStatus EXCEPT ![r] = status]

CreateStay(q, r) ==
    stays' = [stays EXCEPT ![q] = [room |-> r, arrived |-> FALSE, left |-> FALSE]]

\* payments.guest_stay_id REFERENCES guest_stays(id) ON DELETE SET NULL
DeleteStay(q) ==
    /\ stays' = [stays EXCEPT ![q] = NoStay]
    /\ payments' = [p \in Request |->
                      IF payments[p] # NoPayment /\ payments[p].stay = q
                      THEN [payments[p] EXCEPT !.stay = NoStay]
                      ELSE payments[p]]

CreatePayment(q, s) ==
    payments' = [payments EXCEPT ![q] = [stay |-> s, order |-> NoOrder]]

\* UPDATE ... WHERE id = $5: a row deleted meanwhile is silently not updated.
NoteOrder(q, o) ==
    payments' = [payments EXCEPT
                   ![q] = IF @ = NoPayment THEN @ ELSE [@ EXCEPT !.order = o]]

DeletePayment(q) == payments' = [payments EXCEPT ![q] = NoPayment]

=============================================================================
