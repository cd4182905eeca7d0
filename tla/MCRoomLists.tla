---------------------------- MODULE MCRoomLists ----------------------------
(* Values for checking RoomLists.                                          *)
EXTENDS RoomLists, TLC

\* Every handler that writes rooms.
Writers == {"status", "create", "booking", "rollback", "checkin", "checkout", "cancel", "compat"}

Alike == Permutations(Room) \cup Permutations(Writer)

=============================================================================
