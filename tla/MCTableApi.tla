----------------------------- MODULE MCTableApi -----------------------------
(* An instance of TableApi for TLC.                                        *)
EXTENDS TableApi, TLC

CONSTANTS q1, q2, q3

\* Two requests of any kind; a third one that competes for connections.
MCRequest == {q1, q2, q3}
MCMayAsk == [r \in MCRequest |-> IF r = q3 THEN {"expand"} ELSE Op]

=============================================================================
