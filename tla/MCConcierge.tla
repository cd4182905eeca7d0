---------------------------- MODULE MCConcierge -----------------------------
(* An instance of Concierge for TLC.                                       *)
EXTENDS Concierge, TLC

=============================================================================
