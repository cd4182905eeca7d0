------------------------------- MODULE Linen --------------------------------
(***************************************************************************)
(* One kind of linen (housekeeping_handler.go): its row in linen_inventory *)
(* and its transactions.  IssueLinen and ReturnLinen record the            *)
(* transaction first and move the counters in the next statement, both in  *)
(* the order opposite to that of the loyalty points.                       *)
(*                                                                         *)
(* The counters are kept from falling below zero by GREATEST; how many     *)
(* pieces come back damaged is taken as the request says it.               *)
(***************************************************************************)
EXTENDS Requests, Amounts

CONSTANTS
    Stock,      \* total_count when the row is made, which no code does
    Quantity,   \* what a request may issue or return
    Damaged     \* of which damaged: any integers

VARIABLES
    stock,      \* linen_inventory
    noted,      \* linen_transactions: the requests that have a row there

    \* A history variable: no guard reads it.
    short       \* what GREATEST has kept of each request

linen == <<stock, noted, short>>

AskLinen == [op : {"issue"}, quantity : Quantity] \cup [op : {"return"}, quantity : Quantity, damaged : Damaged]

ASSUME LinenAssumption ==
    /\ Stock \in Nat /\ Quantity \subseteq Nat \ {0} /\ Damaged \subseteq Int
    /\ None \notin AskLinen

TypeLinen ==
    /\ stock \in [total : Nat, inUse : Nat, laundry : Nat, damaged : Int]
    /\ noted \subseteq Call
    /\ short \in [Call -> Nat]

InitLinen ==
    /\ stock = [total |-> Stock, inUse |-> 0, laundry |-> 0, damaged |-> 0]
    /\ noted = {}
    /\ short = [c \in Call |-> 0]

Greatest(a, b) == IF a >= b THEN a ELSE b

Note(c) ==
    /\ Goto(c, "note", "move")
    /\ noted' = noted \cup {c}
    /\ UNCHANGED <<stock, short>>

\* Mutant: no GREATEST.
IssueBelowZero(c) ==
    LET n == ask[c].quantity IN
    /\ Finish(c, "move") /\ ask[c].op = "issue"
    /\ stock' = [stock EXCEPT !.inUse = @ + n, !.total = @ - n]
    /\ UNCHANGED <<noted, short>>

\* IssueLinen: more than there is may be issued.
Issue(c) ==
    LET n == ask[c].quantity IN
    /\ Finish(c, "move") /\ ask[c].op = "issue"
    /\ stock' = [stock EXCEPT !.inUse = @ + n, !.total = Greatest(@ - n, 0)]
    /\ short' = [short EXCEPT ![c] = Greatest(n - stock.total, 0)]
    /\ UNCHANGED noted

\* Mutant: the damaged pieces go to the laundry, too.
ReturnAll(c) ==
    LET n == ask[c].quantity
        d == ask[c].damaged
    IN
    /\ Finish(c, "move") /\ ask[c].op = "return"
    /\ stock' = [stock EXCEPT !.inUse = Greatest(@ - n, 0), !.laundry = @ + n, !.damaged = @ + d]
    /\ short' = [short EXCEPT ![c] = Greatest(n - stock.inUse, 0)]
    /\ UNCHANGED noted

\* ReturnLinen: more than was issued may be returned, and more damaged than is returned.
Return(c) ==
    LET n == ask[c].quantity
        d == ask[c].damaged
    IN
    /\ Finish(c, "move") /\ ask[c].op = "return"
    /\ stock' = [stock EXCEPT !.inUse = Greatest(@ - n, 0), !.laundry = @ + Greatest(n - d, 0),
                              !.damaged = @ + d]
    /\ short' = [short EXCEPT ![c] = Greatest(n - stock.inUse, 0)]
    /\ UNCHANGED noted

ServeLinen(c) ==
    \/ /\ Fresh(c) /\ UNCHANGED linen
       /\ \E a \in AskLinen : Begin(c, a, "note")
    \/ ask[c] \in AskLinen /\ (Note(c) \/ Issue(c) \/ Return(c))

-----------------------------------------------------------------------------
(* Properties.                                                             *)

\* The requests that have moved the counters, and what they add up to.
Issued == {c \in Call : ask[c] \in AskLinen /\ ask[c].op = "issue" /\ at[c] = "end"}
Returned == {c \in Call : ask[c] \in AskLinen /\ ask[c].op = "return" /\ at[c] = "end"}
Pieces(calls) == Amount([c \in calls |-> ask[c].quantity])
Kept(calls) == Amount([c \in calls |-> short[c]])
Invented == Amount([c \in Returned |-> Greatest(ask[c].damaged - ask[c].quantity, 0)])

\* The transactions explain what is in use, but for the requests that ended between their
\* two statements, which are recorded and have moved nothing; and no piece is lost: pieces
\* only appear, where GREATEST has cut a counter off or more came back damaged than came back.
LinenExplained ==
    /\ stock.inUse = Pieces(Issued) - (Pieces(Returned) - Kept(Returned))
    /\ stock.total + stock.inUse + stock.laundry + stock.damaged
         = Stock + Kept(Issued \cup Returned) + Invented
    /\ Issued \cup Returned \subseteq noted
    /\ \A c \in noted : answer[c] \in {None, "failed"} \/ at[c] = "end"

=============================================================================
