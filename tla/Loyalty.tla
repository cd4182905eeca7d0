------------------------------ MODULE Loyalty -------------------------------
(***************************************************************************)
(* Loyalty points (crm_handler.go): the balance of a member, and beside it *)
(* the transactions that explain it.  AwardPoints and RedeemPoints change  *)
(* the balance in one statement and record the transaction in the next.    *)
(***************************************************************************)
EXTENDS Requests, Amounts

CONSTANTS
    Member,     \* guests; each has one row at most in loyalty_members
    Points      \* what a request may award or redeem

VARIABLES
    member,     \* loyalty_members
    posted,     \* loyalty_transactions: the requests that have a row there

    \* A history variable: no guard reads it.
    overtaken   \* redemptions that subtract from a balance another one changed meanwhile

loyalty == <<member, posted, overtaken>>

AskLoyalty == [op : {"earn", "redeem"}, guest : Member, points : Points]

MemberRow == [points : Int, lifetime : Nat]

ASSUME LoyaltyAssumption ==
    /\ Points \subseteq Nat \ {0}
    /\ None \notin AskLoyalty \cup MemberRow

TypeLoyalty ==
    /\ member \in [Member -> MemberRow \cup {None}]
    /\ posted \subseteq Call /\ overtaken \subseteq Call

InitLoyalty ==
    /\ member = [g \in Member |-> None]
    /\ posted = {} /\ overtaken = {}

\* Mutant: an award to a member sets the balance.
AwardSets(c) ==
    /\ Goto(c, "award", "post")
    /\ LET n == ask[c].points IN
       member' = [member EXCEPT ![ask[c].guest] = [points |-> n, lifetime |-> n]]
    /\ UNCHANGED <<posted, overtaken>>

\* AwardPoints: the first award of a guest makes a member.
Award(c) ==
    /\ Goto(c, "award", "post")
    /\ LET n == ask[c].points IN
       member' = [member EXCEPT ![ask[c].guest] =
                    IF @ = None THEN [points |-> n, lifetime |-> n]
                    ELSE [points |-> @.points + n, lifetime |-> @.lifetime + n]]
    /\ UNCHANGED <<posted, overtaken>>

Has(g, n) == member[g] # None /\ member[g].points >= n

\* Mutant: the balance is not compared.
CheckMember(c) ==
    /\ IF member[ask[c].guest] # None THEN Goto(c, "check", "subtract") ELSE Refuse(c, "check")
    /\ UNCHANGED loyalty

\* RedeemPoints: "loyalty member not found", "insufficient points", or it goes on.
Check(c) ==
    /\ IF Has(ask[c].guest, ask[c].points) THEN Goto(c, "check", "subtract") ELSE Refuse(c, "check")
    /\ UNCHANGED loyalty

\* The redemptions of a guest that have passed the check and not yet subtracted.
Checked(g) == {d \in Call : Makes(d, "subtract") /\ ask[d].guest = g}

Subtract(c) ==
    /\ Goto(c, "subtract", "post")
    /\ member' = [member EXCEPT ![ask[c].guest].points = @ - ask[c].points]
    /\ overtaken' = overtaken \cup (Checked(ask[c].guest) \ {c})
    /\ UNCHANGED posted

Post(c) ==
    /\ Finish(c, "post")
    /\ posted' = posted \cup {c}
    /\ UNCHANGED <<member, overtaken>>

ServeLoyalty(c) ==
    \/ /\ Fresh(c) /\ UNCHANGED loyalty
       /\ \E a \in AskLoyalty : Begin(c, a, IF a.op = "earn" THEN "award" ELSE "check")
    \/ ask[c] \in AskLoyalty /\ (Award(c) \/ Check(c) \/ Subtract(c) \/ Post(c))

-----------------------------------------------------------------------------
(* Properties.                                                             *)

\* The requests of a guest that have changed the balance, and what they add up to.
Moved(g, op) == {c \in Call : ask[c] \in AskLoyalty /\ ask[c].guest = g /\ ask[c].op = op
                              /\ at[c] \in {"post", "end"}}
Sum(calls) == Amount([c \in calls |-> ask[c].points])
Balance(g) == IF member[g] = None THEN 0 ELSE member[g].points

\* The transactions of a member explain its balance but for the requests that are between
\* their two statements, or ended there: every request that was answered with success is
\* recorded, and none before its end, though one that is recorded may have been answered
\* with a failure, where the reply of the last INSERT was lost.
PointsExplained ==
    \A g \in Member :
        LET earned == Moved(g, "earn")
            redeemed == Moved(g, "redeem")
        IN
        /\ Balance(g) = Sum(earned) - Sum(redeemed)
        /\ member[g] # None => member[g].lifetime = Sum(earned)
        /\ \A c \in earned \cup redeemed :
             /\ answer[c] = "ok" => c \in posted
             /\ c \in posted => at[c] = "end" /\ answer[c] \in {"ok", "failed"}

\* RedeemPoints checks the balance in one statement and subtracts in the next: a member is
\* overdrawn by no more than the redemptions that another one has overtaken in between.
OverdraftIsRaced ==
    \A g \in Member : Balance(g) + Sum(Moved(g, "redeem") \cap overtaken) >= 0

=============================================================================
