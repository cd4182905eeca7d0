-------------------------- MODULE BackOfficeProofs ---------------------------
(* Theorems about BackOffice, for any requests, members, hotels and days.   *)
EXTENDS BackOffice, FiniteSetTheorems, TLAPS

-----------------------------------------------------------------------------
(* Sums.                                                                   *)

Finite(f) == IsFiniteSet(Units(f))

LEMMA NothingAdds ==
  ASSUME NEW f, DOMAIN f = {}
  PROVE  Finite(f) /\ Amount(f) = 0
<1>1. Units(f) = {}
  BY DEF Units
<1> QED
  BY <1>1, FS_EmptySet DEF Finite, Amount

LEMMA AmountIsNat == ASSUME NEW f, Finite(f) PROVE Amount(f) \in Nat
BY FS_CardinalityType DEF Finite, Amount

\* Functions that agree have the same units.
LEMMA SameUnits ==
  ASSUME NEW f, NEW g, DOMAIN g = DOMAIN f, \A x \in DOMAIN f : g[x] = f[x]
  PROVE  Units(g) = Units(f)
BY DEF Units

\* One more element adds what it stands for.
LEMMA OneMore ==
  ASSUME NEW f, NEW g, NEW c, c \notin DOMAIN f, DOMAIN g = DOMAIN f \cup {c},
         \A x \in DOMAIN f : g[x] = f[x], g[c] \in Nat, Finite(f)
  PROVE  Finite(g) /\ Amount(g) = Amount(f) + g[c]
<1> DEFINE new == {c} \X (1..g[c])
<1>1. Units(g) = Units(f) \cup new
  BY DEF Units
<1>2. Units(f) \cap new = {}
  BY DEF Units
<1>3. IsFiniteSet(new) /\ Cardinality(new) = g[c]
  <2>0. 1 \in Int /\ g[c] \in Int
    OBVIOUS
  <2>1. IsFiniteSet(1..g[c]) /\ Cardinality(1..g[c]) = g[c]
    BY <2>0, FS_Interval
  <2>2. IsFiniteSet({c}) /\ Cardinality({c}) = 1
    BY FS_Singleton
  <2>3. IsFiniteSet(new) /\ Cardinality(new) = Cardinality({c}) * Cardinality(1..g[c])
    BY <2>1, <2>2, FS_Product
  <2> QED
    BY <2>1, <2>2, <2>3
<1> HIDE DEF new
<1>4. IsFiniteSet(Units(f) \cup new)
      /\ Cardinality(Units(f) \cup new)
           = Cardinality(Units(f)) + Cardinality(new) - Cardinality(Units(f) \cap new)
  BY <1>3, FS_Union DEF Finite
<1>5. Cardinality(Units(f) \cap new) = 0 /\ Cardinality(Units(f)) \in Nat
  BY <1>2, FS_EmptySet, FS_CardinalityType DEF Finite
<1> QED
  BY <1>1, <1>3, <1>4, <1>5 DEF Finite, Amount

\* Part of a sum is no more than the sum.
LEMMA PartIsFinite ==
  ASSUME NEW f, NEW g, DOMAIN g \subseteq DOMAIN f, \A x \in DOMAIN g : g[x] = f[x], Finite(f)
  PROVE  Finite(g)
<1>1. Units(g) \in SUBSET Units(f)
  BY DEF Units
<1> QED
  BY <1>1, FS_Subset DEF Finite

-----------------------------------------------------------------------------
(* The inductive invariant: where a request may be, and for each office    *)
(* what its tables owe to that.                                            *)

PlacedTenant(c) ==
    LET op == ask[c].op IN
    /\ op = "onboard" =>
           at[c] \in {"insertHotel", "insertProperty", "brand", "readBranding", "end"}
    /\ op = "tenant" => at[c] \in {"commitTenant", "portals", "end"}
    /\ op = "plan" => at[c] \in {"readSlug", "updatePlan", "end"}
    /\ op = "branding" => at[c] \in {"brand", "readBranding", "end"}
    /\ op = "gateway" =>
           at[c] \in {"ensureConfig", "setGateway", "commitSettings", "auditSettings", "readSettings", "end"}
    /\ op = "settings" => at[c] \in {"readSettings", "end"}
    /\ op = "portals" => at[c] \in {"portals", "end"}
    /\ op = "portal" => at[c] \in {"portals", "setPortal", "auditPortal", "end"}

Placed(c) ==
    /\ ask[c] = None => at[c] = "start" /\ answer[c] = None
    /\ answer[c] = "ok" => at[c] = "end"
    /\ at[c] = "end" => answer[c] \in {"ok", "failed"}
    /\ ask[c] \in AskLoyalty =>
           \/ ask[c].op = "earn" /\ at[c] \in {"award", "post", "end"}
           \/ ask[c].op = "redeem" /\ at[c] \in {"check", "subtract", "post", "end"}
    /\ ask[c] \in AskLinen => at[c] \in {"note", "move", "end"} /\ answer[c] # "refused"
    /\ ask[c] \in AskAudit =>
           \/ ask[c].op = "close" /\ at[c] \in {"total", "count", "file", "end"}
           \/ ask[c].op = "checklist" /\ at[c] \in {"list", "end"}
    /\ ask[c] \in AskTenant => PlacedTenant(c)

TypeRequests ==
    /\ ask \in [Call -> AskLoyalty \cup AskLinen \cup AskAudit \cup AskTenant \cup {None}]
    /\ at \in [Call -> Step]
    /\ answer \in [Call -> {"ok", "refused", "failed", None}]

InvRequests == TypeRequests /\ \A c \in Call : Placed(c)

\* What the redemptions and awards of a guest add up to is finite, and what it adds up to is
\* the balance; whoever may redeem still can, unless another one came first.
PointsOf(S) == [c \in S |-> ask[c].points]

Owed(g) ==
    /\ Finite(PointsOf(Moved(g, "earn"))) /\ Finite(PointsOf(Moved(g, "redeem")))
    /\ Balance(g) = Sum(Moved(g, "earn")) - Sum(Moved(g, "redeem"))
    /\ member[g] # None => member[g].lifetime = Sum(Moved(g, "earn"))
    /\ member[g] = None => Moved(g, "earn") = {} /\ Moved(g, "redeem") = {}
    /\ Balance(g) + Sum(Moved(g, "redeem") \cap overtaken) >= 0

InvLoyalty ==
    /\ TypeLoyalty
    /\ \A g \in Member : Owed(g)
    /\ \A c \in Call : c \in posted <=> ask[c] \in AskLoyalty /\ at[c] = "end"
    /\ \A c \in Call : ask[c] \in AskLoyalty /\ at[c] = "subtract" =>
           /\ member[ask[c].guest] # None
           /\ answer[c] = None /\ c \notin overtaken => Has(ask[c].guest, ask[c].points)

QuantityOf(S) == [c \in S |-> ask[c].quantity]
KeptOf(S) == [c \in S |-> short[c]]
Excess == [c \in Returned |-> Greatest(ask[c].damaged - ask[c].quantity, 0)]

LinenSums ==
    /\ Finite(QuantityOf(Issued)) /\ Finite(QuantityOf(Returned))
    /\ Finite(KeptOf(Returned)) /\ Finite(KeptOf(Issued \cup Returned)) /\ Finite(Excess)
    /\ stock.inUse = Pieces(Issued) - (Pieces(Returned) - Kept(Returned))
    /\ stock.total + stock.inUse + stock.laundry + stock.damaged
         = Stock + Kept(Issued \cup Returned) + Invented

InvLinen ==
    /\ TypeLinen /\ LinenSums
    /\ \A c \in Call : c \in noted <=> ask[c] \in AskLinen /\ at[c] \in {"move", "end"}

\* Totals in hand are today's, unless midnight came meanwhile.
InvAudit ==
    /\ TypeAudit
    /\ \A c \in Call : ask[c] \in AskAudit /\ at[c] \in {"count", "file"} =>
           totals[c] \in Day /\ (answer[c] = None => totals[c] = today \/ c \in overnight)
    /\ \A c \in Call : told[c] # None => ask[c] \in AskAudit
    /\ DoneDaysAudited

\* A hotel is there as soon as the request that makes it has passed its first statement.
Onboarded(c) ==
    /\ Exists(c) <=> at[c] # "insertHotel"
    /\ at[c] \in {"brand", "readBranding", "end"} /\ ask[c].property => c \in property
    /\ at[c] \in {"readBranding", "end"} => c \in branding
    /\ at[c] \in {"insertProperty", "brand"} => answer[c] # "refused"

Rented(c) ==
    /\ Exists(c) <=> at[c] # "commitTenant"
    /\ Exists(c) => c \in branding /\ config[c] # None
    /\ at[c] = "end" => \A r \in Role : portal[c][r] # None

TenantAt(c) ==
    /\ Creates(c, "onboard") => Onboarded(c)
    /\ Creates(c, "tenant") => Rented(c)
    /\ Exists(c) => Creates(c, "onboard") \/ Creates(c, "tenant")
    /\ Creates(c, "plan") /\ at[c] \in {"updatePlan", "end"} =>
           Exists(ask[c].on) /\ slugRead[c] = hotel[ask[c].on].slug
    /\ c \in trail => ask[c] \in AskTenant /\ at[c] \in {"readSettings", "end"}

OwnSlugs ==
    \A g, h \in Hotel : Exists(g) /\ Exists(h) /\ hotel[g].slug = hotel[h].slug => g = h

RowsAgree ==
    /\ TypeTenants /\ OwnSlugs /\ CopiesAgree
    /\ Exists(Demo) /\ config[Demo] # None
    /\ \A r \in chosen : portal[Demo][r] = "own"

InvTenants == RowsAgree /\ \A c \in Call : TenantAt(c)

IInv == InvRequests /\ InvLoyalty /\ InvLinen /\ InvAudit /\ InvTenants

-----------------------------------------------------------------------------
(* Requests.                                                               *)

\* What a request is for tells its office.
LEMMA Offices ==
  ASSUME NEW a
  PROVE  /\ a \in AskLoyalty => /\ a # None /\ a.op \in {"earn", "redeem"}
                                /\ a.guest \in Member /\ a.points \in Nat \ {0}
                                /\ a \notin AskLinen \cup AskAudit \cup AskTenant
         /\ a \in AskLinen => /\ a # None /\ a.op \in {"issue", "return"} /\ a.quantity \in Nat \ {0}
                              /\ a.op = "return" => a.damaged \in Int
                              /\ a \notin AskAudit \cup AskTenant
         /\ a \in AskAudit => /\ a # None /\ a.op \in {"close", "checklist"} /\ a.hotel \in Tenant
                              /\ a \notin AskTenant
         /\ a \in AskTenant => a # None
BY LoyaltyAssumption, LinenAssumption, NightAuditAssumption, TenantsAssumption
DEF AskLoyalty, AskLinen, AskAudit, AskTenant

LEMMA TenantAsks ==
  ASSUME NEW a \in AskTenant
  PROVE  /\ a.op \in {"onboard", "tenant", "plan", "branding", "gateway", "settings", "portals", "portal"}
         /\ a.op \in {"onboard", "tenant"} => a.slug \in Slug /\ a.plan \in Plan
         /\ a.op = "onboard" => a.property \in BOOLEAN
         /\ a.op \in {"plan", "branding"} => a.on \in Hotel
         /\ a.op = "plan" => a.plan \in Plan /\ a.active \in BOOLEAN \cup {None}
         /\ a.op = "gateway" => a.to \in Gateway
         /\ a.op = "portal" => a.role \in Role
BY TenantsAssumption DEF AskTenant

\* A step changes only the request c,
Only(c) ==
    \A d \in Call \ {c} : ask'[d] = ask[d] /\ at'[d] = at[d] /\ answer'[d] = answer[d]

\* which has come,
Came(c, a, t) ==
    /\ TypeRequests' /\ Only(c) /\ ask[c] = None
    /\ ask'[c] = a /\ at'[c] = t /\ answer'[c] = None

\* or gone on from one place to another.
Went(c, s, t, result) ==
    /\ TypeRequests' /\ Only(c) /\ ask' = ask
    /\ ask[c] # None /\ at[c] = s /\ answer[c] = None
    /\ at'[c] = t /\ answer'[c] = result

\* The last statement has taken effect, and its reply may be lost.
Ended(c, s) == \E reply \in {"ok", "failed"} : Went(c, s, "end", reply)

LEMMA Comes ==
  ASSUME InvRequests, NEW c \in Call,
         NEW a \in AskLoyalty \cup AskLinen \cup AskAudit \cup AskTenant, NEW t \in Step,
         Fresh(c), Begin(c, a, t)
  PROVE  Came(c, a, t)
BY DEF InvRequests, TypeRequests, Placed, Fresh, Begin, Came, Only

LEMMA Goes ==
  ASSUME InvRequests, NEW c \in Call, NEW s \in Step, NEW t \in Step
  PROVE  /\ Goto(c, s, t) => Went(c, s, t, None)
         /\ Finish(c, s) => Ended(c, s)
         /\ Refuse(c, s) => Went(c, s, s, "refused")
         /\ Fails(c) => Went(c, at[c], at[c], "failed")
<1>1. "end" \in Step
  BY DEF Step
<1> QED
  BY <1>1 DEF InvRequests, TypeRequests, Makes, Goto, Finish, Refuse, Fails, Went, Ended, Only

LEMMA OthersPlaced ==
  ASSUME InvRequests, NEW c \in Call, Only(c), Placed(c)', TypeRequests'
  PROVE  InvRequests'
<1>1. ASSUME NEW d \in Call \ {c} PROVE Placed(d)'
  BY DEF InvRequests, Only, Placed, PlacedTenant
<1> QED
  BY <1>1 DEF InvRequests

\* Requests that ask for none of these are left alone, or fail.
Apart(asks) ==
    \A d \in Call :
        \/ /\ ask'[d] = ask[d] /\ at'[d] = at[d]
           /\ answer'[d] = answer[d] \/ (answer[d] = None /\ answer'[d] = "failed")
        \/ ask[d] \notin asks /\ ask'[d] \notin asks

LEMMA FailsApart ==
  ASSUME InvRequests, NEW c \in Call, Fails(c), NEW asks
  PROVE  InvRequests' /\ Apart(asks)
<1>1. Went(c, at[c], at[c], "failed")
  BY Goes DEF InvRequests, TypeRequests
<1>2. Placed(c)'
  BY <1>1, RequestsAssumption DEF Went, InvRequests, Placed, PlacedTenant
<1> QED
  BY <1>1, <1>2, OthersPlaced DEF Went, Only, Apart

-----------------------------------------------------------------------------
(* Loyalty points.                                                         *)

\* As long as neither the member nor those who changed the balance change.
LEMMA OwedStays ==
  ASSUME NEW g \in Member, Owed(g), member'[g] = member[g],
         \A op : Moved(g, op)' = Moved(g, op),
         \A op : \A c \in Moved(g, op) : ask'[c] = ask[c],
         (Moved(g, "redeem") \cap overtaken)' = Moved(g, "redeem") \cap overtaken
  PROVE  Owed(g)'
<1>1. ASSUME NEW S, NEW op, S \subseteq Moved(g, op)
      PROVE  [c \in S |-> ask'[c].points] = [c \in S |-> ask[c].points]
  BY <1>1
<1>2. /\ PointsOf(Moved(g, "earn"))' = PointsOf(Moved(g, "earn"))
      /\ PointsOf(Moved(g, "redeem"))' = PointsOf(Moved(g, "redeem"))
      /\ PointsOf(Moved(g, "redeem") \cap overtaken)' = PointsOf(Moved(g, "redeem") \cap overtaken)
  BY <1>1 DEF PointsOf
<1>3. /\ Sum(Moved(g, "earn"))' = Sum(Moved(g, "earn"))
      /\ Sum(Moved(g, "redeem"))' = Sum(Moved(g, "redeem"))
      /\ Sum(Moved(g, "redeem") \cap overtaken)' = Sum(Moved(g, "redeem") \cap overtaken)
  BY <1>2 DEF Sum, PointsOf
<1> QED
  BY <1>2, <1>3 DEF Owed, Balance

LEMMA LoyaltyApart ==
  ASSUME InvLoyalty, Apart(AskLoyalty), UNCHANGED loyalty
  PROVE  InvLoyalty'
<1>1. UNCHANGED <<member, posted, overtaken>>
  BY DEF loyalty
<1>2. ASSUME NEW g \in Member PROVE Owed(g)'
  <2>1. \A op : Moved(g, op)' = Moved(g, op)
    BY DEF Moved, Apart
  <2>2. \A op : \A c \in Moved(g, op) : ask'[c] = ask[c]
    BY DEF Moved, Apart
  <2> QED
    BY <1>1, <2>1, <2>2, OwedStays DEF InvLoyalty
<1> QED
  BY <1>1, <1>2 DEF InvLoyalty, TypeLoyalty, Apart, Has

\* The sums of a guest when one more request has changed the balance.
LEMMA SumGrows ==
  ASSUME NEW S, NEW c, c \notin S, Finite(PointsOf(S)), ask[c].points \in Nat
  PROVE  /\ Finite(PointsOf(S \cup {c}))
         /\ Sum(S \cup {c}) = Sum(S) + ask[c].points
         /\ Sum(S) \in Nat
<1> DEFINE f == PointsOf(S)
           h == PointsOf(S \cup {c})
<1>1. DOMAIN f = S /\ DOMAIN h = S \cup {c} /\ h[c] = ask[c].points /\ \A x \in S : h[x] = f[x]
  BY DEF PointsOf
<1>2. Sum(S) = Amount(f) /\ Sum(S \cup {c}) = Amount(h)
  BY DEF Sum, PointsOf
<1> HIDE DEF f, h
<1>3. Finite(h) /\ Amount(h) = Amount(f) + h[c]
  BY <1>1, OneMore DEF f
<1>4. Amount(f) \in Nat
  BY AmountIsNat DEF f
<1> QED
  BY <1>1, <1>2, <1>3, <1>4 DEF f, h

\* An award or a redemption that has changed the balance of g joins those who had.
LEMMA Joins ==
  ASSUME InvRequests, NEW c \in Call, NEW s, s \notin {"post", "end"}, Went(c, s, "post", None),
         ask[c] \in AskLoyalty
  PROVE  \A g \in Member, op \in {"earn", "redeem"} :
           /\ c \notin Moved(g, op)
           /\ Moved(g, op)' = IF g = ask[c].guest /\ op = ask[c].op THEN Moved(g, op) \cup {c}
                                                                 ELSE Moved(g, op)
BY DEF Moved, Went, Only

LEMMA AwardKeeps ==
  ASSUME InvRequests, InvLoyalty, NEW c \in Call, ask[c] \in AskLoyalty, Award(c),
         NEW g, g = ask[c].guest, NEW n, n = ask[c].points
  PROVE  InvRequests' /\ InvLoyalty' /\ ask' = ask /\ Only(c)
<1>1. Went(c, "award", "post", None) /\ ask' = ask /\ Only(c)
  <2>1. "award" \in Step /\ "post" \in Step
    BY DEF Step
  <2>2. Goto(c, "award", "post")
    BY DEF Award
  <2>3. Went(c, "award", "post", None)
    BY <2>1, <2>2, Goes
  <2> QED
    BY <2>3 DEF Went
<1>2. g \in Member /\ n \in Nat \ {0} /\ ask[c].op = "earn"
  BY <1>1, Offices DEF InvRequests, Placed, Went
<1>3. Placed(c)'
  BY <1>1, <1>2, Offices, RequestsAssumption DEF Went, Placed, PlacedTenant
<1>4. /\ member' = [member EXCEPT ![g] =
             IF member[g] = None THEN [points |-> n, lifetime |-> n]
             ELSE [points |-> member[g].points + n, lifetime |-> member[g].lifetime + n]]
      /\ UNCHANGED <<posted, overtaken>>
  BY DEF Award
<1>5. TypeLoyalty /\ member[g] \in MemberRow \cup {None}
  BY <1>2 DEF InvLoyalty, TypeLoyalty
<1>6. member' \in [Member -> MemberRow \cup {None}]
  BY <1>2, <1>4, <1>5 DEF TypeLoyalty, MemberRow
<1>7. \A h \in Member : h # g => member'[h] = member[h]
  BY <1>4, <1>5 DEF TypeLoyalty
<1>8. /\ member'[g] # None
      /\ member[g] = None => member'[g].points = n /\ member'[g].lifetime = n
      /\ member[g] # None => member'[g].points = member[g].points + n
                             /\ member'[g].lifetime = member[g].lifetime + n
  <2>1. member'[g] = IF member[g] = None THEN [points |-> n, lifetime |-> n]
             ELSE [points |-> member[g].points + n, lifetime |-> member[g].lifetime + n]
    BY <1>2, <1>4, <1>5 DEF TypeLoyalty
  <2>2. member'[g] \in MemberRow
    BY <1>2, <1>5, <2>1 DEF MemberRow
  <2> QED
    BY <2>1, <2>2, LoyaltyAssumption
<1>9. ASSUME NEW h \in Member PROVE Owed(h)'
  <2>1. Owed(h)
    BY DEF InvLoyalty
  <2>2. /\ c \notin Moved(h, "earn") /\ Moved(h, "redeem")' = Moved(h, "redeem")
        /\ Moved(h, "earn")' = IF h = g THEN Moved(h, "earn") \cup {c} ELSE Moved(h, "earn")
    BY <1>1, <1>2, Joins
  <2>3. CASE h # g
    <3>1. \A op : Moved(h, op)' = Moved(h, op)
      BY <1>1, <2>3 DEF Moved, Went, Only
    <3> QED
      BY <1>1, <1>4, <1>7, <2>1, <2>3, <3>1, OwedStays
  <2>4. CASE h = g
    <3>1. /\ PointsOf(Moved(g, "earn"))' = PointsOf(Moved(g, "earn") \cup {c})
          /\ PointsOf(Moved(g, "redeem"))' = PointsOf(Moved(g, "redeem"))
          /\ PointsOf(Moved(g, "redeem") \cap overtaken)' = PointsOf(Moved(g, "redeem") \cap overtaken)
      BY <1>1, <1>4, <2>2, <2>4 DEF PointsOf
    <3>2. /\ Sum(Moved(g, "earn"))' = Sum(Moved(g, "earn") \cup {c})
          /\ Sum(Moved(g, "redeem"))' = Sum(Moved(g, "redeem"))
          /\ Sum(Moved(g, "redeem") \cap overtaken)' = Sum(Moved(g, "redeem") \cap overtaken)
      BY <3>1 DEF Sum, PointsOf
    <3>3. /\ Finite(PointsOf(Moved(g, "earn") \cup {c}))
          /\ Sum(Moved(g, "earn") \cup {c}) = Sum(Moved(g, "earn")) + n
          /\ Sum(Moved(g, "earn")) \in Nat
      BY <1>2, <2>1, <2>2, <2>4, SumGrows DEF Owed
    <3>4. Sum({}) = 0
      BY NothingAdds DEF Sum
    <3>5. /\ Sum(Moved(g, "redeem")) \in Nat
          /\ Sum(Moved(g, "redeem") \cap overtaken) \in Nat
      <4>1. Finite(PointsOf(Moved(g, "redeem") \cap overtaken))
        BY <2>1, <2>4, PartIsFinite DEF Owed, PointsOf
      <4> QED
        BY <2>1, <2>4, <4>1, AmountIsNat DEF Owed, Sum, PointsOf
    <3>6. Balance(g)' = Balance(g) + n /\ Balance(g) \in Int
      BY <1>2, <1>5, <1>8 DEF Balance, MemberRow
    <3>7. member'[g].lifetime = Sum(Moved(g, "earn")) + n
      <4>1. CASE member[g] = None
        <5>1. Moved(g, "earn") = {}
          BY <2>1, <2>4, <4>1 DEF Owed
        <5>2. Sum(Moved(g, "earn")) = 0
          BY <3>4, <5>1
        <5> QED
          BY <1>2, <1>8, <4>1, <5>2
      <4>2. CASE member[g] # None
        BY <1>8, <2>1, <2>4, <4>2 DEF Owed
      <4> QED
        BY <4>1, <4>2
    <3>8. Finite(PointsOf(Moved(g, "earn")))' /\ Finite(PointsOf(Moved(g, "redeem")))'
      BY <2>1, <2>4, <3>1, <3>3 DEF Owed, Finite
    <3>9. /\ Balance(g)' = Sum(Moved(g, "earn"))' - Sum(Moved(g, "redeem"))'
          /\ Balance(g)' + Sum(Moved(g, "redeem") \cap overtaken)' >= 0
      BY <1>2, <2>1, <2>4, <3>2, <3>3, <3>5, <3>6 DEF Owed
    <3> QED
      BY <1>8, <2>4, <3>2, <3>3, <3>7, <3>8, <3>9 DEF Owed
  <2> QED
    BY <2>3, <2>4
<1>10. \A d \in Call : ask[d] \in AskLoyalty /\ at'[d] = "subtract" =>
           /\ member'[ask[d].guest] # None
           /\ answer'[d] = None /\ d \notin overtaken' => Has(ask[d].guest, ask[d].points)'
  <2> SUFFICES ASSUME NEW d \in Call, ask[d] \in AskLoyalty, at'[d] = "subtract"
               PROVE  /\ member'[ask[d].guest] # None
                      /\ answer'[d] = None /\ d \notin overtaken' => Has(ask[d].guest, ask[d].points)'
    OBVIOUS
  <2>1. d # c /\ at[d] = "subtract" /\ answer'[d] = answer[d]
    BY <1>1 DEF Went, Only
  <2>2. ask[d].guest \in Member /\ ask[d].points \in Nat
    BY Offices
  <2>3. /\ member[ask[d].guest] # None
        /\ answer'[d] = None /\ d \notin overtaken' => Has(ask[d].guest, ask[d].points)
    BY <1>4, <2>1 DEF InvLoyalty
  <2> QED
    BY <1>2, <1>5, <1>7, <1>8, <2>2, <2>3, <1>1 DEF Has, MemberRow
<1>11. \A d \in Call : d \in posted' <=> ask'[d] \in AskLoyalty /\ at'[d] = "end"
  BY <1>1, <1>4 DEF InvLoyalty, Went, Only
<1>12. InvLoyalty'
  BY <1>1, <1>4, <1>5, <1>6, <1>9, <1>10, <1>11 DEF InvLoyalty, TypeLoyalty
<1> QED
  BY <1>1, <1>3, <1>12, OthersPlaced DEF Went

\* A redemption that nobody has overtaken finds what it was promised.
LEMMA SubtractKeeps ==
  ASSUME InvRequests, InvLoyalty, NEW c \in Call, ask[c] \in AskLoyalty, Subtract(c),
         NEW g, g = ask[c].guest, NEW n, n = ask[c].points
  PROVE  InvRequests' /\ InvLoyalty' /\ ask' = ask /\ Only(c)
<1>1. Went(c, "subtract", "post", None) /\ ask' = ask /\ Only(c)
  <2>1. "subtract" \in Step /\ "post" \in Step
    BY DEF Step
  <2>2. Goto(c, "subtract", "post")
    BY DEF Subtract
  <2>3. Went(c, "subtract", "post", None)
    BY <2>1, <2>2, Goes
  <2> QED
    BY <2>3 DEF Went
<1>2. g \in Member /\ n \in Nat \ {0} /\ ask[c].op = "redeem"
  BY <1>1, Offices DEF InvRequests, Placed, Went
<1>3. Placed(c)'
  BY <1>1, <1>2, Offices, RequestsAssumption DEF Went, Placed, PlacedTenant
<1>4. /\ member' = [member EXCEPT ![g].points = @ - n]
      /\ overtaken' = overtaken \cup (Checked(g) \ {c})
      /\ posted' = posted
  BY DEF Subtract
<1>5. /\ TypeLoyalty /\ member[g] \in MemberRow
      /\ c \notin overtaken => member[g].points >= n
  BY <1>1, <1>2 DEF InvLoyalty, TypeLoyalty, Has, Went
<1>6. /\ member' \in [Member -> MemberRow \cup {None}]
      /\ \A h \in Member : h # g => member'[h] = member[h]
      /\ member'[g] \in MemberRow
      /\ member'[g].points = member[g].points - n /\ member'[g].lifetime = member[g].lifetime
  BY <1>2, <1>4, <1>5 DEF TypeLoyalty, MemberRow
<1>7. member[g] # None /\ member'[g] # None
  BY <1>5, <1>6, LoyaltyAssumption
<1>8. \A h : Checked(h) = {d \in Call : ask[d] # None /\ answer[d] = None /\ at[d] = "subtract"
                                        /\ ask[d].guest = h}
  BY DEF Checked, Makes
<1>9. overtaken' \subseteq Call
  BY <1>4, <1>5, <1>8 DEF TypeLoyalty
<1>10. ASSUME NEW h \in Member PROVE Owed(h)'
  <2>1. Owed(h)
    BY DEF InvLoyalty
  <2>2. /\ c \notin Moved(h, "redeem") /\ Moved(h, "earn")' = Moved(h, "earn")
        /\ Moved(h, "redeem")' = IF h = g THEN Moved(h, "redeem") \cup {c} ELSE Moved(h, "redeem")
    BY <1>1, <1>2, Joins
  <2>3. Moved(h, "redeem") \cap overtaken' = Moved(h, "redeem") \cap overtaken
    BY <1>4, <1>8 DEF Moved
  <2>4. CASE h # g
    <3>1. \A op : Moved(h, op)' = Moved(h, op)
      BY <1>1, <2>4 DEF Moved, Went, Only
    <3> QED
      BY <1>1, <1>6, <2>1, <2>3, <2>4, <3>1, OwedStays
  <2>5. CASE h = g
    <3> DEFINE earned == Moved(g, "earn")
               redeemed == Moved(g, "redeem")
               raced == Moved(g, "redeem") \cap overtaken
    <3>1. c \in overtaken' <=> c \in overtaken
      BY <1>4
    <3>2. (redeemed \cap overtaken)' = IF c \in overtaken THEN raced \cup {c} ELSE raced
      BY <2>2, <2>3, <2>5, <3>1
    <3>3. /\ PointsOf(Moved(g, "earn"))' = PointsOf(earned)
          /\ PointsOf(Moved(g, "redeem"))' = PointsOf(redeemed \cup {c})
      BY <1>1, <2>2, <2>5 DEF PointsOf
    <3>4. /\ Sum(Moved(g, "earn"))' = Sum(earned)
          /\ Sum(Moved(g, "redeem"))' = Sum(redeemed \cup {c})
      BY <3>3 DEF Sum, PointsOf
    <3>5. Sum(Moved(g, "redeem") \cap overtaken)' = IF c \in overtaken THEN Sum(raced \cup {c}) ELSE Sum(raced)
      <4>1. CASE c \in overtaken
        <5>1. PointsOf(Moved(g, "redeem") \cap overtaken)' = PointsOf(raced \cup {c})
          BY <1>1, <3>2, <4>1 DEF PointsOf
        <5> QED
          BY <4>1, <5>1 DEF Sum, PointsOf
      <4>2. CASE c \notin overtaken
        <5>1. PointsOf(Moved(g, "redeem") \cap overtaken)' = PointsOf(raced)
          BY <1>1, <3>2, <4>2 DEF PointsOf
        <5> QED
          BY <4>2, <5>1 DEF Sum, PointsOf
      <4> QED
        BY <4>1, <4>2
    <3>6. Finite(PointsOf(earned)) /\ Finite(PointsOf(redeemed)) /\ Finite(PointsOf(raced))
      <4>1. Finite(PointsOf(earned)) /\ Finite(PointsOf(redeemed))
        BY <2>1, <2>5 DEF Owed
      <4> QED
        BY <4>1, PartIsFinite DEF PointsOf
    <3>7. /\ Finite(PointsOf(redeemed \cup {c}))
          /\ Sum(redeemed \cup {c}) = Sum(redeemed) + n
          /\ Sum(raced \cup {c}) = Sum(raced) + n
          /\ Sum(redeemed) \in Nat /\ Sum(raced) \in Nat
      <4>1. c \notin redeemed /\ c \notin raced
        BY <2>2, <2>5
      <4> QED
        BY <1>2, <3>6, <4>1, SumGrows
    <3>8. Sum(earned) \in Nat
      BY <3>6, AmountIsNat DEF Sum, PointsOf
    <3>9. Balance(g)' = Balance(g) - n /\ Balance(g) \in Int /\ (c \notin overtaken => Balance(g) >= n)
      BY <1>2, <1>5, <1>6, <1>7 DEF Balance, MemberRow
    <3>10. /\ Balance(g) = Sum(earned) - Sum(redeemed)
           /\ member[g].lifetime = Sum(earned)
           /\ Balance(g) + Sum(raced) >= 0
      BY <1>7, <2>1, <2>5 DEF Owed
    <3> HIDE DEF earned, redeemed, raced
    <3>11. /\ Balance(g)' = Sum(Moved(g, "earn"))' - Sum(Moved(g, "redeem"))'
           /\ Balance(g)' + Sum(Moved(g, "redeem") \cap overtaken)' >= 0
      BY <1>2, <3>4, <3>5, <3>7, <3>8, <3>9, <3>10
    <3>12. member'[g].lifetime = Sum(Moved(g, "earn"))'
      BY <1>6, <3>4, <3>10
    <3>13. Finite(PointsOf(Moved(g, "earn")))' /\ Finite(PointsOf(Moved(g, "redeem")))'
      BY <3>3, <3>6, <3>7 DEF Finite
    <3> QED
      BY <1>7, <2>5, <3>11, <3>12, <3>13 DEF Owed
  <2> QED
    BY <2>4, <2>5
<1>11. \A d \in Call : ask[d] \in AskLoyalty /\ at'[d] = "subtract" =>
           /\ member'[ask[d].guest] # None
           /\ answer'[d] = None /\ d \notin overtaken' => Has(ask[d].guest, ask[d].points)'
  <2> SUFFICES ASSUME NEW d \in Call, ask[d] \in AskLoyalty, at'[d] = "subtract"
               PROVE  /\ member'[ask[d].guest] # None
                      /\ answer'[d] = None /\ d \notin overtaken' => Has(ask[d].guest, ask[d].points)'
    OBVIOUS
  <2>1. d # c /\ at[d] = "subtract" /\ answer'[d] = answer[d]
    BY <1>1 DEF Went, Only
  <2>2. ask[d].guest \in Member /\ ask[d] # None
    BY Offices
  <2>3. /\ member[ask[d].guest] # None
        /\ answer[d] = None /\ d \notin overtaken => Has(ask[d].guest, ask[d].points)
    BY <2>1 DEF InvLoyalty
  <2>4. CASE ask[d].guest = g
    BY <1>4, <1>7, <1>8, <2>1, <2>2, <2>4
  <2>5. CASE ask[d].guest # g
    BY <1>1, <1>4, <1>6, <2>1, <2>2, <2>3, <2>5 DEF Has
  <2> QED
    BY <2>4, <2>5
<1>12. \A d \in Call : d \in posted' <=> ask'[d] \in AskLoyalty /\ at'[d] = "end"
  BY <1>1, <1>4 DEF InvLoyalty, Went, Only
<1>13. InvLoyalty'
  BY <1>1, <1>4, <1>5, <1>6, <1>9, <1>10, <1>11, <1>12 DEF InvLoyalty, TypeLoyalty
<1> QED
  BY <1>1, <1>3, <1>13, OthersPlaced DEF Went

\* A step of c that changes no balance.
LEMMA NoPoints ==
  ASSUME InvRequests, InvLoyalty, NEW c \in Call, TypeRequests', Only(c), Placed(c)',
         UNCHANGED <<member, overtaken>>, posted' \in SUBSET Call,
         \A op, g : c \in Moved(g, op)' <=> c \in Moved(g, op),
         ask[c] \in AskLoyalty => ask'[c] = ask[c],
         \A d \in Call : d \in posted' <=> ask'[d] \in AskLoyalty /\ at'[d] = "end",
         ask'[c] \in AskLoyalty /\ at'[c] = "subtract" =>
             /\ member[ask'[c].guest] # None
             /\ answer'[c] = None /\ c \notin overtaken => Has(ask'[c].guest, ask'[c].points)
  PROVE  InvRequests' /\ InvLoyalty'
<1>1. ASSUME NEW g \in Member PROVE Owed(g)'
  <2>1. \A op : Moved(g, op)' = Moved(g, op)
    BY DEF Moved, Only
  <2>2. \A op : \A d \in Moved(g, op) : ask'[d] = ask[d]
    BY DEF Moved, Only
  <2> QED
    BY <2>1, <2>2, OwedStays DEF InvLoyalty
<1>2. \A d \in Call : ask'[d] \in AskLoyalty /\ at'[d] = "subtract" =>
           /\ member'[ask'[d].guest] # None
           /\ answer'[d] = None /\ d \notin overtaken' => Has(ask'[d].guest, ask'[d].points)
  BY DEF InvLoyalty, Only
<1> QED
  BY <1>1, <1>2, OthersPlaced DEF InvLoyalty, TypeLoyalty, Has

LEMMA CheckKeeps ==
  ASSUME InvRequests, InvLoyalty, NEW c \in Call, ask[c] \in AskLoyalty, Check(c)
  PROVE  InvRequests' /\ InvLoyalty' /\ ask' = ask /\ Only(c)
<1>1. UNCHANGED <<member, posted, overtaken>>
  BY DEF Check, loyalty
<1>2. \/ Went(c, "check", "subtract", None) /\ Has(ask[c].guest, ask[c].points)
      \/ Went(c, "check", "check", "refused")
  <2>1. "check" \in Step /\ "subtract" \in Step
    BY DEF Step
  <2> QED
    BY <2>1, Goes DEF Check
<1>3. ask[c].op = "redeem"
  BY <1>2, Offices DEF InvRequests, Placed, Went
<1>4. /\ TypeRequests' /\ Only(c) /\ ask' = ask /\ at[c] = "check"
      /\ \/ at'[c] = "subtract" /\ answer'[c] = None /\ Has(ask[c].guest, ask[c].points)
         \/ at'[c] = "check" /\ answer'[c] = "refused"
  BY <1>2 DEF Went
<1>5. Placed(c)'
  BY <1>3, <1>4, Offices, RequestsAssumption DEF Placed, PlacedTenant
<1>6. \A op, g : c \in Moved(g, op)' <=> c \in Moved(g, op)
  BY <1>4 DEF Moved
<1>7. \A d \in Call : d \in posted' <=> ask'[d] \in AskLoyalty /\ at'[d] = "end"
  BY <1>1, <1>4 DEF InvLoyalty, Only
<1>8. posted' \in SUBSET Call
  BY <1>1 DEF InvLoyalty, TypeLoyalty
<1> QED
  BY <1>1, <1>4, <1>5, <1>6, <1>7, <1>8, NoPoints DEF Has

LEMMA PostKeeps ==
  ASSUME InvRequests, InvLoyalty, NEW c \in Call, ask[c] \in AskLoyalty, Post(c)
  PROVE  InvRequests' /\ InvLoyalty' /\ ask' = ask /\ Only(c)
<1>1. posted' = posted \cup {c} /\ UNCHANGED <<member, overtaken>>
  BY DEF Post
<1>2. Ended(c, "post")
  BY Goes DEF Post, Step
<1>3. /\ TypeRequests' /\ Only(c) /\ ask' = ask
      /\ at[c] = "post" /\ at'[c] = "end" /\ answer'[c] \in {"ok", "failed"}
  BY <1>2 DEF Went, Ended
<1>4. Placed(c)'
  BY <1>3, Offices DEF InvRequests, Placed, PlacedTenant
<1>5. \A op, g : c \in Moved(g, op)' <=> c \in Moved(g, op)
  BY <1>3 DEF Moved
<1>6. \A d \in Call : d \in posted' <=> ask'[d] \in AskLoyalty /\ at'[d] = "end"
  BY <1>1, <1>3 DEF InvLoyalty, Only
<1>7. posted' \in SUBSET Call
  BY <1>1 DEF InvLoyalty, TypeLoyalty
<1> QED
  BY <1>1, <1>3, <1>4, <1>5, <1>6, <1>7, NoPoints

LEMMA ServeLoyaltyKeeps ==
  ASSUME InvRequests, InvLoyalty, NEW c \in Call, ServeLoyalty(c)
  PROVE  /\ InvRequests' /\ InvLoyalty' /\ Only(c)
         /\ ask[c] \in AskLoyalty \cup {None} /\ ask'[c] \in AskLoyalty
<1>1. CASE ask[c] \in AskLoyalty /\ (Award(c) \/ Check(c) \/ Subtract(c) \/ Post(c))
  BY <1>1, AwardKeeps, CheckKeeps, SubtractKeeps, PostKeeps
<1>2. ASSUME NEW a \in AskLoyalty, Fresh(c), UNCHANGED loyalty,
             Begin(c, a, IF a.op = "earn" THEN "award" ELSE "check")
      PROVE  InvRequests' /\ InvLoyalty' /\ Only(c) /\ ask[c] = None /\ ask'[c] \in AskLoyalty
  <2> DEFINE t == IF a.op = "earn" THEN "award" ELSE "check"
  <2>1. t \in Step /\ t \in {"award", "check"}
    BY DEF Step
  <2>2. Came(c, a, t)
    BY <1>2, <2>1, Comes
  <2>3. /\ TypeRequests' /\ Only(c) /\ ask[c] = None
        /\ ask'[c] = a /\ at'[c] = t /\ answer'[c] = None
    BY <2>2 DEF Came
  <2>4. Placed(c)'
    BY <2>3, Offices, RequestsAssumption DEF Placed
  <2>5. UNCHANGED <<member, posted, overtaken>>
    BY <1>2 DEF loyalty
  <2>6. ask[c] \notin AskLoyalty
    BY <2>3, LoyaltyAssumption
  <2>7. \A op, g : c \notin Moved(g, op) /\ c \notin Moved(g, op)'
    BY <2>1, <2>3, <2>6 DEF Moved
  <2>8. \A d \in Call : d \in posted' <=> ask'[d] \in AskLoyalty /\ at'[d] = "end"
    BY <2>1, <2>3, <2>5, <2>6 DEF InvLoyalty, Only
  <2>9. posted' \in SUBSET Call
    BY <2>5 DEF InvLoyalty, TypeLoyalty
  <2>10. at'[c] # "subtract"
    BY <2>1, <2>3
  <2> HIDE DEF t
  <2> QED
    BY <2>3, <2>4, <2>5, <2>6, <2>7, <2>8, <2>9, <2>10, NoPoints
<1> QED
  BY <1>1, <1>2 DEF ServeLoyalty

-----------------------------------------------------------------------------
(* Linen.                                                                  *)

LEMMA LinenSumsStay ==
  ASSUME LinenSums, UNCHANGED <<stock, short>>, Issued' = Issued, Returned' = Returned,
         \A c \in Issued \cup Returned : ask'[c] = ask[c]
  PROVE  LinenSums'
<1>1. /\ QuantityOf(Issued)' = QuantityOf(Issued) /\ QuantityOf(Returned)' = QuantityOf(Returned)
      /\ KeptOf(Returned)' = KeptOf(Returned)
      /\ KeptOf(Issued \cup Returned)' = KeptOf(Issued \cup Returned)
      /\ Excess' = Excess
  BY DEF QuantityOf, KeptOf, Excess
<1>2. /\ Pieces(Issued)' = Pieces(Issued) /\ Pieces(Returned)' = Pieces(Returned)
      /\ Kept(Returned)' = Kept(Returned) /\ Kept(Issued \cup Returned)' = Kept(Issued \cup Returned)
      /\ Invented' = Invented
  BY <1>1 DEF Pieces, Kept, Invented, QuantityOf, KeptOf, Excess
<1> QED
  BY <1>1, <1>2 DEF LinenSums

LEMMA LinenApart ==
  ASSUME InvLinen, Apart(AskLinen), UNCHANGED linen
  PROVE  InvLinen'
<1>1. UNCHANGED <<stock, noted, short>>
  BY DEF linen
<1>2. Issued' = Issued /\ Returned' = Returned /\ \A c \in Issued \cup Returned : ask'[c] = ask[c]
  BY DEF Issued, Returned, Apart
<1>3. LinenSums'
  BY <1>1, <1>2, LinenSumsStay DEF InvLinen
<1> QED
  BY <1>1, <1>3 DEF InvLinen, TypeLinen, Apart

LEMMA NoteKeeps ==
  ASSUME InvRequests, InvLinen, NEW c \in Call, ask[c] \in AskLinen, Note(c)
  PROVE  InvRequests' /\ InvLinen' /\ ask' = ask /\ Only(c)
<1>1. noted' = noted \cup {c} /\ UNCHANGED <<stock, short>>
  BY DEF Note
<1>2. Went(c, "note", "move", None)
  BY Goes DEF Note, Step
<1>3. /\ TypeRequests' /\ Only(c) /\ ask' = ask
      /\ at[c] = "note" /\ at'[c] = "move" /\ answer'[c] = None
  BY <1>2 DEF Went
<1>4. Placed(c)'
  BY <1>3, Offices, RequestsAssumption DEF Placed, PlacedTenant
<1>5. Issued' = Issued /\ Returned' = Returned
  BY <1>3 DEF Issued, Returned, Only
<1>6. LinenSums'
  BY <1>1, <1>3, <1>5, LinenSumsStay DEF InvLinen
<1>7. \A d \in Call : d \in noted' <=> ask'[d] \in AskLinen /\ at'[d] \in {"move", "end"}
  BY <1>1, <1>3 DEF InvLinen, Only
<1> QED
  BY <1>1, <1>3, <1>4, <1>6, <1>7, OthersPlaced DEF InvLinen, TypeLinen

\* One more request that has moved the counters.
LEMMA QuantityGrows ==
  ASSUME NEW S, NEW c, c \notin S, Finite(QuantityOf(S)), ask[c].quantity \in Nat
  PROVE  /\ Finite(QuantityOf(S \cup {c}))
         /\ Pieces(S \cup {c}) = Pieces(S) + ask[c].quantity
<1> DEFINE f == QuantityOf(S)
           h == QuantityOf(S \cup {c})
<1>1. DOMAIN f = S /\ DOMAIN h = S \cup {c} /\ h[c] = ask[c].quantity /\ \A x \in S : h[x] = f[x]
  BY DEF QuantityOf
<1>2. Pieces(S) = Amount(f) /\ Pieces(S \cup {c}) = Amount(h)
  BY DEF Pieces, QuantityOf
<1> HIDE DEF f, h
<1>3. Finite(h) /\ Amount(h) = Amount(f) + h[c]
  BY <1>1, OneMore DEF f
<1> QED
  BY <1>1, <1>2, <1>3 DEF h

LEMMA KeptGrows ==
  ASSUME NEW S, NEW c, c \notin S, Finite(KeptOf(S)), short'[c] \in Nat,
         \A d \in S : short'[d] = short[d]
  PROVE  /\ Finite([d \in S \cup {c} |-> short'[d]])
         /\ Amount([d \in S \cup {c} |-> short'[d]]) = Kept(S) + short'[c]
<1> DEFINE f == KeptOf(S)
           h == [d \in S \cup {c} |-> short'[d]]
<1>1. DOMAIN f = S /\ DOMAIN h = S \cup {c} /\ h[c] = short'[c] /\ \A x \in S : h[x] = f[x]
  BY DEF KeptOf
<1>2. Kept(S) = Amount(f)
  BY DEF Kept, KeptOf
<1> HIDE DEF f, h
<1>3. Finite(h) /\ Amount(h) = Amount(f) + h[c]
  BY <1>1, OneMore DEF f
<1> QED
  BY <1>1, <1>2, <1>3 DEF h

LEMMA LinenIsNat ==
  ASSUME LinenSums
  PROVE  /\ Pieces(Issued) \in Nat /\ Pieces(Returned) \in Nat
         /\ Kept(Returned) \in Nat /\ Kept(Issued \cup Returned) \in Nat /\ Invented \in Nat
BY AmountIsNat DEF LinenSums, Pieces, Kept, Invented, QuantityOf, KeptOf, Excess

LEMMA IssueKeeps ==
  ASSUME InvRequests, InvLinen, NEW c \in Call, ask[c] \in AskLinen, Issue(c),
         NEW n, n = ask[c].quantity
  PROVE  InvRequests' /\ InvLinen' /\ ask' = ask /\ Only(c)
<1>1. /\ ask[c].op = "issue" /\ Finish(c, "move") /\ noted' = noted
      /\ stock' = [stock EXCEPT !.inUse = @ + n, !.total = Greatest(@ - n, 0)]
      /\ short' = [short EXCEPT ![c] = Greatest(n - stock.total, 0)]
  BY DEF Issue
<1>2. Ended(c, "move")
  BY <1>1, Goes DEF Step
<1>3. /\ TypeRequests' /\ Only(c) /\ ask' = ask
      /\ at[c] = "move" /\ at'[c] = "end" /\ answer'[c] \in {"ok", "failed"}
  BY <1>2 DEF Went, Ended
<1>4. Placed(c)'
  BY <1>3, Offices DEF Placed, PlacedTenant
<1>5. n \in Nat \ {0} /\ TypeLinen /\ LinenSums
  BY Offices DEF InvLinen
<1>6. /\ stock.total \in Nat /\ stock.inUse \in Nat /\ stock.laundry \in Nat /\ stock.damaged \in Int
      /\ stock'.total = Greatest(stock.total - n, 0) /\ stock'.inUse = stock.inUse + n
      /\ stock'.laundry = stock.laundry /\ stock'.damaged = stock.damaged
      /\ stock' \in [total : Nat, inUse : Nat, laundry : Nat, damaged : Int]
  <2>1. stock \in [total : Nat, inUse : Nat, laundry : Nat, damaged : Int]
    BY <1>5 DEF TypeLinen
  <2>2. /\ Greatest(stock.total - n, 0) \in Nat /\ stock.inUse + n \in Nat
        /\ stock.total \in Nat /\ stock.inUse \in Nat /\ stock.laundry \in Nat /\ stock.damaged \in Int
    BY <1>5, <2>1 DEF Greatest
  <2>3. stock' = [stock EXCEPT !.inUse = stock.inUse + n, !.total = Greatest(stock.total - n, 0)]
    BY <1>1, <2>1
  <2> QED
    BY <2>1, <2>2, <2>3
<1>7. /\ short' \in [Call -> Nat] /\ short'[c] = Greatest(n - stock.total, 0)
      /\ \A d \in Call \ {c} : short'[d] = short[d]
  BY <1>1, <1>5, <1>6 DEF TypeLinen, Greatest
<1>8. /\ Issued' = Issued \cup {c} /\ Returned' = Returned
      /\ c \notin Issued /\ c \notin Returned
      /\ Issued \in SUBSET Call /\ Returned \in SUBSET Call
  BY <1>1, <1>3 DEF Issued, Returned, Only
<1>9. /\ Finite(QuantityOf(Issued))' /\ Pieces(Issued)' = Pieces(Issued) + n
  <2>1. QuantityOf(Issued)' = QuantityOf(Issued \cup {c})
    BY <1>3, <1>8 DEF QuantityOf
  <2>2. Pieces(Issued)' = Pieces(Issued \cup {c})
    BY <2>1 DEF Pieces, QuantityOf
  <2>3. Finite(QuantityOf(Issued \cup {c})) /\ Pieces(Issued \cup {c}) = Pieces(Issued) + n
    BY <1>5, <1>8, QuantityGrows DEF LinenSums
  <2> QED
    BY <2>1, <2>2, <2>3 DEF Finite
<1>10. Finite(QuantityOf(Returned))' /\ Pieces(Returned)' = Pieces(Returned)
  <2>1. QuantityOf(Returned)' = QuantityOf(Returned)
    BY <1>3, <1>8 DEF QuantityOf
  <2> QED
    BY <1>5, <2>1 DEF LinenSums, Finite, Pieces, QuantityOf
<1>11. Finite(KeptOf(Returned))' /\ Kept(Returned)' = Kept(Returned)
  <2>1. KeptOf(Returned)' = KeptOf(Returned)
    BY <1>7, <1>8 DEF KeptOf
  <2> QED
    BY <1>5, <2>1 DEF LinenSums, Finite, Kept, KeptOf
<1>12. /\ Finite(KeptOf(Issued \cup Returned))'
       /\ Kept(Issued \cup Returned)' = Kept(Issued \cup Returned) + short'[c]
  <2>1. KeptOf(Issued \cup Returned)' = [d \in (Issued \cup Returned) \cup {c} |-> short'[d]]
    <3>1. Issued' \cup Returned' = (Issued \cup Returned) \cup {c}
      BY <1>8
    <3> QED
      BY <3>1 DEF KeptOf
  <2>2. /\ Finite([d \in (Issued \cup Returned) \cup {c} |-> short'[d]])
        /\ Amount([d \in (Issued \cup Returned) \cup {c} |-> short'[d]])
             = Kept(Issued \cup Returned) + short'[c]
    BY <1>5, <1>7, <1>8, KeptGrows DEF LinenSums
  <2> QED
    BY <2>1, <2>2 DEF Finite, Kept, KeptOf
<1>13. Finite(Excess)' /\ Invented' = Invented
  <2>1. Excess' = Excess
    BY <1>3, <1>8 DEF Excess
  <2> QED
    BY <1>5, <2>1 DEF LinenSums, Finite, Invented, Excess
<1>14. stock'.inUse = Pieces(Issued)' - (Pieces(Returned)' - Kept(Returned)')
  BY <1>5, <1>6, <1>9, <1>10, <1>11, LinenIsNat DEF LinenSums
<1>15. stock'.total + stock'.inUse + stock'.laundry + stock'.damaged
         = Stock + Kept(Issued \cup Returned)' + Invented'
  BY <1>5, <1>6, <1>7, <1>12, <1>13, LinenIsNat, LinenAssumption DEF LinenSums, Greatest
<1>16. \A d \in Call : d \in noted' <=> ask'[d] \in AskLinen /\ at'[d] \in {"move", "end"}
  BY <1>1, <1>3 DEF InvLinen, Only
<1>17. TypeLinen'
  BY <1>1, <1>5, <1>6, <1>7 DEF TypeLinen
<1> QED
  BY <1>3, <1>4, <1>9, <1>10, <1>11, <1>12, <1>13, <1>14, <1>15, <1>16, <1>17, OthersPlaced
  DEF InvLinen, LinenSums

LEMMA ReturnKeeps ==
  ASSUME InvRequests, InvLinen, NEW c \in Call, ask[c] \in AskLinen, Return(c),
         NEW n, n = ask[c].quantity, NEW x, x = ask[c].damaged
  PROVE  InvRequests' /\ InvLinen' /\ ask' = ask /\ Only(c)
<1>1. /\ ask[c].op = "return" /\ Finish(c, "move") /\ noted' = noted
      /\ stock' = [stock EXCEPT !.inUse = Greatest(@ - n, 0), !.laundry = @ + Greatest(n - x, 0),
                                !.damaged = @ + x]
      /\ short' = [short EXCEPT ![c] = Greatest(n - stock.inUse, 0)]
  BY DEF Return
<1>2. Ended(c, "move")
  BY <1>1, Goes DEF Step
<1>3. /\ TypeRequests' /\ Only(c) /\ ask' = ask
      /\ at[c] = "move" /\ at'[c] = "end" /\ answer'[c] \in {"ok", "failed"}
  BY <1>2 DEF Went, Ended
<1>4. Placed(c)'
  BY <1>3, Offices DEF Placed, PlacedTenant
<1>5. n \in Nat \ {0} /\ x \in Int /\ TypeLinen /\ LinenSums
  BY <1>1, Offices DEF InvLinen
<1>6. /\ stock.total \in Nat /\ stock.inUse \in Nat /\ stock.laundry \in Nat /\ stock.damaged \in Int
      /\ stock'.total = stock.total /\ stock'.inUse = Greatest(stock.inUse - n, 0)
      /\ stock'.laundry = stock.laundry + Greatest(n - x, 0) /\ stock'.damaged = stock.damaged + x
      /\ stock' \in [total : Nat, inUse : Nat, laundry : Nat, damaged : Int]
  <2>1. stock \in [total : Nat, inUse : Nat, laundry : Nat, damaged : Int]
    BY <1>5 DEF TypeLinen
  <2>2. /\ Greatest(stock.inUse - n, 0) \in Nat /\ stock.laundry + Greatest(n - x, 0) \in Nat
        /\ stock.damaged + x \in Int
        /\ stock.total \in Nat /\ stock.inUse \in Nat /\ stock.laundry \in Nat /\ stock.damaged \in Int
    BY <1>5, <2>1 DEF Greatest
  <2>3. stock' = [stock EXCEPT !.inUse = Greatest(stock.inUse - n, 0),
                               !.laundry = stock.laundry + Greatest(n - x, 0),
                               !.damaged = stock.damaged + x]
    BY <1>1, <2>1
  <2> QED
    BY <2>1, <2>2, <2>3
<1>7. /\ short' \in [Call -> Nat] /\ short'[c] = Greatest(n - stock.inUse, 0)
      /\ \A d \in Call \ {c} : short'[d] = short[d]
  BY <1>1, <1>5, <1>6 DEF TypeLinen, Greatest
<1>8. /\ Returned' = Returned \cup {c} /\ Issued' = Issued
      /\ c \notin Issued /\ c \notin Returned
      /\ Issued \in SUBSET Call /\ Returned \in SUBSET Call
  BY <1>1, <1>3 DEF Issued, Returned, Only
<1>9. Finite(QuantityOf(Issued))' /\ Pieces(Issued)' = Pieces(Issued)
  <2>1. QuantityOf(Issued)' = QuantityOf(Issued)
    BY <1>3, <1>8 DEF QuantityOf
  <2> QED
    BY <1>5, <2>1 DEF LinenSums, Finite, Pieces, QuantityOf
<1>10. Finite(QuantityOf(Returned))' /\ Pieces(Returned)' = Pieces(Returned) + n
  <2>1. QuantityOf(Returned)' = QuantityOf(Returned \cup {c})
    BY <1>3, <1>8 DEF QuantityOf
  <2>2. Pieces(Returned)' = Pieces(Returned \cup {c})
    BY <2>1 DEF Pieces, QuantityOf
  <2>3. Finite(QuantityOf(Returned \cup {c})) /\ Pieces(Returned \cup {c}) = Pieces(Returned) + n
    BY <1>5, <1>8, QuantityGrows DEF LinenSums
  <2> QED
    BY <2>1, <2>2, <2>3 DEF Finite
<1>11. Finite(KeptOf(Returned))' /\ Kept(Returned)' = Kept(Returned) + short'[c]
  <2>1. KeptOf(Returned)' = [d \in Returned \cup {c} |-> short'[d]]
    BY <1>8 DEF KeptOf
  <2>2. /\ Finite([d \in Returned \cup {c} |-> short'[d]])
        /\ Amount([d \in Returned \cup {c} |-> short'[d]]) = Kept(Returned) + short'[c]
    BY <1>5, <1>7, <1>8, KeptGrows DEF LinenSums
  <2> QED
    BY <2>1, <2>2 DEF Finite, Kept, KeptOf
<1>12. /\ Finite(KeptOf(Issued \cup Returned))'
       /\ Kept(Issued \cup Returned)' = Kept(Issued \cup Returned) + short'[c]
  <2>1. KeptOf(Issued \cup Returned)' = [d \in (Issued \cup Returned) \cup {c} |-> short'[d]]
    <3>1. Issued' \cup Returned' = (Issued \cup Returned) \cup {c}
      BY <1>8
    <3> QED
      BY <3>1 DEF KeptOf
  <2>2. /\ Finite([d \in (Issued \cup Returned) \cup {c} |-> short'[d]])
        /\ Amount([d \in (Issued \cup Returned) \cup {c} |-> short'[d]])
             = Kept(Issued \cup Returned) + short'[c]
    BY <1>5, <1>7, <1>8, KeptGrows DEF LinenSums
  <2> QED
    BY <2>1, <2>2 DEF Finite, Kept, KeptOf
<1>13. Finite(Excess)' /\ Invented' = Invented + Greatest(x - n, 0)
  <2> DEFINE h == [d \in Returned \cup {c} |-> Greatest(ask[d].damaged - ask[d].quantity, 0)]
  <2>1. Excess' = h
    BY <1>3, <1>8 DEF Excess
  <2>2. /\ DOMAIN Excess = Returned /\ DOMAIN h = Returned \cup {c}
        /\ h[c] = Greatest(x - n, 0) /\ \A d \in Returned : h[d] = Excess[d]
    BY DEF Excess
  <2>3. Greatest(x - n, 0) \in Nat
    BY <1>5 DEF Greatest
  <2> HIDE DEF h
  <2>4. Finite(h) /\ Amount(h) = Amount(Excess) + h[c]
    BY <1>5, <1>8, <2>2, <2>3, OneMore DEF LinenSums
  <2>5. Invented = Amount(Excess) /\ Invented' = Amount(Excess')
    BY DEF Invented, Excess
  <2> QED
    BY <2>1, <2>2, <2>4, <2>5 DEF Finite
<1>14. stock'.inUse = Pieces(Issued)' - (Pieces(Returned)' - Kept(Returned)')
  BY <1>5, <1>6, <1>7, <1>9, <1>10, <1>11, LinenIsNat DEF LinenSums, Greatest
<1>15. stock'.total + stock'.inUse + stock'.laundry + stock'.damaged
         = Stock + Kept(Issued \cup Returned)' + Invented'
  BY <1>5, <1>6, <1>7, <1>12, <1>13, LinenIsNat, LinenAssumption DEF LinenSums, Greatest
<1>16. \A d \in Call : d \in noted' <=> ask'[d] \in AskLinen /\ at'[d] \in {"move", "end"}
  BY <1>1, <1>3 DEF InvLinen, Only
<1>17. TypeLinen'
  BY <1>1, <1>5, <1>6, <1>7 DEF TypeLinen
<1> QED
  BY <1>3, <1>4, <1>9, <1>10, <1>11, <1>12, <1>13, <1>14, <1>15, <1>16, <1>17, OthersPlaced
  DEF InvLinen, LinenSums

LEMMA ServeLinenKeeps ==
  ASSUME InvRequests, InvLinen, NEW c \in Call, ServeLinen(c)
  PROVE  /\ InvRequests' /\ InvLinen' /\ Only(c)
         /\ ask[c] \in AskLinen \cup {None} /\ ask'[c] \in AskLinen
<1>1. CASE ask[c] \in AskLinen /\ (Note(c) \/ Issue(c) \/ Return(c))
  BY <1>1, NoteKeeps, IssueKeeps, ReturnKeeps
<1>2. ASSUME NEW a \in AskLinen, Fresh(c), UNCHANGED linen, Begin(c, a, "note")
      PROVE  InvRequests' /\ InvLinen' /\ Only(c) /\ ask[c] = None /\ ask'[c] \in AskLinen
  <2>1. Came(c, a, "note")
    BY <1>2, Comes DEF Step
  <2>2. /\ TypeRequests' /\ Only(c) /\ ask[c] = None
        /\ ask'[c] = a /\ at'[c] = "note" /\ answer'[c] = None
    BY <2>1 DEF Came
  <2>3. Placed(c)'
    BY <2>2, Offices, RequestsAssumption DEF Placed
  <2>4. UNCHANGED <<stock, noted, short>>
    BY <1>2 DEF linen
  <2>5. ask[c] \notin AskLinen
    BY <2>2, LinenAssumption
  <2>6. Issued' = Issued /\ Returned' = Returned /\ \A d \in Issued \cup Returned : ask'[d] = ask[d]
    BY <2>2, <2>5 DEF Issued, Returned, Only
  <2>7. LinenSums'
    BY <2>4, <2>6, LinenSumsStay DEF InvLinen
  <2>8. \A d \in Call : d \in noted' <=> ask'[d] \in AskLinen /\ at'[d] \in {"move", "end"}
    BY <2>2, <2>4, <2>5 DEF InvLinen, Only
  <2> QED
    BY <2>2, <2>3, <2>4, <2>7, <2>8, OthersPlaced DEF InvLinen, TypeLinen
<1> QED
  BY <1>1, <1>2 DEF ServeLinen

-----------------------------------------------------------------------------
(* The night audit.                                                        *)

LEMMA AuditApart ==
  ASSUME InvAudit, Apart(AskAudit), UNCHANGED audit
  PROVE  InvAudit'
<1>1. UNCHANGED <<today, reports, totals, told, overnight>>
  BY DEF audit
<1>2. \A c \in Call : ask'[c] \in AskAudit /\ at'[c] \in {"count", "file"} =>
           totals[c] \in Day /\ (answer'[c] = None => totals[c] = today \/ c \in overnight)
  BY DEF InvAudit, Apart
<1>3. \A c \in Call : told[c] # None => ask[c] \in AskAudit /\ ask'[c] = ask[c]
  BY DEF InvAudit, Apart
<1> QED
  BY <1>1, <1>2, <1>3 DEF InvAudit, TypeAudit, DoneDaysAudited

\* A step of c by which the day stays, and the checklist of c, if it is told, is done.
LEMMA SameDay ==
  ASSUME InvRequests, InvAudit, NEW c \in Call, TypeRequests', Only(c), Placed(c)', TypeAudit',
         UNCHANGED <<today, overnight>>, reports \subseteq reports',
         ask[c] \in AskAudit => ask'[c] = ask[c],
         \A d \in Call \ {c} : totals'[d] = totals[d] /\ told'[d] = told[d],
         \A r \in reports' : r.of = r.date \/ r.by \in overnight,
         ask'[c] \in AskAudit /\ at'[c] \in {"count", "file"} =>
             totals'[c] \in Day /\ (answer'[c] = None => totals'[c] = today \/ c \in overnight),
         \/ told'[c] = told[c]
         \/ /\ ask'[c] \in AskAudit
            /\ \E r \in reports' : r.hotel = ask'[c].hotel /\ r.date = told'[c]
  PROVE  InvRequests' /\ InvAudit'
<1>1. \A d \in Call : ask'[d] \in AskAudit /\ at'[d] \in {"count", "file"} =>
           totals'[d] \in Day /\ (answer'[d] = None => totals'[d] = today \/ d \in overnight)
  BY DEF InvAudit, Only
<1>2. ASSUME NEW d \in Call, told'[d] # None
      PROVE  /\ ask'[d] \in AskAudit
             /\ \E r \in reports' : r.hotel = ask'[d].hotel /\ r.date = told'[d]
  <2>1. CASE told'[d] = told[d]
    <3>1. ask[d] \in AskAudit /\ ask'[d] = ask[d]
      BY <1>2, <2>1 DEF InvAudit, Only
    <3>2. \E r \in reports : r.hotel = ask[d].hotel /\ r.date = told[d]
      BY <1>2, <2>1 DEF InvAudit, DoneDaysAudited
    <3> QED
      BY <2>1, <3>1, <3>2
  <2>2. CASE told'[d] # told[d]
    BY <2>2
  <2> QED
    BY <2>1, <2>2
<1>3. DoneDaysAudited'
  BY <1>2 DEF DoneDaysAudited
<1> QED
  BY <1>1, <1>2, <1>3, OthersPlaced DEF InvAudit

LEMMA TotalKeeps ==
  ASSUME InvRequests, InvAudit, NEW c \in Call, ask[c] \in AskAudit, Total(c)
  PROVE  InvRequests' /\ InvAudit' /\ ask' = ask /\ Only(c)
<1>1. totals' = [totals EXCEPT ![c] = today] /\ UNCHANGED <<today, reports, told, overnight>>
  BY DEF Total
<1>2. Went(c, "total", "count", None)
  BY Goes DEF Total, Step
<1>3. /\ TypeRequests' /\ Only(c) /\ ask' = ask
      /\ at[c] = "total" /\ at'[c] = "count" /\ answer'[c] = None
  BY <1>2 DEF Went
<1>4. Placed(c)'
  BY <1>3, Offices, RequestsAssumption DEF InvRequests, Placed, PlacedTenant
<1>5. TypeAudit' /\ totals'[c] = today /\ today \in Day /\ \A d \in Call \ {c} : totals'[d] = totals[d]
  BY <1>1 DEF InvAudit, TypeAudit
<1> QED
  BY <1>1, <1>3, <1>4, <1>5, SameDay DEF InvAudit, DoneDaysAudited

LEMMA CountKeeps ==
  ASSUME InvRequests, InvAudit, NEW c \in Call, ask[c] \in AskAudit, Count(c)
  PROVE  InvRequests' /\ InvAudit' /\ ask' = ask /\ Only(c)
<1>1. UNCHANGED <<today, reports, totals, told, overnight>>
  BY DEF Count, audit
<1>2. Went(c, "count", "file", None)
  BY Goes DEF Count, Step
<1>3. /\ TypeRequests' /\ Only(c) /\ ask' = ask /\ answer[c] = None
      /\ at[c] = "count" /\ at'[c] = "file" /\ answer'[c] = None
  BY <1>2 DEF Went
<1>4. Placed(c)'
  BY <1>3, Offices, RequestsAssumption DEF InvRequests, Placed, PlacedTenant
<1>5. TypeAudit' /\ totals[c] \in Day /\ (totals[c] = today \/ c \in overnight)
  BY <1>1, <1>3 DEF InvAudit, TypeAudit
<1> QED
  BY <1>1, <1>3, <1>4, <1>5, SameDay DEF InvAudit, DoneDaysAudited

\* The totals of a report are of its day, unless its request was in hand at midnight.
LEMMA FileKeeps ==
  ASSUME InvRequests, InvAudit, NEW c \in Call, ask[c] \in AskAudit, File(c)
  PROVE  InvRequests' /\ InvAudit' /\ ask' = ask /\ Only(c)
<1> DEFINE report == [by |-> c, hotel |-> ask[c].hotel, date |-> today, of |-> totals[c]]
<1>1. reports' = reports \cup {report} /\ UNCHANGED <<today, totals, told, overnight>>
  BY DEF File
<1>2. Ended(c, "file")
  BY Goes DEF File, Step
<1>3. /\ TypeRequests' /\ Only(c) /\ ask' = ask /\ answer[c] = None
      /\ at[c] = "file" /\ at'[c] = "end" /\ answer'[c] \in {"ok", "failed"}
  BY <1>2 DEF Went, Ended
<1>4. Placed(c)'
  BY <1>3, Offices DEF InvRequests, Placed, PlacedTenant
<1>5. totals[c] \in Day /\ (totals[c] = today \/ c \in overnight) /\ today \in Day
  BY <1>3 DEF InvAudit, TypeAudit
<1>6. report \in [by : Call, hotel : Tenant, date : Day, of : Day]
  BY <1>5, Offices
<1>7. TypeAudit'
  BY <1>1, <1>6 DEF InvAudit, TypeAudit
<1>8. \A r \in reports' : r.of = r.date \/ r.by \in overnight
  BY <1>1, <1>5 DEF InvAudit, DoneDaysAudited
<1> QED
  BY <1>1, <1>3, <1>4, <1>7, <1>8, SameDay

LEMMA ChecklistKeeps ==
  ASSUME InvRequests, InvAudit, NEW c \in Call, ask[c] \in AskAudit, Checklist(c)
  PROVE  InvRequests' /\ InvAudit' /\ ask' = ask /\ Only(c)
<1>1. /\ UNCHANGED <<today, reports, totals, overnight>>
      /\ (Filed(c) /\ told' = [told EXCEPT ![c] = today]) \/ told' = told
  BY DEF Checklist
<1>2. Ended(c, "list")
  BY Goes DEF Checklist, Step
<1>3. /\ TypeRequests' /\ Only(c) /\ ask' = ask
      /\ at[c] = "list" /\ at'[c] = "end" /\ answer'[c] \in {"ok", "failed"}
  BY <1>2 DEF Went, Ended
<1>4. Placed(c)'
  BY <1>3, Offices DEF InvRequests, Placed, PlacedTenant
<1>5. /\ TypeAudit' /\ \A d \in Call \ {c} : told'[d] = told[d]
      /\ (Filed(c) /\ told'[c] = today) \/ told'[c] = told[c]
  BY <1>1 DEF InvAudit, TypeAudit
<1>6. \/ told'[c] = told[c]
      \/ \E r \in reports' : r.hotel = ask'[c].hotel /\ r.date = told'[c]
  BY <1>1, <1>3, <1>5 DEF Filed
<1> QED
  BY <1>1, <1>3, <1>4, <1>5, <1>6, SameDay DEF InvAudit, DoneDaysAudited

LEMMA ServeAuditKeeps ==
  ASSUME InvRequests, InvAudit, NEW c \in Call, ServeAudit(c)
  PROVE  /\ InvRequests' /\ InvAudit' /\ Only(c)
         /\ ask[c] \in AskAudit \cup {None} /\ ask'[c] \in AskAudit
<1>1. CASE ask[c] \in AskAudit /\ (Total(c) \/ Count(c) \/ File(c) \/ Checklist(c))
  BY <1>1, TotalKeeps, CountKeeps, FileKeeps, ChecklistKeeps
<1>2. ASSUME NEW a \in AskAudit, Fresh(c), UNCHANGED audit,
             Begin(c, a, IF a.op = "close" THEN "total" ELSE "list")
      PROVE  InvRequests' /\ InvAudit' /\ Only(c) /\ ask[c] = None /\ ask'[c] \in AskAudit
  <2> DEFINE t == IF a.op = "close" THEN "total" ELSE "list"
  <2>1. t \in Step /\ t \in {"total", "list"}
    BY DEF Step
  <2>2. Came(c, a, t)
    BY <1>2, <2>1, Comes
  <2>3. /\ TypeRequests' /\ Only(c) /\ ask[c] = None
        /\ ask'[c] = a /\ at'[c] = t /\ answer'[c] = None
    BY <2>2 DEF Came
  <2>4. Placed(c)'
    BY <2>3, Offices, RequestsAssumption DEF Placed
  <2>5. UNCHANGED <<today, reports, totals, told, overnight>>
    BY <1>2 DEF audit
  <2>6. ask[c] \notin AskAudit /\ at'[c] \notin {"count", "file"}
    BY <2>1, <2>3, NightAuditAssumption
  <2>7. TypeAudit'
    BY <2>5 DEF InvAudit, TypeAudit
  <2> HIDE DEF t
  <2> QED
    BY <2>3, <2>4, <2>5, <2>6, <2>7, SameDay DEF InvAudit, DoneDaysAudited
<1> QED
  BY <1>1, <1>2 DEF ServeAudit

\* Midnight makes a note of every request whose totals it makes stale.
LEMMA MidnightKeeps ==
  ASSUME InvRequests, InvAudit, Midnight
  PROVE  InvRequests' /\ InvAudit' /\ UNCHANGED request
<1>1. /\ today < MaxDay /\ today' = today + 1
      /\ overnight' = overnight \cup {c \in Call : Makes(c, "count") \/ Makes(c, "file")}
      /\ UNCHANGED <<ask, at, answer, reports, totals, told>>
  BY DEF Midnight, request
<1>2. InvRequests'
  BY <1>1 DEF InvRequests, TypeRequests, Placed, PlacedTenant
<1>3. TypeAudit'
  BY <1>1, NightAuditAssumption DEF InvAudit, TypeAudit, Day
<1>4. \A c \in Call : ask'[c] \in AskAudit /\ at'[c] \in {"count", "file"} =>
           totals'[c] \in Day /\ (answer'[c] = None => totals'[c] = today' \/ c \in overnight')
  BY <1>1, Offices DEF InvAudit, Makes
<1>5. DoneDaysAudited'
  BY <1>1 DEF InvAudit, DoneDaysAudited
<1>6. \A c \in Call : told'[c] # None => ask'[c] \in AskAudit
  BY <1>1 DEF InvAudit
<1> QED
  BY <1>1, <1>2, <1>3, <1>4, <1>5, <1>6 DEF InvAudit, request

-----------------------------------------------------------------------------
(* Tenants.                                                                *)

LEMMA RowsStay == ASSUME RowsAgree, UNCHANGED tenants PROVE RowsAgree'
BY DEF RowsAgree, tenants, TypeTenants, OwnSlugs, CopiesAgree, Exists

LEMMA TenantsApart ==
  ASSUME InvTenants, Apart(AskTenant), UNCHANGED tenants
  PROVE  InvTenants'
<1>1. UNCHANGED <<hotel, property, branding, config, portal, slugRead, trail, chosen>>
  BY DEF tenants
<1>2. ASSUME NEW c \in Call PROVE TenantAt(c)'
  <2>1. CASE ask'[c] = ask[c] /\ at'[c] = at[c]
             /\ (answer'[c] = answer[c] \/ (answer[c] = None /\ answer'[c] = "failed"))
    BY <1>1, <2>1 DEF InvTenants, TenantAt, Creates, Onboarded, Rented, Exists
  <2>2. CASE ask[c] \notin AskTenant /\ ask'[c] \notin AskTenant
    BY <1>1, <2>2 DEF InvTenants, TenantAt, Creates, Exists
  <2> QED
    BY <2>1, <2>2 DEF Apart
<1> QED
  BY <1>2, RowsStay DEF InvTenants

\* What a step of c may do to the rows that other requests rely on.
Grows(c) ==
    /\ \A h \in Hotel : Exists(h) => Exists(h)' /\ hotel'[h].slug = hotel[h].slug
    /\ \A d \in Call \ {c} : Exists(d)' => Exists(d)
    /\ property \subseteq property' /\ branding \subseteq branding'
    /\ \A h \in Hotel : config[h] # None => config'[h] # None
    /\ \A h \in Hotel, r \in Role : portal[h][r] # None => portal'[h][r] # None
    /\ \A d \in Call \ {c} : slugRead'[d] = slugRead[d]
    /\ trail' \subseteq trail \cup {c}

LEMMA TenantStep ==
  ASSUME InvRequests, InvTenants, NEW c \in Call, TypeRequests', Only(c), Placed(c)',
         RowsAgree', Grows(c), TenantAt(c)'
  PROVE  InvRequests' /\ InvTenants'
<1>1. ASSUME NEW d \in Call \ {c} PROVE TenantAt(d)'
  <2>1. /\ TenantAt(d) /\ ask'[d] = ask[d] /\ at'[d] = at[d] /\ answer'[d] = answer[d]
        /\ d \in Hotel
    BY DEF InvTenants, Only, Hotel
  <2>2. Exists(d)' <=> Exists(d)
    BY <2>1 DEF Grows
  <2>3. Creates(d, "onboard") => Onboarded(d)'
    BY <2>1, <2>2 DEF TenantAt, Onboarded, Grows
  <2>4. Creates(d, "tenant") => Rented(d)'
    BY <2>1, <2>2 DEF TenantAt, Rented, Grows
  <2>5. Creates(d, "plan") => ask[d].on \in Hotel
    BY TenantAsks DEF Creates
  <2> QED
    BY <2>1, <2>2, <2>3, <2>4, <2>5 DEF TenantAt, Creates, Grows
<1> QED
  BY <1>1, OthersPlaced DEF InvTenants

\* A step that changes no row.
LEMMA QuietTenant ==
  ASSUME InvRequests, InvTenants, NEW c \in Call, TypeRequests', Only(c), Placed(c)',
         UNCHANGED tenants, TenantAt(c)'
  PROVE  InvRequests' /\ InvTenants'
<1>1. RowsAgree'
  BY RowsStay DEF InvTenants
<1>2. Grows(c)
  BY DEF Grows, tenants, Exists
<1> QED
  BY <1>1, <1>2, TenantStep

LEMMA FirstRow ==
  ASSUME NEW slug \in Slug, NEW plan \in Plan
  PROVE  /\ Row(slug, plan) \in HotelRow /\ Row(slug, plan) # None
         /\ Row(slug, plan).slug = slug /\ Row(slug, plan).gateway = "none"
         /\ Row(slug, plan).settings = SettingsFor(Row(slug, plan).plan, slug)
<1>1. <<plan, slug>> \in Plan \X Slug /\ "none" \in Gateway
  BY TenantsAssumption
<1>2. Row(slug, plan) \in HotelRow
  BY <1>1 DEF Row, HotelRow, SettingsFor
<1>3. Row(slug, plan) # None
  BY <1>2, TenantsAssumption
<1>4. /\ Row(slug, plan).slug = slug /\ Row(slug, plan).gateway = "none"
      /\ Row(slug, plan).settings = SettingsFor(Row(slug, plan).plan, slug)
  BY DEF Row
<1> QED
  BY <1>2, <1>3, <1>4

\* A hotel whose slug nobody has joins the others.
LEMMA NewHotel ==
  ASSUME InvTenants, NEW c \in Call, NEW slug \in Slug, NEW plan \in Plan,
         ~Exists(c), ~Taken(slug), hotel' = [hotel EXCEPT ![c] = Row(slug, plan)],
         UNCHANGED <<property, portal, slugRead, trail, chosen>>,
         \/ UNCHANGED <<branding, config>>
         \/ branding' = branding \cup {c} /\ config' = [config EXCEPT ![c] = "none"]
  PROVE  RowsAgree' /\ Grows(c) /\ Exists(c)'
<1>1. RowsAgree /\ TypeTenants /\ c \in Hotel /\ c # Demo
  BY TenantsAssumption DEF InvTenants, RowsAgree, Hotel
<1>2. /\ hotel' \in [Hotel -> HotelRow \cup {None}]
      /\ hotel'[c] = Row(slug, plan) /\ \A h \in Hotel : h # c => hotel'[h] = hotel[h]
  BY <1>1, FirstRow DEF TypeTenants
<1>3. config[c] = None
  BY <1>1 DEF RowsAgree, CopiesAgree
<1>4. /\ config' \in [Hotel -> Gateway \cup {None}]
      /\ config'[c] \in {None, "none"} /\ \A h \in Hotel : h # c => config'[h] = config[h]
  BY <1>1, <1>3, TenantsAssumption DEF TypeTenants
<1>5. TypeTenants'
  BY <1>1, <1>2, <1>4 DEF TypeTenants
<1>6. Exists(c)' /\ \A h \in Hotel : h # c => (Exists(h)' <=> Exists(h))
  BY <1>2, FirstRow DEF Exists
<1>7. OwnSlugs'
  BY <1>1, <1>2, <1>6, FirstRow DEF RowsAgree, OwnSlugs, Taken
<1>8. CopiesAgree'
  <2>1. /\ config'[c] # None => hotel'[c].gateway = config'[c]
        /\ hotel'[c].settings = SettingsFor(hotel'[c].plan, hotel'[c].slug)
    BY <1>2, <1>4, FirstRow
  <2> QED
    BY <1>1, <1>2, <1>4, <1>6, <2>1 DEF RowsAgree, CopiesAgree
<1>9. Exists(Demo)' /\ config'[Demo] # None /\ \A r \in chosen' : portal'[Demo][r] = "own"
  BY <1>1, <1>4, <1>6 DEF RowsAgree, Hotel
<1>10. Grows(c)
  BY <1>1, <1>2, <1>3, <1>4, <1>6 DEF Grows, Hotel
<1> QED
  BY <1>5, <1>6, <1>7, <1>8, <1>9, <1>10 DEF RowsAgree

LEMMA InsertHotelKeeps ==
  ASSUME InvRequests, InvTenants, NEW c \in Call, ask[c] \in AskTenant, InsertHotel(c)
  PROVE  InvRequests' /\ InvTenants' /\ ask' = ask /\ Only(c)
<1>1. UNCHANGED <<property, branding, config, portal, slugRead, trail, chosen>>
  BY DEF InsertHotel
<1>2. \/ Went(c, "insertHotel", "insertHotel", "refused") /\ UNCHANGED hotel
      \/ /\ Went(c, "insertHotel", "insertProperty", None) \/ Went(c, "insertHotel", "brand", None)
         /\ at'[c] = "brand" => ~ask[c].property
         /\ ~Taken(ask[c].slug) /\ hotel' = [hotel EXCEPT ![c] = Row(ask[c].slug, ask[c].plan)]
  <2>1. {"insertHotel", "insertProperty", "brand"} \subseteq Step
    BY DEF Step
  <2>2. Goto(c, "insertHotel", "insertProperty") => at'[c] = "insertProperty"
    BY DEF Goto, InvRequests, TypeRequests
  <2> QED
    BY <2>1, <2>2, Goes DEF InsertHotel
<1>3. /\ TypeRequests' /\ Only(c) /\ ask' = ask /\ at[c] = "insertHotel"
      /\ \/ at'[c] = "insertHotel" /\ answer'[c] = "refused"
         \/ at'[c] \in {"insertProperty", "brand"} /\ answer'[c] = None
  BY <1>2 DEF Went
<1>4. ask[c].op = "onboard" /\ ask[c].slug \in Slug /\ ask[c].plan \in Plan /\ ~Exists(c) /\ c \notin trail
  <2>1. ask[c].op = "onboard"
    BY <1>3, TenantAsks DEF InvRequests, Placed, PlacedTenant
  <2> QED
    BY <1>3, <2>1, TenantAsks DEF InvTenants, TenantAt, Creates, Onboarded
<1>5. Placed(c)'
  BY <1>3, <1>4, Offices, RequestsAssumption DEF Placed, PlacedTenant
<1>6. CASE UNCHANGED hotel /\ at'[c] = "insertHotel"
  <2>1. UNCHANGED tenants
    BY <1>1, <1>6 DEF tenants
  <2>2. TenantAt(c)'
    BY <1>1, <1>3, <1>4, <1>6 DEF TenantAt, Creates, Onboarded, Exists
  <2> QED
    BY <1>3, <1>5, <2>1, <2>2, QuietTenant
<1>7. CASE /\ at'[c] \in {"insertProperty", "brand"} /\ answer'[c] = None
           /\ at'[c] = "brand" => ~ask[c].property
           /\ ~Taken(ask[c].slug) /\ hotel' = [hotel EXCEPT ![c] = Row(ask[c].slug, ask[c].plan)]
  <2>1. RowsAgree' /\ Grows(c) /\ Exists(c)'
    BY <1>1, <1>4, <1>7, NewHotel
  <2>2. TenantAt(c)'
    BY <1>1, <1>3, <1>4, <1>7, <2>1, RequestsAssumption DEF TenantAt, Creates, Onboarded
  <2> QED
    BY <1>3, <1>5, <2>1, <2>2, TenantStep
<1>8. \/ UNCHANGED hotel /\ at'[c] = "insertHotel"
      \/ /\ at'[c] \in {"insertProperty", "brand"} /\ answer'[c] = None
         /\ at'[c] = "brand" => ~ask[c].property
         /\ ~Taken(ask[c].slug) /\ hotel' = [hotel EXCEPT ![c] = Row(ask[c].slug, ask[c].plan)]
  BY <1>2 DEF Went
<1> QED
  BY <1>3, <1>6, <1>7, <1>8

LEMMA CommitTenantKeeps ==
  ASSUME InvRequests, InvTenants, NEW c \in Call, ask[c] \in AskTenant, CommitTenant(c)
  PROVE  InvRequests' /\ InvTenants' /\ ask' = ask /\ Only(c)
<1>1. UNCHANGED <<property, portal, slugRead, trail, chosen>>
  BY DEF CommitTenant
<1>2. \/ Went(c, "commitTenant", "commitTenant", "refused") /\ UNCHANGED <<hotel, branding, config>>
      \/ /\ Went(c, "commitTenant", "portals", None) /\ ~Taken(ask[c].slug)
         /\ hotel' = [hotel EXCEPT ![c] = Row(ask[c].slug, ask[c].plan)]
         /\ branding' = branding \cup {c} /\ config' = [config EXCEPT ![c] = "none"]
  <2>1. {"commitTenant", "portals"} \subseteq Step
    BY DEF Step
  <2> QED
    BY <2>1, Goes DEF CommitTenant
<1>3. /\ TypeRequests' /\ Only(c) /\ ask' = ask /\ at[c] = "commitTenant"
      /\ \/ /\ at'[c] = "commitTenant" /\ answer'[c] = "refused" /\ UNCHANGED <<hotel, branding, config>>
         \/ /\ at'[c] = "portals" /\ answer'[c] = None /\ ~Taken(ask[c].slug)
            /\ hotel' = [hotel EXCEPT ![c] = Row(ask[c].slug, ask[c].plan)]
            /\ branding' = branding \cup {c} /\ config' = [config EXCEPT ![c] = "none"]
  BY <1>2 DEF Went
<1>4. ask[c].op = "tenant" /\ ask[c].slug \in Slug /\ ask[c].plan \in Plan /\ ~Exists(c) /\ c \notin trail
  <2>1. ask[c].op = "tenant"
    BY <1>3, TenantAsks DEF InvRequests, Placed, PlacedTenant
  <2> QED
    BY <1>3, <2>1, TenantAsks DEF InvTenants, TenantAt, Creates, Rented
<1>5. Placed(c)'
  BY <1>3, <1>4, Offices, RequestsAssumption DEF Placed, PlacedTenant
<1>6. CASE at'[c] = "commitTenant" /\ UNCHANGED <<hotel, branding, config>>
  <2>1. UNCHANGED tenants
    BY <1>1, <1>6 DEF tenants
  <2>2. TenantAt(c)'
    BY <1>1, <1>3, <1>4, <1>6 DEF TenantAt, Creates, Rented, Exists
  <2> QED
    BY <1>3, <1>5, <2>1, <2>2, QuietTenant
<1>7. CASE /\ at'[c] = "portals" /\ ~Taken(ask[c].slug)
           /\ hotel' = [hotel EXCEPT ![c] = Row(ask[c].slug, ask[c].plan)]
           /\ branding' = branding \cup {c} /\ config' = [config EXCEPT ![c] = "none"]
  <2>2. RowsAgree' /\ Grows(c) /\ Exists(c)'
    BY <1>1, <1>4, <1>7, NewHotel
  <2>3. c \in branding' /\ config'[c] # None
    <3>1. config \in [Hotel -> Gateway \cup {None}] /\ c \in Hotel
      BY DEF InvTenants, RowsAgree, TypeTenants, Hotel
    <3> QED
      BY <1>7, <3>1, TenantsAssumption
  <2>4. TenantAt(c)'
    BY <1>1, <1>3, <1>4, <1>7, <2>2, <2>3 DEF TenantAt, Creates, Rented
  <2> QED
    BY <1>3, <1>5, <2>2, <2>4, TenantStep
<1> QED
  BY <1>3, <1>6, <1>7

\* Rows in the tables beside hotels.
LEMMA MoreRows ==
  ASSUME InvTenants, NEW c \in Call, UNCHANGED <<hotel, config, portal, chosen>>,
         property' \in SUBSET Hotel, property \subseteq property',
         branding' \in SUBSET Hotel, branding \subseteq branding',
         slugRead' \in [Call -> Slug \cup {None}], \A d \in Call \ {c} : slugRead'[d] = slugRead[d],
         trail' \in {trail, trail \cup {c}}
  PROVE  RowsAgree' /\ Grows(c)
<1>1. RowsAgree /\ TypeTenants
  BY DEF InvTenants, RowsAgree
<1>2. TypeTenants'
  BY <1>1 DEF TypeTenants
<1>3. OwnSlugs' /\ CopiesAgree' /\ Exists(Demo)'
  BY <1>1 DEF RowsAgree, OwnSlugs, CopiesAgree, Exists
<1> QED
  BY <1>1, <1>2, <1>3 DEF RowsAgree, Grows, Exists

LEMMA InsertPropertyKeeps ==
  ASSUME InvRequests, InvTenants, NEW c \in Call, ask[c] \in AskTenant, InsertProperty(c)
  PROVE  InvRequests' /\ InvTenants' /\ ask' = ask /\ Only(c)
<1>1. /\ property' = property \cup {c}
      /\ UNCHANGED <<hotel, branding, config, portal, slugRead, trail, chosen>>
  BY DEF InsertProperty
<1>2. Went(c, "insertProperty", "brand", None)
  BY Goes DEF InsertProperty, Step
<1>3. /\ TypeRequests' /\ Only(c) /\ ask' = ask /\ answer[c] = None
      /\ at[c] = "insertProperty" /\ at'[c] = "brand" /\ answer'[c] = None
  BY <1>2 DEF Went
<1>4. ask[c].op = "onboard"
  BY <1>3, TenantAsks DEF InvRequests, Placed, PlacedTenant
<1>5. Placed(c)'
  BY <1>3, <1>4, Offices, RequestsAssumption DEF Placed, PlacedTenant
<1>6. RowsAgree' /\ Grows(c)
  BY <1>1, MoreRows DEF InvTenants, RowsAgree, TypeTenants, Hotel
<1>7. TenantAt(c)'
  <2>1. TenantAt(c) /\ c \in property'
    BY <1>1 DEF InvTenants
  <2> QED
    BY <1>1, <1>3, <1>4, <2>1, RequestsAssumption DEF TenantAt, Creates, Onboarded, Exists
<1> QED
  BY <1>3, <1>5, <1>6, <1>7, TenantStep

LEMMA BrandKeeps ==
  ASSUME InvRequests, InvTenants, NEW c \in Call, ask[c] \in AskTenant, Brand(c)
  PROVE  InvRequests' /\ InvTenants' /\ ask' = ask /\ Only(c)
<1>1. /\ branding' = branding \cup {Branded(c)}
      /\ UNCHANGED <<hotel, property, config, portal, slugRead, trail, chosen>>
  BY DEF Brand
<1>2. Went(c, "brand", "readBranding", None)
  BY Goes DEF Brand, Step
<1>3. /\ TypeRequests' /\ Only(c) /\ ask' = ask /\ answer[c] = None
      /\ at[c] = "brand" /\ at'[c] = "readBranding" /\ answer'[c] = None
  BY <1>2 DEF Went
<1>4. ask[c].op \in {"onboard", "branding"}
  BY <1>3, TenantAsks DEF InvRequests, Placed, PlacedTenant
<1>5. Branded(c) \in Hotel /\ (ask[c].op = "onboard" => Branded(c) = c)
  BY <1>4, TenantAsks DEF Branded, Hotel
<1>6. Placed(c)'
  BY <1>3, <1>4, Offices, RequestsAssumption DEF Placed, PlacedTenant
<1>7. RowsAgree' /\ Grows(c)
  BY <1>1, <1>5, MoreRows DEF InvTenants, RowsAgree, TypeTenants
<1>8. TenantAt(c)'
  <2>1. TenantAt(c) /\ Branded(c) \in branding'
    BY <1>1 DEF InvTenants
  <2> QED
    BY <1>1, <1>3, <1>4, <1>5, <2>1, RequestsAssumption DEF TenantAt, Creates, Onboarded, Exists
<1> QED
  BY <1>3, <1>6, <1>7, <1>8, TenantStep

LEMMA ReadBrandingKeeps ==
  ASSUME InvRequests, InvTenants, NEW c \in Call, ask[c] \in AskTenant, ReadBranding(c)
  PROVE  InvRequests' /\ InvTenants' /\ ask' = ask /\ Only(c)
<1>1. UNCHANGED tenants
  BY DEF ReadBranding
<1>2. Ended(c, "readBranding") \/ Went(c, "readBranding", "readBranding", "refused")
  BY Goes DEF ReadBranding, Step
<1>3. /\ TypeRequests' /\ Only(c) /\ ask' = ask /\ at[c] = "readBranding"
      /\ \/ at'[c] = "end" /\ answer'[c] \in {"ok", "failed"}
         \/ at'[c] = "readBranding" /\ answer'[c] = "refused"
  BY <1>2 DEF Went, Ended
<1>4. ask[c].op \in {"onboard", "branding"}
  BY <1>3, TenantAsks DEF InvRequests, Placed, PlacedTenant
<1>5. Placed(c)'
  BY <1>3, <1>4, Offices, RequestsAssumption DEF Placed, PlacedTenant
<1>6. TenantAt(c)'
  BY <1>1, <1>3, <1>4 DEF InvTenants, TenantAt, Creates, Onboarded, Exists, tenants
<1> QED
  BY <1>1, <1>3, <1>5, <1>6, QuietTenant

LEMMA ReadSlugKeeps ==
  ASSUME InvRequests, InvTenants, NEW c \in Call, ask[c] \in AskTenant, ReadSlug(c)
  PROVE  InvRequests' /\ InvTenants' /\ ask' = ask /\ Only(c)
<1>1. UNCHANGED <<hotel, property, branding, config, portal, trail, chosen>>
  BY DEF ReadSlug
<1>2. \/ /\ Went(c, "readSlug", "updatePlan", None) /\ Exists(ask[c].on)
         /\ slugRead' = [slugRead EXCEPT ![c] = hotel[ask[c].on].slug]
      \/ Went(c, "readSlug", "readSlug", "refused") /\ slugRead' = slugRead
  <2>1. {"readSlug", "updatePlan"} \subseteq Step
    BY DEF Step
  <2> QED
    BY <2>1, Goes DEF ReadSlug
<1>3. /\ TypeRequests' /\ Only(c) /\ ask' = ask /\ at[c] = "readSlug"
      /\ \/ /\ at'[c] = "updatePlan" /\ answer'[c] = None /\ Exists(ask[c].on)
            /\ slugRead' = [slugRead EXCEPT ![c] = hotel[ask[c].on].slug]
         \/ at'[c] = "readSlug" /\ answer'[c] = "refused" /\ slugRead' = slugRead
  BY <1>2 DEF Went
<1>4. ask[c].op = "plan" /\ ask[c].on \in Hotel
  BY <1>3, TenantAsks DEF InvRequests, Placed, PlacedTenant
<1>5. Placed(c)'
  BY <1>3, <1>4, Offices, RequestsAssumption DEF Placed, PlacedTenant
<1>6. TypeTenants /\ (Exists(ask[c].on) => hotel[ask[c].on].slug \in Slug)
  BY <1>4 DEF InvTenants, RowsAgree, TypeTenants, Exists, HotelRow
<1>7. /\ slugRead' \in [Call -> Slug \cup {None}]
      /\ \A d \in Call \ {c} : slugRead'[d] = slugRead[d]
      /\ at'[c] = "updatePlan" => slugRead'[c] = hotel[ask[c].on].slug
  BY <1>3, <1>6 DEF TypeTenants
<1>8. RowsAgree' /\ Grows(c)
  BY <1>1, <1>6, <1>7, MoreRows DEF TypeTenants
<1>9. TenantAt(c)'
  BY <1>1, <1>3, <1>4, <1>7 DEF InvTenants, TenantAt, Creates, Exists
<1> QED
  BY <1>3, <1>5, <1>8, <1>9, TenantStep

\* An UPDATE of a hotel that is there.
LEMMA UpdatedHotel ==
  ASSUME InvTenants, NEW c \in Call, NEW h \in Hotel, Exists(h), NEW row \in HotelRow,
         row.slug = hotel[h].slug, row.settings = SettingsFor(row.plan, row.slug),
         hotel' = [hotel EXCEPT ![h] = row],
         \/ row.gateway = hotel[h].gateway /\ config' = config
         \/ h = Demo /\ config' = [config EXCEPT ![Demo] = row.gateway],
         UNCHANGED <<property, branding, portal, slugRead, trail, chosen>>
  PROVE  /\ RowsAgree' /\ Grows(c)
         /\ \A g \in Hotel : (Exists(g)' <=> Exists(g)) /\ (Exists(g) => hotel'[g].slug = hotel[g].slug)
<1>1. RowsAgree /\ TypeTenants /\ row # None /\ row.gateway \in Gateway
  BY TenantsAssumption DEF InvTenants, RowsAgree, HotelRow
<1>2. /\ hotel' \in [Hotel -> HotelRow \cup {None}]
      /\ hotel'[h] = row /\ \A g \in Hotel : g # h => hotel'[g] = hotel[g]
  BY <1>1 DEF TypeTenants
<1>3. /\ config' \in [Hotel -> Gateway \cup {None}]
      /\ \A g \in Hotel : g # h => config'[g] = config[g]
      /\ \A g \in Hotel : config[g] # None => config'[g] # None
      /\ config'[h] # None => config'[h] = row.gateway
  <2>1. config \in [Hotel -> Gateway \cup {None}] /\ row.gateway # None
    BY <1>1, TenantsAssumption DEF TypeTenants
  <2>2. config[h] # None => hotel[h].gateway = config[h]
    BY <1>1 DEF RowsAgree, CopiesAgree
  <2> QED
    BY <1>1, <2>1, <2>2
<1>4. \A g \in Hotel : (Exists(g)' <=> Exists(g)) /\ (Exists(g) => hotel'[g].slug = hotel[g].slug)
  BY <1>1, <1>2 DEF Exists
<1>5. TypeTenants'
  BY <1>1, <1>2, <1>3 DEF TypeTenants
<1>6. OwnSlugs'
  BY <1>1, <1>4 DEF RowsAgree, OwnSlugs
<1>7. CopiesAgree'
  BY <1>1, <1>2, <1>3, <1>4 DEF RowsAgree, CopiesAgree
<1>8. Demo \in Hotel /\ Exists(Demo)' /\ config'[Demo] # None
  BY <1>1, <1>3, <1>4 DEF RowsAgree, Hotel
<1>9. Grows(c)
  BY <1>3, <1>4 DEF Grows, Hotel
<1> QED
  BY <1>1, <1>4, <1>5, <1>6, <1>7, <1>8, <1>9 DEF RowsAgree

LEMMA UpdatePlanKeeps ==
  ASSUME InvRequests, InvTenants, NEW c \in Call, ask[c] \in AskTenant, UpdatePlan(c)
  PROVE  InvRequests' /\ InvTenants' /\ ask' = ask /\ Only(c)
<1> DEFINE h == ask[c].on
           row == [hotel[h] EXCEPT !.plan = ask[c].plan,
                                   !.settings = SettingsFor(ask[c].plan, slugRead[c]),
                                   !.active = IF ask[c].active = None THEN @ ELSE ask[c].active]
<1>1. /\ hotel' = [hotel EXCEPT ![h] = row]
      /\ UNCHANGED <<property, branding, config, portal, slugRead, trail, chosen>>
  BY DEF UpdatePlan
<1>2. Ended(c, "updatePlan")
  BY Goes DEF UpdatePlan, Step
<1>3. /\ TypeRequests' /\ Only(c) /\ ask' = ask
      /\ at[c] = "updatePlan" /\ at'[c] = "end" /\ answer'[c] \in {"ok", "failed"}
  BY <1>2 DEF Went, Ended
<1>4. /\ ask[c].op = "plan" /\ h \in Hotel /\ ask[c].plan \in Plan
      /\ ask[c].active \in BOOLEAN \cup {None}
  BY <1>3, TenantAsks DEF InvRequests, Placed, PlacedTenant
<1>5. Placed(c)'
  BY <1>3, <1>4, Offices, RequestsAssumption DEF Placed, PlacedTenant
<1>6. TenantAt(c) /\ Exists(h) /\ slugRead[c] = hotel[h].slug
  BY <1>3, <1>4 DEF InvTenants, TenantAt, Creates
<1>7. hotel[h] \in HotelRow
  BY <1>4, <1>6 DEF InvTenants, RowsAgree, TypeTenants, Exists
<1>8. /\ row \in HotelRow /\ row.slug = hotel[h].slug /\ row.gateway = hotel[h].gateway
      /\ row.settings = SettingsFor(row.plan, row.slug)
  <2>1. SettingsFor(ask[c].plan, slugRead[c]) \in Plan \X Slug
    BY <1>4, <1>6, <1>7 DEF SettingsFor, HotelRow
  <2>2. (IF ask[c].active = None THEN hotel[h].active ELSE ask[c].active) \in BOOLEAN
    BY <1>4, <1>7 DEF HotelRow
  <2>3. row \in HotelRow
    BY <1>4, <1>7, <2>1, <2>2 DEF HotelRow
  <2> QED
    BY <1>6, <1>7, <2>3 DEF HotelRow
<1> HIDE DEF row
<1>9. /\ RowsAgree' /\ Grows(c)
      /\ \A g \in Hotel : (Exists(g)' <=> Exists(g)) /\ (Exists(g) => hotel'[g].slug = hotel[g].slug)
  BY <1>1, <1>4, <1>6, <1>8, UpdatedHotel
<1>10. TenantAt(c)'
  BY <1>1, <1>3, <1>4, <1>6, <1>9 DEF TenantAt, Creates, Hotel
<1> QED
  BY <1>3, <1>5, <1>9, <1>10, TenantStep

\* A portal gets a row, or another one; what an administrator has chosen stays.
LEMMA PortalRow ==
  ASSUME InvTenants, NEW c \in Call, NEW h \in Hotel, NEW r \in Role, NEW value \in {"default", "own"},
         portal' = [portal EXCEPT ![h][r] = value],
         value = "default" => portal[h][r] = None,
         chosen' \in SUBSET Role, \A x \in chosen' \ chosen : h = Demo /\ x = r /\ value = "own",
         UNCHANGED <<hotel, property, branding, config, slugRead, trail>>
  PROVE  RowsAgree' /\ Grows(c)
<1>1. RowsAgree /\ TypeTenants /\ Demo \in Hotel
  BY DEF InvTenants, RowsAgree, Hotel
<1>2. portal \in [Hotel -> [Role -> {"default", "own", None}]]
  BY <1>1 DEF TypeTenants
<1>3. /\ portal' \in [Hotel -> [Role -> {"default", "own", None}]]
      /\ portal'[h][r] = value
      /\ \A g \in Hotel, x \in Role : g # h \/ x # r => portal'[g][x] = portal[g][x]
  BY <1>2
<1>4. TypeTenants'
  BY <1>1, <1>3 DEF TypeTenants
<1>5. OwnSlugs' /\ CopiesAgree' /\ Exists(Demo)' /\ config'[Demo] # None
  BY <1>1 DEF RowsAgree, OwnSlugs, CopiesAgree, Exists
<1>6. ASSUME NEW x \in chosen' PROVE portal'[Demo][x] = "own"
  <2>1. x \in chosen => portal[Demo][x] = "own"
    BY <1>1 DEF RowsAgree
  <2>2. x \in Role
    OBVIOUS
  <2> QED
    BY <1>1, <1>3, <2>1, <2>2, TenantsAssumption
<1>7. Grows(c)
  BY <1>3, TenantsAssumption DEF Grows, Exists
<1> QED
  BY <1>4, <1>5, <1>6, <1>7 DEF RowsAgree

\* The places from which a request neither creates a hotel nor relies on a slug.
Elsewhere(c) ==
    ask[c].op \in {"branding", "gateway", "settings", "portals", "portal"}

LEMMA ElsewhereAt ==
  ASSUME InvTenants, NEW c \in Call, Elsewhere(c), ask' = ask, ask[c] \in AskTenant, Exists(c)' <=> Exists(c),
         c \in trail' => at'[c] \in {"readSettings", "end"}
  PROVE  TenantAt(c)'
BY DEF InvTenants, TenantAt, Creates, Elsewhere

LEMMA EnsurePortalKeeps ==
  ASSUME InvRequests, InvTenants, NEW c \in Call, ask[c] \in AskTenant, EnsurePortal(c)
  PROVE  InvRequests' /\ InvTenants' /\ ask' = ask /\ Only(c)
<1>1. PICK r \in Role :
        /\ Makes(c, "portals") /\ portal[PortalHotel(c)][r] = None
        /\ portal' = [portal EXCEPT ![PortalHotel(c)][r] = "default"]
        /\ UNCHANGED <<request, hotel, property, branding, config, slugRead, trail, chosen>>
  BY DEF EnsurePortal
<1>2. UNCHANGED <<ask, at, answer>> /\ at[c] = "portals" /\ answer[c] = None
  BY <1>1 DEF request, Makes
<1>3. /\ TypeRequests' /\ Only(c) /\ Placed(c)'
  BY <1>2 DEF InvRequests, TypeRequests, Only, Placed, PlacedTenant
<1>4. PortalHotel(c) \in Hotel
  BY DEF PortalHotel, Hotel
<1>5. chosen' \in SUBSET Role /\ chosen' \ chosen = {}
  BY <1>1 DEF InvTenants, RowsAgree, TypeTenants
<1>6. RowsAgree' /\ Grows(c)
  BY <1>1, <1>4, <1>5, PortalRow
<1>7. TenantAt(c)'
  BY <1>1, <1>2 DEF InvTenants, TenantAt, Creates, Onboarded, Rented, Exists
<1> QED
  BY <1>2, <1>3, <1>6, <1>7, TenantStep

LEMMA PortalsReadyKeeps ==
  ASSUME InvRequests, InvTenants, NEW c \in Call, ask[c] \in AskTenant, PortalsReady(c)
  PROVE  InvRequests' /\ InvTenants' /\ ask' = ask /\ Only(c)
<1>1. UNCHANGED tenants /\ \A r \in Role : portal[PortalHotel(c)][r] # None
  BY DEF PortalsReady
<1>2. \/ ask[c].op = "portal" /\ Went(c, "portals", "setPortal", None)
      \/ ask[c].op # "portal" /\ Ended(c, "portals")
  <2>1. {"portals", "setPortal"} \subseteq Step
    BY DEF Step
  <2> QED
    BY <2>1, Goes DEF PortalsReady
<1>3. /\ TypeRequests' /\ Only(c) /\ ask' = ask /\ at[c] = "portals"
      /\ \/ ask[c].op = "portal" /\ at'[c] = "setPortal" /\ answer'[c] = None
         \/ ask[c].op # "portal" /\ at'[c] = "end" /\ answer'[c] \in {"ok", "failed"}
  BY <1>2 DEF Went, Ended
<1>4. ask[c].op \in {"tenant", "portals", "portal"}
  BY <1>3, TenantAsks DEF InvRequests, Placed, PlacedTenant
<1>5. Placed(c)'
  BY <1>3, <1>4, Offices, RequestsAssumption DEF Placed, PlacedTenant
<1>6. TenantAt(c)'
  BY <1>1, <1>3, <1>4 DEF InvTenants, TenantAt, Creates, Rented, Exists, tenants, PortalHotel
<1> QED
  BY <1>1, <1>3, <1>5, <1>6, QuietTenant

LEMMA SetPortalKeeps ==
  ASSUME InvRequests, InvTenants, NEW c \in Call, ask[c] \in AskTenant, SetPortal(c)
  PROVE  InvRequests' /\ InvTenants' /\ ask' = ask /\ Only(c)
<1>1. /\ portal' = [portal EXCEPT ![Demo][ask[c].role] = "own"]
      /\ chosen' = chosen \cup {ask[c].role}
      /\ UNCHANGED <<hotel, property, branding, config, slugRead, trail>>
  BY DEF SetPortal
<1>2. Went(c, "setPortal", "auditPortal", None)
  BY Goes DEF SetPortal, Step
<1>3. /\ TypeRequests' /\ Only(c) /\ ask' = ask
      /\ at[c] = "setPortal" /\ at'[c] = "auditPortal" /\ answer'[c] = None
  BY <1>2 DEF Went
<1>4. ask[c].op = "portal" /\ ask[c].role \in Role
  BY <1>3, TenantAsks DEF InvRequests, Placed, PlacedTenant
<1>5. Placed(c)'
  BY <1>3, <1>4, Offices, RequestsAssumption DEF Placed, PlacedTenant
<1>6. /\ chosen' \in SUBSET Role /\ \A x \in chosen' \ chosen : x = ask[c].role
      /\ Demo \in Hotel
  BY <1>1, <1>4 DEF InvTenants, RowsAgree, TypeTenants, Hotel
<1>7. RowsAgree' /\ Grows(c)
  BY <1>1, <1>4, <1>6, PortalRow
<1>8. c \notin trail' /\ (Exists(c)' <=> Exists(c))
  BY <1>1, <1>3 DEF InvTenants, TenantAt, Exists
<1> QED
  BY <1>3, <1>4, <1>5, <1>7, <1>8, ElsewhereAt, TenantStep DEF Elsewhere

\* The record is made of what was done, or lost.
LEMMA AuditPortalKeeps ==
  ASSUME InvRequests, InvTenants, NEW c \in Call, ask[c] \in AskTenant, AuditPortal(c)
  PROVE  InvRequests' /\ InvTenants' /\ ask' = ask /\ Only(c)
<1>1. /\ trail' \in {trail, trail \cup {c}}
      /\ UNCHANGED <<hotel, property, branding, config, portal, slugRead, chosen>>
  BY DEF AuditPortal
<1>2. Ended(c, "auditPortal")
  BY Goes DEF AuditPortal, Step
<1>3. /\ TypeRequests' /\ Only(c) /\ ask' = ask
      /\ at[c] = "auditPortal" /\ at'[c] = "end" /\ answer'[c] \in {"ok", "failed"}
  BY <1>2 DEF Went, Ended
<1>4. ask[c].op = "portal"
  BY <1>3, TenantAsks DEF InvRequests, Placed, PlacedTenant
<1>5. Placed(c)'
  BY <1>3, <1>4, Offices, RequestsAssumption DEF Placed, PlacedTenant
<1>6. RowsAgree' /\ Grows(c)
  BY <1>1, MoreRows DEF InvTenants, RowsAgree, TypeTenants
<1>7. Exists(c)' <=> Exists(c)
  BY <1>1 DEF Exists
<1> QED
  BY <1>3, <1>4, <1>5, <1>6, <1>7, ElsewhereAt, TenantStep DEF Elsewhere

LEMMA AuditSettingsKeeps ==
  ASSUME InvRequests, InvTenants, NEW c \in Call, ask[c] \in AskTenant, AuditSettings(c)
  PROVE  InvRequests' /\ InvTenants' /\ ask' = ask /\ Only(c)
<1>1. /\ trail' \in {trail, trail \cup {c}}
      /\ UNCHANGED <<hotel, property, branding, config, portal, slugRead, chosen>>
  BY DEF AuditSettings
<1>2. Went(c, "auditSettings", "readSettings", None)
  BY Goes DEF AuditSettings, Step
<1>3. /\ TypeRequests' /\ Only(c) /\ ask' = ask
      /\ at[c] = "auditSettings" /\ at'[c] = "readSettings" /\ answer'[c] = None
  BY <1>2 DEF Went
<1>4. ask[c].op = "gateway"
  BY <1>3, TenantAsks DEF InvRequests, Placed, PlacedTenant
<1>5. Placed(c)'
  BY <1>3, <1>4, Offices, RequestsAssumption DEF Placed, PlacedTenant
<1>6. RowsAgree' /\ Grows(c)
  BY <1>1, MoreRows DEF InvTenants, RowsAgree, TypeTenants
<1>7. Exists(c)' <=> Exists(c)
  BY <1>1 DEF Exists
<1> QED
  BY <1>3, <1>4, <1>5, <1>6, <1>7, ElsewhereAt, TenantStep DEF Elsewhere

\* The demo hotel has a configuration from the migrations: ensurePaymentConfig adds nothing.
LEMMA ConfigIsThere ==
  ASSUME InvTenants, config' = [config EXCEPT ![Demo] = IF @ = None THEN "none" ELSE @]
  PROVE  config' = config
BY DEF InvTenants, RowsAgree, TypeTenants

LEMMA EnsureConfigKeeps ==
  ASSUME InvRequests, InvTenants, NEW c \in Call, ask[c] \in AskTenant, EnsureConfig(c)
  PROVE  InvRequests' /\ InvTenants' /\ ask' = ask /\ Only(c)
<1>1. UNCHANGED tenants
  BY ConfigIsThere DEF EnsureConfig, tenants
<1>2. Went(c, "ensureConfig", "setGateway", None)
  BY Goes DEF EnsureConfig, Step
<1>3. /\ TypeRequests' /\ Only(c) /\ ask' = ask
      /\ at[c] = "ensureConfig" /\ at'[c] = "setGateway" /\ answer'[c] = None
  BY <1>2 DEF Went
<1>4. ask[c].op = "gateway"
  BY <1>3, TenantAsks DEF InvRequests, Placed, PlacedTenant
<1>5. Placed(c)'
  BY <1>3, <1>4, Offices, RequestsAssumption DEF Placed, PlacedTenant
<1>6. (Exists(c)' <=> Exists(c)) /\ c \notin trail'
  BY <1>1, <1>3 DEF InvTenants, TenantAt, Exists, tenants
<1> QED
  BY <1>1, <1>3, <1>4, <1>5, <1>6, ElsewhereAt, QuietTenant DEF Elsewhere

LEMMA SetGatewayKeeps ==
  ASSUME InvRequests, InvTenants, NEW c \in Call, ask[c] \in AskTenant, SetGateway(c)
  PROVE  InvRequests' /\ InvTenants' /\ ask' = ask /\ Only(c)
<1>1. UNCHANGED tenants
  BY DEF SetGateway
<1>2. Went(c, "setGateway", "commitSettings", None)
  BY Goes DEF SetGateway, Step
<1>3. /\ TypeRequests' /\ Only(c) /\ ask' = ask
      /\ at[c] = "setGateway" /\ at'[c] = "commitSettings" /\ answer'[c] = None
  BY <1>2 DEF Went
<1>4. ask[c].op = "gateway"
  BY <1>3, TenantAsks DEF InvRequests, Placed, PlacedTenant
<1>5. Placed(c)'
  BY <1>3, <1>4, Offices, RequestsAssumption DEF Placed, PlacedTenant
<1>6. (Exists(c)' <=> Exists(c)) /\ c \notin trail'
  BY <1>1, <1>3 DEF InvTenants, TenantAt, Exists, tenants
<1> QED
  BY <1>1, <1>3, <1>4, <1>5, <1>6, ElsewhereAt, QuietTenant DEF Elsewhere

LEMMA CommitSettingsKeeps ==
  ASSUME InvRequests, InvTenants, NEW c \in Call, ask[c] \in AskTenant, CommitSettings(c)
  PROVE  InvRequests' /\ InvTenants' /\ ask' = ask /\ Only(c)
<1> DEFINE row == [hotel[Demo] EXCEPT !.gateway = ask[c].to]
<1>1. /\ hotel' = [hotel EXCEPT ![Demo] = row]
      /\ config' = [config EXCEPT ![Demo] = ask[c].to]
      /\ UNCHANGED <<property, branding, portal, slugRead, trail, chosen>>
  BY DEF CommitSettings
<1>2. Went(c, "commitSettings", "auditSettings", None)
  BY Goes DEF CommitSettings, Step
<1>3. /\ TypeRequests' /\ Only(c) /\ ask' = ask
      /\ at[c] = "commitSettings" /\ at'[c] = "auditSettings" /\ answer'[c] = None
  BY <1>2 DEF Went
<1>4. ask[c].op = "gateway" /\ ask[c].to \in Gateway
  BY <1>3, TenantAsks DEF InvRequests, Placed, PlacedTenant
<1>5. Placed(c)'
  BY <1>3, <1>4, Offices, RequestsAssumption DEF Placed, PlacedTenant
<1>6. RowsAgree /\ Demo \in Hotel /\ Exists(Demo) /\ hotel[Demo] \in HotelRow
  BY DEF InvTenants, RowsAgree, TypeTenants, Exists, Hotel
<1>7. /\ row \in HotelRow /\ row.slug = hotel[Demo].slug /\ row.gateway = ask[c].to
      /\ row.settings = SettingsFor(row.plan, row.slug)
  <2>1. hotel[Demo].settings = SettingsFor(hotel[Demo].plan, hotel[Demo].slug)
    BY <1>6 DEF RowsAgree, CopiesAgree
  <2> QED
    BY <1>4, <1>6, <2>1 DEF HotelRow
<1> HIDE DEF row
<1>8. /\ RowsAgree' /\ Grows(c)
      /\ \A g \in Hotel : Exists(g)' <=> Exists(g)
  BY <1>1, <1>6, <1>7, UpdatedHotel
<1>9. c \notin trail' /\ (Exists(c)' <=> Exists(c))
  BY <1>1, <1>3, <1>8 DEF InvTenants, TenantAt, Hotel
<1> QED
  BY <1>3, <1>4, <1>5, <1>8, <1>9, ElsewhereAt, TenantStep DEF Elsewhere

LEMMA ReadSettingsKeeps ==
  ASSUME InvRequests, InvTenants, NEW c \in Call, ask[c] \in AskTenant, ReadSettings(c)
  PROVE  InvRequests' /\ InvTenants' /\ ask' = ask /\ Only(c)
<1>1. UNCHANGED tenants
  BY ConfigIsThere DEF ReadSettings, tenants
<1>2. Ended(c, "readSettings")
  BY Goes DEF ReadSettings, Step
<1>3. /\ TypeRequests' /\ Only(c) /\ ask' = ask
      /\ at[c] = "readSettings" /\ at'[c] = "end" /\ answer'[c] \in {"ok", "failed"}
  BY <1>2 DEF Went, Ended
<1>4. ask[c].op \in {"gateway", "settings"}
  BY <1>3, TenantAsks DEF InvRequests, Placed, PlacedTenant
<1>5. Placed(c)'
  BY <1>3, <1>4, Offices, RequestsAssumption DEF Placed, PlacedTenant
<1>6. Exists(c)' <=> Exists(c)
  BY <1>1 DEF Exists, tenants
<1> QED
  BY <1>1, <1>3, <1>4, <1>5, <1>6, ElsewhereAt, QuietTenant DEF Elsewhere

LEMMA TenantCame ==
  ASSUME InvRequests, InvTenants, NEW c \in Call, NEW a \in AskTenant,
         Fresh(c), UNCHANGED tenants, Begin(c, a, First(a.op))
  PROVE  InvRequests' /\ InvTenants' /\ Only(c) /\ ask[c] = None /\ ask'[c] \in AskTenant
<1> DEFINE t == First(a.op)
<1>1. /\ a.op = "onboard" => t = "insertHotel"
      /\ a.op = "tenant" => t = "commitTenant"
      /\ a.op = "plan" => t = "readSlug"
      /\ a.op = "branding" => t = "brand"
      /\ a.op = "gateway" => t = "ensureConfig"
      /\ a.op = "settings" => t = "readSettings"
      /\ a.op \in {"portals", "portal"} => t = "portals"
  BY DEF First
<1> HIDE DEF t
<1>2. t \in Step /\ t # "end"
  BY <1>1, TenantAsks DEF Step
<1>3. Came(c, a, t)
  BY <1>2, Comes DEF t
<1>4. /\ TypeRequests' /\ Only(c) /\ ask[c] = None
      /\ ask'[c] = a /\ at'[c] = t /\ answer'[c] = None
  BY <1>3 DEF Came
<1>5. Placed(c)'
  <2>1. PlacedTenant(c)'
    BY <1>1, <1>4 DEF PlacedTenant
  <2> QED
    BY <1>2, <1>4, <2>1, Offices, RequestsAssumption DEF Placed
<1>6. ~Exists(c) /\ c \notin trail
  <2>1. ask[c] \notin AskTenant
    BY <1>4, TenantsAssumption
  <2> QED
    BY <2>1 DEF InvTenants, TenantAt, Creates
<1>7. TenantAt(c)'
  BY <1>1, <1>4, <1>6 DEF TenantAt, Creates, Onboarded, Rented, Exists, tenants
<1> QED
  BY <1>4, <1>5, <1>7, QuietTenant

LEMMA ServeTenantKeeps ==
  ASSUME InvRequests, InvTenants, NEW c \in Call, ServeTenant(c)
  PROVE  /\ InvRequests' /\ InvTenants' /\ Only(c)
         /\ ask[c] \in AskTenant \cup {None} /\ ask'[c] \in AskTenant
<1>1. CASE ask[c] \in AskTenant /\ ~(Fresh(c) /\ UNCHANGED tenants
             /\ \E a \in AskTenant : Known(c, a) /\ Begin(c, a, First(a.op)))
  BY <1>1, InsertHotelKeeps, InsertPropertyKeeps, BrandKeeps, ReadBrandingKeeps, CommitTenantKeeps,
     ReadSlugKeeps, UpdatePlanKeeps, EnsurePortalKeeps, PortalsReadyKeeps, SetPortalKeeps, AuditPortalKeeps,
     EnsureConfigKeeps, SetGatewayKeeps, CommitSettingsKeeps, AuditSettingsKeeps, ReadSettingsKeeps
  DEF ServeTenant
<1>2. CASE Fresh(c) /\ UNCHANGED tenants /\ \E a \in AskTenant : Known(c, a) /\ Begin(c, a, First(a.op))
  BY <1>2, TenantCame
<1> QED
  BY <1>1, <1>2 DEF ServeTenant

-----------------------------------------------------------------------------
(* The theorems.                                                           *)

LEMMA InitInvariant == Init => IInv
<1> SUFFICES ASSUME Init PROVE IInv
  OBVIOUS
<1>1. /\ ask = [c \in Call |-> None] /\ at = [c \in Call |-> "start"] /\ answer = [c \in Call |-> None]
  BY DEF Init, InitRequests
<1>2. InvRequests
  <2>1. TypeRequests
    BY <1>1 DEF TypeRequests, Step
  <2>2. ASSUME NEW c \in Call PROVE Placed(c)
    BY <1>1, Offices, RequestsAssumption DEF Placed
  <2> QED
    BY <2>1, <2>2 DEF InvRequests
<1>3. \A c \in Call : ask[c] \notin AskLoyalty \cup AskLinen \cup AskAudit \cup AskTenant
  BY <1>1, Offices
<1>4. InvLoyalty
  <2>1. member = [g \in Member |-> None] /\ posted = {} /\ overtaken = {}
    BY DEF Init, InitLoyalty
  <2>2. ASSUME NEW g \in Member PROVE Owed(g)
    <3>1. Moved(g, "earn") = {} /\ Moved(g, "redeem") = {}
      BY <1>3 DEF Moved
    <3>2. DOMAIN PointsOf({}) = {}
      BY DEF PointsOf
    <3>3. Finite(PointsOf({})) /\ Sum({}) = 0
      BY <3>2, NothingAdds DEF Sum, PointsOf
    <3>4. Moved(g, "redeem") \cap overtaken = {}
      BY <3>1
    <3> QED
      BY <2>1, <3>1, <3>3, <3>4 DEF Owed, Balance
  <2>3. TypeLoyalty
    BY <2>1 DEF TypeLoyalty
  <2> QED
    BY <1>3, <2>1, <2>2, <2>3 DEF InvLoyalty
<1>5. InvLinen
  <2>1. /\ stock = [total |-> Stock, inUse |-> 0, laundry |-> 0, damaged |-> 0]
        /\ noted = {} /\ short = [c \in Call |-> 0]
    BY DEF Init, InitLinen
  <2>2. Issued = {} /\ Returned = {}
    BY <1>3 DEF Issued, Returned
  <2>3. DOMAIN QuantityOf({}) = {} /\ DOMAIN KeptOf({}) = {} /\ DOMAIN Excess = {}
    BY <2>2 DEF QuantityOf, KeptOf, Excess
  <2>4. /\ Finite(QuantityOf({})) /\ Finite(KeptOf({})) /\ Finite(Excess)
        /\ Pieces({}) = 0 /\ Kept({}) = 0 /\ Invented = 0
    BY <2>3, NothingAdds DEF Pieces, Kept, Invented, QuantityOf, KeptOf, Excess
  <2>5. Issued \cup Returned = {}
    BY <2>2
  <2>6. LinenSums
    BY <2>1, <2>2, <2>4, <2>5, LinenAssumption DEF LinenSums
  <2>7. TypeLinen
    BY <2>1, LinenAssumption DEF TypeLinen
  <2> QED
    BY <1>3, <2>1, <2>6, <2>7 DEF InvLinen
<1>6. InvAudit
  <2>1. /\ today = 1 /\ reports = {} /\ overnight = {}
        /\ totals = [c \in Call |-> None] /\ told = [c \in Call |-> None]
    BY DEF Init, InitAudit
  <2> QED
    BY <1>3, <2>1, NightAuditAssumption DEF InvAudit, TypeAudit, Day, DoneDaysAudited
<1>7. InvTenants
  <2>1. /\ hotel = [h \in Hotel |-> IF h = Demo THEN Row(DemoSlug, "premium") ELSE None]
        /\ property = {Demo} /\ branding = {Demo}
        /\ config = [h \in Hotel |-> IF h = Demo THEN "none" ELSE None]
        /\ portal = [h \in Hotel |-> [r \in Role |-> None]]
        /\ slugRead = [c \in Call |-> None] /\ trail = {} /\ chosen = {}
    BY DEF Init, InitTenants
  <2>2. Demo \in Hotel /\ DemoSlug \in Slug /\ "premium" \in Plan /\ "none" \in Gateway
    BY TenantsAssumption DEF Hotel
  <2>3. \A h \in Hotel : Exists(h) <=> h = Demo
    BY <2>1, <2>2, FirstRow DEF Exists
  <2>4. TypeTenants
    BY <2>1, <2>2, FirstRow DEF TypeTenants
  <2>5. OwnSlugs /\ CopiesAgree
    BY <2>1, <2>2, <2>3, FirstRow DEF OwnSlugs, CopiesAgree
  <2>6. Exists(Demo) /\ config[Demo] # None
    BY <2>1, <2>2, <2>3, TenantsAssumption
  <2>7. ASSUME NEW c \in Call PROVE TenantAt(c)
    <3>1. ~Exists(c)
      BY <2>3, TenantsAssumption DEF Hotel
    <3> QED
      BY <1>3, <2>1, <3>1 DEF TenantAt, Creates
  <2> QED
    BY <2>1, <2>4, <2>5, <2>6, <2>7 DEF InvTenants, RowsAgree
<1> QED
  BY <1>2, <1>4, <1>5, <1>6, <1>7 DEF IInv

\* A step of one office leaves the requests of the others alone.
LEMMA OfficesApart ==
  ASSUME NEW c \in Call, Only(c), NEW asks, ask[c] \notin asks, ask'[c] \notin asks
  PROVE  Apart(asks)
BY DEF Only, Apart

LEMMA StepPreserves == IInv /\ [Next]_vars => IInv'
<1> SUFFICES ASSUME IInv, [Next]_vars PROVE IInv'
  OBVIOUS
<1>1. InvRequests /\ InvLoyalty /\ InvLinen /\ InvAudit /\ InvTenants
  BY DEF IInv
<1>2. ASSUME NEW c \in Call, ServeLoyalty(c), UNCHANGED <<linen, audit, tenants>>
      PROVE  IInv'
  <2>1. /\ InvRequests' /\ InvLoyalty' /\ Only(c)
        /\ ask[c] \in AskLoyalty \cup {None} /\ ask'[c] \in AskLoyalty
    BY <1>1, <1>2, ServeLoyaltyKeeps
  <2>2. Apart(AskLinen) /\ Apart(AskAudit) /\ Apart(AskTenant)
    BY <2>1, Offices, OfficesApart
  <2> QED
    BY <1>1, <1>2, <2>1, <2>2, LinenApart, AuditApart, TenantsApart DEF IInv
<1>3. ASSUME NEW c \in Call, ServeLinen(c), UNCHANGED <<loyalty, audit, tenants>>
      PROVE  IInv'
  <2>1. /\ InvRequests' /\ InvLinen' /\ Only(c)
        /\ ask[c] \in AskLinen \cup {None} /\ ask'[c] \in AskLinen
    BY <1>1, <1>3, ServeLinenKeeps
  <2>2. Apart(AskLoyalty) /\ Apart(AskAudit) /\ Apart(AskTenant)
    BY <2>1, Offices, OfficesApart
  <2> QED
    BY <1>1, <1>3, <2>1, <2>2, LoyaltyApart, AuditApart, TenantsApart DEF IInv
<1>4. ASSUME NEW c \in Call, ServeAudit(c), UNCHANGED <<loyalty, linen, tenants>>
      PROVE  IInv'
  <2>1. /\ InvRequests' /\ InvAudit' /\ Only(c)
        /\ ask[c] \in AskAudit \cup {None} /\ ask'[c] \in AskAudit
    BY <1>1, <1>4, ServeAuditKeeps
  <2>2. Apart(AskLoyalty) /\ Apart(AskLinen) /\ Apart(AskTenant)
    BY <2>1, Offices, OfficesApart
  <2> QED
    BY <1>1, <1>4, <2>1, <2>2, LoyaltyApart, LinenApart, TenantsApart DEF IInv
<1>5. ASSUME NEW c \in Call, ServeTenant(c), UNCHANGED <<loyalty, linen, audit>>
      PROVE  IInv'
  <2>1. /\ InvRequests' /\ InvTenants' /\ Only(c)
        /\ ask[c] \in AskTenant \cup {None} /\ ask'[c] \in AskTenant
    BY <1>1, <1>5, ServeTenantKeeps
  <2>2. Apart(AskLoyalty) /\ Apart(AskLinen) /\ Apart(AskAudit)
    BY <2>1, Offices, OfficesApart
  <2> QED
    BY <1>1, <1>5, <2>1, <2>2, LoyaltyApart, LinenApart, AuditApart DEF IInv
<1>6. ASSUME NEW c \in Call, Fails(c), UNCHANGED <<loyalty, linen, audit, tenants>>
      PROVE  IInv'
  BY <1>1, <1>6, FailsApart, LoyaltyApart, LinenApart, AuditApart, TenantsApart DEF IInv
<1>7. ASSUME UNCHANGED request PROVE \A asks : Apart(asks)
  BY <1>7 DEF request, Apart
<1>8. CASE Midnight /\ UNCHANGED <<loyalty, linen, tenants>>
  <2>1. InvRequests' /\ InvAudit' /\ UNCHANGED request
    BY <1>1, <1>8, MidnightKeeps
  <2> QED
    BY <1>1, <1>7, <1>8, <2>1, LoyaltyApart, LinenApart, TenantsApart DEF IInv
<1>9. CASE UNCHANGED vars
  <2>1. UNCHANGED <<request, loyalty, linen, audit, tenants>>
    BY <1>9 DEF vars
  <2>2. InvRequests'
    BY <1>1, <2>1 DEF request, InvRequests, TypeRequests, Placed, PlacedTenant
  <2> QED
    BY <1>1, <1>7, <2>1, <2>2, LoyaltyApart, LinenApart, AuditApart, TenantsApart DEF IInv
<1> QED
  BY <1>2, <1>3, <1>4, <1>5, <1>6, <1>8, <1>9 DEF Next, Serve, Idle

\* The inductive invariant holds of every behaviour.
THEOREM Invariant == Spec => []IInv
BY InitInvariant, StepPreserves, PTL DEF Spec

\* The requests and the tables of the four offices keep their types.
THEOREM TypeCorrect == Spec => []TypeOK
<1>1. IInv => TypeOK
  BY DEF IInv, TypeOK, InvRequests, TypeRequests, InvLoyalty, InvLinen, InvAudit, InvTenants, RowsAgree
<1> QED
  BY Invariant, <1>1, PTL

\* AwardPoints, RedeemPoints, IssueLinen and ReturnLinen, for any requests: what the
\* transactions add up to is the balance and the counters, but for the requests that are
\* between their two statements or ended there; what is answered with success is recorded.
THEOREM LedgersExplained == Spec => []LedgersAgree
<1>1. IInv => LedgersAgree
  <2> SUFFICES ASSUME IInv PROVE PointsExplained /\ LinenExplained
    BY DEF LedgersAgree
  <2>1. InvRequests /\ InvLoyalty /\ InvLinen
    BY DEF IInv
  <2>2. PointsExplained
    <3> SUFFICES ASSUME NEW g \in Member
                 PROVE  /\ Balance(g) = Sum(Moved(g, "earn")) - Sum(Moved(g, "redeem"))
                        /\ member[g] # None => member[g].lifetime = Sum(Moved(g, "earn"))
                        /\ \A c \in Moved(g, "earn") \cup Moved(g, "redeem") :
                             /\ answer[c] = "ok" => c \in posted
                             /\ c \in posted => at[c] = "end" /\ answer[c] \in {"ok", "failed"}
      BY DEF PointsExplained
    <3>1. \A c \in Moved(g, "earn") \cup Moved(g, "redeem") :
            /\ answer[c] = "ok" => c \in posted
            /\ c \in posted => at[c] = "end" /\ answer[c] \in {"ok", "failed"}
      BY <2>1 DEF Moved, InvLoyalty, InvRequests, Placed
    <3> QED
      BY <2>1, <3>1 DEF InvLoyalty, Owed
  <2>3. LinenExplained
    <3>1. Issued \cup Returned \subseteq noted
      BY <2>1 DEF Issued, Returned, InvLinen
    <3>2. \A c \in noted : answer[c] \in {None, "failed"} \/ at[c] = "end"
      BY <2>1 DEF InvLinen, TypeLinen, InvRequests, TypeRequests, Placed
    <3> QED
      BY <2>1, <3>1, <3>2 DEF InvLinen, LinenSums, LinenExplained
  <2> QED
    BY <2>2, <2>3
<1> QED
  BY Invariant, <1>1, PTL

\* RedeemPoints: no member is overdrawn by more than what raced redemptions took.
THEOREM OverdraftBounded == Spec => []OverdraftIsRaced
<1>1. IInv => OverdraftIsRaced
  BY DEF IInv, InvLoyalty, Owed, OverdraftIsRaced
<1> QED
  BY Invariant, <1>1, PTL

\* CloseDay and GetChecklist, for any number of days: the totals of a report are those of
\* its day unless midnight came in between, and a day that is told to be done has a report.
THEOREM AuditedDays == Spec => []DoneDaysAudited
<1>1. IInv => DoneDaysAudited
  BY DEF IInv, InvAudit
<1> QED
  BY Invariant, <1>1, PTL

\* Onboardings, platform tenants, plans, gateways and portals: the rows of a tenant agree,
\* whatever fails in between and whoever interferes.
THEOREM TenantsWhole == Spec => []TenantRowsAgree
<1>1. IInv => TenantRowsAgree
  <2> SUFFICES ASSUME IInv PROVE TenantRowsAgree
    OBVIOUS
  <2>1. InvRequests /\ RowsAgree /\ \A c \in Call : TenantAt(c)
    BY DEF IInv, InvTenants
  <2>2. OnboardingsWhole
    <3> SUFFICES ASSUME NEW c \in Call, Creates(c, "onboard"), Exists(c)
                 PROVE  \/ c \in branding /\ (ask[c].property => c \in property)
                        \/ at[c] \in {"insertProperty", "brand"} /\ answer[c] \in {None, "failed"}
      BY DEF OnboardingsWhole
    <3>1. Onboarded(c) /\ Placed(c) /\ TypeRequests /\ ask[c] \in AskTenant /\ ask[c].op = "onboard"
      BY <2>1 DEF TenantAt, InvRequests, Creates
    <3>2. at[c] \in {"insertProperty", "brand", "readBranding", "end"}
      BY <3>1 DEF Onboarded, Placed, PlacedTenant
    <3>3. at[c] \in {"insertProperty", "brand"} => answer[c] \in {None, "failed"}
      BY <3>1 DEF Onboarded, Placed, TypeRequests
    <3> QED
      BY <3>1, <3>2, <3>3 DEF Onboarded
  <2>3. PlatformTenantsWhole
    BY <2>1 DEF PlatformTenantsWhole, TenantAt, Rented, InvRequests, Placed
  <2>4. SlugsUnique
    <3>1. ASSUME NEW c \in Call, at[c] \in {"insertHotel", "commitTenant"} PROVE ~Exists(c)
      BY <2>1, <3>1 DEF TenantAt, Creates, Onboarded, Rented, InvRequests, Placed, PlacedTenant
    <3> QED
      BY <2>1, <3>1 DEF SlugsUnique, RowsAgree, OwnSlugs
  <2>5. CopiesAgree /\ ChoicesKept
    <3>1. \A c \in trail : c \in Call
      BY <2>1 DEF RowsAgree, TypeTenants
    <3> QED
      BY <2>1, <3>1 DEF RowsAgree, ChoicesKept, TenantAt
  <2> QED
    BY <2>2, <2>3, <2>4, <2>5 DEF TenantRowsAgree
<1> QED
  BY Invariant, <1>1, PTL

=============================================================================
