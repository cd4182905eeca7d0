----------------------------- MODULE BackOffice -----------------------------
(***************************************************************************)
(* The back office as one server on one database: any request may be for   *)
(* loyalty points, linen, the night audit or a tenant, and the requests    *)
(* run concurrently, each in a goroutine of its own.                       *)
(***************************************************************************)
EXTENDS Loyalty, Linen, NightAudit, Tenants

CONSTANT MaxOffices     \* bounds the offices that have requests in one behaviour

vars == <<request, loyalty, linen, audit, tenants>>

Step == {"start", "end", "award", "check", "subtract", "post", "note", "move", "total", "count", "file",
         "list", "insertHotel", "insertProperty", "brand", "readBranding", "commitTenant", "readSlug",
         "updatePlan", "portals", "setPortal", "auditPortal", "ensureConfig", "setGateway",
         "commitSettings", "auditSettings", "readSettings"}

TypeOK ==
    /\ ask \in [Call -> AskLoyalty \cup AskLinen \cup AskAudit \cup AskTenant \cup {None}]
    /\ at \in [Call -> Step]
    /\ answer \in [Call -> {"ok", "refused", "failed", None}]
    /\ TypeLoyalty /\ TypeLinen /\ TypeAudit /\ TypeTenants

Init == InitRequests /\ InitLoyalty /\ InitLinen /\ InitAudit /\ InitTenants

\* The offices share no table, which is why a run may look at few of them at a time.
Office(a) ==
    CASE a.op \in {"earn", "redeem"} -> "crm"
      [] a.op \in {"issue", "return"} -> "linen"
      [] a.op \in {"close", "checklist"} -> "audit"
      [] OTHER -> "tenants"
Busy == {Office(ask[c]) : c \in {d \in Call : ask[d] # None}}

Serve(c) ==
    \/ ServeLoyalty(c) /\ UNCHANGED <<linen, audit, tenants>>
    \/ ServeLinen(c) /\ UNCHANGED <<loyalty, audit, tenants>>
    \/ ServeAudit(c) /\ UNCHANGED <<loyalty, linen, tenants>>
    \/ ServeTenant(c) /\ UNCHANGED <<loyalty, linen, audit>>
    \/ Fails(c) /\ UNCHANGED <<loyalty, linen, audit, tenants>>

\* All requests are answered, and the last day has begun.
Idle == (\A c \in Call : answer[c] # None) /\ today = MaxDay /\ UNCHANGED vars

Next ==
    \/ \E c \in Call : Serve(c) /\ Cardinality(Busy') <= MaxOffices
    \/ Midnight /\ UNCHANGED <<loyalty, linen, tenants>>
    \/ Idle

Spec == Init /\ [][Next]_vars

\* What the server keeps twice, as a balance or a counter and as the transactions that
\* explain it, agrees but for requests that ended between their two statements.
LedgersAgree == PointsExplained /\ LinenExplained

=============================================================================
