------------------------------ MODULE Tenants -------------------------------
(***************************************************************************)
(* Hotels as tenants: onboarding (hotel_handler.go), the platform's        *)
(* tenants and plans (platform_handler.go), and the settings of the demo   *)
(* hotel (operations_handler.go).  CreateHotel writes one table after      *)
(* another; CreatePlatformTenant, UpsertBranding and UpdatePaymentSettings *)
(* use a transaction.  A hotel is named for the request that creates it.   *)
(* Nothing deletes one.                                                    *)
(*                                                                         *)
(* The effects of a transaction are those of the step that commits it.     *)
(***************************************************************************)
EXTENDS Requests

CONSTANTS
    Demo,       \* the hotel of the migrations, DemoHotelID
    Slug,
    DemoSlug,
    Plan,       \* plans as normalizePlanTier leaves them
    FirstPlan,  \* plans that hotels are created with, all of them but for a bound in a run
    Active,     \* is_active in a request, or None
    Gateway,    \* active_gateway as normalizeGateway leaves it
    Role        \* rolePortalDefaults

Hotel == Call \cup {Demo}

VARIABLES
    hotel,      \* hotels
    property,   \* hotels that have a row in properties
    branding,   \* and in hotel_branding
    config,     \* payment_configs: the gateway, if there is a row
    portal,     \* role_portal_settings: the row of a role, if there is one
    slugRead,   \* UpdateTenantPlan: the slug
    trail,      \* audit_logs: the requests that have a row there

    \* A history variable: no guard reads it.
    chosen      \* roles of the demo hotel whose portal an administrator has set

tenants == <<hotel, property, branding, config, portal, slugRead, trail, chosen>>

\* settingsForPlanTier: the limits of the plan, and a name of a database made of the slug.
SettingsFor(plan, slug) == <<plan, slug>>

HotelRow == [slug : Slug, plan : Plan, settings : Plan \X Slug, active : BOOLEAN, gateway : Gateway]

AskTenant ==
    [op : {"onboard"}, slug : Slug, plan : FirstPlan, property : BOOLEAN]
        \cup [op : {"tenant"}, slug : Slug, plan : FirstPlan]
        \cup [op : {"plan"}, on : Hotel, plan : Plan, active : Active]
        \cup [op : {"branding"}, on : Hotel]
        \cup [op : {"gateway"}, to : Gateway]
        \cup [op : {"settings", "portals"}]
        \cup [op : {"portal"}, role : Role]

ASSUME TenantsAssumption ==
    /\ Demo \notin Call /\ DemoSlug \in Slug
    /\ Active \subseteq BOOLEAN \cup {None}
    /\ {"basic", "premium"} \subseteq Plan /\ FirstPlan \subseteq Plan /\ "none" \in Gateway
    /\ None \notin Hotel \cup HotelRow \cup Gateway \cup {"default", "own"} \cup AskTenant

TypeTenants ==
    /\ hotel \in [Hotel -> HotelRow \cup {None}]
    /\ property \subseteq Hotel /\ branding \subseteq Hotel
    /\ config \in [Hotel -> Gateway \cup {None}]
    /\ portal \in [Hotel -> [Role -> {"default", "own", None}]]
    /\ slugRead \in [Call -> Slug \cup {None}]
    /\ trail \subseteq Call /\ chosen \subseteq Role

Row(slug, plan) ==
    [slug |-> slug, plan |-> plan, settings |-> SettingsFor(plan, slug), active |-> TRUE, gateway |-> "none"]

\* What the migrations leave.
InitTenants ==
    /\ hotel = [h \in Hotel |-> IF h = Demo THEN Row(DemoSlug, "premium") ELSE None]
    /\ property = {Demo} /\ branding = {Demo}
    /\ config = [h \in Hotel |-> IF h = Demo THEN "none" ELSE None]
    /\ portal = [h \in Hotel |-> [r \in Role |-> None]]
    /\ slugRead = [c \in Call |-> None]
    /\ trail = {} /\ chosen = {}

Exists(h) == hotel[h] # None
Taken(slug) == \E h \in Hotel : Exists(h) /\ hotel[h].slug = slug

-----------------------------------------------------------------------------
(* CreateHotel and UpdateBranding.                                         *)

\* hotelRepo.CreateHotel: the slug is unique.
InsertHotel(c) ==
    /\ Makes(c, "insertHotel")
    /\ IF Taken(ask[c].slug)
       THEN Refuse(c, "insertHotel") /\ UNCHANGED hotel
       ELSE /\ Goto(c, "insertHotel", IF ask[c].property THEN "insertProperty" ELSE "brand")
            /\ hotel' = [hotel EXCEPT ![c] = Row(ask[c].slug, ask[c].plan)]
    /\ UNCHANGED <<property, branding, config, portal, slugRead, trail, chosen>>

InsertProperty(c) ==
    /\ Goto(c, "insertProperty", "brand")
    /\ property' = property \cup {c}
    /\ UNCHANGED <<hotel, branding, config, portal, slugRead, trail, chosen>>

Branded(c) == IF ask[c].op = "branding" THEN ask[c].on ELSE c

\* UpsertBranding: the name and the branding in one transaction, which the foreign key fails
\* for a hotel that is not there; then what was written is read again.
Brand(c) ==
    /\ Goto(c, "brand", "readBranding") /\ Exists(Branded(c))
    /\ branding' = branding \cup {Branded(c)}
    /\ UNCHANGED <<hotel, property, config, portal, slugRead, trail, chosen>>

\* FindBrandingByHotelID knows active hotels only: for another one the request is answered
\* with an error although everything was written.
ReadBranding(c) ==
    /\ Makes(c, "readBranding")
    /\ IF hotel[Branded(c)].active THEN Finish(c, "readBranding") ELSE Refuse(c, "readBranding")
    /\ UNCHANGED tenants

-----------------------------------------------------------------------------
(* CreatePlatformTenant and UpdateTenantPlan.                              *)

\* Mutant: the configuration is inserted by the pool, after the commit.
CommitTenantAlone(c) ==
    /\ Makes(c, "commitTenant")
    /\ IF Taken(ask[c].slug)
       THEN Refuse(c, "commitTenant") /\ UNCHANGED <<hotel, branding, config>>
       ELSE /\ Goto(c, "commitTenant", "portals")
            /\ hotel' = [hotel EXCEPT ![c] = Row(ask[c].slug, ask[c].plan)]
            /\ branding' = branding \cup {c}
            /\ UNCHANGED config
    /\ UNCHANGED <<property, portal, slugRead, trail, chosen>>

\* Three INSERTs in a transaction; a slug that is taken fails the first.
CommitTenant(c) ==
    /\ Makes(c, "commitTenant")
    /\ IF Taken(ask[c].slug)
       THEN Refuse(c, "commitTenant") /\ UNCHANGED <<hotel, branding, config>>
       ELSE /\ Goto(c, "commitTenant", "portals")
            /\ hotel' = [hotel EXCEPT ![c] = Row(ask[c].slug, ask[c].plan)]
            /\ branding' = branding \cup {c}
            /\ config' = [config EXCEPT ![c] = "none"]
    /\ UNCHANGED <<property, portal, slugRead, trail, chosen>>

\* "client tenant not found", or its slug
ReadSlug(c) ==
    /\ Makes(c, "readSlug")
    /\ IF Exists(ask[c].on)
       THEN /\ Goto(c, "readSlug", "updatePlan")
            /\ slugRead' = [slugRead EXCEPT ![c] = hotel[ask[c].on].slug]
       ELSE Refuse(c, "readSlug") /\ UNCHANGED slugRead
    /\ UNCHANGED <<hotel, property, branding, config, portal, trail, chosen>>

\* The plan and its settings; the hotel is suspended, or put back to service, if asked for.
UpdatePlan(c) ==
    LET row == hotel[ask[c].on] IN
    /\ Finish(c, "updatePlan")
    /\ hotel' = [hotel EXCEPT ![ask[c].on] =
                   [row EXCEPT !.plan = ask[c].plan,
                               !.settings = SettingsFor(ask[c].plan, slugRead[c]),
                               !.active = IF ask[c].active = None THEN @ ELSE ask[c].active]]
    /\ UNCHANGED <<property, branding, config, portal, slugRead, trail, chosen>>

-----------------------------------------------------------------------------
(* Portals of roles.                                                       *)

PortalHotel(c) == IF ask[c].op = "tenant" THEN c ELSE Demo

\* Mutant: the defaults replace what is there.
EnsurePortalAgain(c) ==
    \E r \in Role :
        /\ Makes(c, "portals")
        /\ portal' = [portal EXCEPT ![PortalHotel(c)][r] = "default"]
        /\ UNCHANGED <<request, hotel, property, branding, config, slugRead, trail, chosen>>

\* ensureRolePortalSettingsForHotel: one INSERT for each role, ON CONFLICT DO NOTHING.  Their
\* order is left open: a missing row reads like its default.
EnsurePortal(c) ==
    \E r \in Role :
        /\ Makes(c, "portals") /\ portal[PortalHotel(c)][r] = None
        /\ portal' = [portal EXCEPT ![PortalHotel(c)][r] = "default"]
        /\ UNCHANGED <<request, hotel, property, branding, config, slugRead, trail, chosen>>

\* All are there: the tenant is answered, the portals are read, or one of them is set.
PortalsReady(c) ==
    /\ Makes(c, "portals")
    /\ \A r \in Role : portal[PortalHotel(c)][r] # None
    /\ IF ask[c].op = "portal" THEN Goto(c, "portals", "setPortal") ELSE Finish(c, "portals")
    /\ UNCHANGED tenants

SetPortal(c) ==
    /\ Goto(c, "setPortal", "auditPortal")
    /\ portal' = [portal EXCEPT ![Demo][ask[c].role] = "own"]
    /\ chosen' = chosen \cup {ask[c].role}
    /\ UNCHANGED <<hotel, property, branding, config, slugRead, trail>>

\* audit: its result is discarded.
AuditPortal(c) ==
    /\ Finish(c, "auditPortal")
    /\ trail' \in {trail, trail \cup {c}}
    /\ UNCHANGED <<hotel, property, branding, config, portal, slugRead, chosen>>

-----------------------------------------------------------------------------
(* UpdatePaymentSettings.                                                  *)

\* ensurePaymentConfig, before the transaction
EnsureConfig(c) ==
    /\ Goto(c, "ensureConfig", "setGateway")
    /\ config' = [config EXCEPT ![Demo] = IF @ = None THEN "none" ELSE @]
    /\ UNCHANGED <<hotel, property, branding, portal, slugRead, trail, chosen>>

\* Mutant: the first UPDATE is executed by the pool, not by the transaction.
SetGatewayAlone(c) ==
    /\ Goto(c, "setGateway", "commitSettings")
    /\ hotel' = [hotel EXCEPT ![Demo].gateway = ask[c].to]
    /\ UNCHANGED <<property, branding, config, portal, slugRead, trail, chosen>>

\* UPDATE hotels, which nobody sees before the commit;
SetGateway(c) ==
    /\ Goto(c, "setGateway", "commitSettings")
    /\ UNCHANGED tenants

\* the INSERT or UPDATE of payment_configs, and the commit.
CommitSettings(c) ==
    /\ Goto(c, "commitSettings", "auditSettings")
    /\ hotel' = [hotel EXCEPT ![Demo].gateway = ask[c].to]
    /\ config' = [config EXCEPT ![Demo] = ask[c].to]
    /\ UNCHANGED <<property, branding, portal, slugRead, trail, chosen>>

AuditSettings(c) ==
    /\ Goto(c, "auditSettings", "readSettings")
    /\ trail' \in {trail, trail \cup {c}}
    /\ UNCHANGED <<hotel, property, branding, config, portal, slugRead, chosen>>

\* PaymentSettings: the answer is read again, and fails on its own.
ReadSettings(c) ==
    /\ Finish(c, "readSettings")
    /\ config' = [config EXCEPT ![Demo] = IF @ = None THEN "none" ELSE @]
    /\ UNCHANGED <<hotel, property, branding, portal, slugRead, trail, chosen>>

-----------------------------------------------------------------------------

First(op) ==
    CASE op = "onboard" -> "insertHotel"
      [] op = "tenant" -> "commitTenant"
      [] op = "plan" -> "readSlug"
      [] op = "branding" -> "brand"
      [] op = "gateway" -> "ensureConfig"
      [] op = "settings" -> "readSettings"
      [] OTHER -> "portals"

\* Ids are generated when a hotel is made: who names one has seen it, or means none, for
\* which the request's own id stands.
Known(c, a) == a.op \in {"plan", "branding"} => Exists(a.on) \/ a.on = c

ServeTenant(c) ==
    \/ /\ Fresh(c) /\ UNCHANGED tenants
       /\ \E a \in AskTenant : Known(c, a) /\ Begin(c, a, First(a.op))
    \/ /\ ask[c] \in AskTenant
       /\ \/ InsertHotel(c) \/ InsertProperty(c) \/ Brand(c) \/ ReadBranding(c)
          \/ CommitTenant(c) \/ ReadSlug(c) \/ UpdatePlan(c)
          \/ EnsurePortal(c) \/ PortalsReady(c) \/ SetPortal(c) \/ AuditPortal(c)
          \/ EnsureConfig(c) \/ SetGateway(c) \/ CommitSettings(c) \/ AuditSettings(c) \/ ReadSettings(c)

-----------------------------------------------------------------------------
(* Properties.                                                             *)

Creates(c, op) == ask[c] \in AskTenant /\ ask[c].op = op

\* A hotel that lacks its branding or its property belongs to an onboarding that is under
\* way or has ended in between; what was answered as created is whole.
OnboardingsWhole ==
    \A c \in Call : Creates(c, "onboard") /\ Exists(c) =>
        \/ c \in branding /\ (ask[c].property => c \in property)
        \/ at[c] \in {"insertProperty", "brand"} /\ answer[c] \in {None, "failed"}

\* A platform tenant has its branding and its configuration at once, and all its portals
\* when it is answered.
PlatformTenantsWhole ==
    \A c \in Call : Creates(c, "tenant") /\ Exists(c) =>
        /\ c \in branding /\ config[c] # None
        /\ answer[c] = "ok" => \A r \in Role : portal[c][r] # None

\* Whoever was told of a conflict has left no hotel, and whoever was not has one of its own.
SlugsUnique ==
    /\ \A g, h \in Hotel : Exists(g) /\ Exists(h) /\ hotel[g].slug = hotel[h].slug => g = h
    /\ \A c \in Call : at[c] \in {"insertHotel", "commitTenant"} => ~Exists(c)

\* The gateway of a hotel is in two tables, its plan in two columns: they agree.
CopiesAgree ==
    \A h \in Hotel :
        /\ config[h] # None => Exists(h) /\ hotel[h].gateway = config[h]
        /\ Exists(h) => hotel[h].settings = SettingsFor(hotel[h].plan, hotel[h].slug)

\* What an administrator has chosen, no later filling in of defaults takes away; what the
\* trail says was done.
ChoicesKept ==
    /\ \A r \in chosen : portal[Demo][r] = "own"
    /\ \A c \in trail : at[c] \notin {"setPortal", "setGateway", "commitSettings"}

\* CreateHotel, CreatePlatformTenant, the plans and the settings leave the rows of a tenant
\* in agreement, whatever fails in between and whoever interferes.
TenantRowsAgree ==
    OnboardingsWhole /\ PlatformTenantsWhole /\ SlugsUnique /\ CopiesAgree /\ ChoicesKept

=============================================================================
