# Hotel Harmony API: a verification project

TLA+ models of the Go server in `src/`, checked with TLC on small instances and,
for the statements that matter most, proved with TLAPS for every instance.

The server is a Fiber application over PostgreSQL (a `pgxpool`, autocommit) and Redis, with two
payment gateways, two language-model providers and mail and SMS services behind HTTP. Every
request runs in a goroutine of its own. There are no transactions except in the migration
runner, in `UpdatePaymentSettings`, `UpsertBranding` and `CreatePlatformTenant`; everything else
that spans several statements is exposed to interleaving, to a call that fails in the middle,
and to the end of the process. The repository has no tests. That is what the models are about.

## 1. Inventory

| Component | State it keeps | Operations | Interacts with | What is hard |
|---|---|---|---|---|
| Booking checkout (`payment_service.go`) | stays, payments, room status, a Redis lock per guest, room and dates | `BookingCheckout`, `CreateRazorpayBookingOrder`, `HoldBooking` | database, Redis, Stripe, Razorpay | a saga without a transaction: roll-back by hand, results ignored, a lock that expires under its holder |
| Payment collection (`payment_service.go`) | one payment row, its order note, a lock per endpoint | `CreateRazorpayPaymentOrder`, `PaymentCheckout`, `VerifyRazorpayPayment`, `CompletePayment` | gateways | decides on a row read earlier, converts an amount that may have been converted |
| Room lists and cache (`cache.go`, `room_handler.go`, `dashboard_handler.go`) | cached lists with a time to live | read-through, write-then-delete | every writer of rooms | fills that race with deletes, deletes that are lost, writers that delete nothing |
| Front desk (`reservation_handler.go`) | stays, room status | create, cancel, check in, check out, room status | booking, cache | two writes per call, no lock, decisions on old reads |
| Billing (`billing_handler.go`) | folios, charges, desk payments, invoices | list, get, create, charge, pay, invoice, mail | stays, payments | answers put together from several queries; payments belong to bookings, not folios |
| Schema bootstrap (`schema.go`, `main.go`) | the schema, `schema_migrations` | boot | the database other servers boot on | concurrent boots, lost commit answers, time-outs, a ledger of earlier versions |
| AI concierge (`ai_service.go`) | a circuit breaker, cached menus | chat, menu, complaint, inventory | two providers | retries, fallback, one breaker for both |
| Accounts and sessions (`auth_service.go`, `user_handler.go`) | users, roles, refresh tokens denied in Redis | sign-up, sign-in, refresh, sign-out, password, roles | Redis, hotels | a check and a revocation in two calls, errors ignored, roles that travel in tokens, sign-up in three writes |
| Loyalty (`crm_handler.go`) | balances of members, transactions | award, redeem | guests | check, subtraction and transaction in three statements |
| Linen (`housekeeping_handler.go`) | counters of a kind of linen, transactions | issue, return | – | transaction first, counters next; counters cut off at zero |
| Night audit (`nightaudit_handler.go`) | reports by hotel and day | close the day, checklist | bookings | `CURRENT_DATE` in every statement anew; no uniqueness |
| Table API (`compat_handler.go`) | every table | generic list, insert, update, delete, audit | all of the above | multi-row inserts in a loop, an audit row whose failure fails the request after its effect |
| Hotels, plans, settings (`hotel_handler.go`, `platform_handler.go`, `operations_handler.go`) | hotels, properties, branding, payment configuration, portals of roles | onboarding, tenants, plans, branding, gateway, portals | sign-in, every handler | onboarding in three writes without a transaction; the gateway in two tables; defaults that readers fill in |
| Promotions, procurement, revenue, channels, assets | their own tables | single statements | – | little: one statement each |
| Mail and SMS, reports, configuration, logging, routing | none | – | – | – |

What makes each component correct, in one line each:

* **Booking checkout** – a confirmed booking has its records and a room that stays
  taken; two confirmed bookings share a room only if they overlapped; a rejected
  booking leaves nothing behind; the lock admits one request of a key at a time.
* **Payment collection** – completed means captured at the gateway: through Razorpay for the
  noted order and the recorded amount, through Stripe for some session that is paid, which the
  code does not compare with the payment; a price is converted once; only a race reopens a payment.
* **Room lists** – a list is wrong only for known reasons.
* **Front desk** – a guest in the house sits in a room marked occupied; a guest who
  has arrived is not erased.
* **Billing** – each payment counts to exactly one folio; invoices have the charges of
  their folio, as far as they could be read.
* **Accounts and sessions** – a refresh token that was denied buys nothing under the same text;
  a role that was taken away fades; nobody of a suspended hotel signs in; one sign-up per email.
* **AI concierge** – every call ends with an answer; a call is turned away only by an open
  breaker, and not by its own failures; the cache has no local answers.
* **Table API** – success means done in full and on record; the record is true; every request
  is answered.
* **Loyalty and linen** – a balance or a counter is what its transactions say, but for
  requests that ended between the two; it is overdrawn only by requests that overtook
  each other, and no piece of linen is lost.
* **Night audit** – who is told that a day is done has a report of that hotel and day.
* **Hotels** – what was answered as created is whole; one hotel per slug; the copies of gateway
  and plan agree; no default takes a choice away.
* **Schema bootstrap** – each migration takes effect once and in order; a server that
  serves has its schema; every server serves in the end.

The behaviours that are hard to test, each at its line and with the properties that
watch it, are the `hazards` of `PROJECT.json`.

## 2. The modules

```
HotelTables ---+--> Booking ----> BookingProofs      BookingContract (abstract)
               |       \--- implements ------------------^
               +--> FrontDesk --> FrontDeskProofs
Payments, RoomLists, Migrations ---> CoordinationProofs
Migrations --- implements ---> MigrationLog (abstract)
Billing -----------------------> BillingProofs
Sessions ----------------------> SessionsProofs
Concierge ---------------------> ConciergeProofs
TableApi ----------------------> TableApiProofs
Requests --> NightAudit, Tenants ----------+
Requests, Amounts --> Loyalty, Linen ------+--> BackOffice (composed) --> BackOfficeProofs
MC<module>: model values, symmetry and constants for the runs
```

Conventions. A handler is a small program: each call it makes (a statement, a Redis command, a
gateway request) is one action, and `pc`, `call` or `at` holds the call it makes next. A
repository method is one SQL statement and therefore atomic. Every call may fail where the code
looks at the failure, and may be lost where the code discards the result. History variables
(named as such where they are declared) are read by properties only. Modules that are extended
together (the parts of `BackOffice`, and `RoomLists` and `Migrations`, whose proofs stand beside
those of `Payments`) name their initial states, types and steps after themselves: `InitLists`,
`TypeMigrations`, `ServeLoyalty`. Operators marked *Mutant* are wrong on purpose: each is a
plausible bug of the definition below it, and shows that the property it is paired with in
`PROJECT.json` would notice. They are not part of any specification.

### Booking, BookingContract, HotelTables

`HotelTables` has the tables and the repository calls, including the foreign key that
detaches a payment from a deleted stay. `Booking` runs any number of requests of the
three kinds. `pc` follows the functions: `lock` (SetNX: acquired, busy, or Redis
failing, in which case the handler goes on), `resolve`, `stay`, `payment`, `occupy`,
`gateway`, `note`, then the return with the deferred, unconditional Delete of the lock
key. `undoPayment`, `undoStay`, `undoRoom` are the roll-back; Stripe skips the deletion
of the stay when the payment cannot be inserted, as the code does. `LockExpires` is the
10 s time to live, enabled also while the holder is inside, because one gateway call may
take 15 s. `Crash` ends a handler anywhere. `BookingContract` is what a caller may rely
on: confirmed with both rows, rejected with none, or abandoned; `KeepsContract` maps
`pc` and the tables to it.

### Payments

One payment row, any number of requests on it. The row is read into `seen`, the
decision is made on `seen`, and the write comes after the gateway call. The gateways are
external: they keep what was opened (`orders`), and `GuestPays` moves some of it to
`captured`. Amounts are integers and rates are factors: enough to tell a price that was
converted twice from one that was converted once. `CompletePayment` asks Stripe only whether
the session the client names is paid, so `orders` has from the start a session of another
payment (`Elsewhere`), which may be paid like any other and then completes this one as well;
`borrowing` and `borrowed` (history) remember that.

### RoomLists

Redis as a function from keys to lists, the room table as a function from rooms to status. A
status is any text: neither the room routes nor the column restrict it, and `GET /rooms?status=`
caches a list under whatever it is asked for. `RoomStatus` has the four of the domain,
`OtherText` others; one of these is `all`, since the list of the rooms with that status and the
list of all rooms have one key (`KeyOf`). Writers are classified by handler (`kind`): `Written`
says which status they can write, `Dropped` which keys they delete, `Unhandled` which they
leave. The `compat` kind is the table API. The dashboard statistics are a list under the key
`stats`.

### FrontDesk

`Create`, `Cancel`, `CheckIn`, `CheckOut` and the room status route, statement by
statement, on `HotelTables`. No dates: no code path compares them when it changes a
room.

### Billing

`GetFolio`, `RecordPayment` and `GenerateInvoice` query by query, `CreateFolio` split in the
moment its INSERT takes `now()` and the moment it commits. Charges and payments stand for the
amounts they carry, so that a total is a set. The loops over the charges and the payments do not
ask for `rows.Err()`, so they may end with any part of the rows (`ReadCharges`, `ReadPayments`);
`broken` (history) has the calls whose charges were cut short. Online payments, their settlement
and cancelled stays are the environment.

### Sessions

A request of `SignUp`, `SignIn`, `RefreshSession` or `UpdatePasswordWithCurrent` is a record in
`call`, and the pair of tokens it issues is named after it. `deny` is what is left of the
cache's entry for a refresh token, `session[c].life` what is left of the token itself. An entry
is named by the last 32 characters of the text that was presented (`revokedKey`); since the
signature is decoded leniently, more than one text stands for a token, and `Text` is a token
with one of its `Ending`s. `Tick` takes one unit off both, so that an entry that lapses before
its token would show. Errors of `Exists`, `Set` and `GetRoles` are dropped by the code and by
the model: each of these steps has an outcome in which the call failed. The same outcomes cover
the cache that does nothing (`NoopCache`). The history variables record what a property needs of
the past: `traded` (texts ever entered), `closed` (the hotel was suspended all the time),
`taken` (roles lost since they were read), `raced` (overtaken password changes). `SignOut` only
clears cookies and the access token is checked without any state (`authctx.go`), so both are not
actions; `RevokeRefreshToken`, `GetUserFromToken` and `middleware.Auth` are reached by no route.

### Concierge

A call goes from Cerebras to Groq (`NextLeg`) and then to its own answer. `failures` and
`cool` are the two numbers of the breaker, `cool` being the time until `lastFailure` is
`recoveryNanos` ago; `isOpen` and `recordFailure` access them in two steps each
(`LoadFailures`, `LoadLast`; `Fails`, `Stamp`). A request and its outcome are one step:
`Fails`, `Succeeds`, or `Shapeless`, which also stands for a body that the early `cancel()`
(`ai_service.go:305`, `399`) took away. Without a Cerebras key the calls go to Groq only;
without a Groq key Groq is asked all the same, as long as Cerebras has one, and can only
fail (`ai_service.go:268`): `Succeeds` needs a key. A cache entry names the call whose
answer it holds. The cache key has neither the menu nor the hotel in it, only the time of
day and a hash of the preferences, which is all that `CachedAnswersAreGiven` promises.
`seen`, `hit` and `refused` are history.

### TableApi

The two dozen tables of `compat_handler.go` fall into two kinds for what can go wrong with
them: rows with items (orders and order items, menu items and customizations) and one row
per user or gateway (profiles, roles, preferences, payment settings). `ask` is what a
request is for, by the handler that serves it. A statement takes a connection (`Acquire`)
and gives it back with its step; `selectOrders` and `selectMenuItems` hold theirs while
`orderItemsFor` and `menuCustomizationsFor` take a second for each row (`Needs`). A write
ends in `Done` with the record ids that `withCompatAudit` takes from the response, or from
the filters, or with none; `Audit` writes one record per step and may fail. The columns,
and what a read returns, are left out. `MayAsk` is a bound: all operations for two requests
in the run, reads that hold connections for the third. `Batch` bounds the items of an
insert and the rows of a read.

### Requests, Loyalty, Linen, NightAudit, Tenants, BackOffice

The back office is five handlers that never roll anything back: a request is a sequence of
statements, each committed by itself, and ends with an error at the first that fails. That is
`Requests`: what a request asks for (`ask`), the statement it makes next (`at`), its `answer`. A
request that failed, or whose process ended, stays at the statement it never made, so the place
of a request tells what it has done; a request that loses the reply of a statement has ended
before the next one, or, if it was the last, at its end with a failure for an answer (`Finish`).
The other modules extend it with their tables and actions, and `BackOffice` composes them into
one server. They share no table, so a run may look at the requests of one office at a time
(`MaxOffices`); the proofs hold for any number of them.

* `Loyalty`: `Award` is the upsert, `Check` and `Subtract` the two statements of a redemption,
  `Post` the transaction. `overtaken` (history) has the redemptions whose balance another one
  changed between check and subtraction: an overdraft is never more than these. Members are
  guests that exist; the server itself never inserts a guest. What requests add up to is an
  `Amount` (module `Amounts`): the number of elements of a set that has one for each unit.
* `Linen`: one row of `linen_inventory`, which no code inserts: its first count is the constant
  `Stock`. `Note` writes the transaction, `Issue` and `Return` move the counters. `damaged` is
  any integer, since the handler takes it as it comes. `short` (history) is what `GREATEST` has
  cut off, which together with pieces that came back damaged without having come back is the
  only way for pieces to appear.
* `NightAudit`: `Total`, `Count` and `File` are the three statements of `CloseDay`, each with the
  `CURRENT_DATE` of its own time; `Midnight` comes between any two steps. Nothing in the server
  writes the bookings that are added up, so totals are told by their day.
* `Tenants`: a hotel is named for the request that creates it. `InsertHotel`, `InsertProperty`,
  `Brand` and `ReadBranding` are `CreateHotel`; `CommitTenant` is the transaction of
  `CreatePlatformTenant`, after which `EnsurePortal` inserts a default per role, as every reader of
  the portals of the demo hotel does. The statements of a transaction take effect in the step that
  commits it. `slugRead` is what `UpdateTenantPlan` carries from its SELECT to its UPDATE.
  `audit` discards its errors, so an audit record may or may not be there.

### Migrations, MigrationLog

Servers that boot at once on one database, each shipping a prefix of the migrations.
`Execute`, `Record` and `Commit` are the transaction of one migration; a commit may take
effect without its answer arriving; `BootFails` is any other fault, the 30 s boot context or
a crash, `MaxFaults` times. A ledger may be inherited from a version of the code that
baselined it (the comment at `schema.go:326-334` tells of one), so some rows may claim
migrations that never ran. `MigrationLog` is what the ledger promises: one migration at
a time, in order, recorded in the step in which it takes effect.

## 3. The runs

| Run | Module | Checks | Shows |
|---|---|---|---|
| `MCBooking` | MCBooking | `TypeOK`, `LockExclusion`, `ConfirmedRoomIsKept`, `KeepsContract` | Two requests of one guest, of any of the three kinds, for two rooms by number or type, with every call failing and every handler crashing: no two requests of one key are past the lock together unless it gave way, confirmed bookings keep their room, those that did not overlap share none, and the three handlers implement BookingContract. |
| `MCPayments` | MCPayments | `TypeOK`, `CompletedIsCaptured`, `PricedOnce`, `OnlyRacesReopen` | Two calls of any kind on one payment with late captures, expiring and failing locks: a completed payment was captured at its gateway, or completed on another payment's paid Stripe session; through Razorpay for the noted order and amount; a stay is converted once, and only a call that raced reopens a completed payment. |
| `MCRoomLists` | MCRoomLists | `TypeLists`, `WrongOnlyInRaces` | Two writers of every kind, one reader of every list: a cached list is wrong only while a writer is between its write and its delete, after a fill that was overtaken, a handler that deletes nothing, or a lost delete, for a text that is no status of the domain, or where ?status=all was asked. |
| `MCFrontDesk` | MCFrontDesk | `TypeOK`, `InHouseIsOccupied`, `ArrivalsSurvive` | Four concurrent calls of the desk on two stays of two rooms: a guest in the house sits in a room marked occupied unless another call worked on the same room, and a stay that has arrived is erased only by a cancellation that had read it before. |
| `MCMigrations` | MCMigrations | `TypeMigrations`, `ServingIsComplete`, `OneByOne`, `ServersServe` | Two servers, one of an older version, with two faults (crash, lost commit answer, time-out): migrations are applied one by one in order, each recorded with its effects, a server serves only a complete schema, and once the faults are over both come to serve. |
| `MCBackOffice` | MCBackOffice | `TypeOK`, `LedgersAgree`, `OverdraftIsRaced`, `DoneDaysAudited`, `TenantRowsAgree` | Three concurrent requests of any one office, each failing or ending anywhere: balances and counters are explained by their transactions, a balance is overdrawn only by redemptions that overtook each other, a day is done only with a report of it but around midnight, and the rows of a tenant agree. |
| `MCBilling` | MCBilling | `TypeOK`, `EachPaymentCounts`, `InvoiceComplete`, `EarliestStays` | Three requests to the billing desk on two folios of one booking or two, against online payments and cancellations: no payment is counted to two folios, a recorded one is counted to some, an invoice has the charges of its folio unless the reading of them broke off, and the earliest folio stays the earliest. |
| `MCConcierge` | MCConcierge | `TypeOK`, `ProvidersAreHeard`, `RefusedWhenOpen`, `EveryCallAnswers` | Two calls of any kind against providers that answer, fail or talk nonsense, with none, one or both keys: a call is turned away only by a breaker that was open while it asked and never by its own failures alone, the cache holds only answers of a provider, and every call ends with an answer. |
| `MCSessions` | MCSessions | `TypeOK`, `TradedOnce`, `RolesFade`, `SignedUpOnce`, `SuspendedStayOut`, `PasswordKnown` | Three requests for one account against administrators, the clock and a cache that may fail: the text of a refresh token entered in the cache buys no second session, roles that were taken away fade, a suspended hotel signs nobody in but by signing up, one sign-up per email succeeds, and passwords are replaced by who gave them. |
| `MCTableApi` | MCTableApi | `TypeOK`, `SuccessIsOnRecord`, `TrailIsTrue`, `AnsweredUnlessStuck` | Two requests of any kind and a read that needs two connections, on a pool of two: a write that answers with success is done in full and on record, records name rows that were changed or say why not, and every request is answered unless the pool is stuck on reads that wait for each other. |

**Bounds.** All runs are small because the interesting cases need few actors: races need two
requests, an overtaken decision needs two writers, a lock that gives way to a successor needs
two requests of one key, and a list overtaken by a write needs one reader. RoomLists has one
text of a status that is a key as well and one that is not. Two rooms of one type with different
prices make the choice of the cheapest room matter. FrontDesk gets four calls because its states
need a history (create, check in, and two more that disagree about the room), and two rooms so
that calls of one stay need not concern the other's. Billing needs two folios, one charge
(posted before or after a read), one payment and three calls: two that open folios and one that
looks, or two that look and one that opens, beside a folio that was open before. Sessions needs
three requests of one account: one that issues a token and two that use it, or two sign-ups
beside a sign-in; two endings of a token's text; one role that sign-up gives and one that only
administrators give; and a lifetime of 2, so that something can be one unit too short. Concierge
has two calls, a threshold of 3 and two attempts for the 5 and 3 of the code: one call with one
provider stays below the threshold, with both it reaches it, as in the code. TableApi has two
connections for three requests: two reads that hold one and need another shut the third out.
BackOffice has three requests: two redemptions that overtake each other need an award before
them, and two requests that name one hotel need a third that creates it. Balances of at most 6
points and a stock of 2 pieces are enough to fall short. `MaxDay = 2` is one midnight;
`FirstPlan` keeps new hotels on the basic plan, of which changes of plan lead away; `MaxOffices
= 1` is sound since the offices share no variables but those of the requests. Migrations has
three migrations: the two that are required and one that is not. `MaxFaults = 2`, `MaxDay`,
`MaxOffices` and `MayAsk` are the only bounds on an action; liveness needs faults to stop, and
two are enough for a crash in each server or two in one.

**Symmetry** is used where the members are interchangeable and never together with a
liveness property.

**Deadlock** is checked in every run. Where all requests are finished an `Idle` step
keeps the system alive; any other state without a successor would be reported.

**Fairness.** In `Concierge` and `TableApi`, weak fairness of the steps of each handler: their
calls have time-outs (25 s and 30 s for the language models, Redis' own), and a statement that
is executed comes back with an answer or an error, so a handler goes on. In `TableApi` it
includes the wait for a connection, which pgxpool serves in turn and which has no time-out of
its own: `AnsweredUnlessStuck` names the state in which nobody gets one. Weak fairness of the
steps of a server in `Migrations` assumes that something starts it again after a fatal exit:
that is the operator's supervisor, since the compose file sets no restart policy. No fairness of
guests, of gateways, of expiry or of failures is assumed.

### Disagreements the runs show

The `violation` runs check one statement of a comment, the README or an error message against
what the code does; TLC finds the counterexample. More of them are exceptions in properties that
hold. `CompletedIsCaptured` of `MCPayments`: "CompletePayment verifies a Stripe session and
marks the payment completed" (`payment_service.go:664`), but it compares the session neither
with the payment nor with its amount (`payment_service.go:685-692`), so that a paid session of
another payment will do (`borrowed`); `VerifyRazorpayPayment` compares both. `InvoiceComplete`
of `MCBilling`: an invoice is answered as created when the reading of its charges has broken off
(`billing_handler.go:618-632`). `TradedOnce` of `MCSessions`: a traded token is denied by the
text it came in, of which only the end is remembered (`auth_service.go:309-314`).
`AnsweredUnlessStuck` of `MCTableApi`: "pgxpool manages the connection lifecycle with zero
manual intervention" (`db.go:4`), but as many concurrent reads of orders or of the menu as the
pool has connections wait for each other for good, and everybody for them. `TrailIsTrue`: a
payment setting that was there is audited under an id of no row (`compat_handler.go:1524`), a
delete by a caller of another hotel than the demo hotel, for which all rows are inserted, is
answered and audited and deletes nothing, and `insertUserRole` answers 201 when the insert has
failed, since it does not look at `rows.Err()` (`compat_handler.go:604-612`). `ServersServe` of
`MCMigrations` asks for the required migrations beside the server: README.md "Run" and "Docker"
start it with 001 alone, in an image that has only the binary, and there `runSQLMigrations`
returns nil (`schema.go:289-291`), `EnsureAppSchema` references the missing table hotels
(`schema.go:43`) and main ends with Fatal (`main.go:51-52`). `WrongOnlyInRaces` of
`MCRoomLists`: "Room list reads are cached and invalidated after room changes" (`README.md:30`),
but Cancel, CheckIn and CheckOut (`reservation_handler.go:242`, `258`, `293`) and the roll-back
of a Stripe checkout (`payment_service.go:285`) change a room and delete no entry (`skipped`),
and `invalidateRooms` (`room_handler.go:112-121`) deletes the lists of four statuses while rooms
and lists may be of any (`room_handler.go:34-38`, `105`). `LockExclusion` of `MCBooking`: the
lock of a booking lives 10 s while one gateway call may take 15 s, so the "simple distributed
lock used for idempotency critical sections" of `cache.go:2-3` may let a second checkout of the
same guest in, and the deferred Delete of the first (`payment_service.go:197`) then releases the
lock of the second. `DoneDaysAudited` of `MCBackOffice`: "the report totals always correspond to
the day they are filed under" (`nightaudit_handler.go:187-188`), but each statement evaluates
`CURRENT_DATE` anew, and a request that has its totals at midnight files them under the next day
(`overnight`); and nothing keeps a hotel from two reports for one day. `OverdraftIsRaced`:
"insufficient points" (`crm_handler.go:523`) is decided a statement before the subtraction, so
two redemptions at once overdraw a member. `LedgersAgree`: "quantity must be positive"
(`housekeeping_handler.go:488`) has no counterpart for `damaged`, which may exceed the quantity
or be negative; and what comes back goes to the laundry or the damaged pieces and nothing moves
it back to `total_count`. `TenantRowsAgree`: an onboarding that ends early leaves a hotel whose
slug is taken, and the repeated request is refused; for a hotel that was suspended meanwhile it
answers with an error after it has written everything (`hotel_repository.go:125`, `151`).

Seen in the code while it was modelled, and beyond any property: reports of the night audit are
filed under the hotel of the caller, but `ListReports` always lists those of the demo hotel
(`nightaudit_handler.go:260`), against `authctx.go:23-26`; `UpdateGuest` builds `SET a = $1,
WHERE` and never succeeds (`crm_handler.go:230-257`); a promotion whose usage limit is NULL
fails the scan and is answered as "promo code not found" (`booking_handler.go:334-340`);
`UpdateTenantPlan` without a plan puts the hotel on the basic one (`platform_handler.go:204`,
`plan_catalog.go:89`); the limits and roles of a plan are stored and shown but never enforced.

* `MCBookingDouble`, `NoDoubleBooking` (`src/internal/service/payment_service.go:172`): A request whose room is not available is refused with "selected room type is no longer available" (payment_service.go:172-173). BookingCheckout reads the status at 155-176 and writes it only at 259, and its lock key contains the user (186). In the run two guests ask for one room: each takes a lock of its own, the second resolves the room while the first has its stay and payment but has not marked it, and both are confirmed in it with no lock lost and no call failing.
* `MCPaymentsFinal`, `CompletedIsFinal` (`src/internal/service/payment_service.go:522`): Both entry points refuse a completed payment with "payment is already completed" (payment_service.go:522 and 601), but UpdateAmountAndNotes sets status = 'pending' unconditionally (payment_repository.go:105): a checkout that read the payment before it was completed reopens it, and the Stripe and Razorpay locks have different keys (496, 581).

## 4. The proofs

Each `*Proofs` module proves its theorems from the named assumptions of the module it
extends (what the constants are, never anything about the behaviour), for any number of
requests, rooms, servers and so on. The pattern is the same everywhere: an inductive
invariant `IInv`, itself checked with TLC first, a lemma per conjunct, one step per action.

* **BookingProofs.** `IInv` adds to the types: a request knows its room exactly from the
  resolution on; a request in progress holds its lock, and the lock is set, until the key is
  degraded; a room claimed twice is in `contended` or `unwritten`; a room whose
  saga has passed `occupy` is marked; and which rows exist at which `pc`. From it follow
  the exclusion of the lock, that a confirmed room stays taken, that serial bookings
  share no room, and that `Booking` implements `BookingContract` step by step.
* **CoordinationProofs** has the theorems of three small components whose processes coordinate
  through something beside the tables they change.
  *Payments* (through locks and gateways): a reading is equal to the row until it is recorded as
  stale; a request about to complete has its capture, or was shown another payment's; prices
  under way are conversions of the total.
  *RoomLists* (through Redis): `WrongOnlyInRaces` is inductive with the types; the one lemma
  that takes thought is `DroppedCovers`, that the keys of a handler that deletes any, with those
  nobody handles, cover whatever its write affects.
  *Migrations* (through the ledger): what a boot has left out of `todo` is recorded; at most one
  server is about to commit a given migration; recorded means run, unless inherited. Any number
  of boots implements `MigrationLog`.
* **FrontDeskProofs.** What a cancellation is about to delete has not arrived, or has
  arrived after it was read (`CancelFresh`). For `InHouseIsOccupied` the room's whole story is
  needed: a room that is not `disturbed` is reserved once (`ReservedOnce`), the calls that have
  read it are about that stay (`CallsFit`), one at a time once the guest has arrived
  (`OneCall`), a check-out among them is of a guest who has left or not arrived
  (`GuestLeaves`), and the room is occupied or its check-in has still to mark it (`GuestIn`).
  `Orderly` is their conjunction, and there is one lemma per action.
* **BillingProofs.** Stamps are distinct and precede existence; a folio in hand exists as long
  as its stay; a view that counts payments holds the earliest folio as long as the booking lasts
  and no overlapping creation displaced it, so two views agree; a request's charges are those of
  its folio, and all of them unless their reading broke off. That a booking with a folio has an
  earliest one uses the well-foundedness of the naturals from the library.

* **SessionsProofs.** The entry of a text that was traded in lasts at least as long as its
  token (`Outlasted`), the roles read are those of the user or were taken since
  (`RolesKnown`), a request that was let in while the hotel is suspended has seen it in
  service (`ClosedOut`), who signs up has inserted the account and nobody else has
  (`SigningUp`), and who is about to write a password gave the present one or was overtaken
  (`PasswordGiven`).

* **ConciergeProofs.** As long as one call alone has failed, the breaker counts no more than
  its attempts (`OwnFailures`), which are fewer than the threshold when it asks for its second
  provider; between its two loads a call that has seen nothing faces a breaker that is as it
  was (`StillClosed`); and the call whose answer an entry holds has a provider's answer (`Given`).

* **TableApiProofs.** What a request asked for and what it has done is told by its place
  (`Stage`, `InOrder`): before it audits it has changed nothing, unless it inserts items one by
  one, and those that are there are numbered 1 to `count`. What it has audited and what it has still
  to audit are together exactly the rows it inserted (`OnRecord`, with `Told` for the two). That
  the trail is true is about pairs of requests: a row that a request names was inserted once
  (`Made`) and is still there unless *another* request deleted it (`Named`), which is why
  an update that found nothing still has its exception when it comes to audit (`Explained`). That
  the pool is not exceeded needs `InUse` as the size of a set of pairs (`Taken`): a connection
  taken adds one element to it. The sets are finite because `Request` is assumed to be: no
  process has infinitely many requests at once.

* **BackOfficeProofs.** The invariant has a part for the requests and one for each office. The
  place of a request tells what it asks for and what it has done (`InvRequests`, `Placed`), and
  each office says by the places what its tables owe: a redemption between check and
  subtraction is still covered by the balance unless it has been overtaken (`InvLoyalty`);
  a report about to be filed has totals of today or was overtaken by midnight
  (`InvAudit`); an onboarding under way has exactly the rows of the statements it has passed
  (`TenantAt` in `InvTenants`). Since a step of one office must leave the parts of the others
  as they are, each part is proved stable under any change to a request that is none of its
  own (`Apart`). Sums are needed for `LedgersAgree` and `OverdraftIsRaced`; a fold over a set
  can only be reasoned about by induction, so a sum is the cardinality of a set with one
  element for each unit (`Amounts`), and that a request joins a sum is that two disjoint finite
  sets have together as many elements as each (`FiniteSetTheorems`). `OverdraftIsRaced` is not
  inductive as it stands: a balance of three with two redemptions of two that have passed the check
  is no overdraft yet, and the first of them to subtract has to make the other count as overtaken.

**What the proofs assume** is named in the modules and checked by TLC in every run: numbers are
natural where the columns or the configuration are (`Points`, `Quantity`, `Batch`, `Conns`),
sets of kinds are what the handlers know, and the value for "nothing" (`None`, `Absent`,
`NoOrder`, `Elsewhere`) is none of the values it stands beside. Nothing is assumed of `Damaged`
but that it is a set of integers, of `MaxFaults`, `MaxDay` and `MayAsk` but what they are, and
of `MaxOffices` nothing at all, so that the theorems hold without these bounds.

**Only model-checked** is what is about liveness (`ServersServe`, `EveryCallAnswers`,
`AnsweredUnlessStuck`): fairness and ENABLED are out of the prover's reach. Every safety
invariant and every action property of the passing runs is a theorem.

## 5. Not modelled, and why

`PROJECT.json` lists every component. Mail and SMS are one outgoing call each whose outcome
changes nothing; reports only read; configuration, logging and routing have no state.
Procurement, revenue, channels, assets, promotions, loyalty tiers, housekeeping tasks and lost
items are single SQL statements without a guard on what is stored, for which there is nothing to
interleave: a purchase order or a task takes whatever status a request names, and a promotion is
validated without being counted as used. The tables `bookings` and `guests` are read by several
handlers and written by none. Prices and taxes are data: where a property depends on an amount
(Payments) it is an integer, elsewhere it is left out.

## 6. What is left

1. **Hotel**: Booking and FrontDesk composed over `HotelTables`, for what the two do to each
   other's rooms; each already has the other's effects as an exception (`contended`, `disturbed`).
2. **Inventory and orders** of procurement, once the code ties the status of an order to stock.
