------------------------------ MODULE Payments ------------------------------
(***************************************************************************)
(* The life of one payment row after its booking: orders and checkout      *)
(* sessions opened for it (CreateRazorpayPaymentOrder, PaymentCheckout),   *)
(* the guest paying one of them at the gateway, and the client reporting   *)
(* back (VerifyRazorpayPayment, CompletePayment).                          *)
(*                                                                         *)
(* Every handler touches one payment, so one row is enough; any number of  *)
(* requests work on it at once.  The gateways are external: what they      *)
(* store and when the guest pays is modelled from what the code reads of   *)
(* them.  Amounts are integers; a rate is the factor it multiplies by.     *)
(***************************************************************************)
EXTENDS Integers

CONSTANTS
    Request,
    Kind,       \* the endpoints in use
    Rate,       \* exchange rates the service may answer with
    Total,      \* guest_stays.total_amount, in USD
    Booking,    \* issuer of the order or session opened by the booking itself
    Elsewhere,  \* issuer of a Stripe session opened for another payment
    NoOrder     \* notes that name no Razorpay order

ASSUME PaymentsAssumption ==
    /\ Kind \subseteq {"order", "checkout", "verify", "complete"}
    /\ Rate \subseteq Int
    /\ Total \in Int
    /\ Booking \notin Request
    /\ Elsewhere \notin Request \cup {Booking}
    /\ NoOrder \notin Request \cup {Booking, Elsewhere}

Issuer == Request \cup {Booking}

Gateway == {"razorpay", "stripe"}

Order == [by : Issuer \cup {Elsewhere}, gateway : Gateway, amount : Int]

\* order: the Razorpay order id that the notes contain
Row == [status : {"pending", "completed"}, amount : Int, method : Gateway \cup {"cash"},
        order : Issuer \cup {NoOrder}]

VARIABLES
    row,        \* the payment
    stay,       \* whether it has a stay, and whether the stay has a total
    orders,     \* what the gateways opened
    captured,   \* the part of it the guest has paid
    pc, kind,   \* each request's next call, and its endpoint
    seen,       \* the row as the request read it
    asked,      \* the converted amount it will ask for
    locked,     \* kinds whose lock is set in Redis: one prefix per endpoint
    held,       \* requests with the deferred release armed

    \* History variables: no guard reads them.
    stale,      \* requests whose reading of the row has been overtaken
    tainted,    \* a request has written on a stale reading
    borrowing,  \* requests that were shown the paid session of another payment
    borrowed    \* whether the last completion was such a request's

gateways == <<orders, captured>>
lock == <<locked, held>>
borrows == <<borrowing, borrowed>>
history == <<stale, tainted, borrows>>
vars == <<row, stay, gateways, pc, kind, seen, asked, lock, history>>

PC == {"lock", "read", "price", "order", "save", "session", "check", "mark", "return", "done"}

TypeOK ==
    /\ row \in Row
    /\ stay \in {"total", "noTotal", "none"}
    /\ orders \subseteq Order
    /\ captured \subseteq orders
    /\ pc \in [Request -> PC]
    /\ kind \in [Request -> Kind]
    /\ seen \in [Request -> Row]
    /\ asked \in [Request -> Int]
    /\ locked \subseteq Kind
    /\ held \subseteq Request
    /\ stale \subseteq Request
    /\ tainted \in BOOLEAN
    /\ borrowing \subseteq Request
    /\ borrowed \in BOOLEAN

First(k) ==
    CASE k \in {"order", "checkout"} -> "lock"
      [] k = "verify" -> "read"
      [] k = "complete" -> "check"

\* The session another guest's payment has at the same Stripe account; its amount is
\* never looked at.
OtherSession == [by |-> Elsewhere, gateway |-> "stripe", amount |-> Total]

\* The booking left a hold, a Razorpay order it noted, or a Stripe session.
Init ==
    /\ stay \in {"total", "noTotal", "none"}
    /\ \E rate \in Rate :
         \/ /\ row = [status |-> "pending", amount |-> Total * rate, method |-> "cash",
                      order |-> NoOrder]
            /\ orders = {OtherSession}
         \/ \E g \in Gateway :
              /\ row = [status |-> "pending", amount |-> Total * rate, method |-> g,
                        order |-> IF g = "razorpay" THEN Booking ELSE NoOrder]
              /\ orders = {OtherSession,
                           [by |-> Booking, gateway |-> g, amount |-> Total * rate]}
    /\ captured = {}
    /\ kind \in [Request -> Kind]
    /\ pc = [q \in Request |-> First(kind[q])]
    /\ seen = [q \in Request |-> row]
    /\ asked = [q \in Request |-> 0]
    /\ locked = {}
    /\ held = {}
    /\ stale = {}
    /\ tainted = FALSE
    /\ borrowing = {}
    /\ borrowed = FALSE

-----------------------------------------------------------------------------

Goto(q, from, to) == pc[q] = from /\ pc' = [pc EXCEPT ![q] = to]

AcquireLock(q) ==
    /\ kind[q] \notin locked
    /\ Goto(q, "lock", "read")
    /\ locked' = locked \cup {kind[q]}
    /\ held' = held \cup {q}
    /\ UNCHANGED <<row, stay, gateways, kind, seen, asked, history>>

\* SetNX failed: the handler goes on without the lock.
LockUnavailable(q) ==
    /\ Goto(q, "lock", "read")
    /\ UNCHANGED <<row, stay, gateways, kind, seen, asked, lock, history>>

\* Any error return: the lock is busy, the gateway is not configured or fails, the
\* payment or its rate cannot be read, the order is not the noted one, the guest
\* has not paid, the update failed.
Fails(q) ==
    /\ pc[q] \notin {"return", "done"}
    /\ pc' = [pc EXCEPT ![q] = "return"]
    /\ UNCHANGED <<row, stay, gateways, kind, seen, asked, lock, history>>

\* Mutant: PaymentCheckout does not look at the status it has read.
MayProceedUnchecked(q) ==
    /\ kind[q] # "checkout" => row.status # "completed"
    /\ kind[q] = "checkout" => stay # "none"
    /\ kind[q] = "verify" => row.order # NoOrder

\* "payment is already completed", "booking not found for this payment", "Razorpay
\* order does not match this payment": the order a client presents is the noted one.
MayProceed(q) ==
    /\ row.status # "completed"
    /\ kind[q] = "checkout" => stay # "none"
    /\ kind[q] = "verify" => row.order # NoOrder

ReadPayment(q) ==
    /\ MayProceed(q)
    /\ Goto(q, "read", IF kind[q] = "verify" THEN "check" ELSE "price")
    /\ seen' = [seen EXCEPT ![q] = row]
    /\ UNCHANGED <<row, stay, gateways, kind, asked, lock, history>>

\* Mutant: the amount of the payment is converted, whatever the stay says.
UsdAmountOfRow(q) == seen[q].amount

\* The total of the stay if it has one, or else the amount of the payment itself.
UsdAmount(q) == IF stay = "total" THEN Total ELSE seen[q].amount

PriceIt(q) ==
    /\ Goto(q, "price", IF kind[q] = "order" THEN "order" ELSE "save")
    /\ \E rate \in Rate : asked' = [asked EXCEPT ![q] = UsdAmount(q) * rate]
    /\ UNCHANGED <<row, stay, gateways, kind, seen, lock, history>>

OpenOrder(q) ==
    /\ Goto(q, "order", "save")
    /\ orders' = orders \cup {[by |-> q, gateway |-> "razorpay", amount |-> asked[q]]}
    /\ UNCHANGED <<row, stay, captured, kind, seen, asked, lock, history>>

\* Requests that act on what they have read of the row.
Reading(q) ==
    \/ pc[q] \in {"price", "order", "save"}
    \/ kind[q] = "verify" /\ pc[q] \in {"check", "mark"}

\* Bookkeeping of a write of the row by q.
Overtakes(q) ==
    /\ stale' = stale \cup {p \in Request \ {q} : Reading(p)}
    /\ tainted' = (tainted \/ q \in stale)

\* UpdateAmountAndNotes writes 'pending' back; its result is discarded.
SaveQuote(q) ==
    /\ Goto(q, "save", IF kind[q] = "order" THEN "return" ELSE "session")
    /\ \/ /\ row' = [status |-> "pending", amount |-> asked[q],
                     method |-> IF kind[q] = "order" THEN "razorpay" ELSE "stripe",
                     order |-> IF kind[q] = "order" THEN q ELSE NoOrder]
          /\ Overtakes(q)
          /\ UNCHANGED borrows
       \/ UNCHANGED <<row, history>>
    /\ UNCHANGED <<stay, gateways, kind, seen, asked, lock>>

\* The idempotency key "pay-<payment>" brings back the session opened earlier with
\* it, if the amount is the same; with another amount Stripe answers an error.
OpenSession(q) ==
    LET earlier == {o \in orders : o.gateway = "stripe" /\ o.by \in Request}
    IN  /\ Goto(q, "session", "return")
        /\ \A o \in earlier : o.amount = asked[q]
        /\ orders' = IF earlier # {} THEN orders
                     ELSE orders \cup {[by |-> q, gateway |-> "stripe", amount |-> asked[q]]}
        /\ UNCHANGED <<row, stay, captured, kind, seen, asked, lock, history>>

\* Mutant: any capture will do, whichever order it was for.
CapturedAnyOrder(q) ==
    {o \in captured : o.gateway = IF kind[q] = "verify" THEN "razorpay" ELSE "stripe"}

\* Mutant: an order that was opened passes for one that was captured.
CapturedOrOpened(q) ==
    {o \in orders : IF kind[q] = "verify"
                    THEN o.gateway = "razorpay" /\ o.by = seen[q].order /\ o.amount = seen[q].amount
                    ELSE o.gateway = "stripe"}

\* What the gateway has to show: Razorpay a capture of the noted order for the amount of
\* the row as read; Stripe any session that is paid, for whichever payment it was opened.
\* CompletePayment asks for the session the client names and looks at payment_status only.
Captured(q) ==
    {o \in captured : IF kind[q] = "verify"
                      THEN o.gateway = "razorpay" /\ o.by = seen[q].order /\ o.amount = seen[q].amount
                      ELSE o.gateway = "stripe"}

CheckCapture(q) ==
    /\ Goto(q, "check", "mark")
    /\ \E o \in Captured(q) :
         borrowing' = IF o.by = Elsewhere THEN borrowing \cup {q} ELSE borrowing
    /\ UNCHANGED <<row, stay, gateways, kind, seen, asked, lock, stale, tainted, borrowed>>

\* Mutant: the status written is not one of the domain.
MarkPaid(q) ==
    /\ Goto(q, "mark", "return")
    /\ row' = [row EXCEPT !.status = "paid",
                          !.method = IF kind[q] = "verify" THEN "razorpay" ELSE "stripe"]
    /\ Overtakes(q)
    /\ borrowed' = (q \in borrowing)
    /\ UNCHANGED <<stay, gateways, kind, seen, asked, lock, borrowing>>

\* UpdateStatus looks at nothing but the id.
MarkCompleted(q) ==
    /\ Goto(q, "mark", "return")
    /\ row' = [row EXCEPT !.status = "completed",
                          !.method = IF kind[q] = "verify" THEN "razorpay" ELSE "stripe"]
    /\ Overtakes(q)
    /\ borrowed' = (q \in borrowing)
    /\ UNCHANGED <<stay, gateways, kind, seen, asked, lock, borrowing>>

\* The deferred release, if it is armed; its own failure is ignored.
Return(q) ==
    /\ Goto(q, "return", "done")
    /\ locked' \in (IF q \in held THEN {locked, locked \ {kind[q]}} ELSE {locked})
    /\ held' = held \ {q}
    /\ UNCHANGED <<row, stay, gateways, kind, seen, asked, history>>

LockExpires(k) ==
    /\ k \in locked
    /\ locked' = locked \ {k}
    /\ UNCHANGED <<row, stay, gateways, pc, kind, seen, asked, held, history>>

\* The guest pays an order or session, however old.
GuestPays(o) ==
    /\ o \notin captured
    /\ captured' = captured \cup {o}
    /\ UNCHANGED <<row, stay, orders, pc, kind, seen, asked, lock, history>>

Handle(q) ==
    \/ AcquireLock(q) \/ LockUnavailable(q) \/ Fails(q) \/ ReadPayment(q) \/ PriceIt(q)
    \/ OpenOrder(q) \/ SaveQuote(q) \/ OpenSession(q) \/ CheckCapture(q)
    \/ MarkCompleted(q) \/ Return(q)

Idle == (\A q \in Request : pc[q] = "done") /\ UNCHANGED vars

Next ==
    \/ \E q \in Request : Handle(q)
    \/ \E k \in Kind : LockExpires(k)
    \/ \E o \in orders : GuestPays(o)
    \/ Idle

Spec == Init /\ [][Next]_vars

-----------------------------------------------------------------------------
(* Properties.                                                             *)

\* The orders and sessions opened for this payment.
Own == {o \in orders : o.by # Elsewhere}

\* A completed payment is reopened only by a checkout or an order that had read it
\* before it was completed; whoever reads it afterwards leaves it alone.
OnlyRacesReopen ==
    [][row.status = "completed" /\ row'.status # "completed"
       => \E q \in stale : pc[q] = "save"]_vars

\* A payment is completed only by the gateway it names as its method, and only when that
\* gateway has captured an order or session of this payment, unless the request that last
\* completed it was shown the paid Stripe session of another one.
CompletedIsPaid ==
    row.status = "completed" =>
        \/ \E o \in Own \cap captured : o.gateway = row.method
        \/ row.method = "stripe" /\ borrowed

\* Unless a write was based on a stale reading, a payment completed through Razorpay
\* was captured for the noted order and for exactly the recorded amount.
RazorpayAmountAgrees ==
    row.status = "completed" /\ row.method = "razorpay" /\ ~tainted
    => [by |-> row.order, gateway |-> "razorpay", amount |-> row.amount] \in captured

\* Completion is a capture: for this payment at the gateway it names, unless the session
\* shown to CompletePayment was another payment's, and through Razorpay of what was recorded.
CompletedIsCaptured == CompletedIsPaid /\ RazorpayAmountAgrees

\* However often a guest retries and changes currency, the price of a stay is
\* converted once: no rate is applied to an amount that was converted before.
PricedOnce ==
    stay = "total" =>
        /\ \E rate \in Rate : row.amount = Total * rate
        /\ \A o \in Own : \E rate \in Rate : o.amount = Total * rate

-----------------------------------------------------------------------------
(* The inductive invariant behind them.                                    *)

\* What a request has read is the row as it is, until it is overtaken; and it goes on
\* only with a payment that was not completed.
ReadingIsFresh ==
    \A q \in Request :
        Reading(q) => seen[q].status # "completed" /\ (q \notin stale => seen[q] = row)

\* A request about to complete the payment has its capture, or one of another payment's.
MarkJustified ==
    \A q \in Request : pc[q] = "mark" =>
        (\E o \in Captured(q) : o.by # Elsewhere) \/ q \in borrowing

\* Only CompletePayment can be shown one.
BorrowersComplete == \A q \in borrowing : kind[q] = "complete"

\* The prices under way are conversions of the total.
QuotesPricedOnce ==
    stay = "total" =>
        \A q \in Request : pc[q] \in {"order", "save", "session"} =>
            \E rate \in Rate : asked[q] = Total * rate

\* Each endpoint makes its own calls.
CallsOfKind ==
    \A q \in Request : pc[q] \in {"check", "mark"} => kind[q] \in {"verify", "complete"}

IInv ==
    /\ TypeOK /\ ReadingIsFresh /\ MarkJustified /\ BorrowersComplete
    /\ QuotesPricedOnce /\ CallsOfKind
    /\ CompletedIsPaid /\ RazorpayAmountAgrees /\ PricedOnce

-----------------------------------------------------------------------------
(* What the source says and a run refutes.                                 *)

\* "payment is already completed": the answer of both endpoints to a completed
\* payment, so that it is never made pending again.
CompletedIsFinal ==
    [][row.status = "completed" => row'.status = "completed"]_vars

=============================================================================
