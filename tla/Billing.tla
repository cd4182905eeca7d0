------------------------------ MODULE Billing ------------------------------
(***************************************************************************)
(* The folios of the hotel (BillingHandler): staff open folios for a       *)
(* booking, post charges, record payments and draw up invoices, while the  *)
(* gateways settle payments and the front desk cancels stays.              *)
(*                                                                         *)
(* A payment belongs to a booking, not to a folio: the handlers count it   *)
(* to the earliest folio of the booking.  GetFolio takes four queries and  *)
(* GenerateInvoice three, in no transaction, and neither asks whether the  *)
(* rows ended or the reading of them broke off.  Amounts are represented   *)
(* by the charges and payments they are the sums of.  Everything is in the *)
(* demo hotel, the only one whose folios can be paid and invoiced.  Left   *)
(* out are the audit rows, whose insertion may fail unnoticed, and what    *)
(* the table API lets staff correct by hand.                               *)
(***************************************************************************)
EXTENDS Integers, FiniteSets

CONSTANTS
    Stay, Folio, Charge, Payment,   \* the rows that can come to exist
    Call,                           \* requests to the billing desk
    None                            \* no folio, stay or invoice

ASSUME BillingAssumption ==
    /\ IsFiniteSet(Folio)
    /\ None \notin Stay \cup Folio \cup [folio : Folio, lines : SUBSET Charge,
                                        status : {"draft", "sent"}]

VARIABLES
    stays,      \* guest_stays
    folios,     \* the folios that are committed and not deleted
    booking,    \* the booking a folio is for
    created,    \* created_at: the order of now() in the INSERTs, 0 before
    charge,     \* the folio a charge is posted to
    payment,    \* [stay, status]: each payment
    invoice,    \* the invoice a call has drawn up
    call,       \* [op, folio, at]: each request, the folio it is for, its next query
    seen,       \* the charges a call has read
    counts,     \* whether a call has found its folio to be the earliest
    paid,       \* the payments a call counts to its folio

    \* History variables: no guard reads them.
    before,     \* the charges that were on the folio when the call began
    broken,     \* calls whose reading of the charges broke off
    desk,       \* payments recorded on a folio
    displaced   \* bookings with a folio committed after one whose INSERT began later

rows == <<stays, folios, booking, created, charge, payment, invoice>>
reading == <<seen, counts, paid, before, broken>>
history == <<desk, displaced>>
vars == <<rows, call, reading, history>>

Op == {"open", "view", "pay", "invoice"}

At == {"start", "insert", "charges", "earliest", "payments", "done"}

Invoice == [folio : Folio, lines : SUBSET Charge, status : {"draft", "sent"}]

TypeOK ==
    /\ stays \subseteq Stay
    /\ folios \subseteq Folio
    /\ booking \in [Folio -> Stay]
    /\ created \in [Folio -> Nat]
    /\ charge \in [Charge -> Folio \cup {None}]
    /\ payment \in [Payment -> [stay : Stay \cup {None},
                                status : {"none", "pending", "completed"}]]
    /\ invoice \in [Call -> Invoice \cup {None}]
    /\ call \in [Call -> [op : Op, folio : Folio \cup {None}, at : At]]
    /\ seen \in [Call -> SUBSET Charge]
    /\ counts \in [Call -> BOOLEAN]
    /\ paid \in [Call -> SUBSET Payment]
    /\ before \in [Call -> SUBSET Charge]
    /\ broken \subseteq Call
    /\ desk \subseteq Payment
    /\ displaced \subseteq Stay

\* At most one folio is open before the requests come.
Init ==
    /\ stays = Stay
    /\ folios \in {{}} \cup {{f} : f \in Folio}
    /\ booking \in [Folio -> Stay]
    /\ created = [f \in Folio |-> IF f \in folios THEN 1 ELSE 0]
    /\ charge = [x \in Charge |-> None]
    /\ payment = [p \in Payment |-> [stay |-> None, status |-> "none"]]
    /\ invoice = [c \in Call |-> None]
    /\ call \in [Call -> [op : Op, folio : {None}, at : {"start"}]]
    /\ seen = [c \in Call |-> {}]
    /\ counts = [c \in Call |-> FALSE]
    /\ paid = [c \in Call |-> {}]
    /\ before = [c \in Call |-> {}]
    /\ broken = {}
    /\ desk = {}
    /\ displaced = {}

-----------------------------------------------------------------------------
(* What the queries return.                                                *)

FoliosOf(s) == {f \in folios : booking[f] = s}

\* Mutant: the latest folio of the booking, ORDER BY created_at DESC.
IsLatest(f) == f \in folios /\ \A g \in FoliosOf(booking[f]) : created[g] <= created[f]

\* ORDER BY created_at, id LIMIT 1, the id being of no account.
IsEarliest(f) == f \in folios /\ \A g \in FoliosOf(booking[f]) : created[f] <= created[g]

\* Mutant: the charges of the booking.
ChargesOfBooking(f) ==
    {x \in Charge : charge[x] \in folios /\ booking[charge[x]] = booking[f]}

\* The rows of folio_charges; they go with their folio.
ChargesOf(f) == {x \in Charge : charge[x] = f /\ f \in folios}

Completed(s) == {p \in Payment : payment[p] = [stay |-> s, status |-> "completed"]}

-----------------------------------------------------------------------------
(* Requests.                                                               *)

Goto(c, op, from, to) ==
    /\ call[c].op = op
    /\ call[c].at = from
    /\ call' = [call EXCEPT ![c].at = to]

\* Any error return: no such folio, a row that is referred to is gone, the database fails.
Fails(c) ==
    /\ call[c].at # "done"
    /\ call' = [call EXCEPT ![c].at = "done"]
    /\ UNCHANGED <<rows, reading, history>>

\* The INSERT of a folio takes its time stamp and is not visible before it commits.
StampFolio(c) ==
    \E f \in Folio :
        /\ call[c].op = "open" /\ call[c].at = "start"
        /\ created[f] = 0
        /\ \E n \in 1..Cardinality(Folio) :
             /\ \A g \in Folio : created[g] < n
             /\ created' = [created EXCEPT ![f] = n]
        /\ call' = [call EXCEPT ![c].at = "insert", ![c].folio = f]
        /\ UNCHANGED <<stays, folios, booking, charge, payment, invoice, reading, history>>

CreateFolio(c) ==
    LET f == call[c].folio
        s == booking[f]
    IN  /\ Goto(c, "open", "insert", "done")
        /\ s \in stays
        /\ folios' = folios \cup {f}
        /\ displaced' = IF \E g \in FoliosOf(s) : created[f] < created[g]
                        THEN displaced \cup {s} ELSE displaced
        /\ UNCHANGED <<stays, booking, created, charge, payment, invoice, reading, desk>>

\* One INSERT, for a folio of any status.
AddCharge(x) ==
    /\ charge[x] = None
    /\ \E f \in folios : charge' = [charge EXCEPT ![x] = f]
    /\ UNCHANGED <<stays, folios, booking, created, payment, invoice, call, reading, history>>

ReadFolio(c) ==
    \E f \in folios :
        /\ call[c].op \in {"view", "pay", "invoice"} /\ call[c].at = "start"
        /\ call' = [call EXCEPT ![c].folio = f,
                                ![c].at = IF call[c].op = "pay" THEN "insert" ELSE "charges"]
        /\ before' = [before EXCEPT ![c] = ChargesOf(f)]
        /\ UNCHANGED <<rows, seen, counts, paid, broken, history>>

\* The loop over the rows ends after the last one, or when their reading breaks off: the
\* handlers do not ask which it was, and the next query has a connection of its own.
ReadCharges(c) ==
    /\ call[c].at = "charges"
    /\ call' = [call EXCEPT ![c].at = IF call[c].op = "view" THEN "earliest" ELSE "insert"]
    /\ \E got \in SUBSET ChargesOf(call[c].folio) :
         /\ seen' = [seen EXCEPT ![c] = got]
         /\ broken' = IF got = ChargesOf(call[c].folio) THEN broken ELSE broken \cup {c}
    /\ UNCHANGED <<rows, counts, paid, before, history>>

\* With no folio left the answer is NULL, and the handler fails.
ReadEarliest(c) ==
    /\ Goto(c, "view", "earliest", "payments")
    /\ FoliosOf(booking[call[c].folio]) # {}
    /\ counts' = [counts EXCEPT ![c] = IsEarliest(call[c].folio)]
    /\ UNCHANGED <<rows, seen, paid, before, broken, history>>

\* Mutant: the payments of the booking are counted to each of its folios.
ReadPaymentsOfBooking(c) ==
    /\ Goto(c, "view", "payments", "done")
    /\ paid' = [paid EXCEPT ![c] = Completed(booking[call[c].folio])]
    /\ UNCHANGED <<rows, seen, counts, before, broken, history>>

\* These rows, too, are read as far as they come.
ReadPayments(c) ==
    /\ Goto(c, "view", "payments", "done")
    /\ \E got \in SUBSET (IF counts[c] THEN Completed(booking[call[c].folio]) ELSE {}) :
           paid' = [paid EXCEPT ![c] = got]
    /\ UNCHANGED <<rows, seen, counts, before, broken, history>>

\* Mutant: the booking is not a foreign key of the payment.
RecordPaymentUnchecked(c) ==
    \E p \in Payment :
        /\ Goto(c, "pay", "insert", "done")
        /\ payment[p].status = "none"
        /\ payment' = [payment EXCEPT ![p] = [stay |-> booking[call[c].folio], status |-> "completed"]]
        /\ desk' = desk \cup {p}
        /\ UNCHANGED <<stays, folios, booking, created, charge, invoice, reading, displaced>>

\* For the booking the folio was read to belong to, if it still exists.
RecordPayment(c) ==
    \E p \in Payment :
        /\ Goto(c, "pay", "insert", "done")
        /\ payment[p].status = "none"
        /\ booking[call[c].folio] \in stays
        /\ payment' = [payment EXCEPT ![p] = [stay |-> booking[call[c].folio], status |-> "completed"]]
        /\ desk' = desk \cup {p}
        /\ UNCHANGED <<stays, folios, booking, created, charge, invoice, reading, displaced>>

GenerateInvoice(c) ==
    /\ Goto(c, "invoice", "insert", "done")
    /\ call[c].folio \in folios
    /\ invoice' = [invoice EXCEPT ![c] =
           [folio |-> call[c].folio, lines |-> seen[c], status |-> "draft"]]
    /\ UNCHANGED <<stays, folios, booking, created, charge, payment, reading, history>>

\* Mutant: a status the invoices do not have.
EmailInvoicePaid(c) ==
    /\ invoice[c] # None
    /\ invoice' = [invoice EXCEPT ![c].status = "paid"]
    /\ UNCHANGED <<stays, folios, booking, created, charge, payment, call, reading, history>>

\* Marked as sent before the mail is sent, and whether or not it can be.
EmailInvoice(c) ==
    /\ invoice[c] # None
    /\ invoice' = [invoice EXCEPT ![c].status = "sent"]
    /\ UNCHANGED <<stays, folios, booking, created, charge, payment, call, reading, history>>

-----------------------------------------------------------------------------
(* The rest of the hotel.                                                  *)

\* A checkout inserts the pending payment of its stay.
BookOnline(p, s) ==
    /\ payment[p].status = "none"
    /\ s \in stays
    /\ payment' = [payment EXCEPT ![p] = [stay |-> s, status |-> "pending"]]
    /\ UNCHANGED <<stays, folios, booking, created, charge, invoice, call, reading, history>>

\* UpdateStatus completes a payment, UpdateAmountAndNotes makes it pending again.
Settle(p) ==
    /\ payment[p].status # "none"
    /\ \E status \in {"pending", "completed"} : payment' = [payment EXCEPT ![p].status = status]
    /\ UNCHANGED <<stays, folios, booking, created, charge, invoice, call, reading, history>>

\* A stay is cancelled or rolled back: ON DELETE CASCADE takes its folios with their charges
\* and invoices, ON DELETE SET NULL detaches its payments.
CancelStay(s) ==
    /\ s \in stays
    /\ stays' = stays \ {s}
    /\ folios' = folios \ FoliosOf(s)
    /\ payment' = [p \in Payment |->
           [payment[p] EXCEPT !.stay = IF @ = s THEN None ELSE @]]
    /\ invoice' = [c \in Call |->
           IF invoice[c] # None /\ booking[invoice[c].folio] = s THEN None ELSE invoice[c]]
    /\ UNCHANGED <<booking, created, charge, call, reading, history>>

Serve(c) ==
    \/ Fails(c) \/ StampFolio(c) \/ CreateFolio(c) \/ ReadFolio(c) \/ ReadCharges(c)
    \/ ReadEarliest(c) \/ ReadPayments(c) \/ RecordPayment(c) \/ GenerateInvoice(c)
    \/ EmailInvoice(c)

Idle == (\A c \in Call : call[c].at = "done") /\ UNCHANGED vars

Next ==
    \/ \E c \in Call : Serve(c)
    \/ \E x \in Charge : AddCharge(x)
    \/ \E p \in Payment : Settle(p) \/ \E s \in Stay : BookOnline(p, s)
    \/ \E s \in Stay : CancelStay(s)
    \/ Idle

Spec == Init /\ [][Next]_vars

-----------------------------------------------------------------------------
(* Properties.                                                             *)

\* The folio the payments of a booking are counted to keeps them as long as it exists,
\* whatever folios are opened after it; only one whose creation overlapped takes them over.
EarliestStays ==
    [][\A f \in Folio :
         IsEarliest(f) /\ ~IsEarliest(f)' => f \notin folios' \/ booking[f] \in displaced']_vars

\* No payment is counted to two folios, however the queries of two requests interleave
\* with each other and with the opening of folios: the balances of a booking's folios add
\* up. It takes two overlapping creations to break this.
PaymentCountedOnce ==
    \A c, d \in Call :
        /\ paid[c] \cap paid[d] # {}
        /\ booking[call[c].folio] = booking[call[d].folio]
        => call[c].folio = call[d].folio \/ booking[call[c].folio] \in displaced

\* Nor is one left out: a payment recorded on a folio belongs to the balance of some folio
\* until its booking is deleted, and then it is detached from it.
DeskPaymentsCounted ==
    \A p \in desk : payment[p].stay # None =>
        \E f \in FoliosOf(payment[p].stay) : IsEarliest(f)

\* A payment counts to one folio, neither to two nor to none.
EachPaymentCounts == PaymentCountedOnce /\ DeskPaymentsCounted

\* An invoice has every charge that was on its folio when it was asked for, and charges of
\* this folio only, even if charges are posted meanwhile; only one drawn up from a reading
\* of the charges that broke off can lack some.
InvoiceComplete ==
    \A c \in Call : invoice[c] # None =>
        /\ before[c] \subseteq invoice[c].lines \/ c \in broken
        /\ \A x \in invoice[c].lines : charge[x] = invoice[c].folio

=============================================================================
