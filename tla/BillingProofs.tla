--------------------------- MODULE BillingProofs ---------------------------
(* Theorems about Billing, for any stays, folios, payments and requests.   *)
EXTENDS Billing, TLAPS, WellFoundedInduction

\* Folios are stamped before they exist, no two alike, and exist no longer than their stay.
Stamped ==
    /\ \A f \in folios : created[f] > 0 /\ booking[f] \in stays
    /\ \A f, g \in Folio : created[f] = created[g] /\ created[f] > 0 => f = g

\* A request under way has a folio; one to open has stamped it, for any other it stays there
\* as long as its stay.
FolioHeld ==
    \A c \in Call :
        LET f == call[c].folio
        IN  /\ call[c].at \notin {"start", "done"} => f # None
            /\ call[c].at = "charges" => call[c].op \in {"view", "invoice"}
            /\ call[c].op = "open" /\ call[c].at = "insert" => created[f] > 0
            /\ call[c].op # "open" /\ f # None /\ booking[f] \in stays => f \in folios

\* The folio a view counts the payments to stays the earliest while its booking lasts.
CountedIsEarliest ==
    \A c \in Call : counts[c] =>
        LET f == call[c].folio
        IN  /\ call[c].op = "view" /\ call[c].at \in {"payments", "done"}
            /\ f # None
            /\ booking[f] \in stays /\ booking[f] \notin displaced => IsEarliest(f)

\* Two views that count the payments of one booking count them to one folio.
CountedToOne ==
    /\ \A c, d \in Call :
          /\ counts[c] /\ counts[d]
          /\ booking[call[c].folio] = booking[call[d].folio]
          => call[c].folio = call[d].folio \/ booking[call[c].folio] \in displaced
    /\ \A c \in Call : paid[c] # {} => counts[c]

\* Payments refer to existing stays, and those of the desk to stays with a folio.
PaymentsRefer ==
    /\ \A p \in Payment : payment[p].stay # None => payment[p].stay \in stays
    /\ \A p \in desk : payment[p].status # "none"
                       /\ (payment[p].stay # None => FoliosOf(payment[p].stay) # {})

\* The charges a request has read are of its folio, and all that were there before unless
\* their reading broke off.
ChargesRead ==
    \A c \in Call :
        LET f == call[c].folio
        IN  /\ call[c].at = "start" => before[c] \cup seen[c] = {}
            /\ \A x \in before[c] \cup seen[c] : f \in Folio /\ charge[x] = f
            /\ call[c].op = "invoice" /\ call[c].at = "insert" /\ booking[f] \in stays
                   => before[c] \subseteq seen[c] \/ c \in broken

\* An invoice is drawn up by a request that is done, for its folio.
InvoiceDrawn ==
    \A c \in Call : invoice[c] # None =>
        /\ call[c].op = "invoice" /\ call[c].at = "done"
        /\ call[c].folio = invoice[c].folio

IInv ==
    /\ TypeOK /\ Stamped /\ FolioHeld /\ CountedIsEarliest /\ CountedToOne
    /\ PaymentsRefer /\ ChargesRead /\ InvoiceDrawn /\ InvoiceComplete

LEMMA InitInvariant == Init => IInv
<1> SUFFICES ASSUME Init PROVE IInv
  OBVIOUS
<1> USE BillingAssumption DEF Init
<1>1. TypeOK
  BY DEF TypeOK, Op, At
<1>2. Stamped /\ FolioHeld /\ CountedIsEarliest /\ CountedToOne
  BY DEF Stamped, FolioHeld, CountedIsEarliest, CountedToOne
<1>3. PaymentsRefer /\ ChargesRead /\ InvoiceDrawn /\ InvoiceComplete
  BY DEF PaymentsRefer, ChargesRead, InvoiceDrawn, InvoiceComplete
<1> QED
  BY <1>1, <1>2, <1>3 DEF IInv

\* The types of the rows.
LEMMA RowTypes ==
  ASSUME TypeOK, FolioHeld, [Next]_vars
  PROVE  /\ stays' \subseteq Stay /\ folios' \subseteq Folio /\ booking' \in [Folio -> Stay]
         /\ created' \in [Folio -> Nat] /\ charge' \in [Charge -> Folio \cup {None}]
         /\ payment' \in [Payment -> [stay : Stay \cup {None},
                                     status : {"none", "pending", "completed"}]]
         /\ invoice' \in [Call -> Invoice \cup {None}]
<1> USE BillingAssumption DEF TypeOK, rows
<1>1. CASE UNCHANGED vars
  BY <1>1 DEF vars
<1>2. ASSUME NEW c \in Call, Fails(c) \/ ReadFolio(c) \/ ReadCharges(c) \/ ReadEarliest(c) \/ ReadPayments(c)
      PROVE  UNCHANGED rows
  BY <1>2 DEF Fails, ReadFolio, ReadCharges, ReadEarliest, ReadPayments
<1>3. ASSUME NEW c \in Call, StampFolio(c)
      PROVE  created' \in [Folio -> Nat]
  BY <1>3 DEF StampFolio
<1>4. ASSUME NEW c \in Call, CreateFolio(c)
      PROVE  folios' \subseteq Folio
  BY <1>4 DEF CreateFolio, Goto, FolioHeld
<1>5. ASSUME NEW x \in Charge, AddCharge(x)
      PROVE  charge' \in [Charge -> Folio \cup {None}]
  BY <1>5 DEF AddCharge
<1>6. ASSUME NEW c \in Call, RecordPayment(c)
      PROVE  payment' \in [Payment -> [stay : Stay \cup {None},
                                     status : {"none", "pending", "completed"}]]
  <2>1. booking[call[c].folio] \in Stay
    BY <1>6 DEF RecordPayment
  <2> QED
    BY <1>6, <2>1 DEF RecordPayment
<1>7. ASSUME NEW p \in Payment, NEW s \in Stay, BookOnline(p, s)
      PROVE  payment' \in [Payment -> [stay : Stay \cup {None},
                                     status : {"none", "pending", "completed"}]]
  BY <1>7 DEF BookOnline
<1>11. ASSUME NEW p \in Payment, Settle(p)
      PROVE  payment' \in [Payment -> [stay : Stay \cup {None},
                                     status : {"none", "pending", "completed"}]]
  <2>1. PICK status \in {"pending", "completed"} : payment' = [payment EXCEPT ![p].status = status]
    BY <1>11 DEF Settle
  <2> QED
    BY <2>1
<1>8. ASSUME NEW c \in Call, GenerateInvoice(c)
      PROVE  invoice' \in [Call -> Invoice \cup {None}]
  BY <1>8 DEF GenerateInvoice, Invoice
<1>9. ASSUME NEW c \in Call, EmailInvoice(c)
      PROVE  invoice' \in [Call -> Invoice \cup {None}]
  BY <1>9 DEF EmailInvoice, Invoice
<1>10. ASSUME NEW s \in Stay, CancelStay(s)
       PROVE  /\ stays' \subseteq Stay /\ folios' \subseteq Folio
              /\ payment' \in [Payment -> [stay : Stay \cup {None},
                                     status : {"none", "pending", "completed"}]]
              /\ invoice' \in [Call -> Invoice \cup {None}]
  BY <1>10 DEF CancelStay
<1> QED
  BY <1>1, <1>2, <1>3, <1>4, <1>5, <1>6, <1>7, <1>8, <1>9, <1>10, <1>11
     DEF Next, Serve, Idle, vars, StampFolio, CreateFolio, AddCharge, RecordPayment, GenerateInvoice,
         EmailInvoice, BookOnline, Settle, CancelStay

\* The types of the requests and of what they have read.
LEMMA TypePreserved == TypeOK /\ FolioHeld /\ [Next]_vars => TypeOK'
<1> SUFFICES ASSUME TypeOK, FolioHeld, [Next]_vars PROVE TypeOK'
  OBVIOUS
<1>1. call' \in [Call -> [op : Op, folio : Folio \cup {None}, at : At]]
  <2> DEFINE Requests == [op : Op, folio : Folio \cup {None}, at : At]
  <2>1. call \in [Call -> Requests]
    BY DEF TypeOK
  <2>2. ASSUME NEW c \in Call, NEW f \in Folio, NEW at \in At,
               \/ call' = [call EXCEPT ![c].at = at, ![c].folio = f]
               \/ call' = [call EXCEPT ![c].folio = f, ![c].at = at]
               \/ call' = [call EXCEPT ![c].at = at]
        PROVE  call' \in [Call -> Requests]
    BY <2>1, <2>2
  <2>3. ASSUME NEW c \in Call, StampFolio(c)
        PROVE  call' \in [Call -> Requests]
    <3>1. PICK f \in Folio : call' = [call EXCEPT ![c].at = "insert", ![c].folio = f]
      BY <2>3 DEF StampFolio
    <3> QED
      BY <2>2, <3>1 DEF At
  <2>4. ASSUME NEW c \in Call, ReadFolio(c)
        PROVE  call' \in [Call -> Requests]
    <3>1. PICK f \in folios, at \in {"insert", "charges"} :
              call' = [call EXCEPT ![c].folio = f, ![c].at = at]
      BY <2>4 DEF ReadFolio
    <3>2. f \in Folio /\ at \in At
      BY DEF TypeOK, At
    <3> QED
      BY <2>2, <3>1, <3>2
  <2>5. ASSUME NEW c \in Call, Fails(c) \/ CreateFolio(c) \/ ReadCharges(c) \/ ReadEarliest(c)
                 \/ ReadPayments(c) \/ RecordPayment(c) \/ GenerateInvoice(c)
        PROVE  call' \in [Call -> Requests]
    <3>1. PICK at \in At : call' = [call EXCEPT ![c].at = at]
      BY <2>5 DEF Fails, CreateFolio, ReadCharges, ReadEarliest, ReadPayments, RecordPayment,
                  GenerateInvoice, Goto, At
    <3> QED
      BY <2>1, <3>1
  <2> QED
    BY <2>1, <2>3, <2>4, <2>5
       DEF Next, Serve, Idle, vars, AddCharge, EmailInvoice, BookOnline, Settle, CancelStay
<1>2. /\ seen' \in [Call -> SUBSET Charge] /\ counts' \in [Call -> BOOLEAN]
      /\ paid' \in [Call -> SUBSET Payment] /\ before' \in [Call -> SUBSET Charge]
      /\ broken' \subseteq Call /\ desk' \subseteq Payment /\ displaced' \subseteq Stay
  <2> USE DEF TypeOK, reading, history
  <2>1. ASSUME NEW c \in Call, ReadFolio(c)
        PROVE  before' \in [Call -> SUBSET Charge]
    BY <2>1 DEF ReadFolio, ChargesOf
  <2>2. ASSUME NEW c \in Call, ReadCharges(c)
        PROVE  seen' \in [Call -> SUBSET Charge] /\ broken' \subseteq Call
    BY <2>2 DEF ReadCharges, ChargesOf
  <2>3. ASSUME NEW c \in Call, ReadEarliest(c)
        PROVE  counts' \in [Call -> BOOLEAN]
    BY <2>3 DEF ReadEarliest, IsEarliest
  <2>4. ASSUME NEW c \in Call, ReadPayments(c)
        PROVE  paid' \in [Call -> SUBSET Payment]
    <3>1. PICK got \in SUBSET (IF counts[c] THEN Completed(booking[call[c].folio]) ELSE {}) :
              paid' = [paid EXCEPT ![c] = got]
      BY <2>4 DEF ReadPayments
    <3>2. got \in SUBSET Payment
      BY <3>1 DEF Completed
    <3> QED
      BY <3>1, <3>2
  <2>5. ASSUME NEW c \in Call, CreateFolio(c)
        PROVE  displaced' \subseteq Stay
    <3>1. booking[call[c].folio] \in Stay
      BY <2>5 DEF CreateFolio
    <3> QED
      BY <2>5, <3>1 DEF CreateFolio
  <2>6. ASSUME NEW c \in Call, RecordPayment(c)
        PROVE  desk' \subseteq Payment
    BY <2>6 DEF RecordPayment
  <2> QED
    BY <2>1, <2>2, <2>3, <2>4, <2>5, <2>6
       DEF Next, Serve, Idle, vars, Fails, StampFolio, CreateFolio, AddCharge, ReadFolio, ReadCharges,
           ReadEarliest, ReadPayments, RecordPayment, GenerateInvoice, EmailInvoice, BookOnline,
           Settle, CancelStay
<1> QED
  BY <1>1, <1>2, RowTypes DEF TypeOK

\* Stamps are drawn once, and only a new folio enters the table.
LEMMA StampedPreserved == IInv /\ [Next]_vars => Stamped'
<1> SUFFICES ASSUME IInv, [Next]_vars PROVE Stamped'
  OBVIOUS
<1> USE DEF IInv, TypeOK, Stamped
<1>1. ASSUME NEW c \in Call, StampFolio(c) PROVE Stamped'
  <2>1. PICK f \in Folio :
           /\ created[f] = 0
           /\ \E n \in 1..Cardinality(Folio) :
                /\ \A g \in Folio : created[g] < n
                /\ created' = [created EXCEPT ![f] = n]
    BY <1>1 DEF StampFolio
  <2>2. PICK n \in 1..Cardinality(Folio) :
           /\ \A g \in Folio : created[g] < n
           /\ created' = [created EXCEPT ![f] = n]
    BY <2>1
  <2> QED
    BY <1>1, <2>1, <2>2 DEF StampFolio
<1>2. ASSUME NEW c \in Call, CreateFolio(c) PROVE Stamped'
  BY <1>2 DEF CreateFolio, Goto, FolioHeld
<1>3. ASSUME NEW s \in Stay, CancelStay(s) PROVE Stamped'
  BY <1>3 DEF CancelStay, FoliosOf
<1>4. CASE UNCHANGED <<stays, folios, booking, created>>
  BY <1>4
<1> QED
  BY <1>1, <1>2, <1>3, <1>4
     DEF Next, Serve, Idle, vars, rows, Fails, AddCharge, ReadFolio, ReadCharges, ReadEarliest,
         ReadPayments, RecordPayment, GenerateInvoice, EmailInvoice, BookOnline, Settle

LEMMA FolioHeldPreserved == IInv /\ [Next]_vars => FolioHeld'
<1> SUFFICES ASSUME IInv, [Next]_vars PROVE FolioHeld'
  OBVIOUS
<1> USE BillingAssumption DEF IInv, TypeOK, FolioHeld
<1>1. ASSUME NEW c \in Call, StampFolio(c) PROVE FolioHeld'
  <2>1. PICK f \in Folio :
           /\ \E n \in 1..Cardinality(Folio) :
                /\ \A g \in Folio : created[g] < n
                /\ created' = [created EXCEPT ![f] = n]
           /\ call' = [call EXCEPT ![c].at = "insert", ![c].folio = f]
    BY <1>1 DEF StampFolio
  <2>2. PICK n \in 1..Cardinality(Folio) : created' = [created EXCEPT ![f] = n]
    BY <2>1
  <2>3. /\ call[c].op = "open"
        /\ UNCHANGED <<stays, folios, booking>>
    BY <1>1 DEF StampFolio
  <2>4. \A d \in Call : d # c => call'[d] = call[d]
    BY <2>1
  <2>5. call'[c].op = "open" /\ call'[c].at = "insert" /\ call'[c].folio = f
    BY <2>1, <2>3
  <2>6. \A g \in Folio : created'[g] = created[g] \/ created'[g] > 0
    BY <2>2
  <2>7. created'[f] > 0
    BY <2>2
  <2> QED
    BY <2>3, <2>4, <2>5, <2>6, <2>7
<1>2. ASSUME NEW c \in Call, CreateFolio(c) PROVE FolioHeld'
  BY <1>2 DEF CreateFolio, Goto
<1>3. ASSUME NEW c \in Call, ReadFolio(c) PROVE FolioHeld'
  BY <1>3 DEF ReadFolio, rows
<1>4. ASSUME NEW c \in Call, Fails(c) \/ ReadCharges(c) \/ ReadEarliest(c) \/ ReadPayments(c)
               \/ RecordPayment(c) \/ GenerateInvoice(c)
      PROVE  FolioHeld'
  <2>1. UNCHANGED <<stays, folios, booking, created>>
    BY <1>4 DEF Fails, ReadCharges, ReadEarliest, ReadPayments, RecordPayment, GenerateInvoice, rows
  <2>2. PICK at \in At \ {"charges"} :
           /\ call' = [call EXCEPT ![c].at = at]
           /\ at # "done" => call[c].at \notin {"start", "done"} /\ call[c].op # "open"
    BY <1>4 DEF Fails, ReadCharges, ReadEarliest, ReadPayments, RecordPayment, GenerateInvoice, Goto, At
  <2>3. \A d \in Call : call'[d].op = call[d].op /\ call'[d].folio = call[d].folio
                         /\ (d # c => call'[d].at = call[d].at)
    BY <2>2
  <2>4. call'[c].at = at
    BY <2>2
  <2> QED
    BY <2>1, <2>2, <2>3, <2>4
<1>5. ASSUME NEW s \in Stay, CancelStay(s) PROVE FolioHeld'
  BY <1>5 DEF CancelStay, FoliosOf
<1>6. CASE UNCHANGED <<stays, folios, booking, created, call>>
  BY <1>6
<1> QED
  BY <1>1, <1>2, <1>3, <1>4, <1>5, <1>6
     DEF Next, Serve, Idle, vars, rows, AddCharge, EmailInvoice, BookOnline, Settle

\* While a booking lasts its earliest folio stays the earliest, unless a creation displaces it.
LEMMA EarliestPreserved ==
  ASSUME IInv, [Next]_vars, NEW f \in Folio, IsEarliest(f)
  PROVE  booking[f] \in stays' /\ booking[f] \notin displaced' => IsEarliest(f)'
<1> SUFFICES ASSUME booking[f] \in stays', booking[f] \notin displaced' PROVE IsEarliest(f)'
  OBVIOUS
<1> USE DEF IInv, TypeOK, IsEarliest, FoliosOf
<1>1. ASSUME NEW c \in Call, StampFolio(c) PROVE IsEarliest(f)'
  <2>1. PICK g \in Folio : created[g] = 0 /\ \A h \in Folio : h # g => created'[h] = created[h]
    BY <1>1 DEF StampFolio
  <2>2. g \notin folios
    BY <2>1 DEF Stamped
  <2> QED
    BY <1>1, <2>1, <2>2 DEF StampFolio
<1>2. ASSUME NEW c \in Call, CreateFolio(c) PROVE IsEarliest(f)'
  <2> DEFINE g == call[c].folio
  <2>1. /\ g \in Folio /\ folios' = folios \cup {g}
        /\ UNCHANGED <<booking, created>>
    BY <1>2 DEF CreateFolio, Goto, FolioHeld
  <2>2. booking[g] = booking[f] => ~(created[g] < created[f])
    BY <1>2 DEF CreateFolio
  <2> QED
    BY <2>1, <2>2
<1>3. ASSUME NEW s \in Stay, CancelStay(s) PROVE IsEarliest(f)'
  BY <1>3 DEF CancelStay
<1>4. CASE UNCHANGED <<folios, booking, created>>
  BY <1>4
<1> QED
  BY <1>1, <1>2, <1>3, <1>4
     DEF Next, Serve, Idle, vars, rows, Fails, AddCharge, ReadFolio, ReadCharges, ReadEarliest,
         ReadPayments, RecordPayment, GenerateInvoice, EmailInvoice, BookOnline, Settle

\* Stays are only ever deleted, bookings of folios never change, and a displacement stays.
LEMMA Monotone ==
  ASSUME IInv, [Next]_vars
  PROVE  stays' \subseteq stays /\ booking' = booking /\ displaced \subseteq displaced'
BY DEF Next, Serve, Idle, vars, rows, history, Fails, StampFolio, CreateFolio, AddCharge, ReadFolio,
       ReadCharges, ReadEarliest, ReadPayments, RecordPayment, GenerateInvoice, EmailInvoice,
       BookOnline, Settle, CancelStay

\* What no step does to a request: change its operation, or its folio once it has one.
LEMMA RequestKept ==
  ASSUME IInv, [Next]_vars, NEW d \in Call
  PROVE  /\ call'[d].op = call[d].op
         /\ call[d].at # "start" => call'[d].folio = call[d].folio
         /\ call[d].at \in {"payments", "done"} => call'[d].at \in {call[d].at, "done"}
<1> USE DEF IInv, TypeOK
<1>1. ASSUME NEW c \in Call, NEW f \in Folio, NEW at \in At, call[c].at = "start",
             \/ call' = [call EXCEPT ![c].at = at, ![c].folio = f]
             \/ call' = [call EXCEPT ![c].folio = f, ![c].at = at]
      PROVE  /\ call'[d].op = call[d].op
             /\ call[d].at # "start" => call'[d] = call[d]
  BY <1>1
<1>2. ASSUME NEW c \in Call, StampFolio(c) \/ ReadFolio(c)
      PROVE  /\ call'[d].op = call[d].op
             /\ call[d].at # "start" => call'[d] = call[d]
  <2>1. CASE StampFolio(c)
    <3>1. PICK f \in Folio, at \in At : call' = [call EXCEPT ![c].at = at, ![c].folio = f]
      BY <2>1 DEF StampFolio, At
    <3> QED
      BY <2>1, <3>1, <1>1 DEF StampFolio
  <2>2. CASE ReadFolio(c)
    <3>1. PICK f \in Folio, at \in At : call' = [call EXCEPT ![c].folio = f, ![c].at = at]
      BY <2>2 DEF ReadFolio, At
    <3> QED
      BY <2>2, <3>1, <1>1 DEF ReadFolio
  <2> QED
    BY <1>2, <2>1, <2>2
<1>3. ASSUME NEW c \in Call, Fails(c) \/ CreateFolio(c) \/ ReadCharges(c) \/ ReadEarliest(c)
               \/ ReadPayments(c) \/ RecordPayment(c) \/ GenerateInvoice(c)
      PROVE  /\ call'[d].op = call[d].op /\ call'[d].folio = call[d].folio
             /\ call[d].at \in {"payments", "done"} => call'[d].at \in {call[d].at, "done"}
  <2>1. PICK at \in At :
           /\ call' = [call EXCEPT ![c].at = at]
           /\ call[c].at \in {"payments", "done"} => at = "done"
    BY <1>3 DEF Fails, CreateFolio, ReadCharges, ReadEarliest, ReadPayments, RecordPayment,
                GenerateInvoice, Goto, At
  <2> QED
    BY <2>1
<1>4. CASE call' = call
  BY <1>4
<1> QED
  BY <1>2, <1>3, <1>4
     DEF Next, Serve, Idle, vars, AddCharge, EmailInvoice, BookOnline, Settle, CancelStay

LEMMA CountedPreserved == IInv /\ [Next]_vars => CountedIsEarliest'
<1> SUFFICES ASSUME IInv, [Next]_vars, NEW d \in Call, counts'[d], NEW f, f = call'[d].folio
             PROVE  /\ call'[d].op = "view" /\ call'[d].at \in {"payments", "done"}
                    /\ f # None
                    /\ booking'[f] \in stays' /\ booking'[f] \notin displaced' => IsEarliest(f)'
  BY DEF CountedIsEarliest, IsEarliest, FoliosOf
<1> USE DEF IInv, TypeOK
<1>1. CASE counts[d]
  <2>1. call'[d].op = "view" /\ call'[d].at \in {"payments", "done"} /\ call'[d].folio = call[d].folio
    BY <1>1, RequestKept DEF CountedIsEarliest
  <2>2. f \in Folio /\ f # None
    BY <1>1, <2>1 DEF CountedIsEarliest
  <2>3. booking'[f] \in stays' /\ booking'[f] \notin displaced' => IsEarliest(f)
    BY <1>1, <2>1, Monotone DEF CountedIsEarliest
  <2> QED
    BY <2>1, <2>2, <2>3, Monotone, EarliestPreserved
<1>2. CASE ~counts[d]
  <2>1. ReadEarliest(d)
    BY <1>2 DEF Next, Serve, Idle, vars, reading, Fails, StampFolio, CreateFolio, AddCharge, ReadFolio,
                ReadCharges, ReadEarliest, ReadPayments, RecordPayment, GenerateInvoice, EmailInvoice,
                BookOnline, Settle, CancelStay
  <2>2. /\ call'[d].op = "view" /\ call'[d].at = "payments"
        /\ f = call[d].folio /\ f # None
    BY <2>1 DEF ReadEarliest, Goto, FolioHeld
  <2>3. IsEarliest(f)
    BY <1>2, <2>1, <2>2 DEF ReadEarliest
  <2>4. f \in Folio
    BY <2>3 DEF IsEarliest
  <2>5. UNCHANGED <<folios, booking, created>>
    BY <2>1 DEF ReadEarliest, rows
  <2> QED
    BY <2>2, <2>3, <2>5 DEF IsEarliest, FoliosOf
<1> QED
  BY <1>1, <1>2

\* A view that comes to count payments has just found its folio the earliest.
LEMMA NewlyCounted ==
  ASSUME IInv, [Next]_vars, NEW d \in Call, counts'[d], ~counts[d]
  PROVE  IsEarliest(call'[d].folio) /\ UNCHANGED <<folios, booking, created>>
<1> USE DEF IInv, TypeOK
<1>1. ReadEarliest(d)
  BY DEF Next, Serve, Idle, vars, reading, Fails, StampFolio, CreateFolio, AddCharge, ReadFolio,
         ReadCharges, ReadEarliest, ReadPayments, RecordPayment, GenerateInvoice, EmailInvoice,
         BookOnline, Settle, CancelStay
<1>2. call'[d].folio = call[d].folio
  BY <1>1 DEF ReadEarliest, Goto
<1> QED
  BY <1>1, <1>2 DEF ReadEarliest, rows

\* Two earliest folios of one booking are one folio.
LEMMA EarliestUnique ==
  ASSUME TypeOK, Stamped, NEW f, NEW g, IsEarliest(f), IsEarliest(g), booking[f] = booking[g]
  PROVE  f = g
<1>1. f \in folios /\ g \in folios /\ f \in Folio /\ g \in Folio
  BY DEF IsEarliest, TypeOK
<1>2. created[f] \in Nat /\ created[g] \in Nat /\ created[f] > 0
  BY <1>1 DEF TypeOK, Stamped
<1>3. created[f] <= created[g] /\ created[g] <= created[f]
  BY <1>1 DEF IsEarliest, FoliosOf
<1>4. created[f] = created[g]
  BY <1>2, <1>3
<1> QED
  BY <1>1, <1>2, <1>4 DEF Stamped

LEMMA CountedToOnePreserved == IInv /\ [Next]_vars => CountedToOne'
<1> SUFFICES ASSUME IInv, [Next]_vars PROVE CountedToOne'
  OBVIOUS
<1> USE DEF IInv, TypeOK
<1>1. ASSUME NEW c \in Call, NEW d \in Call, counts'[c], counts'[d],
             booking'[call'[c].folio] = booking'[call'[d].folio],
             booking'[call'[c].folio] \notin displaced'
      PROVE  call'[c].folio = call'[d].folio
  <2>1. booking' = booking /\ displaced \subseteq displaced'
    BY Monotone
  <2>2. ASSUME NEW e \in Call, counts[e], counts'[e]
        PROVE  /\ call'[e].folio = call[e].folio
               /\ booking[call[e].folio] \in stays /\ booking[call[e].folio] \notin displaced
                      => IsEarliest(call[e].folio)
    BY <2>2, RequestKept DEF CountedIsEarliest
  <2>3. ASSUME NEW e \in Call, ~counts[e], counts'[e]
        PROVE  IsEarliest(call'[e].folio) /\ booking[call'[e].folio] \in stays
    BY <2>3, NewlyCounted DEF IsEarliest, Stamped
  <2>4. CASE counts[c] /\ counts[d]
    BY <1>1, <2>1, <2>2, <2>4 DEF CountedToOne
  <2>5. CASE ~counts[c] \/ ~counts[d]
    <3>1. IsEarliest(call'[c].folio) /\ IsEarliest(call'[d].folio)
      BY <1>1, <2>1, <2>2, <2>3, <2>5
    <3> QED
      BY <1>1, <2>1, <3>1, EarliestUnique
  <2> QED
    BY <2>4, <2>5
<1>2. ASSUME NEW c \in Call, paid'[c] # {} PROVE counts'[c]
  <2>1. CASE ReadPayments(c)
    BY <1>2, <2>1 DEF ReadPayments
  <2>2. CASE paid'[c] = paid[c]
    <3>1. counts[c]
      BY <1>2, <2>2 DEF CountedToOne
    <3>2. ASSUME NEW d \in Call, ReadEarliest(d) PROVE d # c
      BY <3>1, <3>2 DEF ReadEarliest, Goto, CountedIsEarliest
    <3> QED
      BY <3>1, <3>2
         DEF Next, Serve, Idle, vars, reading, Fails, StampFolio, CreateFolio, AddCharge, ReadFolio,
             ReadCharges, ReadEarliest, ReadPayments, RecordPayment, GenerateInvoice, EmailInvoice,
             BookOnline, Settle, CancelStay
  <2> QED
    BY <2>1, <2>2
       DEF Next, Serve, Idle, vars, reading, Fails, StampFolio, CreateFolio, AddCharge, ReadFolio,
           ReadCharges, ReadEarliest, ReadPayments, RecordPayment, GenerateInvoice, EmailInvoice,
           BookOnline, Settle, CancelStay
<1> QED
  BY <1>1, <1>2 DEF CountedToOne

LEMMA PaymentsPreserved == IInv /\ [Next]_vars => PaymentsRefer'
<1> SUFFICES ASSUME IInv, [Next]_vars PROVE PaymentsRefer'
  OBVIOUS
<1> USE BillingAssumption DEF IInv, TypeOK, PaymentsRefer, FoliosOf
<1>1. ASSUME NEW c \in Call, RecordPayment(c) PROVE PaymentsRefer'
  <2> DEFINE f == call[c].folio
  <2>1. PICK p \in Payment :
           /\ payment' = [payment EXCEPT ![p] = [stay |-> booking[f], status |-> "completed"]]
           /\ desk' = desk \cup {p}
    BY <1>1 DEF RecordPayment
  <2>2. booking[f] \in stays /\ f \in folios
    BY <1>1 DEF RecordPayment, Goto, FolioHeld
  <2>3. UNCHANGED <<stays, folios, booking>>
    BY <1>1 DEF RecordPayment
  <2> QED
    BY <2>1, <2>2, <2>3
<1>2. ASSUME NEW p \in Payment, NEW s \in Stay, BookOnline(p, s) PROVE PaymentsRefer'
  BY <1>2 DEF BookOnline, history
<1>3. ASSUME NEW p \in Payment, Settle(p) PROVE PaymentsRefer'
  <2>1. PICK status \in {"pending", "completed"} : payment' = [payment EXCEPT ![p].status = status]
    BY <1>3 DEF Settle
  <2> QED
    BY <1>3, <2>1 DEF Settle, history
<1>4. ASSUME NEW s \in Stay, CancelStay(s) PROVE PaymentsRefer'
  BY <1>4 DEF CancelStay, history
<1>5. ASSUME NEW c \in Call, CreateFolio(c) PROVE PaymentsRefer'
  BY <1>5 DEF CreateFolio
<1>6. CASE UNCHANGED <<stays, folios, booking, payment, desk>>
  BY <1>6
<1> QED
  BY <1>1, <1>2, <1>3, <1>4, <1>5, <1>6
     DEF Next, Serve, Idle, vars, rows, history, Fails, StampFolio, AddCharge, ReadFolio, ReadCharges,
         ReadEarliest, ReadPayments, GenerateInvoice, EmailInvoice

LEMMA ChargesReadPreserved == IInv /\ [Next]_vars => ChargesRead'
<1> SUFFICES ASSUME IInv, [Next]_vars PROVE ChargesRead'
  OBVIOUS
<1> USE BillingAssumption DEF IInv, TypeOK, ChargesRead, ChargesOf
<1>1. ASSUME NEW c \in Call, StampFolio(c) PROVE ChargesRead'
  <2>1. PICK f \in Folio : call' = [call EXCEPT ![c].at = "insert", ![c].folio = f]
    BY <1>1 DEF StampFolio
  <2>2. /\ call[c].op = "open" /\ call[c].at = "start"
        /\ UNCHANGED <<stays, booking, charge, seen, before, broken>>
    BY <1>1 DEF StampFolio, reading
  <2>3. \A d \in Call : d # c => call'[d] = call[d]
    BY <2>1
  <2>4. call'[c].op = "open" /\ call'[c].at = "insert"
    BY <2>1, <2>2
  <2> QED
    BY <2>2, <2>3, <2>4
<1>2. ASSUME NEW c \in Call, ReadFolio(c) PROVE ChargesRead'
  <2>1. PICK f \in folios, at \in {"insert", "charges"} :
           /\ call' = [call EXCEPT ![c].folio = f, ![c].at = at]
           /\ at = "insert" => call[c].op = "pay"
           /\ before' = [before EXCEPT ![c] = ChargesOf(f)]
    BY <1>2 DEF ReadFolio
  <2>2. call[c].at = "start" /\ UNCHANGED <<stays, booking, charge, seen, broken>>
    BY <1>2 DEF ReadFolio, rows
  <2>3. \A d \in Call : d # c => call'[d] = call[d] /\ before'[d] = before[d]
    BY <2>1
  <2>4. call'[c].op = call[c].op /\ call'[c].folio = f /\ call'[c].at = at
    BY <2>1
  <2>5. seen'[c] = {} /\ before'[c] = ChargesOf(f)
    BY <2>1, <2>2
  <2> QED
    BY <2>1, <2>2, <2>3, <2>4, <2>5
<1>3. ASSUME NEW c \in Call, ReadCharges(c) PROVE ChargesRead'
  <2> DEFINE f == call[c].folio
  <2>1. /\ call[c].at = "charges" /\ f \in Folio
        /\ UNCHANGED <<stays, booking, charge, before>>
    BY <1>3 DEF ReadCharges, rows, FolioHeld
  <2>2. PICK at \in {"earliest", "insert"} : call' = [call EXCEPT ![c].at = at]
    BY <1>3 DEF ReadCharges
  <2>3. PICK got \in SUBSET ChargesOf(f) :
           /\ seen' = [seen EXCEPT ![c] = got]
           /\ broken' = IF got = ChargesOf(f) THEN broken ELSE broken \cup {c}
    BY <1>3 DEF ReadCharges
  <2>4. call'[c].op = call[c].op /\ call'[c].folio = f /\ call'[c].at # "start"
    BY <2>2
  <2>5. booking[f] \in stays => f \in folios
    BY <2>1 DEF FolioHeld
  <2>6. \A d \in Call : d # c => call'[d] = call[d] /\ seen'[d] = seen[d]
    BY <2>2, <2>3
  <2> QED
    BY <2>1, <2>3, <2>4, <2>5, <2>6
<1>4. ASSUME NEW c \in Call, Fails(c) \/ CreateFolio(c) \/ ReadEarliest(c) \/ ReadPayments(c)
               \/ RecordPayment(c) \/ GenerateInvoice(c)
      PROVE  ChargesRead'
  <2>1. PICK at \in {"payments", "done"} : call' = [call EXCEPT ![c].at = at]
    BY <1>4 DEF Fails, CreateFolio, ReadEarliest, ReadPayments, RecordPayment, GenerateInvoice, Goto
  <2>2. UNCHANGED <<stays, booking, charge, seen, before, broken>>
    BY <1>4 DEF Fails, CreateFolio, ReadEarliest, ReadPayments, RecordPayment, GenerateInvoice, rows, reading
  <2>3. \A d \in Call : call'[d].op = call[d].op /\ call'[d].folio = call[d].folio
                         /\ (d # c => call'[d].at = call[d].at)
    BY <2>1
  <2>4. call'[c].at = at
    BY <2>1
  <2> QED
    BY <2>1, <2>2, <2>3, <2>4
<1>5. ASSUME NEW x \in Charge, AddCharge(x) PROVE ChargesRead'
  <2>1. \A c \in Call : x \notin before[c] \cup seen[c]
    BY <1>5 DEF AddCharge
  <2>2. \A y \in Charge : y # x => charge'[y] = charge[y]
    BY <1>5 DEF AddCharge
  <2>3. UNCHANGED <<stays, booking, call, seen, before, broken>>
    BY <1>5 DEF AddCharge, reading
  <2> QED
    BY <2>1, <2>2, <2>3
<1>6. ASSUME NEW s \in Stay, CancelStay(s) PROVE ChargesRead'
  BY <1>6 DEF CancelStay, reading
<1>7. CASE UNCHANGED <<stays, booking, charge, call, seen, before, broken>>
  BY <1>7
<1> QED
  BY <1>1, <1>2, <1>3, <1>4, <1>5, <1>6, <1>7
     DEF Next, Serve, Idle, vars, rows, reading, EmailInvoice, BookOnline, Settle

\* A drawn up invoice is left as it was, is marked as sent or goes with its folio.
LEMMA InvoicePreserved == IInv /\ [Next]_vars => InvoiceDrawn' /\ InvoiceComplete'
<1> SUFFICES ASSUME IInv, [Next]_vars PROVE InvoiceDrawn' /\ InvoiceComplete'
  OBVIOUS
<1> USE BillingAssumption DEF IInv, TypeOK
<1>1. ASSUME NEW d \in Call, invoice[d] # None
      PROVE  /\ call'[d] = call[d] /\ before'[d] = before[d] /\ (d \in broken => d \in broken')
             /\ \A x \in invoice[d].lines : charge'[x] = charge[x]
  <2>1. call[d].at = "done"
    BY <1>1 DEF InvoiceDrawn
  <2>2. invoice[d] \in Invoice
    BY <1>1
  <2>3. \A x \in invoice[d].lines : x \in Charge /\ charge[x] # None
    BY <1>1, <2>2 DEF InvoiceComplete, Invoice
  <2>4. \A x \in Charge : charge[x] # None => charge'[x] = charge[x]
    BY DEF Next, Serve, Idle, vars, rows, Fails, StampFolio, CreateFolio, AddCharge, ReadFolio,
           ReadCharges, ReadEarliest, ReadPayments, RecordPayment, GenerateInvoice, EmailInvoice,
           BookOnline, Settle, CancelStay
  <2>5. call'[d] = call[d] /\ before'[d] = before[d]
    <3>1. ASSUME NEW c \in Call, StampFolio(c) \/ ReadFolio(c)
          PROVE  call'[d] = call[d] /\ before'[d] = before[d]
      <4>1. c # d
        BY <2>1, <3>1 DEF StampFolio, ReadFolio
      <4> QED
        BY <3>1, <4>1 DEF StampFolio, ReadFolio, reading
    <3>2. ASSUME NEW c \in Call, Fails(c) \/ CreateFolio(c) \/ ReadCharges(c) \/ ReadEarliest(c)
                   \/ ReadPayments(c) \/ RecordPayment(c) \/ GenerateInvoice(c)
          PROVE  call'[d] = call[d] /\ before'[d] = before[d]
      <4>1. c # d
        BY <2>1, <3>2 DEF Fails, CreateFolio, ReadCharges, ReadEarliest, ReadPayments, RecordPayment,
                          GenerateInvoice, Goto
      <4> QED
        BY <3>2, <4>1 DEF Fails, CreateFolio, ReadCharges, ReadEarliest, ReadPayments, RecordPayment,
                          GenerateInvoice, Goto, reading
    <3>3. CASE call' = call /\ before' = before
      BY <3>3
    <3> QED
      BY <3>1, <3>2, <3>3
         DEF Next, Serve, Idle, vars, reading, AddCharge, EmailInvoice, BookOnline, Settle, CancelStay
  <2>6. broken \subseteq broken'
    BY DEF Next, Serve, Idle, vars, reading, Fails, StampFolio, CreateFolio, AddCharge, ReadFolio,
           ReadCharges, ReadEarliest, ReadPayments, RecordPayment, GenerateInvoice, EmailInvoice,
           BookOnline, Settle, CancelStay
  <2> QED
    BY <2>3, <2>4, <2>5, <2>6
<1>2. ASSUME NEW d \in Call, invoice[d] # None, NEW new, invoice'[d] = new,
             new = None \/ (new.folio = invoice[d].folio /\ new.lines = invoice[d].lines)
      PROVE  new # None =>
             /\ call'[d].op = "invoice" /\ call'[d].at = "done" /\ call'[d].folio = new.folio
             /\ before'[d] \subseteq new.lines \/ d \in broken'
             /\ \A x \in new.lines : charge'[x] = new.folio
  BY <1>1, <1>2 DEF InvoiceDrawn, InvoiceComplete
<1>3. ASSUME NEW c \in Call, GenerateInvoice(c) PROVE InvoiceDrawn' /\ InvoiceComplete'
  <2> DEFINE f == call[c].folio
  <2>1. /\ call[c].op = "invoice" /\ call[c].at = "insert" /\ f \in folios
        /\ call' = [call EXCEPT ![c].at = "done"]
        /\ invoice' = [invoice EXCEPT ![c] = [folio |-> f, lines |-> seen[c], status |-> "draft"]]
        /\ UNCHANGED <<stays, charge, before, broken>>
    BY <1>3 DEF GenerateInvoice, Goto, reading
  <2>2. (before[c] \subseteq seen[c] \/ c \in broken) /\ \A x \in seen[c] : charge[x] = f
    BY <2>1 DEF ChargesRead, Stamped
  <2>3. \A d \in Call : d # c => invoice'[d] = invoice[d] /\ call'[d] = call[d]
    BY <2>1
  <2>4. call'[c].op = "invoice" /\ call'[c].at = "done" /\ call'[c].folio = f
    BY <2>1
  <2>5. invoice'[c] = [folio |-> f, lines |-> seen[c], status |-> "draft"]
    BY <2>1
  <2> QED
    BY <2>1, <2>2, <2>3, <2>4, <2>5 DEF InvoiceDrawn, InvoiceComplete
<1>4. ASSUME ~(\E c \in Call : GenerateInvoice(c)), NEW d \in Call
      PROVE  /\ invoice[d] = None => invoice'[d] = None
             /\ invoice[d] # None => invoice'[d] = None \/ (/\ invoice'[d].folio = invoice[d].folio
                                                          /\ invoice'[d].lines = invoice[d].lines)
  <2>1. ASSUME NEW c \in Call, EmailInvoice(c)
        PROVE  IF d = c THEN invoice[d] # None /\ invoice'[d] = [invoice[d] EXCEPT !.status = "sent"]
                        ELSE invoice'[d] = invoice[d]
    BY <2>1 DEF EmailInvoice
  <2>2. ASSUME NEW s \in Stay, CancelStay(s)
        PROVE  invoice'[d] = None \/ invoice'[d] = invoice[d]
    BY <2>2 DEF CancelStay
  <2>3. invoice[d] # None => invoice[d] \in Invoice
    OBVIOUS
  <2>4. CASE \E c \in Call : EmailInvoice(c)
    BY <2>1, <2>3, <2>4 DEF Invoice
  <2>5. CASE \E s \in Stay : CancelStay(s)
    BY <2>2, <2>5 DEF CancelStay
  <2> QED
    BY <1>4, <2>4, <2>5
       DEF Next, Serve, Idle, vars, rows, Fails, StampFolio, CreateFolio, AddCharge, ReadFolio,
           ReadCharges, ReadEarliest, ReadPayments, RecordPayment, BookOnline, Settle
<1>5. CASE ~(\E c \in Call : GenerateInvoice(c))
  BY <1>2, <1>4, <1>5 DEF InvoiceDrawn, InvoiceComplete
<1> QED
  BY <1>3, <1>5

-----------------------------------------------------------------------------
(* The theorems.                                                           *)

\* The bookkeeping of stamps, folios, payments and charges read is inductive.
THEOREM Invariant == Spec => []IInv
<1>1. IInv /\ [Next]_vars => IInv'
  BY TypePreserved, StampedPreserved, FolioHeldPreserved, CountedPreserved, CountedToOnePreserved,
     PaymentsPreserved, ChargesReadPreserved, InvoicePreserved DEF IInv
<1> QED
  BY InitInvariant, <1>1, PTL DEF Spec

\* Rows and requests keep their types.
THEOREM TypeCorrect == Spec => []TypeOK
BY Invariant, PTL DEF IInv

\* Payments are linked to a booking, and GetFolio counts each of them to one folio of it,
\* unless two folios were created at once.
THEOREM CountedOnce == Spec => []PaymentCountedOnce
<1>1. IInv => PaymentCountedOnce
  <2> SUFFICES ASSUME IInv, NEW c \in Call, NEW d \in Call, paid[c] \cap paid[d] # {},
                      booking[call[c].folio] = booking[call[d].folio]
               PROVE  call[c].folio = call[d].folio \/ booking[call[c].folio] \in displaced
    BY DEF PaymentCountedOnce
  <2>1. counts[c] /\ counts[d]
    BY DEF IInv, CountedToOne
  <2> QED
    BY <2>1 DEF IInv, CountedToOne
<1> QED
  BY <1>1, Invariant, PTL

\* Some folio of a booking is the earliest.
LEMMA EarliestExists ==
  ASSUME TypeOK, NEW s, FoliosOf(s) # {}
  PROVE  \E f \in FoliosOf(s) : IsEarliest(f)
<1> DEFINE T == {created[f] : f \in FoliosOf(s)}
<1>1. T \subseteq Nat /\ T # {}
  <2>1. T \subseteq Nat
    BY DEF TypeOK, FoliosOf
  <2>2. PICK f \in FoliosOf(s) : TRUE
    OBVIOUS
  <2>3. created[f] \in T
    BY <2>2
  <2> QED
    BY <2>1, <2>3
<1> DEFINE Less == {ss \in Nat \X Nat : ss[1] < ss[2]}
<1>2. IsWellFoundedOn(Less, Nat)
  BY NatLessThanWellFounded DEF OpToRel
<1>3. PICK n \in T : \A m \in T : ~(<<m, n>> \in Less)
  BY <1>1, <1>2, WFMin
<1>4. PICK f \in FoliosOf(s) : created[f] = n
  OBVIOUS
<1>5. \A g \in FoliosOf(s) : created[g] \in Nat /\ ~(created[g] < created[f])
  BY <1>1, <1>3, <1>4 DEF Less
<1> QED
  BY <1>4, <1>5 DEF IsEarliest, FoliosOf

\* A payment recorded at the desk is counted to some folio as long as its booking exists.
THEOREM DeskCounted == Spec => []DeskPaymentsCounted
<1>1. IInv => DeskPaymentsCounted
  <2> SUFFICES ASSUME IInv, NEW p \in desk, payment[p].stay # None
               PROVE  \E f \in FoliosOf(payment[p].stay) : IsEarliest(f)
    BY DEF DeskPaymentsCounted
  <2>1. FoliosOf(payment[p].stay) # {}
    BY DEF IInv, PaymentsRefer
  <2> QED
    BY <2>1, EarliestExists DEF IInv
<1> QED
  BY <1>1, Invariant, PTL

\* A payment counts to one folio, neither to two nor to none.
THEOREM EachCounts == Spec => []EachPaymentCounts
BY CountedOnce, DeskCounted, PTL DEF EachPaymentCounts

\* An invoice has charges of its folio only, and all that were posted before it was asked
\* for unless the reading of the charges broke off.
THEOREM InvoicesComplete == Spec => []InvoiceComplete
BY Invariant, PTL DEF IInv

\* No folio opened later takes the payments of a booking from its earliest one.
THEOREM EarliestKept == Spec => EarliestStays
<1>1. IInv /\ [Next]_vars =>
        [\A f \in Folio : IsEarliest(f) /\ ~IsEarliest(f)'
                            => f \notin folios' \/ booking[f] \in displaced']_vars
  <2> SUFFICES ASSUME IInv, [Next]_vars, NEW f \in Folio, IsEarliest(f), ~IsEarliest(f)', f \in folios'
               PROVE  booking[f] \in displaced'
    OBVIOUS
  <2>1. Stamped' /\ booking' = booking
    BY StampedPreserved, Monotone
  <2>2. booking[f] \in stays'
    BY <2>1 DEF Stamped
  <2> QED
    BY <2>2, EarliestPreserved
<1> QED
  BY <1>1, Invariant, PTL DEF Spec, EarliestStays

=============================================================================
