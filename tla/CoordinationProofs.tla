------------------------- MODULE CoordinationProofs -------------------------
(***************************************************************************)
(* Theorems about the components whose processes coordinate through        *)
(* something beside the tables they change: collections of a payment       *)
(* through locks in Redis and the gateways (Payments), rooms and cached    *)
(* lists through the deletion of Redis entries (RoomLists), and booting    *)
(* servers through the ledger of migrations (Migrations).                  *)
(***************************************************************************)
EXTENDS Payments, RoomLists, Migrations, TLAPS

-----------------------------------------------------------------------------
(* Payments, for any number of requests and any rates.                     *)

\* The initial states satisfy the inductive invariant.
LEMMA InitInvariant == Init => IInv
<1> SUFFICES ASSUME Init PROVE IInv
  OBVIOUS
<1> USE PaymentsAssumption DEF Init
<1>1. PICK rate \in Rate :
         \/ /\ row = [status |-> "pending", amount |-> Total * rate, method |-> "cash",
                      order |-> NoOrder]
            /\ orders = {OtherSession}
         \/ \E g \in Gateway :
              /\ row = [status |-> "pending", amount |-> Total * rate, method |-> g,
                        order |-> IF g = "razorpay" THEN Booking ELSE NoOrder]
              /\ orders = {OtherSession,
                           [by |-> Booking, gateway |-> g, amount |-> Total * rate]}
  OBVIOUS
<1>2. Total * rate \in Int
  OBVIOUS
<1>3. row \in Row /\ orders \subseteq Order
  BY <1>1, <1>2 DEF Row, Order, OtherSession, Issuer, Gateway
<1>4. \A q \in Request : kind[q] \in {"order", "checkout", "verify", "complete"}
  OBVIOUS
<1>5. \A q \in Request : First(kind[q]) \in {"lock", "read", "check"}
                         /\ (First(kind[q]) = "check" => kind[q] = "complete")
  BY <1>4 DEF First
<1>6. TypeOK
  <2>1. pc \in [Request -> PC]
    BY <1>5 DEF PC
  <2>2. seen \in [Request -> Row] /\ asked \in [Request -> Int]
    BY <1>3
  <2> QED
    BY <1>3, <2>1, <2>2 DEF TypeOK
<1>7. ReadingIsFresh
  BY <1>1, <1>5 DEF ReadingIsFresh, Reading
<1>8. MarkJustified /\ BorrowersComplete /\ QuotesPricedOnce /\ CallsOfKind
  BY <1>4, <1>5 DEF MarkJustified, BorrowersComplete, QuotesPricedOnce, CallsOfKind
<1>9. CompletedIsPaid /\ RazorpayAmountAgrees /\ PricedOnce
  BY <1>1, <1>2 DEF CompletedIsPaid, RazorpayAmountAgrees, PricedOnce, Own, OtherSession
<1> QED
  BY <1>6, <1>7, <1>8, <1>9 DEF IInv

\* Every call keeps the types.
LEMMA TypePreserved == TypeOK /\ [Next]_vars => TypeOK'
<1> SUFFICES ASSUME TypeOK, [Next]_vars PROVE TypeOK'
  OBVIOUS
<1> USE PaymentsAssumption DEF TypeOK, Goto, gateways, lock, history, borrows
<1>1. ASSUME NEW q \in Request, AcquireLock(q) \/ LockUnavailable(q) PROVE TypeOK'
  <2>1. pc' \in [Request -> PC]
    BY <1>1 DEF AcquireLock, LockUnavailable, PC
  <2>2. kind[q] \in Kind
    OBVIOUS
  <2>3. locked' \subseteq Kind /\ held' \subseteq Request
    BY <1>1, <2>2 DEF AcquireLock, LockUnavailable
  <2> QED
    BY <1>1, <2>1, <2>3 DEF AcquireLock, LockUnavailable
<1>2. ASSUME NEW q \in Request, Fails(q) \/ Return(q) PROVE TypeOK'
  BY <1>2 DEF Fails, Return, PC
<1>3. ASSUME NEW q \in Request, ReadPayment(q) \/ CheckCapture(q) PROVE TypeOK'
  <2>1. pc' \in [Request -> PC]
    BY <1>3 DEF ReadPayment, CheckCapture, PC
  <2>2. seen' \in [Request -> Row] /\ borrowing' \subseteq Request
    BY <1>3 DEF ReadPayment, CheckCapture
  <2> QED
    BY <1>3, <2>1, <2>2 DEF ReadPayment, CheckCapture
<1>4. ASSUME NEW q \in Request, PriceIt(q) PROVE TypeOK'
  <2>1. UsdAmount(q) \in Int
    BY DEF UsdAmount, Row
  <2>2. \A rate \in Rate : UsdAmount(q) * rate \in Int
    BY <2>1
  <2> QED
    BY <1>4, <2>2 DEF PriceIt, PC
<1>5. ASSUME NEW q \in Request, OpenOrder(q) PROVE TypeOK'
  <2>1. [by |-> q, gateway |-> "razorpay", amount |-> asked[q]] \in Order
    BY DEF Order, Issuer, Gateway
  <2> QED
    BY <1>5, <2>1 DEF OpenOrder, PC
<1>6. ASSUME NEW q \in Request, OpenSession(q) PROVE TypeOK'
  <2>1. [by |-> q, gateway |-> "stripe", amount |-> asked[q]] \in Order
    BY DEF Order, Issuer, Gateway
  <2> QED
    BY <1>6, <2>1 DEF OpenSession, PC
<1>7. ASSUME NEW q \in Request, SaveQuote(q) PROVE TypeOK'
  <2>1. row' \in Row
    BY <1>7 DEF SaveQuote, Row, Issuer, Gateway
  <2>2. stale' \subseteq Request /\ tainted' \in BOOLEAN
    BY <1>7 DEF SaveQuote, Overtakes
  <2> QED
    BY <1>7, <2>1, <2>2 DEF SaveQuote, PC
<1>8. ASSUME NEW q \in Request, MarkCompleted(q) PROVE TypeOK'
  <2>1. row' \in Row
    BY <1>8 DEF MarkCompleted, Row, Gateway
  <2>2. stale' \subseteq Request /\ tainted' \in BOOLEAN /\ borrowed' \in BOOLEAN
    BY <1>8 DEF MarkCompleted, Overtakes
  <2> QED
    BY <1>8, <2>1, <2>2 DEF MarkCompleted, PC
<1>9. ASSUME NEW k \in Kind, LockExpires(k) PROVE TypeOK'
  BY <1>9 DEF LockExpires
<1>10. ASSUME NEW o \in orders, GuestPays(o) PROVE TypeOK'
  BY <1>10 DEF GuestPays
<1>11. CASE UNCHANGED vars
  BY <1>11 DEF vars
<1> QED
  BY <1>1, <1>2, <1>3, <1>4, <1>5, <1>6, <1>7, <1>8, <1>9, <1>10, <1>11 DEF Next, Handle, Idle

\* An order or a checkout never gets to the calls that complete a payment.
LEMMA CallsPreserved == TypeOK /\ CallsOfKind /\ [Next]_vars => CallsOfKind'
<1> SUFFICES ASSUME TypeOK, CallsOfKind, [Next]_vars PROVE CallsOfKind'
  OBVIOUS
<1> USE DEF TypeOK, CallsOfKind, Goto, gateways, lock, history, borrows
<1>1. ASSUME NEW q \in Request, AcquireLock(q) \/ LockUnavailable(q) \/ Fails(q) \/ Return(q)
      PROVE CallsOfKind'
  BY <1>1 DEF AcquireLock, LockUnavailable, Fails, Return
<1>2. ASSUME NEW q \in Request, ReadPayment(q) \/ PriceIt(q) \/ OpenOrder(q) PROVE CallsOfKind'
  BY <1>2 DEF ReadPayment, PriceIt, OpenOrder
<1>3. ASSUME NEW q \in Request, SaveQuote(q) \/ OpenSession(q) PROVE CallsOfKind'
  BY <1>3 DEF SaveQuote, OpenSession
<1>4. ASSUME NEW q \in Request, CheckCapture(q) \/ MarkCompleted(q) PROVE CallsOfKind'
  BY <1>4 DEF CheckCapture, MarkCompleted
<1>5. ASSUME NEW k \in Kind, LockExpires(k) PROVE CallsOfKind'
  BY <1>5 DEF LockExpires
<1>6. ASSUME NEW o \in orders, GuestPays(o) PROVE CallsOfKind'
  BY <1>6 DEF GuestPays
<1>7. CASE UNCHANGED vars
  BY <1>7 DEF vars
<1> QED
  BY <1>1, <1>2, <1>3, <1>4, <1>5, <1>6, <1>7 DEF Next, Handle, Idle

\* A reading stays fresh until another request writes the row.
LEMMA ReadingPreserved ==
  TypeOK /\ CallsOfKind /\ ReadingIsFresh /\ [Next]_vars => ReadingIsFresh'
<1> SUFFICES ASSUME TypeOK, CallsOfKind, ReadingIsFresh, [Next]_vars PROVE ReadingIsFresh'
  OBVIOUS
<1> USE PaymentsAssumption DEF TypeOK, CallsOfKind, ReadingIsFresh, Reading, Goto, gateways, lock, history, borrows
<1>1. ASSUME NEW q \in Request, AcquireLock(q) \/ LockUnavailable(q) \/ Fails(q) \/ Return(q)
      PROVE ReadingIsFresh'
  BY <1>1 DEF AcquireLock, LockUnavailable, Fails, Return
<1>2. ASSUME NEW q \in Request, ReadPayment(q) PROVE ReadingIsFresh'
  BY <1>2 DEF ReadPayment, MayProceed
<1>3. ASSUME NEW q \in Request, PriceIt(q) \/ OpenOrder(q) \/ OpenSession(q) \/ CheckCapture(q)
      PROVE ReadingIsFresh'
  BY <1>3 DEF PriceIt, OpenOrder, OpenSession, CheckCapture
<1>4. ASSUME NEW q \in Request, SaveQuote(q) PROVE ReadingIsFresh'
  BY <1>4 DEF SaveQuote, Overtakes
<1>5. ASSUME NEW q \in Request, MarkCompleted(q) PROVE ReadingIsFresh'
  BY <1>5 DEF MarkCompleted, Overtakes
<1>6. ASSUME NEW k \in Kind, LockExpires(k) PROVE ReadingIsFresh'
  BY <1>6 DEF LockExpires
<1>7. ASSUME NEW o \in orders, GuestPays(o) PROVE ReadingIsFresh'
  BY <1>7 DEF GuestPays
<1>8. CASE UNCHANGED vars
  BY <1>8 DEF vars
<1> QED
  BY <1>1, <1>2, <1>3, <1>4, <1>5, <1>6, <1>7, <1>8 DEF Next, Handle, Idle

\* Captures are never withdrawn, so a justified completion stays justified.
LEMMA MarkPreserved ==
  TypeOK /\ CallsOfKind /\ MarkJustified /\ [Next]_vars => MarkJustified'
<1> DEFINE Justified(p) == (\E o \in Captured(p) : o.by # Elsewhere) \/ p \in borrowing
<1> SUFFICES ASSUME TypeOK, CallsOfKind, MarkJustified, [Next]_vars,
                    NEW p \in Request, pc'[p] = "mark"
             PROVE  Justified(p)'
  BY DEF MarkJustified
<1> USE DEF TypeOK, Goto, gateways, lock, history, borrows
<1>1. ASSUME pc[p] = "mark", captured \subseteq captured', UNCHANGED kind, seen'[p] = seen[p],
             borrowing \subseteq borrowing'
      PROVE  Justified(p)'
  BY <1>1 DEF MarkJustified, Captured
<1>2. ASSUME NEW q \in Request, AcquireLock(q) \/ LockUnavailable(q) \/ Fails(q) \/ Return(q)
      PROVE  Justified(p)'
  BY <1>1, <1>2 DEF AcquireLock, LockUnavailable, Fails, Return
<1>3. ASSUME NEW q \in Request, ReadPayment(q) PROVE Justified(p)'
  BY <1>1, <1>3 DEF ReadPayment
<1>4. ASSUME NEW q \in Request, PriceIt(q) \/ OpenOrder(q) \/ OpenSession(q) PROVE Justified(p)'
  BY <1>1, <1>4 DEF PriceIt, OpenOrder, OpenSession
<1>5. ASSUME NEW q \in Request, CheckCapture(q) PROVE Justified(p)'
  <2>1. CASE p # q
    BY <1>1, <1>5, <2>1 DEF CheckCapture
  <2>2. CASE p = q
    BY <1>5, <2>2 DEF CheckCapture, Captured
  <2> QED
    BY <2>1, <2>2
<1>6. ASSUME NEW q \in Request, SaveQuote(q) \/ MarkCompleted(q) PROVE Justified(p)'
  BY <1>1, <1>6 DEF SaveQuote, MarkCompleted
<1>7. ASSUME NEW k \in Kind, LockExpires(k) PROVE Justified(p)'
  BY <1>1, <1>7 DEF LockExpires
<1>8. ASSUME NEW o \in orders, GuestPays(o) PROVE Justified(p)'
  BY <1>1, <1>8 DEF GuestPays
<1>9. CASE UNCHANGED vars
  BY <1>1, <1>9 DEF vars
<1> HIDE DEF Justified
<1> QED
  BY <1>2, <1>3, <1>4, <1>5, <1>6, <1>7, <1>8, <1>9 DEF Next, Handle, Idle

\* A request is shown another payment's session by CompletePayment only: the order that
\* VerifyRazorpayPayment looks for is a noted one.
LEMMA BorrowersPreserved ==
  TypeOK /\ CallsOfKind /\ BorrowersComplete /\ [Next]_vars => BorrowersComplete'
<1> SUFFICES ASSUME TypeOK, CallsOfKind, BorrowersComplete, [Next]_vars PROVE BorrowersComplete'
  OBVIOUS
<1> USE DEF BorrowersComplete, Goto, gateways, lock, history, borrows
<1>1. ASSUME UNCHANGED <<kind, borrowing>> PROVE BorrowersComplete'
  BY <1>1
<1>2. ASSUME NEW q \in Request, CheckCapture(q) PROVE BorrowersComplete'
  <2>1. PICK o \in Captured(q) :
           borrowing' = IF o.by = Elsewhere THEN borrowing \cup {q} ELSE borrowing
    BY <1>2 DEF CheckCapture
  <2>2. CASE kind[q] = "verify"
    <3>1. o.by = seen[q].order /\ seen[q] \in Row
      BY <2>1, <2>2 DEF Captured, TypeOK
    <3>2. o.by # Elsewhere
      BY <3>1, PaymentsAssumption DEF Row, Issuer
    <3> QED
      BY <1>2, <2>1, <3>2 DEF CheckCapture
  <2>3. CASE kind[q] # "verify"
    <3>1. kind[q] = "complete" /\ kind' = kind
      BY <1>2, <2>3 DEF CheckCapture, CallsOfKind
    <3> QED
      BY <2>1, <3>1
  <2> QED
    BY <2>2, <2>3
<1>3. ASSUME NEW q \in Request,
             \/ AcquireLock(q) \/ LockUnavailable(q) \/ Fails(q) \/ Return(q) \/ ReadPayment(q)
             \/ PriceIt(q) \/ OpenOrder(q) \/ OpenSession(q) \/ SaveQuote(q) \/ MarkCompleted(q)
      PROVE  BorrowersComplete'
  BY <1>1, <1>3 DEF AcquireLock, LockUnavailable, Fails, Return, ReadPayment, PriceIt, OpenOrder,
                    OpenSession, SaveQuote, MarkCompleted
<1>4. ASSUME NEW k \in Kind, LockExpires(k) PROVE BorrowersComplete'
  BY <1>1, <1>4 DEF LockExpires
<1>5. ASSUME NEW o \in orders, GuestPays(o) PROVE BorrowersComplete'
  BY <1>1, <1>5 DEF GuestPays
<1>6. CASE UNCHANGED vars
  BY <1>1, <1>6 DEF vars
<1> QED
  BY <1>2, <1>3, <1>4, <1>5, <1>6 DEF Next, Handle, Idle

\* Only MarkCompleted completes the payment, and by then the capture exists.
LEMMA CompletionPreserved ==
  IInv /\ [Next]_vars => CompletedIsPaid' /\ RazorpayAmountAgrees'
<1> SUFFICES ASSUME IInv, [Next]_vars PROVE CompletedIsPaid' /\ RazorpayAmountAgrees'
  OBVIOUS
<1> USE DEF IInv, TypeOK, CompletedIsPaid, RazorpayAmountAgrees, Own, gateways, lock, history, borrows
<1>1. ASSUME NEW q \in Request,
             \/ AcquireLock(q) \/ LockUnavailable(q) \/ Fails(q) \/ Return(q) \/ ReadPayment(q)
             \/ PriceIt(q) \/ OpenOrder(q) \/ OpenSession(q) \/ CheckCapture(q)
      PROVE CompletedIsPaid' /\ RazorpayAmountAgrees'
  BY <1>1 DEF AcquireLock, LockUnavailable, Fails, Return, ReadPayment, PriceIt, OpenOrder,
              OpenSession, CheckCapture
<1>2. ASSUME NEW q \in Request, SaveQuote(q) PROVE CompletedIsPaid' /\ RazorpayAmountAgrees'
  <2>1. CASE UNCHANGED <<row, history>>
    BY <1>2, <2>1 DEF SaveQuote
  <2>2. CASE row'.status = "pending"
    BY <2>2
  <2> QED
    BY <1>2, <2>1, <2>2 DEF SaveQuote
<1>3. ASSUME NEW q \in Request, MarkCompleted(q) PROVE CompletedIsPaid' /\ RazorpayAmountAgrees'
  <2>1. pc[q] = "mark" /\ UNCHANGED <<orders, captured>>
    BY <1>3 DEF MarkCompleted, Goto
  <2>2. row' = [row EXCEPT !.status = "completed",
                           !.method = IF kind[q] = "verify" THEN "razorpay" ELSE "stripe"]
    BY <1>3 DEF MarkCompleted
  <2>3. row'.order = row.order /\ row'.amount = row.amount
        /\ row'.method = IF kind[q] = "verify" THEN "razorpay" ELSE "stripe"
    BY <2>2 DEF Row
  <2>4. CASE q \in borrowing
    <3>1. kind[q] = "complete"
      BY <2>4 DEF BorrowersComplete
    <3>2. borrowed' /\ row'.method = "stripe"
      BY <1>3, <2>3, <2>4, <3>1 DEF MarkCompleted
    <3> QED
      BY <3>2
  <2>5. CASE q \notin borrowing
    <3>1. PICK o \in captured : o \in Captured(q) /\ o.by # Elsewhere
      BY <2>1, <2>5 DEF MarkJustified, Captured
    <3>2. row'.method = o.gateway
      BY <2>3, <3>1 DEF Captured
    <3>3. CompletedIsPaid'
      BY <2>1, <3>1, <3>2
    <3>4. CASE kind[q] = "verify" /\ q \notin stale
      <4>1. seen[q] = row
        BY <2>1, <3>4 DEF ReadingIsFresh, Reading
      <4>2. o = [by |-> row.order, gateway |-> "razorpay", amount |-> row.amount]
        BY <3>1, <3>4, <4>1 DEF Captured, Order
      <4> QED
        BY <2>1, <2>3, <3>1, <3>3, <4>2
    <3>5. CASE kind[q] # "verify"
      BY <2>3, <3>3, <3>5
    <3>6. CASE q \in stale
      BY <1>3, <3>3, <3>6 DEF MarkCompleted, Overtakes
    <3> QED
      BY <3>4, <3>5, <3>6
  <2> QED
    BY <2>4, <2>5
<1>4. ASSUME NEW k \in Kind, LockExpires(k) PROVE CompletedIsPaid' /\ RazorpayAmountAgrees'
  BY <1>4 DEF LockExpires
<1>5. ASSUME NEW o \in orders, GuestPays(o) PROVE CompletedIsPaid' /\ RazorpayAmountAgrees'
  BY <1>5 DEF GuestPays
<1>6. CASE UNCHANGED vars
  BY <1>6 DEF vars
<1> QED
  BY <1>1, <1>2, <1>3, <1>4, <1>5, <1>6 DEF Next, Handle, Idle

\* With a total on the stay, every price asked or recorded is one conversion of it.
LEMMA PricePreserved ==
  IInv /\ [Next]_vars => QuotesPricedOnce' /\ PricedOnce'
<1> SUFFICES ASSUME IInv, [Next]_vars PROVE QuotesPricedOnce' /\ PricedOnce'
  OBVIOUS
<1> USE DEF IInv, TypeOK, QuotesPricedOnce, PricedOnce, Own, CallsOfKind, Goto, gateways, lock, history, borrows
<1>1. ASSUME NEW q \in Request,
             \/ AcquireLock(q) \/ LockUnavailable(q) \/ Fails(q) \/ Return(q) \/ ReadPayment(q)
             \/ CheckCapture(q)
      PROVE QuotesPricedOnce' /\ PricedOnce'
  BY <1>1 DEF AcquireLock, LockUnavailable, Fails, Return, ReadPayment, CheckCapture
<1>2. ASSUME NEW q \in Request, PriceIt(q) PROVE QuotesPricedOnce' /\ PricedOnce'
  BY <1>2 DEF PriceIt, UsdAmount
<1>3. ASSUME NEW q \in Request, OpenOrder(q) \/ OpenSession(q)
      PROVE QuotesPricedOnce' /\ PricedOnce'
  BY <1>3 DEF OpenOrder, OpenSession
<1>4. ASSUME NEW q \in Request, SaveQuote(q) PROVE QuotesPricedOnce' /\ PricedOnce'
  BY <1>4 DEF SaveQuote
<1>5. ASSUME NEW q \in Request, MarkCompleted(q) PROVE QuotesPricedOnce' /\ PricedOnce'
  BY <1>5 DEF MarkCompleted, Row
<1>6. ASSUME NEW k \in Kind, LockExpires(k) PROVE QuotesPricedOnce' /\ PricedOnce'
  BY <1>6 DEF LockExpires
<1>7. ASSUME NEW o \in orders, GuestPays(o) PROVE QuotesPricedOnce' /\ PricedOnce'
  BY <1>7 DEF GuestPays
<1>8. CASE UNCHANGED vars
  BY <1>8 DEF vars
<1> QED
  BY <1>1, <1>2, <1>3, <1>4, <1>5, <1>6, <1>7, <1>8 DEF Next, Handle, Idle

\* The inductive invariant holds of every behaviour.
THEOREM Invariant == Spec => []IInv
<1>1. IInv /\ [Next]_vars => IInv'
  BY TypePreserved, CallsPreserved, ReadingPreserved, MarkPreserved, BorrowersPreserved,
     CompletionPreserved, PricePreserved DEF IInv
<1> QED
  BY InitInvariant, <1>1, PTL DEF Spec

\* The row, the gateways and the requests keep their types.
THEOREM TypeCorrect == Spec => []TypeOK
<1>1. IInv => TypeOK
  BY DEF IInv
<1> QED
  BY Invariant, <1>1, PTL

\* Whatever the order of checkouts, captures and reports, a completed payment was captured
\* by the gateway it names, or last completed on the paid session of another payment.
THEOREM CompletionIsPaid == Spec => []CompletedIsPaid
<1>1. IInv => CompletedIsPaid
  BY DEF IInv
<1> QED
  BY Invariant, <1>1, PTL

\* A Razorpay completion agrees with the capture, but for writes on stale readings.
THEOREM AmountsAgree == Spec => []RazorpayAmountAgrees
<1>1. IInv => RazorpayAmountAgrees
  BY DEF IInv
<1> QED
  BY Invariant, <1>1, PTL

\* What is completed was captured for this payment, but where the session shown was another
\* payment's, and through Razorpay it was captured as recorded.
THEOREM CompletionIsCaptured == Spec => []CompletedIsCaptured
BY CompletionIsPaid, AmountsAgree, PTL DEF CompletedIsCaptured

\* No retry converts the price of a stay twice.
THEOREM ConvertedOnce == Spec => []PricedOnce
<1>1. IInv => PricedOnce
  BY DEF IInv
<1> QED
  BY Invariant, <1>1, PTL

\* A completed payment is reopened only by a request that read it before.
THEOREM ReopenedByRaces == Spec => OnlyRacesReopen
<1> DEFINE Reopens == row.status = "completed" /\ row'.status # "completed"
                      => \E q \in stale : pc[q] = "save"
<1>1. IInv /\ [Next]_vars => [Reopens]_vars
  <2> SUFFICES ASSUME IInv, Next, row.status = "completed", row'.status # "completed"
               PROVE  \E q \in stale : pc[q] = "save"
    OBVIOUS
  <2>1. PICK q \in Request : SaveQuote(q) /\ row' # row
    BY DEF Next, Handle, Idle, vars, gateways, AcquireLock, LockUnavailable, Fails, ReadPayment, PriceIt,
           OpenOrder, OpenSession, CheckCapture, MarkCompleted, Return, LockExpires, GuestPays,
           IInv, TypeOK, Row
  <2>2. pc[q] = "save" /\ Reading(q)
    BY <2>1 DEF SaveQuote, Goto, Reading
  <2>3. q \in stale
    BY <2>2 DEF IInv, ReadingIsFresh
  <2> QED
    BY <2>2, <2>3
<1> QED
  BY Invariant, <1>1, PTL DEF Spec, OnlyRacesReopen

-----------------------------------------------------------------------------
(* RoomLists, for any rooms, writers, readers and handlers.                *)

\* What a handler writes is a status, and a list of the rooms is a list.
LEMMA WrittenType == ASSUME NEW k \in WriterKind PROVE Written(k) \subseteq Status
BY RoomListsAssumption DEF Written, Status, RoomStatus

LEMMA AnswerType ==
  ASSUME NEW status \in [Room -> Status \cup {Absent}], NEW asks
  PROVE  Answer(asks, status) \in Lists
BY DEF Answer, Lists

\* Every question has a key, which is that of itself but for GET /rooms without a status;
\* what is stored under it is what the key stands for, unless ?status=all was asked.
LEMMA KeyOfQuestion ==
  ASSUME NEW asks \in Question, NEW status
  PROVE  /\ KeyOf(asks) \in CacheKey
         /\ asks # "all" => Listed(KeyOf(asks), status) = Answer(asks, status)
BY DEF Question, KeyOf, CacheKey, ListKey, Status, RoomStatus, Listed

LEMMA KeyOfKey == ASSUME NEW k \in CacheKey PROVE KeyOf(k) = k
BY RoomListsAssumption DEF KeyOf

\* Every call keeps the types.
LEMMA ListsTypePreserved == TypeLists /\ [NextLists]_listVars => TypeLists'
<1> SUFFICES ASSUME TypeLists, [NextLists]_listVars PROVE TypeLists'
  OBVIOUS
<1> USE DEF TypeLists, listHistory
<1>1. ASSUME NEW w \in Writer, Write(w) PROVE TypeLists'
  <2>1. writer[w].kind \in WriterKind /\ writer[w].room \in Room
    OBVIOUS
  <2>2. PICK s \in Status : roomStatus' = [roomStatus EXCEPT ![writer[w].room] = s]
    BY <1>1, <2>1, WrittenType DEF Write
  <2>3. roomStatus' \in [Room -> Status \cup {Absent}]
    BY <2>2
  <2>4. skipped' \subseteq CacheKey
    <3>1. Unhandled(writer[w].kind, roomStatus[writer[w].room]) \subseteq CacheKey
      BY DEF Unhandled, CacheKey, ListKey, Status
    <3> QED
      BY <1>1, <3>1 DEF Write
  <2>5. /\ writer' = [writer EXCEPT ![w].at = "drop"]
        /\ UNCHANGED <<entry, reader, outdated, undeleted, confused>>
    BY <1>1 DEF Write
  <2> QED
    BY <2>3, <2>4, <2>5
<1>2. ASSUME NEW w \in Writer, WriteFails(w) PROVE TypeLists'
  BY <1>2 DEF WriteFails
<1>3. ASSUME NEW w \in Writer, Drop(w) PROVE TypeLists'
  <2>1. Dropped(writer[w].kind) \subseteq CacheKey
    BY DEF Dropped, CacheKey, ListKey, Status, RoomStatus
  <2> QED
    BY <1>3, <2>1 DEF Drop
<1>4. ASSUME NEW x \in Reader, Get(x) \/ QueryFails(x) PROVE TypeLists'
  BY <1>4 DEF Get, QueryFails
<1>5. ASSUME NEW x \in Reader, Query(x) PROVE TypeLists'
  <2>1. Answer(reader[x].asks, roomStatus) \in Lists
    BY AnswerType
  <2> DEFINE now == [reader[x] EXCEPT !.at = "set", !.list = Answer(reader[x].asks, roomStatus)]
  <2>2. now \in [asks : Question, at : {"get", "query", "set", "done"}, list : Lists \cup {Absent}]
    BY <2>1
  <2>3. reader' = [reader EXCEPT ![x] = now]
    BY <1>5 DEF Query
  <2> HIDE DEF now
  <2> QED
    BY <1>5, <2>2, <2>3 DEF Query
<1>6. ASSUME NEW x \in Reader, Store(x) PROVE TypeLists'
  BY <1>6, KeyOfQuestion DEF Store, Put
<1>7. ASSUME NEW k \in CacheKey, Lapse(k) PROVE TypeLists'
  BY <1>7, KeyOfKey DEF Lapse, Put
<1>8. CASE UNCHANGED listVars
  BY <1>8 DEF listVars
<1> QED
  BY <1>1, <1>2, <1>3, <1>4, <1>5, <1>6, <1>7, <1>8 DEF NextLists, ListsIdle

\* A handler that does delete keys deletes every key of the domain its write affects.
LEMMA DroppedCovers ==
  ASSUME TypeLists, NEW w \in Writer, Write(w), NEW k \in CacheKey,
         Listed(k, roomStatus') # Listed(k, roomStatus)
  PROVE  k \in skipped' \/ k \in Dropped(writer[w].kind)
<1> DEFINE how == writer[w].kind
           room == writer[w].room
<1>1. how \in WriterKind /\ room \in Room
  BY DEF TypeLists
<1>2. CASE k \in Unhandled(how, roomStatus[room])
  BY <1>2 DEF Write
<1>3. CASE k \in OtherText \ {"all"}
  <2>1. k \in Unhandled(how, roomStatus[room])
    BY <1>3 DEF Unhandled, CacheKey, ListKey, Status
  <2> QED
    BY <1>2, <2>1
<1>4. CASE how \in {"status", "create"} /\ k \in RoomStatus \cup {"all", "stats"}
  BY <1>4 DEF Dropped
<1>5. CASE how = "booking" /\ roomStatus[room] = "available" /\ k \in RoomStatus \cup {"all", "stats"}
  <2>1. roomStatus' = [roomStatus EXCEPT ![room] = "occupied"]
    BY <1>5 DEF Write, Written
  <2>2. roomStatus'[room] = "occupied" /\ \A r \in Room \ {room} : roomStatus'[r] = roomStatus[r]
    BY <1>1, <2>1 DEF TypeLists
  <2>3. ASSUME k \in {"cleaning", "maintenance"} PROVE FALSE
    <3>1. k \in Status /\ k # "all"
      BY <2>3 DEF Status, RoomStatus
    <3>2. \A r \in Room : roomStatus'[r] = k <=> roomStatus[r] = k
      BY <1>5, <2>2, <2>3
    <3>3. Listed(k, roomStatus') = Listed(k, roomStatus)
      BY <1>5, <2>2, <2>3, <3>1, <3>2 DEF Listed, Answer
    <3> QED
      BY <3>3
  <2> QED
    BY <1>5, <2>3 DEF Dropped, RoomStatus
<1>6. k \in OtherText \ {"all"} \/ k \in RoomStatus \cup {"all", "stats"}
  BY DEF CacheKey, ListKey, Status
<1> QED
  BY <1>1, <1>2, <1>3, <1>4, <1>5, <1>6, RoomListsAssumption DEF Unhandled

\* Why a list is wrong is inductive.
LEMMA WrongPreserved == TypeLists /\ WrongOnlyInRaces /\ [NextLists]_listVars => WrongOnlyInRaces'
<1> SUFFICES ASSUME TypeLists, WrongOnlyInRaces, [NextLists]_listVars, NEW k \in CacheKey, Wrong(k)'
             PROVE  \/ k \in outdated' \cup skipped' \cup undeleted' \cup confused'
                    \/ \E w \in Writer : writer'[w].at = "drop" /\ k \in Dropped(writer'[w].kind)
  BY DEF WrongOnlyInRaces
<1> DEFINE Pending == \E w \in Writer : writer[w].at = "drop" /\ k \in Dropped(writer[w].kind)
<1> USE DEF listHistory
<1>1. ASSUME NEW w \in Writer, Write(w) PROVE k \in outdated' \cup skipped' \cup undeleted' \cup confused' \/ Pending'
  <2>1. writer'[w].at = "drop" /\ writer'[w].kind = writer[w].kind
        /\ \A v \in Writer \ {w} : writer'[v] = writer[v]
    BY <1>1 DEF Write, TypeLists
  <2>2. skipped \subseteq skipped' /\ UNCHANGED <<outdated, undeleted, confused, entry>>
    BY <1>1 DEF Write
  <2>3. CASE Listed(k, roomStatus') # Listed(k, roomStatus)
    BY <1>1, <2>1, <2>3, DroppedCovers
  <2>4. CASE Listed(k, roomStatus') = Listed(k, roomStatus)
    <3>1. Wrong(k)
      BY <2>2, <2>4 DEF Wrong
    <3>2. CASE Pending
      <4>1. PICK v \in Writer : writer[v].at = "drop" /\ k \in Dropped(writer[v].kind)
        BY <3>2
      <4>2. v # w
        BY <1>1, <4>1 DEF Write
      <4> QED
        BY <2>1, <4>1, <4>2
    <3> QED
      BY <2>2, <3>1, <3>2 DEF WrongOnlyInRaces
  <2> QED
    BY <2>3, <2>4
<1>2. ASSUME NEW w \in Writer, WriteFails(w) PROVE k \in outdated' \cup skipped' \cup undeleted' \cup confused' \/ Pending'
  <2>1. Wrong(k)
    BY <1>2 DEF WriteFails, Wrong
  <2>2. Pending => Pending'
    BY <1>2 DEF WriteFails, TypeLists
  <2> QED
    BY <1>2, <2>1, <2>2 DEF WriteFails, WrongOnlyInRaces
<1>3. ASSUME NEW w \in Writer, Drop(w) PROVE k \in outdated' \cup skipped' \cup undeleted' \cup confused' \/ Pending'
  <2>1. UNCHANGED roomStatus /\ \A v \in Writer \ {w} : writer'[v] = writer[v]
    BY <1>3 DEF Drop, TypeLists
  <2>2. CASE k \in Dropped(writer[w].kind)
    BY <1>3, <2>2 DEF Drop, Wrong
  <2>3. CASE k \notin Dropped(writer[w].kind)
    <3>1. Wrong(k)
      BY <1>3, <2>1, <2>3 DEF Drop, Wrong
    <3>2. Pending => Pending'
      BY <2>1, <2>3
    <3> QED
      BY <1>3, <2>3, <3>1, <3>2 DEF Drop, WrongOnlyInRaces
  <2> QED
    BY <2>2, <2>3
<1>4. ASSUME NEW x \in Reader, Get(x) \/ Query(x) \/ QueryFails(x)
      PROVE k \in outdated' \cup skipped' \cup undeleted' \cup confused' \/ Pending'
  BY <1>4 DEF Get, Query, QueryFails, Wrong, WrongOnlyInRaces
<1>5. ASSUME NEW x \in Reader, Store(x) PROVE k \in outdated' \cup skipped' \cup undeleted' \cup confused' \/ Pending'
  <2>1. CASE UNCHANGED <<entry, listHistory>>
    <3>1. UNCHANGED <<entry, roomStatus, writer, outdated, skipped, undeleted, confused>>
      BY <1>5, <2>1 DEF Store
    <3>2. Wrong(k)
      BY <3>1 DEF Wrong
    <3> QED
      BY <3>1, <3>2 DEF WrongOnlyInRaces
  <2> DEFINE asks == reader[x].asks
             list == reader[x].list
  <2>2. asks \in Question /\ list \in Lists \cup {Absent} /\ KeyOf(asks) \in CacheKey
    BY KeyOfQuestion DEF TypeLists
  <2>3. CASE Put(asks, list) /\ k = KeyOf(asks)
    <3>1. entry'[k] = list /\ roomStatus' = roomStatus
      BY <1>5, <2>2, <2>3 DEF Store, Put, TypeLists
    <3>2. list # Absent /\ list # Listed(k, roomStatus)
      BY <3>1 DEF Wrong
    <3>3. CASE asks = "all"
      BY <2>3, <3>2, <3>3 DEF Put
    <3>4. CASE asks # "all"
      <4>1. Listed(k, roomStatus) = Answer(asks, roomStatus)
        BY <2>2, <2>3, <3>4, KeyOfQuestion
      <4> QED
        BY <2>3, <3>2, <4>1 DEF Put
    <3> QED
      BY <3>3, <3>4
  <2>4. CASE Put(asks, list) /\ k # KeyOf(asks)
    <3>1. entry'[k] = entry[k] /\ roomStatus' = roomStatus /\ writer' = writer
      BY <1>5, <2>2, <2>4 DEF Store, Put, TypeLists
    <3>2. Wrong(k)
      BY <3>1 DEF Wrong
    <3> QED
      BY <2>4, <3>1, <3>2 DEF Put, WrongOnlyInRaces
  <2> QED
    BY <1>5, <2>1, <2>3, <2>4 DEF Store
<1>6. ASSUME NEW key \in CacheKey, Lapse(key) PROVE k \in outdated' \cup skipped' \cup undeleted' \cup confused' \/ Pending'
  <2>1. k # key /\ entry'[k] = entry[k] /\ UNCHANGED <<roomStatus, writer>>
    BY <1>6, KeyOfKey DEF Lapse, Put, TypeLists, Wrong
  <2>2. Wrong(k)
    BY <2>1 DEF Wrong
  <2> QED
    BY <1>6, <2>1, <2>2, KeyOfKey DEF Lapse, Put, WrongOnlyInRaces
<1>7. CASE UNCHANGED listVars
  BY <1>7 DEF listVars, Wrong, WrongOnlyInRaces
<1> QED
  BY <1>1, <1>2, <1>3, <1>4, <1>5, <1>6, <1>7 DEF NextLists, ListsIdle

\* The types and WrongOnlyInRaces together are inductive.
THEOREM ListsInvariant == SpecLists => [](TypeLists /\ WrongOnlyInRaces)
<1>1. InitLists => TypeLists /\ WrongOnlyInRaces
  BY DEF InitLists, TypeLists, WrongOnlyInRaces, Wrong, Status, RoomStatus
<1>2. TypeLists /\ WrongOnlyInRaces /\ [NextLists]_listVars => (TypeLists /\ WrongOnlyInRaces)'
  BY ListsTypePreserved, WrongPreserved
<1> QED
  BY <1>1, <1>2, PTL DEF SpecLists

\* The cache, the rooms and the requests keep their types.
THEOREM ListsTypeCorrect == SpecLists => []TypeLists
BY ListsInvariant, PTL

\* For any number of rooms and requests and whatever texts they use, a cached list is wrong only in the races, the
\* failures and after the handlers named in WrongOnlyInRaces.
THEOREM ListsWrongOnlyInRaces == SpecLists => []WrongOnlyInRaces
BY ListsInvariant, PTL

-----------------------------------------------------------------------------
(* Migrations, for any number of servers and migrations: each migration    *)
(* takes effect once, in order, with its ledger row, and a server that     *)
(* serves has what it ships.                                               *)

\* What a boot has not left to do is recorded.
ScanIsComplete ==
    \A s \in Server : at[s] \in {"run", "record", "commit"} =>
        /\ todo[s] \subseteq 1..Ships[s]
        /\ (1..Ships[s]) \ todo[s] \subseteq ledger

\* The ledger's key: what is about to be committed is not recorded, by one server only.
OneRecorder ==
    \A s \in Server, f \in File : at[s] = "commit" /\ Current(s, f) =>
        /\ f \notin ledger
        /\ \A t \in Server \ {s} : ~(at[t] = "commit" /\ Current(t, f))

RecordedHasRun == ledger \ inherited \subseteq Present

InvMigrations == TypeMigrations /\ ScanIsComplete /\ OneRecorder /\ RecordedHasRun /\ ServingIsComplete

LEMMA InitInvMigrations == InitMigrations => InvMigrations
<1> SUFFICES ASSUME InitMigrations PROVE InvMigrations
  OBVIOUS
<1> USE MigrationsAssumption
<1>1. ledger \subseteq File /\ runs \in [File -> Nat]
  BY DEF InitMigrations, Log!Init, Log!File, File
<1>2. at = [s \in Server |-> "down"] /\ todo = [s \in Server |-> {}] /\ faults = 0
      /\ inherited = ledger
  BY DEF InitMigrations
<1> QED
  BY <1>1, <1>2 DEF InvMigrations, TypeMigrations, ScanIsComplete, OneRecorder, RecordedHasRun, ServingIsComplete, At

\* A migration that has taken effect stays.
LEMMA PresentGrows ==
  ASSUME TypeMigrations, NEW f \in File, Commits(f)
  PROVE  Present \subseteq Present' /\ f \in Present'
BY DEF TypeMigrations, Commits, Present

\* What the commit of f by s does, whether or not it is answered.
LEMMA CommitPreserves ==
  ASSUME InvMigrations, NEW s \in Server, NEW f \in File,
         Commit(s, f) \/ CommitUnanswered(s, f)
  PROVE  InvMigrations'
<1> USE DEF InvMigrations, TypeMigrations
<1>1. at[s] = "commit" /\ Current(s, f) /\ Commits(f)
  BY DEF Commit, CommitUnanswered, GotoStep
<1>2. Present \subseteq Present' /\ f \in Present'
  BY <1>1, PresentGrows
<1>3. ledger' = ledger \cup {f} /\ inherited' = inherited
  BY <1>1 DEF Commits
<1>4. PICK to \in {"run", "down"}, left \in SUBSET File :
        /\ at' = [at EXCEPT ![s] = to] /\ todo' = [todo EXCEPT ![s] = left]
        /\ to = "run" => left = todo[s] \ {f}
  <2>1. CASE Commit(s, f)
    BY <2>1 DEF Commit, GotoStep
  <2>2. CASE CommitUnanswered(s, f)
    <3>1. at' = [at EXCEPT ![s] = "down"] /\ todo' = [todo EXCEPT ![s] = {}]
      BY <2>2 DEF CommitUnanswered, Stops
    <3> WITNESS "down" \in {"run", "down"}, {} \in SUBSET File
    <3> QED
      BY <3>1
  <2> QED
    BY <2>1, <2>2
<1>5. TypeMigrations'
  <2>1. runs' \in [File -> Nat]
    BY <1>1 DEF Commits
  <2>2. faults' \in 0..MaxFaults
    <3>1. CASE Commit(s, f)
      BY <3>1 DEF Commit
    <3>2. CASE CommitUnanswered(s, f)
      BY <3>2, MigrationsAssumption DEF CommitUnanswered, Fault
    <3> QED
      BY <3>1, <3>2
  <2> QED
    BY <1>3, <1>4, <2>1, <2>2 DEF At
<1>6. ScanIsComplete'
  <2> SUFFICES ASSUME NEW t \in Server, at'[t] \in {"run", "record", "commit"}
               PROVE  todo'[t] \subseteq 1..Ships[t] /\ (1..Ships[t]) \ todo'[t] \subseteq ledger'
    BY DEF ScanIsComplete
  <2>1. CASE t = s
    <3>1. todo'[t] = todo[s] \ {f}
      BY <1>4, <2>1
    <3> QED
      BY <1>1, <1>3, <2>1, <3>1 DEF ScanIsComplete
  <2>2. CASE t # s
    BY <1>3, <1>4, <2>2 DEF ScanIsComplete
  <2> QED
    BY <2>1, <2>2
<1>7. OneRecorder'
  <2>1. at'[s] # "commit"
    BY <1>4
  <2>2. \A t \in Server \ {s} : at'[t] = at[t] /\ todo'[t] = todo[t]
    BY <1>4
  <2>3. \A t \in Server \ {s}, g \in File : Current(t, g)' <=> Current(t, g)
    BY <2>2 DEF Current
  <2>4. \A t \in Server, g \in File :
          at'[t] = "commit" /\ Current(t, g)' => t # s /\ at[t] = "commit" /\ Current(t, g) /\ g # f
    BY <1>1, <2>1, <2>2, <2>3 DEF OneRecorder
  <2> QED
    BY <1>3, <2>4 DEF OneRecorder
<1>8. RecordedHasRun'
  BY <1>2, <1>3 DEF RecordedHasRun
<1>9. ServingIsComplete'
  BY <1>2, <1>3, <1>4 DEF ServingIsComplete
<1> QED
  BY <1>5, <1>6, <1>7, <1>8, <1>9

\* The other steps leave the database alone.
LEMMA BootPreserves ==
  ASSUME InvMigrations, UNCHANGED <<database, inherited>>, NEW s \in Server,
         \/ Boot(s) \/ ReadLedger(s) \/ Ensure(s) \/ Refused(s) \/ BootFails(s)
         \/ \E f \in File : Execute(s, f) \/ Record(s, f)
  PROVE  InvMigrations'
<1> USE DEF InvMigrations, TypeMigrations, database, GotoStep, Stops
<1>0. Present' = Present
  BY DEF Present
<1>1. CASE Boot(s)
  BY <1>0, <1>1 DEF Boot, At, ScanIsComplete, OneRecorder, RecordedHasRun, ServingIsComplete, Current
<1>2. CASE ReadLedger(s)
  <2>1. (1..Ships[s]) \subseteq File
    BY MigrationsAssumption DEF File
  <2> QED
    BY <1>0, <1>2, <2>1
    DEF ReadLedger, At, ScanIsComplete, OneRecorder, RecordedHasRun, ServingIsComplete, Current
<1>3. CASE Ensure(s)
  BY <1>0, <1>3 DEF Ensure, At, ScanIsComplete, OneRecorder, RecordedHasRun, ServingIsComplete, Current
<1>4. CASE Refused(s)
  BY <1>0, <1>4 DEF Refused, At, ScanIsComplete, OneRecorder, RecordedHasRun, ServingIsComplete, Current
<1>5. CASE BootFails(s)
  BY <1>0, <1>5, MigrationsAssumption
  DEF BootFails, Fault, At, ScanIsComplete, OneRecorder, RecordedHasRun, ServingIsComplete, Current
<1>6. ASSUME NEW f \in File, Execute(s, f) PROVE InvMigrations'
  BY <1>0, <1>6 DEF Execute, At, ScanIsComplete, OneRecorder, RecordedHasRun, ServingIsComplete, Current
<1>7. ASSUME NEW f \in File, Record(s, f) PROVE InvMigrations'
  <2>1. \A g \in File : Current(s, g) => g = f
    BY <1>7 DEF Record, Current, File
  <2>2. OneRecorder'
    BY <1>7, <2>1 DEF Record, OneRecorder, Current
  <2> QED
    BY <1>0, <1>7, <2>2 DEF Record, At, ScanIsComplete, RecordedHasRun, ServingIsComplete
<1> QED
  BY <1>1, <1>2, <1>3, <1>4, <1>5, <1>6, <1>7

\* The steps of NextMigrations, sorted by what they do to the database.
LEMMA StepKinds ==
  ASSUME NextMigrations
  PROVE  \/ \E s \in Server, f \in File : Commit(s, f) \/ CommitUnanswered(s, f)
         \/ /\ UNCHANGED <<database, inherited>>
            /\ \E s \in Server :
                 \/ Boot(s) \/ ReadLedger(s) \/ Ensure(s) \/ Refused(s) \/ BootFails(s)
                 \/ \E f \in File : Execute(s, f) \/ Record(s, f)
         \/ UNCHANGED migrationVars
BY DEF NextMigrations, Step, MigrationsIdle, Boot, ReadLedger, Ensure, Refused, BootFails, Execute, Record, database

\* The inductive invariant holds of every behaviour.
THEOREM MigrationsInvariant == SpecMigrations => []InvMigrations
<1>1. InvMigrations /\ [NextMigrations]_migrationVars => InvMigrations'
  <2> SUFFICES ASSUME InvMigrations, [NextMigrations]_migrationVars PROVE InvMigrations'
    OBVIOUS
  <2>1. CASE UNCHANGED migrationVars
    BY <2>1 DEF migrationVars, database, InvMigrations, TypeMigrations, ScanIsComplete, OneRecorder, RecordedHasRun,
                ServingIsComplete, Current, Present
  <2>2. CASE NextMigrations
    BY <2>1, <2>2, StepKinds, CommitPreserves, BootPreserves
  <2> QED
    BY <2>1, <2>2
<1> QED
  BY InitInvMigrations, <1>1, PTL DEF SpecMigrations

\* The ledger, the schema and the servers keep their types.
THEOREM MigrationsTypeCorrect == SpecMigrations => []TypeMigrations
<1>1. InvMigrations => TypeMigrations
  BY DEF InvMigrations
<1> QED
  BY MigrationsInvariant, <1>1, PTL

\* Whatever versions boot together, a server that serves has what it ships.
THEOREM Complete == SpecMigrations => []ServingIsComplete
<1>1. InvMigrations => ServingIsComplete
  BY DEF InvMigrations
<1> QED
  BY MigrationsInvariant, <1>1, PTL

\* The runner implements the log: one migration at a time, in order, recorded as it runs.
THEOREM AppliesOneByOne == SpecMigrations => OneByOne
<1>1. InitMigrations => Log!Init
  BY DEF InitMigrations
<1>2. InvMigrations /\ [NextMigrations]_migrationVars => [Log!Next]_<<runs, ledger>>
  <2> SUFFICES ASSUME InvMigrations, NextMigrations, ~UNCHANGED <<runs, ledger>> PROVE Log!Next
    BY DEF migrationVars, database
  <2>1. PICK s \in Server, f \in File : Commit(s, f) \/ CommitUnanswered(s, f)
    BY StepKinds DEF migrationVars, database
  <2>2. at[s] = "commit" /\ Current(s, f) /\ Commits(f)
    BY <2>1 DEF Commit, CommitUnanswered, GotoStep
  <2>3. f \notin ledger
    BY <2>2 DEF InvMigrations, OneRecorder
  <2>4. 1..(f - 1) \subseteq ledger
    <3>1. Ships[s] \in Nat /\ f \in Nat /\ f \in 1..Ships[s]
      BY <2>2, MigrationsAssumption DEF InvMigrations, ScanIsComplete, Current, File
    <3>2. \A g \in 1..(f - 1) : g \in (1..Ships[s]) \ todo[s]
      BY <2>2, <3>1 DEF Current
    <3> QED
      BY <2>2, <3>2 DEF InvMigrations, ScanIsComplete
  <2> QED
    BY <2>2, <2>3, <2>4 DEF Log!Next, Log!Apply, Log!File, File, Commits
<1> QED
  BY MigrationsInvariant, <1>1, <1>2, PTL DEF SpecMigrations, OneByOne, Log!Spec

=============================================================================
