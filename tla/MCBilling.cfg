\* Three requests on two folios of one booking or of two, one charge and one payment.
CONSTANTS
    Stay = {s1, s2}
    Folio = {f1, f2}
    Charge = {x1}
    Payment = {p1}
    Call = {c1, c2, c3}
    None = none
SPECIFICATION Spec
SYMMETRY Symmetry
INVARIANTS TypeOK EachPaymentCounts InvoiceComplete
PROPERTIES EarliestStays
