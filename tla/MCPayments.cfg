\* Two requests of any endpoint on one payment.
CONSTANTS
    Request = {q1, q2}
    Kind = {"order", "checkout", "verify", "complete"}
    Rate = {1, 2}
    Total = 1
    Booking = booking
    Elsewhere = elsewhere
    NoOrder = noOrder
SPECIFICATION Spec
SYMMETRY Symmetry
INVARIANTS TypeOK  PricedOnce
PROPERTIES OnlyRacesReopen
