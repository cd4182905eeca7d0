\* A checkout and a completion of one payment: is a completed payment final?
CONSTANTS
    Request = {q1, q2}
    Kind = {"checkout", "complete"}
    Rate = {1}
    Total = 1
    Booking = booking
    Elsewhere = elsewhere
    NoOrder = noOrder
SPECIFICATION Spec
PROPERTIES CompletedIsFinal
