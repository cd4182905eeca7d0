\* Four calls on two stays of two rooms.
CONSTANTS
    Room = {r1, r2}
    Request = {s1, s2}
    Call = {c1, c2, c3, c4}
    Op = {"create", "cancel", "checkin", "checkout", "status"}
    NoStay = noStay
    NoPayment = noPayment
    NoOrder = noOrder
    NoRoom = noRoom
SPECIFICATION Spec
SYMMETRY Symmetry
INVARIANTS TypeOK InHouseIsOccupied
PROPERTIES ArrivalsSurvive
