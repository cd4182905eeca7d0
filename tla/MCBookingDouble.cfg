SPECIFICATION Spec
CONSTANTS
    r1 = r1
    double = double
    RoomType = {double}
    NoStay = NoStay
    NoPayment = NoPayment
    NoOrder = NoOrder
    NoRoom = NoRoom
    TypeOf <- MCTypeOf
    Price <- MCPrice
    Room = {r1}
    Request = {q1, q2}
    Guest = {g1, g2}
    Kind = {"stripe"}
INVARIANTS NoDoubleBooking
