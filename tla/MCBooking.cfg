SPECIFICATION Spec
CONSTANTS
    r1 = r1
    double = double
    RoomType = {double}
    NoStay = NoStay
    NoPayment = NoPayment
    NoOrder = NoOrder
    NoRoom = NoRoom
    TypeOf <- MCTypeOf
    Price <- MCPrice
    Room = {r1, r2}
    Request = {q1, q2}
    Guest = {g1}
    Kind = {"stripe", "razorpay", "hold"}
SYMMETRY Symmetric
INVARIANTS TypeOK LockExclusion ConfirmedRoomIsKept
PROPERTIES KeepsContract
