\* Three requests for one account of the hotel.
CONSTANTS
    Account = {u1}
    Exempt = {}
    Role = {guest, staff}
    Guest = guest
    Secret = {p1, p2}
    Call = {c1, c2, c3}
    Ending = {e1, e2}
    RefreshTTL = 2
    None = none
SPECIFICATION Spec
SYMMETRY Symmetry
INVARIANTS TypeOK TradedOnce RolesFade SignedUpOnce
PROPERTIES SuspendedStayOut PasswordKnown
