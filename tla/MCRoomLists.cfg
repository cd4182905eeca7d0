\* Two writers and a reader on two rooms; a text of no status, and one that is a key.
CONSTANTS
    Room = {r1, r2}
    Writer = {w1, w2}
    Reader = {x1}
    WriterKind <- Writers
    OtherText = {"all", "reserved"}
    Everything = everything
    Absent = absent
SPECIFICATION SpecLists
SYMMETRY Alike
INVARIANTS TypeLists WrongOnlyInRaces
