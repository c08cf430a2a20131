SPECIFICATION Spec
CONSTANTS
    Modes = {"main"}
    SeatIds = {1}
    Devices = {d1, d2}
    Offers = {o1, o2, o3}
    Sources = {s1, s2}
    Callbacks = {c1, c2}
    Writers = {w1}
    Other = Other
    Echoes = {FALSE}
    MaxRevision = 3
    MaxWire = 4
    None = None
SYMMETRY Symmetry
INVARIANTS
    ReturnedIsAgreed
