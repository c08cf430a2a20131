SPECIFICATION Spec
CONSTANTS
    Modes = {"main"}
    SeatIds = {1, 2}
    Devices = {d1, d2, d3}
    Offers = {o1, o2, o3}
    Sources = {s1, s2}
    Callbacks = {c1, c2}
    Writers = {w1}
    Other = Other
    Echoes = {TRUE, FALSE}
    MaxRevision = 3
    MaxWire = 4
    None = None
SYMMETRY Symmetry
INVARIANTS
    DeviceFollowsSeat
    ObjectsOwned
PROPERTIES
    EveryChangeIsNews
