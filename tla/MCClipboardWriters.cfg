SPECIFICATION FairSpec
CONSTANTS
    Modes = {"main"}
    SeatIds = {1}
    Devices = {d1, d2}
    Offers = {o1, o2}
    Sources = {s1, s2}
    Callbacks = {c1, c2}
    Writers = {w1, w2}
    Other = Other
    Echoes = {TRUE}
    MaxRevision = 2
    MaxWire = 3
    None = None
INVARIANTS
    ReturnedIsSettled
    AgreesWhenQuiet
PROPERTIES
    WriteEnds
