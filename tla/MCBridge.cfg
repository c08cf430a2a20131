SPECIFICATION Spec
CONSTANTS
    None = None
    NoWindow = NoWindow
    Original = Original
    Other = Other
    Handles = {h1, h2}
    Labels = {a, b}
    Bridges <- MCBridges
    Surroundings <- MCSurroundings
    MaxGeneration <- MCGenerations
    MaxRevision = 3
    MaxPresses = 2
INVARIANTS
    StoppedOwnsNothing
    TalonShowsActive
    HoldsAreOwned
SYMMETRY Interchangeable
CHECK_DEADLOCK FALSE
