SPECIFICATION Spec
CONSTANTS
    Calls = {c1, c2}
    Controllers = {k1}
    MaxGenerations = 2
    NoCall = NoCall
SYMMETRY Symmetry
INVARIANTS
    AnswersAreTrue
    WaitersAreOwed
    OneOwner
    NoLostWakeup
PROPERTIES
    StartedMeansReady
    ImplementsExecutor
