SPECIFICATION FairSpec
CONSTANTS
    Calls = {c1}
    Controllers = {k1}
    MaxGenerations = 2
    NoCall = NoCall
PROPERTIES
    CallReturns
    StopEndsOwner
    ControllerReturns
