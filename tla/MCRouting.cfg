SPECIFICATION Spec
CONSTANTS
    Buttons = {left, side}
    Supported = {left}
    Left = left
    Keys = {shift}
    Modifier = shift
    Step = 2
    Deltas <- MCDeltas
INVARIANTS
    OwnershipSurvives
    ReleasesReachOwner
    ActsOnce
