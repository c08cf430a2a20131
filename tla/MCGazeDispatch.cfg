SPECIFICATION FairSpec
CONSTANTS
    Events = {e1, e2, e3}
    Controllers = {k1, k2}
    NoEvent = NoEvent
INVARIANTS
    JobsAreKnown
PROPERTIES
    ImplementsDelivery
    PendingEnds
