SPECIFICATION TrackingSpec
CONSTANTS
    Modules = {m1, m2, m3}
    NoModule = NoModule
    Canvases = {c1, c2, c3, c4}
    MaxScreens = 2
SYMMETRY Symmetry
INVARIANTS
    SubscriptionIsRetained
    OnlyTheLoadedDelivers
    OverlayOwned
    MarkerIsWanted
PROPERTIES
    LoadResumes
