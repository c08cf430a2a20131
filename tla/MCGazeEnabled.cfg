SPECIFICATION Spec
CONSTANTS
    Modules = {m1, m2, m3, m4}
    NoModule = NoModule
INVARIANTS
    EnabledDelivers
