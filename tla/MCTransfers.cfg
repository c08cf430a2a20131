SPECIFICATION FairSpec
CONSTANTS
    Transfers = {t1, t2}
    Descriptors = {d1, d2}
    Devices = {v1}
    Reads = {r1}
    MaxTransfers = 2
    MaxBytes = 1
    Chunk = 2
    MaxSize = 2
    MaxParts = 2
    None = None
INVARIANTS
    DescriptorsOwned
    SnapshotsAreWhole
    TransfersBelongToDevice
PROPERTIES
    CancelsOwn
    FutureCompletes
