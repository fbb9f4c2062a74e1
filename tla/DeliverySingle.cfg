SPECIFICATION Spec
CONSTANTS
    Clients = {c1}
    c1 = c1
    NoClient = NoClient
    MaxHead = 2
    MaxGen = 2
    MaxPairs = 2
    MaxQueue = 1
    MaxReplay = 1
    MaxOutstanding = 1
    DataBatch = FALSE
INVARIANTS
    SyncedIsCurrent
    PauseHasOwner
    RecoveryIsAccepted
    PinPausesStream
PROPERTIES
    DeliveryIsContiguous
\* The bounds on the head, generations and host pairs stop the system.
CHECK_DEADLOCK FALSE
