\* Two browsers with data batching: frames wait for the one credit.
SPECIFICATION Spec
CONSTANTS
    Clients = {c1, c2}
    c1 = c1
    c2 = c2
    NoClient = NoClient
    MaxHead = 1
    MaxGen = 1
    MaxPairs = 1
    MaxQueue = 1
    MaxReplay = 1
    MaxOutstanding = 1
    DataBatch = TRUE
SYMMETRY Symmetry
INVARIANTS
    StreamIsContiguous
    OnePinnedDelivery
\* The bounds on the head and on generations stop the system.
CHECK_DEADLOCK FALSE
