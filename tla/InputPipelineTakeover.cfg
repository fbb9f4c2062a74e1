\* Two browsers that take the lease from one another while their keys are on the way.
SPECIFICATION PipelineSpec
CONSTANTS
    Clients = {b1, b2}
    NoClient = NoClient
    MaxConns = 1
    MaxFence = 2
    MaxIntents = 1
    MaxPending = 1
    DedupEntries = 1
    MaxLinks = 1
\* The bounds on connections, fences and keys stop the system.
CHECK_DEADLOCK FALSE
SYMMETRY Symmetry
INVARIANTS
    FencesReachHostInOrder
PROPERTIES
    InputContract
