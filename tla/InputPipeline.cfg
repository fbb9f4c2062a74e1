\* One browser that reconnects, and a host that reconnects: two keys under one or two
\* fences, and every loss of either connection.
SPECIFICATION PipelineSpec
CONSTANTS
    Clients = {b1}
    NoClient = NoClient
    MaxConns = 2
    MaxFence = 2
    MaxIntents = 2
    MaxPending = 2
    DedupEntries = 1
    MaxLinks = 2
\* The bounds on connections, fences and keys stop the system.
CHECK_DEADLOCK FALSE
INVARIANTS
    WelcomesAreFresh
PROPERTIES
    InputContract
