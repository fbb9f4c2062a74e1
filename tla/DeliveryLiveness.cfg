SPECIFICATION FairSpec
CONSTANTS
    Clients = {c1}
    c1 = c1
    NoClient = NoClient
    MaxHead = 1
    MaxGen = 2
    MaxPairs = 1
    MaxQueue = 1
    MaxReplay = 1
    MaxOutstanding = 1
    DataBatch = FALSE
PROPERTIES
    CatchUpEnds
    PublisherResumes
    HostReadyIsAnswered
\* The bounds on the head and on generations stop the system.
CHECK_DEADLOCK FALSE
