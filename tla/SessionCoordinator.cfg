SPECIFICATION Spec
CONSTANTS
    MaxGen = 3
    MaxSeq = 3
    MaxBuffered = 2
INVARIANTS
    ReplicaIsAuthorityPrefix
    LiveIsCaughtUp
    BufferWithinBudget
PROPERTIES
    AcknowledgementsAdvance
    RestoreEnds
\* A closed coordinator stops.
CHECK_DEADLOCK FALSE
