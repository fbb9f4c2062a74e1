SPECIFICATION Spec
CONSTANTS
    MaxSets = 5
    MaxGen = 9
    MaxSeq = 1
    MaxFaults = 2
INVARIANTS
    NeverStranded
    FenceIsCurrent
    DeliveryIsCurrent
    LiveIsFed
    NothingIsSkipped
    PageKeepsProtocol
PROPERTIES
    PageRecovers
\* The page is settled, and the bounds on faults stop what could unsettle it.
CHECK_DEADLOCK FALSE
