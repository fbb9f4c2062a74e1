\* Three snapshots, two of them cut at the same point, two uploads at a time, and one
\* operation that fails or restart at any step, with whatever R2 still does of it later.
SPECIFICATION SnapshotSpec
CONSTANTS
    Ids <- MCIds
    Cut <- MCCut
    MaxKeys = 3
    RecentGrace = 1
    UploadLimit = 2
    MaxPins = 1
    RowLimit = 5
    MaxFaults = 1
INVARIANTS
    PromisedSnapshotsAreStored
    ObjectsAreTracked
    LatestIsNewest
PROPERTIES
    GarbageIsCollected
\* The object sleeps when nothing is left to do and the bound on keys is reached.
CHECK_DEADLOCK FALSE
