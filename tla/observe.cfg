CONSTANTS
    Workers = {w1, w2}
    Refs = {"a", "b"}
    Digests = {"d1", "d2"}
    NoDigest = "none"
    Inventories <- MCInventories
    MaxRuns = 2
    MaxMoves = 1
    MaxFaults = 1
SPECIFICATION FairObserveSpec
PROPERTIES ObservedInThisRun RunsEnd
\* No run starts after the last.
CHECK_DEADLOCK FALSE
