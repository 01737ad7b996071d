CONSTANTS
    Times <- MCTimes
    NoFile = NoFile
    Torn = Torn
    MaxJobs = 5
    MaxRequestFaults = 2
    MaxCancels = 2
    MaxTornWrites = 2
SPECIFICATION JobSpec
INVARIANT HistoryInOrder
PROPERTIES HistoryKept UnreadableStays
\* No job starts after the last.
CHECK_DEADLOCK FALSE
