CONSTANTS
    Repositories <- MCRepositories
    TagNames <- MCTagNames
    Sidecars = {4}
    Selected = {1, 2, 3, 4}
    Sanitized <- MCSanitized
    Words <- MCWords
    Contents = {"c1", "c2", "c3", "c4"}
    Released = {"c1", "c2", "c3"}
    Published <- MCPublished
    PageSize = 2
    MaxTags = 2
    MaxFaults = 1
    MaxChanges = 2
    LayersOf <- MCLayers
    RecordedIn <- MCRecorded
    AttachedTo <- MCAttached
    Scoped = {9}
    Workers = {"w1", "w2"}
    Budgets = {3, 10}
    MinSimilarity = 50
    MaxPairs = 1
SPECIFICATION Spec
INVARIANTS NoTagMissed ListedWasThere PackagesAreItsContents
    FetchedOnce WidestLeftOut ScoresAreShares ClustersAreConnected
\* A run of the commands ends with its report, or without any image.
CHECK_DEADLOCK FALSE
