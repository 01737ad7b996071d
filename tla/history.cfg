\* Pushes one at a time, and pushes that overlap, with failures and crashes.
SPECIFICATION Spec
CONSTANTS
    Pushers = {p1, p2}
    Snapshots <- MCSnapshots
    GeneratedAt <- MCGeneratedAt
    NoSnapshot = NoSnapshot
    Circumstances <- MCCircumstances
SYMMETRY PusherSymmetry
INVARIANTS NoDuplicateEntries EntriesStored
PROPERTIES ImplementsLog TrendOrderStable
