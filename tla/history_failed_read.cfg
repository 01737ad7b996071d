\* One push at a time, one failed read of the index.
SPECIFICATION Spec
CONSTANTS
    Pushers = {p1, p2}
    Snapshots <- MCSnapshots
    GeneratedAt <- MCGeneratedAt
    NoSnapshot = NoSnapshot
    Circumstances <- MCFailedRead
SYMMETRY PusherSymmetry
PROPERTIES HistoryGrows
