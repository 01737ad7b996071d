CONSTANTS
    Clients = {c1, c2}
    Tags = {"latest"}
    Accepts = {"any", "image"}
    Digests = {"index", "image"}
    Served <- MCServed
    None = "none"
    MaxMoves = 1
SPECIFICATION Spec
INVARIANT EntriesAreServed
PROPERTY OneViewOfTags
SYMMETRY MCSymmetry
