CONSTANTS
    Images = {A, B}
    Released = A
    Classes = {"ours", "more", "scan", "sbom", "untyped", "garbage", "signature", "recipe"}
    Form <- MCForm
    Ours = {"ours", "more"}
    Before <- MCBefore
    Clients = {c1, c2}
    FreshDir = TRUE
    MaxWrites = 2
    MaxReads = 1
    MaxTrouble = 2
SPECIFICATION Spec
INVARIANTS FoundOrUnknown ReportedIsListed ExportIsTrue
PROPERTIES ExportIsWhole ImportRestores
SYMMETRY Commands
CHECK_DEADLOCK FALSE
