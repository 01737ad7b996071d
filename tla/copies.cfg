CONSTANTS
    Kinds = {"signature", "scan"}
    Certs <- MCCerts
    NoCert = "none"
    Keys <- MCKeys
    Keyless <- MCKeyless
    Nobody = "nobody"
    Contents <- MCContents
    ScanTime <- MCScanTime
    FlagIdentities <- MCFlagIdentities
    Accepts <- MCAccepts
    Constrained <- MCConstrained
    FromElsewhere <- MCFromElsewhere
    Refused <- MCRefused
    CopyOptions <- MCCopyOptions
    MaxCopies = 3
    SignerLists <- MCSignerLists
    MaxFaults = 1
SPECIFICATION Spec
INVARIANTS
    VerifiedIsVouched NoCrowdingOut NothingNewerVouched
    MadeUpCostsNothing
PROPERTY Decided
\* verifyEvidence returns.
CHECK_DEADLOCK FALSE
