CONSTANTS
    Images = {"app", "rebased", "again"}
    Estate = {"rebased", "again"}
    Held <- MCHeld
    Stacks = {"v1", "v2"}
    NoStack = "none"
    Policies = {TRUE, FALSE}
    MaxHops = 2
    Answers = {"rebased", "again"}
    MaxFaults = 1
SPECIFICATION Spec
INVARIANTS StackRestsOnVerified NoConsumerLost ReproductionRests
PROPERTIES StacksReported
CHECK_DEADLOCK FALSE
