CONSTANTS
    Top = "top"
    NameOf <- MCNames
    Images <- MCImages
    Policies <- MCPolicies
    MaxListFaults = 1
    MaxLookupFaults = 2
SPECIFICATION Spec
INVARIANTS
     RefusedDecidesNothing
\* An image is done once its verdict is reached.
CHECK_DEADLOCK FALSE
