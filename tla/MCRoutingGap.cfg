SPECIFICATION Spec
CONSTANTS
    MaxDepth = 4
    Codes <- People
    Claimants <- Middle
    Missing <- Strangers
    Roles <- PeoplesRoles
    Matrix <- SqueezedMatrix
    Values <- SqueezedValues
INVARIANT
    EveryValueIsRouted
