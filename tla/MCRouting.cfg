SPECIFICATION Spec
CONSTANTS
    MaxDepth = 4
    Codes <- People
    Claimants <- Middle
    Missing <- Strangers
    Roles <- PeoplesRoles
    Matrix <- SqueezedMatrix
    Values <- SqueezedValues
INVARIANTS
    BrokenLinesAreRefused
    LevelsComeFromAbove
    LevelsAscend
PROPERTY
    MoreMoneyNeverShedsALevel
