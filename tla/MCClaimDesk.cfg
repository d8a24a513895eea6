SPECIFICATION Spec
CONSTANTS
    MaxDepth = 12
    Directory <- PackDirectory
    Matrix <- Rev4Matrix
    Claimants <- Traveller
    Lines <- PlainBills
    Mailed <- PlainMailed
    Verdict <- PlainVerdict
    Allowed <- PlainAllowed
    MaxReturns = 1
INVARIANT
    DeskMeansAwaiting
CHECK_DEADLOCK FALSE
