SPECIFICATION Spec
CONSTANTS
    MaxDepth = 12
    Directory <- PackDirectory
    Matrix <- Rev4Matrix
    Claimants <- Manager
    Lines <- PlainBills
    Mailed <- PlainMailed
    Verdict <- PlainVerdict
    Allowed <- PlainAllowed
    MaxReturns = 1
INVARIANT
    FrontCanApprove
CHECK_DEADLOCK FALSE
