SPECIFICATION Spec
CONSTANTS
    MaxDepth = 12
    Directory <- PackDirectory
    Matrix <- Rev4Matrix
    Claimants <- FinanceHead
    Lines <- PlainBills
    Mailed <- PlainMailed
    Verdict <- PlainVerdict
    Allowed <- LargeAllowed
    MaxReturns = 1
INVARIANT
    NobodyApprovesTheirOwn
CHECK_DEADLOCK FALSE
