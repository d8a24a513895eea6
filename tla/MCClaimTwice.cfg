SPECIFICATION RequestsSpec
CONSTANTS
    MaxDepth = 12
    Directory <- SmallDirectory
    Matrix <- SmallMatrix
    Claimants <- Traveller
    Lines <- TwoBills
    Mailed <- OneMailed
    Verdict <- BillsAllowed
    Allowed <- BillAmounts
    MaxReturns = 1
    Filings <- OneFiling
    Decidings <- TwoDecidings
INVARIANT
    OneDecisionPerStep
CHECK_DEADLOCK FALSE
