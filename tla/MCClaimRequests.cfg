SPECIFICATION RequestsSpec
CONSTANTS
    MaxDepth = 12
    Directory <- SmallDirectory
    Matrix <- SmallMatrix
    Claimants <- Traveller
    Lines <- TwoBills
    Mailed <- OneMailed
    Verdict <- BillsAllowed
    Allowed <- BillAmounts
    MaxReturns = 1
    Filings <- TwoFilings
    Decidings <- OneDeciding
INVARIANTS
    RequestsTypeOK
    OneLiveChain
    StatusMatchesChain
    ApprovedFiguresStand
    TrailAccountsForClaim
PROPERTIES
    FiguresHoldStill
    KeepsPromise
CHECK_DEADLOCK FALSE
