SPECIFICATION FairSpec
CONSTANTS
    MaxDepth = 12
    Directory <- PackDirectory
    Matrix <- Rev4Matrix
    Claimants <- Manager
    Lines <- Bills
    Mailed <- MailedBills
    Verdict <- BillVerdict
    Allowed <- BillAllowed
    MaxReturns = 1
INVARIANTS
    TypeOK
    OneLiveChain
    DecidedInOrder
    StatusMatchesChain
    ApprovedFiguresStand
    VerifiedWasEarned
    StuckExactlyWhenUnasked
    BusinessLevelsAreOthers
    TrailAccountsForClaim
PROPERTIES
    HistoryStands
    FiguresHoldStill
    EveryoneIsTold
    KeepsPromise
    ClaimsMoveOn
CHECK_DEADLOCK FALSE
