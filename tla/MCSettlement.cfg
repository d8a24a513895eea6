SPECIFICATION Spec
CONSTANTS
    RoomRows <- Room
    TariffLimit = 6
    MealCap = 10
    BillAbove = 5
    ApprovalAbove = 8
    NeverPaid <- Personal
    Trips <- SmallAndFolio
    Files <- Places
    Senders <- Claimant
    Days <- TripDays
    Nights <- TripNights
    FoodRows <- Food
    LodgingRows <- Lodging
    Advance = 30
    MaxChanges = 2
INVARIANTS
    SettlementTypeOK
    RunningTotalWithinCap
    DayIsCapped
    NetIsWhatIsAllowed
    NeverMoreThanTheBills
    WholeBillIsClaimed
    ForwardsUnderOneNameArePaidOnce
    WithdrawingNeverPaysMore
CHECK_DEADLOCK FALSE
