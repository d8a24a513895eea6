SPECIFICATION Spec
CONSTANTS
    RoomRows <- Room
    TariffLimit = 6
    MealCap = 10
    BillAbove = 5
    ApprovalAbove = 8
    NeverPaid <- Personal
    Trips <- LunchAndFolio
    Files <- Places
    Senders <- Claimant
    Days <- TripDays
    Nights <- TripNights
    FoodRows <- Food
    LodgingRows <- Lodging
    Advance = 30
    MaxChanges = 1
INVARIANT
    ForwardsArePaidOnce
CHECK_DEADLOCK FALSE
