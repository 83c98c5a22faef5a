SPECIFICATION FollowSpec
CONSTANTS
    Lists <- Exported
    Ids = {1, 2}
    Leads <- Asked
    Holds = {TRUE, FALSE}
    MaxNow = 1
    MaxNamed = 3
    MaxCrashes = 1
    MaxPuts = 2
    Overlaps = FALSE
    ReadsSlowly = FALSE
    Unheard = FALSE
    HandOverFails = FALSE
    StaleBase = FALSE
    SweepsEarly = FALSE
INVARIANTS ToldOnce FollowKept
PROPERTY UpcomingTold
