SPECIFICATION DecodersSpec
CONSTANTS
    Lanes <- ThreeLanes
    Swimmers <- TwoHeats
    Legs = 2
    Kinds = {"quantum", "alge", "seiko", "dolphin", "rtd", "ares", "swisslane", "swissrank", "gen6", "gen7"}
    MaxRaces = 3
    MaxLost = 1
    PostsByPlace = FALSE
    GivesUpLate = FALSE
    SlowReset = FALSE
    KnownLists = {TRUE, FALSE}
INVARIANT RaceIsDecoded
CHECK_DEADLOCK FALSE
