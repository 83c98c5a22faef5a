SPECIFICATION FairSpec
CONSTANTS
    h1 = h1
    h2 = h2
    RunningOrder <- MCRunningOrder
    BoardLanes = {l1}
    Unlisted = {h3}
    TestRace = TestRace
    NoHeat = NoHeat
    MaxGen = 3
    MaxCmds = 1
INVARIANTS
    RaceStateAgrees
    TimersSpeakForBoard
    TestRaceNotPublished
PROPERTIES
    PublishedInOrder
    EdgesDecided
