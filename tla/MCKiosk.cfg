SPECIFICATION KioskSpec
CONSTANTS
    Lanes = {1, 2}
    Heats = {1, 2}
    MaxFrames = 3
    MaxEvents = 2
    Corrections = FALSE
    SavesInUse = FALSE
    SavesMidFetch = FALSE
    RestartsMidRace = FALSE
    TestsUnheard = FALSE
INVARIANT BoardIsServers
 
PROPERTY CatchesUp
