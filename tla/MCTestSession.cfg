SPECIFICATION FairSpec
CONSTANTS
    Recordings = {own, other, bare}
    Foreign = {other, bare}
    WithMeet = {own, other}
    ConsoleHeats = {k1, k2}
    ReplayHeats = {r1}
    NoHeat = NoHeat
    None = None
    Allowed = {}
    MaxPlays = 3
INVARIANTS
    SessionUndone
    ReplayStaysLocal
PROPERTY
    CloudReturns
