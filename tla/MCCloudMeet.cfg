SPECIFICATION Spec
CONSTANTS
    w1 = w1
    w2 = w2
    n1 = n1
    n2 = n2
    Workers = {w1, w2}
    Nodes = {n1, n2}
    NodeOf <- TwoNodes
    First = {w1, w2}
    Sockets = {s1, s2}
    None = None
    MaxFrames = 1
    MaxEvents = 1
    BeatsAtOnce = 1
    Overtaking = FALSE
    BeatRaces = FALSE
    LongOutages = FALSE
    MovesAgain = FALSE
INVARIANT RowNamesHolder
INVARIANT AttendeeSeesHolder
INVARIANT StoreSaysLive
SYMMETRY Alike
