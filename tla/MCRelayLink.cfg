SPECIFICATION FairSpec
CONSTANTS
    Threads = {t1, t2}
    Meets = {m1, m2}
    Keys = {k1, k2}
    None = None
    Allowed = {}
    MaxFrames = 2
    MaxHeats = 1
    MaxDrops = 1
    MaxOps = 2
CHECK_DEADLOCK FALSE
INVARIANT
    OneThread
PROPERTIES
    PromiseKept
    CatchesUp
