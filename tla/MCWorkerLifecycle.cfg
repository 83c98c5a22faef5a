SPECIFICATION FairWireSpec
CONSTANTS
    Threads = {w1, w2, w3}
    Restarts = {r1, r2}
    Sockets = {c1}
    Sessions = {rec}
    None = None
    Overlap = FALSE
    Setups <- MCSetups
    r1 = r1
    Size = 2
    MaxBytes = 3
    Slow = FALSE
    OwnPauses = FALSE
    EmptyTape = FALSE
CHECK_DEADLOCK FALSE
INVARIANT
    OneOwner
    PacketsAsSent
PROPERTY
    RestartServed
    
