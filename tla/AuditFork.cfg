SPECIFICATION Spec
CONSTANTS
    r1 = r1
    r2 = r2
    s1 = s1
    s2 = s2
    granted = granted
    calculated = calculated
    Recorders <- MCRecorders
    Contents <- MCContents
    SessionIds <- OneSession
    OneAtATime = FALSE
    MaxEvents = 2
    MaxEdits = 0
INVARIANTS
    ChainVerifies
CHECK_DEADLOCK FALSE
