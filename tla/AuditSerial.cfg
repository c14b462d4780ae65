SPECIFICATION Spec
CONSTANTS
    r1 = r1
    r2 = r2
    s1 = s1
    s2 = s2
    granted = granted
    calculated = calculated
    Recorders <- MCRecorders
    Contents <- MCContents
    SessionIds <- TwoSessions
    OneAtATime = TRUE
    MaxEvents = 4
    MaxEdits = 2
INVARIANTS
    TypeOK
    ChainVerifies
    VouchedRowsRecorded
CHECK_DEADLOCK FALSE
