CONSTANTS
    t1 = t1
    t2 = t2
    s1 = s1
    s2 = s2
    MaxBatches = 1
    Tags = {t1}
    Channels <- ConcurrentChannels
    PostingChannels <- ConcurrentReporting
    MismatchedChannels <- ConcurrentMismatched
    TtnBatches = {1}
    Sessions = {s1, s2}
    Edits <- EditsTo1
    CreateStatuses = {"active", "paused"}
    PatchStatuses = {"active", "paused"}
    MayCrash = TRUE
    MaxCount = 1
    MaxSensor = 0
SPECIFICATION Spec
CHECK_DEADLOCK FALSE
SYMMETRY ConcurrentSymmetry
INVARIANTS
    TypeOK
    CloseFlagAgrees
    TtnClosedAfterPass
    
