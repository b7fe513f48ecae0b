CONSTANTS
    t1 = t1
    t2 = t2
    s1 = s1
    s2 = s2
    MaxBatches = 2
    Tags = {t1, t2}
    Channels <- SequentialChannels
    PostingChannels <- SequentialReporting
    MismatchedChannels <- SequentialMismatched
    TtnBatches = {1}
    Sessions = {s1}
    Edits <- EditsTo2
    CreateStatuses = {"active", "paused"}
    PatchStatuses = {}
    MayCrash = FALSE
    MaxCount = 2
    MaxSensor = 1
SPECIFICATION Spec
CHECK_DEADLOCK FALSE
SYMMETRY SequentialSymmetry
INVARIANTS
    
    OneActivePerChannel
    SentCoversList
PROPERTIES
    ImplementsLedger
