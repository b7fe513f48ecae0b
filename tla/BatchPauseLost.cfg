CONSTANTS
    t1 = t1
    t2 = t2
    s1 = s1
    s2 = s2
    MaxBatches = 1
    Tags = {t1}
    Channels <- OneChannel
    PostingChannels <- OneReporting
    MismatchedChannels <- OneMismatched
    TtnBatches = {1}
    Sessions = {s1, s2}
    Edits <- EditsTo1
    CreateStatuses = {"active", "paused"}
    PatchStatuses = {}
    MayCrash = FALSE
    MaxCount = 1
    MaxSensor = 1
SPECIFICATION Spec
CHECK_DEADLOCK FALSE
SYMMETRY ConcurrentSymmetry
PROPERTIES
    PauseSticks
