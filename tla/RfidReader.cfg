SPECIFICATION Spec
CONSTANTS
    t1 = t1
    t2 = t2
    t3 = t3
    noise = noise
    Tags = {t1, t2, t3}
    Noise = {noise}
    TagEvents <- MCTagEvents
    Conns = {c1, c2}
    Depth = 2
    NeedCache = TRUE
    Immediate = TRUE
    MaxEvents = 3
    MaxSessions = 2
INVARIANTS
    TypeOK
    NoDoubleProcessing
    QueueFollowsPasses
    
    AckHonest
PROPERTY
    EventAnswered
