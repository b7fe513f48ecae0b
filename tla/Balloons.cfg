SPECIFICATION OrderlySpec
CONSTANTS
    t1 = t1
    t2 = t2
    w1 = w1
    w2 = w2
    operator = operator
    Tags = {t1, t2}
    NoTag = NoTag
    NoSerial = NoSerial
    Miriada = Miriada
    Web = {w1, w2}
    Scanner = Scanner
    Bodies <- MCBodies
    Known = {{t1}, {t1, t2}}
    ReaderKinds = {"empty", "other"}
    Retries = 2
    MaxRequests = 3
    MaxSilent = 1
INVARIANTS TypeOK FlagHonest StaleOnlyByOverlap
 
SYMMETRY WebSymmetry
CHECK_DEADLOCK FALSE
