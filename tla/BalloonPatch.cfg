SPECIFICATION OrderlySpec
CONSTANTS
    t1 = t1
    t2 = t2
    w1 = w1
    w2 = w2
    operator = operator
    Tags = {t1}
    NoTag = NoTag
    NoSerial = NoSerial
    Miriada = Miriada
    Web = {w1}
    Scanner = Scanner
    Known = {{t1}}
    Bodies <- DocumentedBodies
    ReaderKinds = {"empty"}
    Retries = 2
    MaxRequests = 2
    MaxSilent = 0
CHECK_DEADLOCK FALSE
PROPERTY PatchKeepsBalloon
