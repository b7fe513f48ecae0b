SPECIFICATION WiresSpec
CONSTANTS
    Requests <- MCRequests
    Passports <- MCPassports
    Settings <- MCSettings
    Sizes = {4, 8}
    StaleTicks = 3
    MaxFrames = 3
    MaxDamages = 1
    Events <- MCEvents
    Segments = {3, 5, 8}
    MaxCommands = 3
INVARIANTS WiresTypeOK EventsExact AcksInOrder AnswersMatch
           OnlySentAccepted FramesIntact SilenceClears 
CHECK_DEADLOCK FALSE
