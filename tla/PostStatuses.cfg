CONSTANTS
    NJobs = 4
    Workers = 2
    Retries = 1
SPECIFICATION Spec
CHECK_DEADLOCK FALSE
INVARIANTS
    TypeOK
    ResultIsTrue
    CancelledNeverPosted
PROPERTIES
    QuietAfterReturn
    Returns
    ImplementsPass
