SPECIFICATION Spec
CONSTANTS
    Numbers = {1, 2}
    Existing = {1}
    w1 = w1
    w2 = w2
    WebThreads = {w1, w2}
    r1 = r1
    r2 = r2
    Readers = {r1, r2}
    Main = Main
    Kinds = {"api", "admin", "delete"}
    MaxWrites = 2
    MaxFailures = 1
SYMMETRY ThreadSymmetry
\* The writes are bounded; a listener without a carousel ends.
CHECK_DEADLOCK FALSE
INVARIANTS
    TypeOK
    HashFollowsRows
    StoreFollowsHash
