SPECIFICATION Spec
CONSTANTS
    Posts = {p1, p2}
    MaxBalloons = 2
    MaxSends = 2
    Prompt = TRUE
INVARIANTS
    TypeOK
    OneTakePerRequest
    OwnPassport
    AnswerMatchesRecord
    FullWeightOwn
