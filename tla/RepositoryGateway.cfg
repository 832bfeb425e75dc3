CONSTANTS
    Req = {r1, r2}
    Asked <- OneOfEach
    MaxAttempts = 2
SPECIFICATION Spec
INVARIANTS
    TypeOK
    TrailFaithful
    SuccessIsTrue
PROPERTY RequestEnds
CHECK_DEADLOCK FALSE
