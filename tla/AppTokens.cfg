CONSTANTS
    Req = {r1, r2}
    NoId = NoId
    NoTime = NoTime
    Installations = 2
    MaxNow = 5
    Life = 5
    Leeway = 2
    IdTTL = 1
    CallTime = 1
    RedisTime = 1
    UseTime = 2
SPECIFICATION Spec
INVARIANTS
    TypeOK
    TokenOutlivesUse
    OldIdForgotten
SYMMETRY Requests
