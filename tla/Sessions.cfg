CONSTANTS
    Token = {t1, t2, t3}
    Sid = {s1, s2}
    Req = {r1, r2}
    None = None
    IdleTimeout = 2
    SessionTTL = 3
    RotationPeriod = 1
    MaxTime = 3
    MaxRequests = 4
SPECIFICATION Spec
SYMMETRY Symmetry
INVARIANTS
    TypeOK
    RecordsFaithful
    HandedHasRow
    RotationExclusive
PROPERTIES
    AdmittedInLifetime
    ImplementsLifecycle
CHECK_DEADLOCK FALSE
