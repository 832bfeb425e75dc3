CONSTANTS
    State = {s1, s2}
    Code = {c1, c2}
    Identity = {i1, i2}
    User = {u1, u2}
    Link = {l1}
    Req = {r1, r2}
    None = None
    StateTTL = 0
    MaxTime = 0
SPECIFICATION Spec
SYMMETRY Symmetry
INVARIANT CredentialOfIdentity
PROPERTY ImplementsOwnership
CHECK_DEADLOCK FALSE
