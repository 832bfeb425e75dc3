CONSTANTS
    State = {s1, s2}
    Code = {c1, c2}
    Identity = {i1}
    User = {u1, u2}
    Link = {l1}
    Req = {r1, r2}
    None = None
    StateTTL = 1
    MaxTime = 2
SPECIFICATION Spec
SYMMETRY Symmetry
INVARIANT SingleUse
CHECK_DEADLOCK FALSE
