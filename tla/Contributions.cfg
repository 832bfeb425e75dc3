CONSTANTS
    shared = shared
    recent = recent
    current = current
    past = past
    Day = {shared, recent}
    Label = {current, past}
    Window <- Windows
    Worker = {w1, w2}
    Req = {r1, r2}
    None = None
    MaxHub = 1
    MaxRequests = 3
SPECIFICATION Spec
SYMMETRY Symmetry
INVARIANT TypeOK
PROPERTIES
    NoDayLost
    RefreshIsWhole
    NoRegress
CHECK_DEADLOCK FALSE
