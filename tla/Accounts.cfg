CONSTANTS
    Req = {r1, r2, r3}
    Address = {a, A}
    Email = {e}
    Lower <- Lowered
    None = None
    Never = Never
    Bucket <- Buckets
    Limit = 1
    Window = 2
    MaxNow = 3
SPECIFICATION Spec
INVARIANTS
    TypeOK
    SpanBounded
    CreatedIsMine
    VerifiedForGood
PROPERTY ImplementsAtomic
SYMMETRY Symmetry
CHECK_DEADLOCK FALSE
