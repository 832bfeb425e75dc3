CONSTANTS
    Req = {r1}
    Kind = {"list", "search"}
    Pages = 2
    TTL = 2
    CountTTL = 2
    MaxAttempts = 2
    MaxPages = 2
    MaxVersion = 1
    None = None
SPECIFICATION Spec
INVARIANTS
    TypeOK
    ServedAsConfirmed
PROPERTIES
    ReadingEnds
