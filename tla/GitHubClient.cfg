CONSTANTS
    Req = {r1, r2}
    Kind = {"one", "count"}
    Pages = 1
    TTL = 2
    CountTTL = 2
    MaxAttempts = 1
    MaxPages = 1
    MaxVersion = 1
    None = None
SPECIFICATION Spec
INVARIANTS
    StalenessBounded
PROPERTIES
    OrphanedETagGoes
