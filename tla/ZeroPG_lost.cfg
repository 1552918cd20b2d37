SPECIFICATION Spec
CONSTANTS
    Writer = {w1, w2}
    NoOne = NoOne
    Row = {r1, r2}
    Idle = {}
    Call = {}
    Floor = {}
    MaxRetries = 2
    LostReplies = TRUE
    Resends = TRUE
    SlowRelease = FALSE
    MaxEtag = 2
    MaxRenewed = 2
    Mortal = {w1, w2}
    CompactAt = 1
    MaxStamps = 3
    EarlyClose = FALSE
    Seeded = FALSE
    MaxVersions = 3
SYMMETRY Symmetry
CHECK_DEADLOCK FALSE
INVARIANTS TypeOK AckedDurable
