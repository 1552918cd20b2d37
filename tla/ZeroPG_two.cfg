SPECIFICATION Spec
CONSTANTS
    Writer = {w1, w2}
    NoOne = NoOne
    Row = {r1, r2, r3}
    Idle = {r3}
    Call = {c1}
    Floor = {}
    MaxRetries = 2
    LostReplies = FALSE
    Resends = FALSE
    SlowRelease = FALSE
    MaxEtag = 3
    MaxRenewed = 1
    Mortal = {}
    CompactAt = 2
    MaxStamps = 3
    EarlyClose = FALSE
    Seeded = TRUE
    MaxVersions = 3
SYMMETRY Symmetry
CHECK_DEADLOCK FALSE
INVARIANTS  Restorable NoKeyClash
PROPERTY ImplementsLog
