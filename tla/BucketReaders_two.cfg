SPECIFICATION ReadersSpec
CONSTANTS
    Writer = {w1, w2}
    NoOne = NoOne
    Row = {r1}
    Idle = {}
    Call = {}
    Floor = {}
    MaxRetries = 1
    LostReplies = FALSE
    Resends = FALSE
    SlowRelease = FALSE
    MaxEtag = 2
    MaxRenewed = 0
    Mortal = {}
    CompactAt = 1
    MaxStamps = 1
    EarlyClose = FALSE
    Seeded = TRUE
    MaxVersions = 3
    Refresher = {f1, f2}
    NumericEtags = TRUE
    Punctual = TRUE
SYMMETRY Symmetry
CHECK_DEADLOCK FALSE
INVARIANTS CollectsGarbage ReplicaServesCommits
PROPERTY ReplicaNeverBack
