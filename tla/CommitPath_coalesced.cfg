SPECIFICATION Spec
CONSTANTS
    Req = {r1, r2}
    Idle = {}
    MaxOpen = 2
    Durability = "strict"
    CompactAt = 1
    RebaseLimit = 6
    LostReplies = FALSE
    MaxLives = 1
    MaxPads = 0
SYMMETRY Symmetry
CHECK_DEADLOCK FALSE
INVARIANT StrictAck
