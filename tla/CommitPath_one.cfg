SPECIFICATION Spec
CONSTANTS
    Req = {r1, r2, r3, r4}
    Idle = {r4}
    MaxOpen = 1
    Durability = "strict"
    CompactAt = 2
    RebaseLimit = 6
    LostReplies = FALSE
    MaxLives = 3
    MaxPads = 1
SYMMETRY Symmetry
CHECK_DEADLOCK FALSE
INVARIANTS StrictAck 
