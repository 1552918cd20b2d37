SPECIFICATION FairSpec
CONSTANTS
    Req = {r1, r2}
    Idle = {}
    MaxOpen = 2
    Durability = "strict"
    CompactAt = 1
    RebaseLimit = 6
    LostReplies = TRUE
    MaxLives = 2
    MaxPads = 0
CHECK_DEADLOCK FALSE
INVARIANT BucketIsPrefix
PROPERTIES  EveryWaiterAnswered
