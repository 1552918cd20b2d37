SPECIFICATION LeaseFairSpec
CONSTANTS
    Writer = {w1, w2}
    NoOne = NoOne
    Call = {c1}
    Floor = {0, 2}
    MaxRetries = 2
    LostReplies = FALSE
    Resends = FALSE
    SlowRelease = TRUE
    MaxEtag = 8
    MaxRenewed = 4
CHECK_DEADLOCK FALSE
INVARIANT LeaseTypeOK
PROPERTIES TokenRises ZombieForGood FencedOnlyIfTakenOver DeadHolderReplaced
