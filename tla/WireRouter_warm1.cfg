SPECIFICATION FairSpec
CONSTANTS
    Conn = {c1, c2, c3}
    Db = {d1, d2}
    None = None
    MaxWarm = 1
CHECK_DEADLOCK FALSE
INVARIANTS  WithinCapacity LossExplained 
PROPERTY EveryConnectionSettles
