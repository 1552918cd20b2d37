SPECIFICATION FairSpec
CONSTANTS
    Conn = {c1}
    Slots = 1
    Tick = {t1, t2}
    Call = {f1}
    MaxSig = 1
    WithRest = TRUE
    MaxWrites = 2
    MaxFaults = 1
INVARIANTS ShutdownKeeps 
PROPERTIES  ShutdownEnds
CHECK_DEADLOCK FALSE
