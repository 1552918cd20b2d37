SPECIFICATION FairSpec
CONSTANTS
    Handler = {h1, h2}
    Nobody = Nobody
    MaxSent = 3
    MaxEvictions = 1
CHECK_DEADLOCK FALSE
INVARIANT OrphansExplained
PROPERTIES TxIsolated TxWhole EveryoneServed
