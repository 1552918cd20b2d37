SPECIFICATION Spec
CONSTANTS
    Archiver = {a1, a2}
    Sweeper = {s1, s2}
    Policy <- MCPolicy
    MinDays = 1
    BucketDays = 2
    MaxAttempts = 2
    Skewed = FALSE
    Reseeded = FALSE
    MaxCommits = 3
    MaxDay = 3
SYMMETRY Symmetry
CHECK_DEADLOCK FALSE
INVARIANTS RestoreGetsLatest ToldIsKept DanglingIsCondemned
PROPERTY SweepSpares
