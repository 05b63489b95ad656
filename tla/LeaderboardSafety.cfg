SPECIFICATION Spec
CONSTANTS
    Days = {d1}
    Workers = {w1, w2}
    Nobody = Nobody
    MaxCounts = 1
    MaxStatuses = 1
    MaxMishaps = 1
INVARIANTS
    DrainedIsCurrent
    RankingIsCurrent
PROPERTIES
    HotNeverRewinds
SYMMETRY WorkerSymmetry
CHECK_DEADLOCK FALSE
