SPECIFICATION Spec
CONSTANTS
    Runners = {r1, r2}
    Tokens = {t1, t2}
    NoToken = NoToken
    Budget = 2
    MaxLen = 3
    MaxSeq = 3
    MaxDay = 2
INVARIANTS
    TypeOK
    ReadOnce
    RebuildKeepsAll
PROPERTIES
    CommitsOnItsCheckpoint
    ReadAsPromised
SYMMETRY Interchangeable
CHECK_DEADLOCK FALSE
