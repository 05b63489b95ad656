SPECIFICATION Spec
CONSTANTS
    Days = {d1}
    Workers = {w1, w2}
    Nobody = Nobody
    MaxCounts = 2
    MaxStatuses = 0
    MaxMishaps = 1
INVARIANTS
    NoDayForgotten
PROPERTIES
    ConfirmsWhatItRead
    EverythingIsDelivered
CHECK_DEADLOCK FALSE
