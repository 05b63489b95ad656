SPECIFICATION Spec
CONSTANTS
    Requests = {r1}
    Scopes <- MCScopes
    Devices = {d1}
    NoDevice = none
    Teams = {t1}
    Uploads = {avatar}
    Exports = {x1}
    Exporters = {w1, w2}
    NoWorker = nobody
    MaxMishaps = 1
INVARIANTS
    PhasesHold
    TeamsAreBarred
    DeletedIsGone
PROPERTIES
    DeletionEnds
CHECK_DEADLOCK FALSE
