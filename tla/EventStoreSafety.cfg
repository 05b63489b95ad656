SPECIFICATION Spec
CONSTANTS
    u1 = u1
    u2 = u2
    k = k
    f1 = f1
    f2 = f2
    s1 = s1
    Events = {u1, u2, k}
    MetricLanes = {day}
    Upload = upload
    Tokens = {t1, t2}
    NoToken = NoToken
    NoKey = NoKey
    Applicable <- MCApplicable
    Fact <- MCFact
    Revision <- MCRevision
    Revised = {u1, u2}
    SessionKey <- MCSessionKey
    CostScope <- MCNoKey
    SkillEvents = {k}
INVARIANTS
    TypeOK
    NoLaneForgotten
    CountedExactlyOnce
    LossIsReported
    NewestRevisionCounts
PROPERTIES
    OnlyHolderSettles
    SettledLanesStay
SYMMETRY TokenSymmetry
CHECK_DEADLOCK FALSE
