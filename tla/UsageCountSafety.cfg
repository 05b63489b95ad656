SPECIFICATION Spec
CONSTANTS
    Events = {1, 2, 3}
    Devices = {a, b}
    Grains = {day, hour}
    a = a
    b = b
    h1 = h1
    c1 = c1
    day = day
    hour = hour
    NoHash = NoHash
    Zero = Zero
    NoTask = NoTask
    Due = Due
    NoDevice = NoDevice
    DeviceOf <- MCDeviceOf
    FactOf <- MCFactOf
    RevisionOf <- MCRevisionOf
    IdentityOf <- MCIdentityOf
    ContentOf <- MCContentOf
    MaxBatch = 2
    MaxUploads = 2
    MaxClaims = 2
    MaxDeletions = 1
    MaxMishaps = 0
INVARIANTS
    BucketsAreApplied
    OneRevisionCounts
    CountedTwiceOnlyIfLate
    LostOnlyForAReason
SYMMETRY GrainSymmetry
CHECK_DEADLOCK FALSE
