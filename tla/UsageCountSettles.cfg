SPECIFICATION Spec
CONSTANTS
    Events = {1, 2}
    Devices = {a, b}
    Grains = {day}
    a = a
    b = b
    h1 = h1
    c1 = c1
    day = day
    hour = hour
    NoHash = NoHash
    Zero = Zero
    NoTask = NoTask
    Due = Due
    NoDevice = NoDevice
    DeviceOf <- MCDeviceOf
    FactOf <- MCFactOf
    RevisionOf <- MCRevisionOf
    IdentityOf <- MCIdentityOf
    ContentOf <- MCContentOf
    MaxBatch = 1
    MaxUploads = 2
    MaxClaims = 2
    MaxDeletions = 1
    MaxMishaps = 1
INVARIANTS
    RowsAreConsistent
PROPERTIES
    EveryTaskSettles
CHECK_DEADLOCK FALSE
