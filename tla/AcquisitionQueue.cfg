SPECIFICATION Spec
CONSTANTS
    log = log
    store = store
    harness = harness
    Sources <- MCSources
    Harnesses <- MCHarnesses
    HarnessOf <- MCHarnessOf
    Jsonl <- MCJsonl
    Undecodable <- MCUndecodable
    MaxLen <- MCMaxLen
    Workers = {w1, w2}
    GlobalLimit = 2
    PerHarness = 2
    FairEvery = 2
    Budget = 1
    MaxMishaps = 1
INVARIANTS
    QueueIsSound
PROPERTIES
    EveryRecordIsRead
CHECK_DEADLOCK FALSE
