SPECIFICATION Spec
CONSTANTS
    file = file
    variable = variable
    directory = directory
    Executors = {x, y}
    Plan <- MCPlan
    Kind <- MCKind
    Existing = {file}
    Edits = {e}
    Missing = missing
    MaxMishaps = 1
INVARIANTS
    RollbackReachesAll
PROPERTIES
    OnlyUnseenEditsAreLost
CHECK_DEADLOCK FALSE
