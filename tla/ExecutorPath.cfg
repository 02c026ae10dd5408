SPECIFICATION Spec
CONSTANTS
    Status = {0, 1}
    MaxText = 2
CHECK_DEADLOCK FALSE
INVARIANTS
    RunsInPath
