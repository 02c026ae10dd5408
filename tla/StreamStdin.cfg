SPECIFICATION Spec
CONSTANTS
    MaxCalls = 2
    MaxText = 1
    Status = {0, 1}
    Habits = {"stdin"}
CHECK_DEADLOCK FALSE
INVARIANTS
    ExitCodeOwn
