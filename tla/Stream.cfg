SPECIFICATION Spec
CONSTANTS
    MaxCalls = 2
    MaxText = 2
    Status = {0, 1}
    Habits = {"background", "partial", "stdin", "derail"}
CHECK_DEADLOCK FALSE
INVARIANTS
    TypeOK
    OutputIsolated
    OutputWhole
    ExitCodeKept
    AnsweredUnlessDisturbed

    
