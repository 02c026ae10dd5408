SPECIFICATION Spec
CONSTANTS
    r1 = r1
    r2 = r2
    m1 = m1
    m2 = m2
    h1 = h1
    h2 = h2
    Run <- TwoRuns
    Machine <- OneMachine
    Host <- OneHost
    Image <- AllImages
    HostFiles <- OneHostFile
    Docker = TRUE
    MaxDevice = 4
    MaxRestarts = 2
CONSTRAINT SomeUncontested
CHECK_DEADLOCK FALSE
PROPERTIES
    LeavesItsKeys
    SurvivesRestart
