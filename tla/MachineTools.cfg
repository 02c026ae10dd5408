SPECIFICATION Spec
CONSTANTS
    r1 = r1
    r2 = r2
    m1 = m1
    m2 = m2
    h1 = h1
    h2 = h2
    Run <- TwoRuns
    Machine <- TwoMachines
    Host <- TwoHosts
    Image <- OneImage
    HostFiles = {}
    Docker = TRUE
    MaxDevice = 4
    MaxRestarts = 1
SYMMETRY Symmetry
CONSTRAINT SomeUncontested
CHECK_DEADLOCK FALSE
INVARIANTS
    TypeOK
PROPERTIES
    LeavesOneDevice
    DeletesNamesakes
