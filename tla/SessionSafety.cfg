SPECIFICATION SessionSpec
CONSTANTS
    c1 = c1
    c2 = c2
    c3 = c3
    a = a
    local = local
    host = host
    Nil = Nil
    Call <- ThreeCalls
    SessionID <- OneID
    Remote <- TwoRemotes
SYMMETRY Symmetry
CHECK_DEADLOCK FALSE
INVARIANTS
    TypeOK
    OneReader
    RequestedTarget
    LockHeldByWorker
    MappedSessionsOpen
    FailedSessionRetired
    NoOrphanShell
PROPERTIES
    SerialShell
