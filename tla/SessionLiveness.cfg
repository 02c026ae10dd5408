SPECIFICATION FairSpec
CONSTANTS
    c1 = c1
    c2 = c2
    c3 = c3
    a = a
    local = local
    host = host
    Nil = Nil
    Call <- TwoCalls
    SessionID <- OneID
    Remote <- OneRemote
CHECK_DEADLOCK FALSE
PROPERTIES
    EveryCallReturns
    ReadersStop
    IdleSessionsForgotten
    ImplementsPersistentShell
