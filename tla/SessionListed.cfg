SPECIFICATION SessionSpec
CONSTANTS
    c1 = c1
    c2 = c2
    c3 = c3
    a = a
    local = local
    host = host
    Nil = Nil
    Call <- TwoCalls
    SessionID <- OneID
    Remote <- OneRemote
SYMMETRY Symmetry
CHECK_DEADLOCK FALSE
INVARIANTS
    ActiveSessionsListed
