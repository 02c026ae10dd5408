SPECIFICATION FairSpec
CONSTANTS
    Character <- MCCharacters
    Requests <- MCRequests
    Environments <- MCEnvironments
    SessionIDs = {"s1"}
    MaxDuration = 127
    Second = 10
    DefaultSeconds = 3
    Missing = Missing
    Nil = Nil
    MaxPolls = 2
    MaxFaults = 1
INVARIANTS
    TypeOK
    GrammarParsed
    CdGoesToPath
    DeadlineAsAsked
    SchemasKept
    ResultNamesProcess
PROPERTIES
    SessionNeverMoves
    EachStepNearer
    ComesBack
