\* Three runs over varied files, any append may be cut short.
CONSTANTS
    Missing = Missing
    Absent = Missing
    NL <- NLChar
    HeaderText <- Label
    ClientLists <- DistinctLists
    InitialAcls <- VariedAcls
    MaxRuns = 3
    WriteFaults = TRUE
SPECIFICATION Spec
INVARIANTS
    TypeOK
    AclListsClients
PROPERTIES
    AclMergeIdempotent
