\* A client whose identity is a piece of another entry, or an append cut
\* short followed by a run that completes the merge.
CONSTANTS
    Missing = Missing
    Absent = Missing
    NL <- NLChar
    HeaderText <- Label
    ClientLists <- ExactClients
    InitialAcls <- ExactAcls
    MaxRuns = 2
    WriteFaults = TRUE
SPECIFICATION Spec
INVARIANT
    AclWhitelistExact
