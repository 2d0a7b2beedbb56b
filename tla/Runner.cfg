SPECIFICATION FairSpec
CONSTANTS
    NodeCount = 4
    MaxConcurrency = 3
    Jobs <- AllJobs
    ArtifactNodes = {1, 4}
    MaxFaults = 2
INVARIANTS
    NeverStuck
    UpstreamFirst
    SubmittedOnce
    CompletedRunIsWhole
    FailedRunIsSettled
    RowsLeadEvents
    OneCulprit
PROPERTIES
    NothingAfterTerminal
    RunReturns
    ImplementsDagRun
    RunSettles
