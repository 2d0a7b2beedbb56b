SPECIFICATION FairSpec
CONSTANTS
    Runs = {r1, r2}
    Workers = {w1, w2}
    Foreign <- BothForeign
    MaxFaults = 1
    MaxCrashes = 1
INVARIANTS
    DispatchInv
    OneExecutor
    NoLostJob
    AcceptedEventsAreTrue
PROPERTIES
    AcceptedVerdictIsFinal
    AcceptedRunsSettle
