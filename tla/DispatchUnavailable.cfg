SPECIFICATION Spec
CONSTANTS
    Runs = {r1}
    Workers = {w1}
    Foreign <- NoForeign
    MaxFaults = 1
    MaxCrashes = 0
INVARIANTS
    UnavailableMeansFailed
