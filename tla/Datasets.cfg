SPECIFICATION FairSpec
CONSTANTS
    Datasets = {d1, d2}
    Clients = {c1}
    NoRow = NoRow
    MaxCalls = 1
    MaxFaults = 1
INVARIANTS
    SettledInv
    RowTellsOutcome
    ReadyWasProfiled
PROPERTIES
    QueuedSettles
