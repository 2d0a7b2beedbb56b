SPECIFICATION FairFollowSpec
CONSTANTS
    NodeCount = 2
    MaxConcurrency = 2
    Jobs <- TwoNodeJobs
    ArtifactNodes = {}
    MaxFaults = 1
    MaxCuts = 1
    MaxReloads = 1
INVARIANTS
    BrowserInv
    TerminalViewIsTrue
    NothingSkipped
    CaughtUpViewIsCurrent
    FinishedViewIsTrue
PROPERTIES
    FollowerFinishes
