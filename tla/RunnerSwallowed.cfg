SPECIFICATION Spec
CONSTANTS
    NodeCount = 3
    MaxConcurrency = 2
    Jobs <- ThreeNodeJobs
    ArtifactNodes = {}
    MaxFaults = 0
INVARIANTS
    FailingNodesMarked
