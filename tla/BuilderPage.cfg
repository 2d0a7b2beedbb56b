SPECIFICATION PageSpec
CONSTANTS
    MaxSubmits = 2
    MaxMounts = 3
    MaxLeaves = 1
    MaxEdits = 2
    None = None
    Blocks <- MCBlocks
    Groups = {"box"}
    Ports = {"in"}
    Configs = {"v1", "v2"}
    Fits <- MCFits
    Drafts <- MCDrafts
    Demo <- MCDemo
CHECK_DEADLOCK FALSE
INVARIANTS
    ShownRunIsFollowed
    StoredUnlessLeft
    CanvasInv
    RunGraphShown
    SubmittedIsWellFormed
