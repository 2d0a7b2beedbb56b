SPECIFICATION Spec
CONSTANTS
    MaxSubmits = 2
    MaxMounts = 2
    MaxLeaves = 1
CHECK_DEADLOCK FALSE
INVARIANTS
    ActiveRunIsStored
