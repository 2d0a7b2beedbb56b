SPECIFICATION Spec
CONSTANTS
    Saves = {s1}
    Creates = {c1, c2, c3}
    MaxChanges = 1
    MaxReloads = 1
    MaxFaults = 1
CHECK_DEADLOCK FALSE
INVARIANTS
    VersionsInOrder
    AnsweredVersionHolds
