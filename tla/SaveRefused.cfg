SPECIFICATION Spec
CONSTANTS
    Saves = {s1}
    Creates = {c1}
    MaxChanges = 0
    MaxReloads = 0
    MaxFaults = 0
CHECK_DEADLOCK FALSE
INVARIANTS
    SaveMakesVersion
