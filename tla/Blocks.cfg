SPECIFICATION Spec
CONSTANTS
    None = None
    Names <- MCNames
    Identifiers <- MCIdentifiers
    Parts <- MCParts
    Stripped <- MCStripped
    Hot <- MCHot
    Sources <- MCSources
    Picks <- MCPicks
    Fields <- MCFields
    Objects = {o1, o2, o3, o4, o5, o6}
    MaxLoads = 2
    MaxTransforms = 2
INVARIANTS
    ContractsDescribe
    GuardedNeverFails
    SchemaRefusalsAreReal
CHECK_DEADLOCK FALSE
