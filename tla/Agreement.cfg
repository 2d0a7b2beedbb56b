SPECIFICATION Spec
CONSTANTS
    Numbers = {"1"}
    Names = {"a", "if"}
    Keywords = {"if"}
    Arity <- MCArity
    Signs = {"-"}
    Products = {"*"}
    Comparators = {"<"}
    Ids = {"x", "x ", "y"}
    Stripped <- MCStripped
    NoId = ""
    Store <- MCStore
    NoDataset = NoDataset
    Catalogue <- MCCatalogue
    SampleSize = 2
    NoOption = NoOption
    MaxTokens = 7
    MaxNodes = 2
    MaxEdges = 2
    MaxRecords = 4
CHECK_DEADLOCK FALSE
INVARIANTS
    SameReading
    AdmittedGraphParses
    ProfileTellsFrame
