CONSTANTS
    ma = ma
    mb = mb
    mg = mg
    mh = mh
    mn = mn
    P1 = P1
    P2 = P2
    Memory = {mg, mn}
    Global = Global
    ProjectOrder <- Projects
    Wanted <- AllLayers
    None = None
    Gone = Gone
    Stores <- OneOfGlobal
    Hits <- NoHits
    MaxVersion = 3
    MaxEdits = 2
    MaxRuns = 3
    MaxGroups = 1
    MaxJudgments = 1
SPECIFICATION ScopeSpec
CHECK_DEADLOCK FALSE
INVARIANT FlaggedIsJudgedAgain
