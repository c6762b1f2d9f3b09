CONSTANTS
    ma = ma
    mb = mb
    mg = mg
    mh = mh
    mn = mn
    P1 = P1
    P2 = P2
    Memory = {ma, mb, mg, mh, mn}
    Global = Global
    ProjectOrder <- Projects
    Wanted <- Layers
    None = None
    Gone = Gone
    Stores <- Begin
    Hits <- AHit
    MaxVersion = 3
    MaxEdits = 1
    MaxRuns = 2
    MaxGroups = 2
    MaxJudgments = 2
SPECIFICATION ScopeSpec
INVARIANT NeverBuiltOnFlagged
INVARIANT TwoProjects
PROPERTY WrittenMeanwhileIsNext
INVARIANT KeptAsItStands
PROPERTY ActsOnWhatItSent
CHECK_DEADLOCK FALSE
