CONSTANTS
    home = home
    store = store
    a = a
    b = b
    Project = {p1}
    Dir <- OneTree
    Up <- OneTreeUp
    Home = home
    Store = store
    None = none
    Gone = gone
    MayLead <- OneTreeMayLead
    Terminal = {t1}
    SessionKey = {s1}
    Caller = {c1, c2}
    CallKind = {"start", "prompt", "save"}
    MainTree <- OneTreePlain
    KeepRecent = 2
    NudgeMinPrompts = 2
    NudgeInterval = 2
    Prompt = {kept, omitted}
    MaxPrompts = 4
    MaxTime = 2
SYMMETRY Interchangeable
SPECIFICATION SessionSpec
INVARIANT RowsReadable
INVARIANT PromptsKept
INVARIANT NudgesSpaced
CHECK_DEADLOCK FALSE
