CONSTANTS
    home = home
    store = store
    a = a
    b = b
    Project = {p1, p2}
    Dir <- MCDir
    Up <- MCUp
    Home = home
    Store = store
    None = none
    Gone = gone
    MayLead <- MCMayLead
    Terminal = {t1}
    SessionKey = {s1}
    Caller = {c1, c2}
    CallKind = {"start", "prompt", "confirm", "register", "save", "publish"}
    MainTree <- MCPlain
    KeepRecent = 1
    NudgeMinPrompts = 1
    NudgeInterval = 1
    Prompt = {kept}
    MaxPrompts = 0
    MaxTime = 1
SYMMETRY Interchangeable
SPECIFICATION SessionSpec
INVARIANT WritesGoHome
PROPERTY ProjectStands
PROPERTY ConfirmedAsProposed
INVARIANT BindingsSound
INVARIANT ResolvesToNearest
PROPERTY BoundAsShown
CHECK_DEADLOCK FALSE
