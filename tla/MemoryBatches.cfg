CONSTANTS
    MemoryId = {m1, m2}
    Project = {p, global}
    Global = global
    Management = management
    Text = {t1}
    GivenTrust = {0, 1}
    GivenSync = {TRUE}
    MaxVersion = 3
    MaxChanges = 3
    MaxOps = 2
    MaxTime = 1
    MaxReads = 0
SYMMETRY MemorySymmetry
SPECIFICATION Spec
INVARIANT TrustFollowsSources
INVARIANT UndoTakesBack
INVARIANT NoDanglingSource
INVARIANT NoSourceCycle
PROPERTY ImplementsVersionLog
PROPERTY PurgedAsShown
CHECK_DEADLOCK FALSE
