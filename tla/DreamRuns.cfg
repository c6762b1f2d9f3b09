CONSTANTS
    Run = {r1, r2}
    Viewer = viewer
    None = none
    MaxGroups = 1
    MaxTold = 2
SPECIFICATION DreamFairSpec
INVARIANT OneRunning
INVARIANT ChangesTold
INVARIANT ReportsHaveRows
INVARIANT CompletedIsReported
PROPERTY RetentionSpares
PROPERTY LockComesFree
CHECK_DEADLOCK FALSE
