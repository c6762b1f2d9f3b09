SPECIFICATION SetupSpec
CONSTANTS
    Refused = Refused
    Selections <- KiroOnly
    Found <- MCFound
    DisabledByEnv = FALSE
    MaxEdits = 0
    MaxDeclined = 0
    MaxRuns = 0
    MaxCommands = 3
    Objects = {d1, d2}
    MaxSwaps = 1
    Writers = {w1}
CHECK_DEADLOCK FALSE
INVARIANT ScheduleStands
INVARIANT OneGlobal
PROPERTY PurgedAsConfirmed
