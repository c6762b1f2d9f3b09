CONSTANTS
    s1 = s1
    s2 = s2
    Session = {s1, s2}
    None = none
    MaxSessions = 1
    MaxCalls = 2
    Halvings = 2
    Size <- Halved
    Estimated <- OverBudget
    Refused <- TooDense
    MaxActive = 1
    MaxLines <- Lengths
    MaxTrouble = 1
SPECIFICATION SummariesFairSpec
INVARIANT NothingMissed
PROPERTY SessionsFinish
CHECK_DEADLOCK FALSE
