CONSTANTS
    s1 = s1
    s2 = s2
    Session = {s1}
    None = none
    MaxSessions = 1
    MaxCalls = 2
    Halvings = 1
    Size <- Halved
    Estimated = {}
    Refused <- DenseThirdPart
    MaxActive = 1
    MaxLines <- LongLength
    MaxTrouble = 0
SPECIFICATION SummariesFairSpec
PROPERTY CheckpointsFinish
CHECK_DEADLOCK FALSE
