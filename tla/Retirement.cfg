CONSTANTS
    m1 = m1
    m2 = m2
    Memory = {m1, m2}
    None = none
    TtlDays = 1
    MultiplierMax = 2
    UncertainLimit = 2
    MaxCandidates = 1
    MaxGroups = 1
    MaxTime = 2
    MaxVersion <- Versions
    MaxReads <- ReadFacts
SPECIFICATION RetireSpec
PROPERTY UsedIsKept
PROPERTY RetiredForReason
CHECK_DEADLOCK FALSE
