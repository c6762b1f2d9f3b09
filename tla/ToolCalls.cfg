SPECIFICATION CallsSpec
CONSTANTS
    Session = {s1, s2}
    Startup = s1
    Project = {p1}
    Call = {c1, c2}
    Retention = 1
    MaxTime = 3
VIEW Relevant
SYMMETRY CallSymmetry
CHECK_DEADLOCK FALSE
INVARIANT OwnSession
INVARIANT EditedOnce
INVARIANT AnswersAreTrue
