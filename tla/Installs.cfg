SPECIFICATION InstallSpec
CONSTANTS
    Refused = Refused
    Selections <- EachHarness
    Found <- MCFound
    DisabledByEnv = FALSE
    MaxEdits = 1
    MaxDeclined = 1
    MaxRuns = 2
CHECK_DEADLOCK FALSE
INVARIANT AllOrNothing
INVARIANT EditsSurvive
INVARIANT GivenBack
