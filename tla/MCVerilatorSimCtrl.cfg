SPECIFICATION CtrlSpec
CONSTANTS
    Delays = {0, 1, 2}
    Durations = {0, 1, 2}
    Terms <- TermsUsed
    MaxOptions = 2
    MaxTime = 10
CHECK_DEADLOCK FALSE
INVARIANTS ResetAsAsked
PROPERTIES RunEnds
