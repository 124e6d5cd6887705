SPECIFICATION PayloadSpec
CONSTANTS
    Corr = {"c1", "c2"}
    TruncateAfter = 1
    MaxLines = 4
INVARIANT
    NeverPanics
CHECK_DEADLOCK FALSE
