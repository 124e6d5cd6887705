SPECIFICATION ArchivesSpec
CONSTANTS
    Host = {"localhost", "h1"}
    MaxEvents = 4
    UpdateNumbers = {0, 1}
    FinishNumbers = {2}
    Corr = {"c1", "c2"}
    TruncateAfter = 1
    MaxLines = 5
INVARIANTS
    VerdictsAgree
    PartialNeverEarly
    TruncationSound
PROPERTY
    GrowthHarmless
CHECK_DEADLOCK FALSE
