\* The codes of a dataset's next(), against the header's comment.
CONSTANTS
    MaxLength = 2
    MaxFrames = 3
    MaxTime = 5
    ReportPeriod = 2
    ReportWindow = 2
    IntHalf = 512
    DivisionByZero = {"traps", "skipped"}
SPECIFICATION Spec
INVARIANTS
    LastElementIsEnd
CHECK_DEADLOCK FALSE
