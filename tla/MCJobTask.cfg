\* Datasets of up to two elements, the 30 s and 20 results scaled to 2 and 2,
\* an int so narrow that the sixth frame's product with 100 wraps around.
CONSTANTS
    MaxLength = 2
    MaxFrames = 6
    MaxTime = 15
    ReportPeriod = 2
    ReportWindow = 2
    IntHalf = 512
    DivisionByZero = {"traps", "skipped"}
SPECIFICATION Spec
INVARIANTS
    TypeOK
    NoNullDereference
    ReportSpacing
    EndReportStandsAlone
    WindowIsNewest
    ProgressIsHonest
PROPERTIES
    LifeSpec
\* A job ends or takes its process down.
CHECK_DEADLOCK FALSE
