\* Five commands, four deaths and pipes of one record: each pipe is full in
\* some state, and the path can lose any four of its processes, or all after
\* a SIGPIPE.
CONSTANTS
    MaxCommands = 5
    MaxKills = 4
    DispatchPipeCap = 1
    WorkPipeCap = 1
SPECIFICATION FairSpec
INVARIANTS
    TypeOK
    PhantomNeedsOrphan
    DeathsOnlyLose
    CollapseOrder
PROPERTIES
    DeathsPropagate
\* The tree dies out, or stays where its last death left it.
CHECK_DEADLOCK FALSE
