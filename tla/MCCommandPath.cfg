\* The command path with room for one TASK_INFO in each pipe: five commands
\* fill the path behind a busy worker, so blocking, backlog and worker death
\* with commands waiting all happen; the sixth waits at the path's entrance.
CONSTANTS
    TaskIds = {1}
    MaxCommands = 6
    DispatchPipeCap = 1
    WorkPipeCap = 1
SPECIFICATION HangingSpec
INVARIANTS
    TypeOK
    Conservation
    NoPreemption
    StartedAreCreates
PROPERTIES
    IdleIsForever
    ChannelSpec
    FreshWorkerServes
\* The client really stops once an idle worker leaves both pipes full.
CHECK_DEADLOCK FALSE
