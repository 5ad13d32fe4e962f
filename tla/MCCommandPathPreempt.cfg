\* A running job and the next command, against the comment in task_thread.
CONSTANTS
    TaskIds = {1}
    MaxCommands = 3
    DispatchPipeCap = 1
    WorkPipeCap = 1
SPECIFICATION FairSpec
PROPERTY
    NewCommandEndsJob
CHECK_DEADLOCK FALSE
