\* The job id the worker passes on, against the proto's dispatched task.
CONSTANTS
    TaskIds = {1}
    MaxCommands = 3
    DispatchPipeCap = 1
    WorkPipeCap = 1
SPECIFICATION Spec
INVARIANT
    JobIsDispatchedTask
CHECK_DEADLOCK FALSE
