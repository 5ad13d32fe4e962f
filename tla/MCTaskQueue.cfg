\* A worker's threads, with a second pusher: as long as one thread alone pops,
\* it may rely on what isEmpty() told it.
CONSTANTS
    Pushers = {p1, p2}
    Poppers = {task_thread}
    Infos = {a, b}
    NoThread = NoThread
    MaxPushes = 5
SPECIFICATION FairSpec
INVARIANTS
    TypeOK
    NoLostWakeup
    FilledStands
PROPERTIES
    FifoSpec
    PopReturns
