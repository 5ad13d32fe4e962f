---------------------------- MODULE CommandPath ----------------------------
(***************************************************************************)
(* The path of a command through jobClient, from the server's stream to    *)
(* the job it starts:                                                      *)
(*                                                                         *)
(*   server --stream--> dispatch process --dispatchPipe--> main process    *)
(*          --workPipe--> worker: pipe_thread --queue--> task_thread       *)
(*                                                                         *)
(* and the daemon process that forks a new worker whenever the old one has *)
(* died.  All processes have been started and none is killed from outside  *)
(* here; the queue's operations are atomic (TaskQueue.tla shows that they  *)
(* are), and the job is its contract JobLife.tla (JobTask.tla implements   *)
(* it).                                                                    *)
(*                                                                         *)
(* A local TASK_INFO variable is a sequence of at most one record: the     *)
(* record the process has read and not yet passed on.                      *)
(***************************************************************************)
EXTENDS Naturals, Sequences, FiniteSets

CONSTANTS
    TaskIds,            \* the task ids the server uses
    MaxCommands,        \* bound: commands received plus those on the stream
    DispatchPipeCap,    \* capacity of the dispatch pipe in TASK_INFO records
    WorkPipeCap         \* capacity of the work pipe in TASK_INFO records

ASSUME ConstantsAssumption ==
    /\ TaskIds \subseteq Nat
    /\ MaxCommands \in Nat
    /\ DispatchPipeCap \in Nat \ {0}
    /\ WorkPipeCap \in Nat \ {0}

TASK_CREATE == 0
TASK_CANCEL == 1

TaskInfos == [cmd : {TASK_CREATE, TASK_CANCEL}, task_id : TaskIds]

TaskTypes == {"TaskTypeNONE", "TaskTypeCreateTask", "TaskTypeCancelTask"}

Messages == [task_type : TaskTypes, task_id : TaskIds]

(* g_job_id: a static int that nothing on a live path assigns.             *)
JobId == 0

VARIABLES
    rpc,            \* the DispatchTaskID call: none, open or ended
    stream,         \* messages of the current call the client has not read
    dispatch,       \* where the dispatch process is: call, read or write
    dispatchInfo,   \* its task_info, between the read and the pipe write
    dispatchPipe,   \* dispatch_fd
    mainInfo,       \* main's info, between its read and its write
    workPipe,       \* pfd
    worker,         \* the worker process: none, alive, or a zombie
    pipeThread,     \* pipe_thread: none, read, push or done
    pipeInfo,       \* its task_info, between the read and the push
    queue,          \* g_queue
    taskThread,     \* task_thread: none, pop, build, check, next or drop
    job,            \* the JobTask object, as JobLife sees it
    received,       \* history: commands read off the stream
    taken,          \* history: commands popped off g_queue
    started         \* history: jobs constructed, [dispatched, built] ids

dispatchVars == <<rpc, stream, dispatch, dispatchInfo, received>>
workerVars == <<worker, pipeThread, pipeInfo, queue, taskThread, job, taken,
                started>>
vars == <<dispatchVars, dispatchPipe, mainInfo, workPipe, workerVars>>

Job == INSTANCE JobLife WITH life <- job

Init ==
    /\ rpc = "none"
    /\ stream = <<>>
    /\ dispatch = "call"
    /\ dispatchInfo = <<>>
    /\ dispatchPipe = <<>>
    /\ mainInfo = <<>>
    /\ workPipe = <<>>
    /\ worker = "none"
    /\ pipeThread = "none"
    /\ pipeInfo = <<>>
    /\ queue = <<>>
    /\ taskThread = "none"
    /\ Job!Init
    /\ received = <<>>
    /\ taken = <<>>
    /\ started = <<>>

-----------------------------------------------------------------------------
(* The server and the network, as the dispatch process meets them.         *)

(* The server writes one more message on the open stream.                  *)
ServerSend ==
    /\ rpc = "open"
    /\ Len(received) + Len(stream) < MaxCommands
    /\ \E m \in Messages : stream' = Append(stream, m)
    /\ UNCHANGED <<rpc, dispatch, dispatchInfo, received, dispatchPipe,
                   mainInfo, workPipe, workerVars>>

(* The call ends, by the server or by a broken connection; messages that   *)
(* have not reached the client may be lost with it.                        *)
StreamEnds ==
    /\ rpc = "open"
    /\ rpc' = "ended"
    /\ \E n \in 0..Len(stream) : stream' = SubSeq(stream, 1, n)
    /\ UNCHANGED <<dispatch, dispatchInfo, received, dispatchPipe, mainInfo,
                   workPipe, workerVars>>

-----------------------------------------------------------------------------
(* The dispatch process: run_task_dispatch and DeviceManagerClient.        *)

(* dispatch() is entered, again and again, and opens a new call.           *)
DispatchCall ==
    /\ dispatch = "call"
    /\ dispatch' = "read"
    /\ rpc' = "open"
    /\ stream' = <<>>
    /\ UNCHANGED <<dispatchInfo, received, dispatchPipe, mainInfo, workPipe,
                   workerVars>>

InfoOf(m) ==
    [cmd |-> IF m.task_type = "TaskTypeCreateTask" THEN TASK_CREATE
                                                   ELSE TASK_CANCEL,
     task_id |-> m.task_id]

(* reader->Read() succeeds: a create or a cancel goes to the callback.     *)
DispatchRead ==
    /\ dispatch = "read"
    /\ stream # <<>>
    /\ stream' = Tail(stream)
    /\ Head(stream).task_type # "TaskTypeNONE"
    /\ dispatchInfo' = <<InfoOf(Head(stream))>>
    /\ received' = Append(received, InfoOf(Head(stream)))
    /\ dispatch' = "write"
    /\ UNCHANGED <<rpc, dispatchPipe, mainInfo, workPipe, workerVars>>

(* ... and a message of any other type is dropped.                         *)
DispatchIgnore ==
    /\ dispatch = "read"
    /\ stream # <<>>
    /\ stream' = Tail(stream)
    /\ Head(stream).task_type = "TaskTypeNONE"
    /\ UNCHANGED <<rpc, dispatch, dispatchInfo, received, dispatchPipe,
                   mainInfo, workPipe, workerVars>>

(* reader->Read() fails once the call has ended; Finish(), then back to    *)
(* the loop of run_task_dispatch.                                          *)
DispatchFinish ==
    /\ dispatch = "read"
    /\ stream = <<>>
    /\ rpc = "ended"
    /\ rpc' = "none"
    /\ dispatch' = "call"
    /\ UNCHANGED <<stream, dispatchInfo, received, dispatchPipe, mainInfo,
                   workPipe, workerVars>>

(* A variant of the callback that does not wait for room in the pipe.      *)
DispatchWriteNonBlocking ==
    /\ dispatch = "write"
    /\ dispatchPipe' = IF Len(dispatchPipe) < DispatchPipeCap
                       THEN dispatchPipe \o dispatchInfo ELSE dispatchPipe
    /\ dispatchInfo' = <<>>
    /\ dispatch' = "read"
    /\ UNCHANGED <<rpc, stream, received, mainInfo, workPipe, workerVars>>

(* DispatchCallback::callback: a blocking write, atomic at this size.      *)
DispatchWrite ==
    /\ dispatch = "write"
    /\ Len(dispatchPipe) < DispatchPipeCap
    /\ dispatchPipe' = dispatchPipe \o dispatchInfo
    /\ dispatchInfo' = <<>>
    /\ dispatch' = "read"
    /\ UNCHANGED <<rpc, stream, received, mainInfo, workPipe, workerVars>>

-----------------------------------------------------------------------------
(* The main process: select() on the dispatch pipe, read, write.           *)

MainRead ==
    /\ mainInfo = <<>>
    /\ dispatchPipe # <<>>
    /\ mainInfo' = <<Head(dispatchPipe)>>
    /\ dispatchPipe' = Tail(dispatchPipe)
    /\ UNCHANGED <<dispatchVars, workPipe, workerVars>>

(* A variant whose write does not block at the pipe's capacity.            *)
MainWriteUnbounded ==
    /\ mainInfo # <<>>
    /\ workPipe' = workPipe \o mainInfo
    /\ mainInfo' = <<>>
    /\ UNCHANGED <<dispatchVars, dispatchPipe, workerVars>>

(* The write blocks while the work pipe is full, and so does the router.   *)
MainWrite ==
    /\ mainInfo # <<>>
    /\ Len(workPipe) < WorkPipeCap
    /\ workPipe' = workPipe \o mainInfo
    /\ mainInfo' = <<>>
    /\ UNCHANGED <<dispatchVars, dispatchPipe, workerVars>>

-----------------------------------------------------------------------------
(* The daemon: fork a worker, wait for its death, for ever.                *)

(* A variant that forks once, and not again after a worker took a command. *)
DaemonForkOnce ==
    /\ worker = "none"
    /\ taken = <<>>
    /\ worker' = "alive"
    /\ pipeThread' = "read"
    /\ taskThread' = "pop"
    /\ UNCHANGED <<dispatchVars, dispatchPipe, mainInfo, workPipe, pipeInfo,
                   queue, job, taken, started>>

(* A variant that does not wait for the death of the worker before.        *)
DaemonForkNoWait ==
    /\ worker' = "alive"
    /\ pipeThread' = "read"
    /\ taskThread' = "pop"
    /\ UNCHANGED <<dispatchVars, dispatchPipe, mainInfo, workPipe, pipeInfo,
                   queue, job, taken, started>>

DaemonFork ==
    /\ worker = "none"
    /\ worker' = "alive"
    /\ pipeThread' = "read"
    /\ taskThread' = "pop"
    /\ UNCHANGED <<dispatchVars, dispatchPipe, mainInfo, workPipe, pipeInfo,
                   queue, job, taken, started>>

(* waitpid() returns.                                                      *)
DaemonReap ==
    /\ worker = "zombie"
    /\ worker' = "none"
    /\ Job!Destroy
    /\ UNCHANGED <<dispatchVars, dispatchPipe, mainInfo, workPipe, pipeThread,
                   pipeInfo, queue, taskThread, taken, started>>

-----------------------------------------------------------------------------
(* The worker's pipe_thread: one read, one push, and it returns.           *)

PipeRead ==
    /\ pipeThread = "read"
    /\ workPipe # <<>>
    /\ pipeInfo' = <<Head(workPipe)>>
    /\ workPipe' = Tail(workPipe)
    /\ pipeThread' = "push"
    /\ UNCHANGED <<dispatchVars, dispatchPipe, mainInfo, worker, queue,
                   taskThread, job, taken, started>>

(* A variant of pipe_thread that goes back to its read.                    *)
PipePushAndLoop ==
    /\ pipeThread = "push"
    /\ queue' = queue \o pipeInfo
    /\ pipeInfo' = <<>>
    /\ pipeThread' = "read"
    /\ UNCHANGED <<dispatchVars, dispatchPipe, mainInfo, workPipe, worker,
                   taskThread, job, taken, started>>

PipePush ==
    /\ pipeThread = "push"
    /\ queue' = queue \o pipeInfo
    /\ pipeInfo' = <<>>
    /\ pipeThread' = "done"
    /\ UNCHANGED <<dispatchVars, dispatchPipe, mainInfo, workPipe, worker,
                   taskThread, job, taken, started>>

-----------------------------------------------------------------------------
(* The worker's task_thread.                                               *)

(* A variant that starts a job whatever the command.                       *)
TaskPopAnyCommand ==
    /\ taskThread = "pop"
    /\ queue # <<>>
    /\ queue' = Tail(queue)
    /\ taken' = Append(taken, Head(queue))
    /\ taskThread' = "build"
    /\ UNCHANGED <<dispatchVars, dispatchPipe, mainInfo, workPipe, worker,
                   pipeThread, pipeInfo, job, started>>

(* queue.pop(): only a create leads to a job, a cancel is forgotten.       *)
TaskPop ==
    /\ taskThread = "pop"
    /\ queue # <<>>
    /\ queue' = Tail(queue)
    /\ taken' = Append(taken, Head(queue))
    /\ taskThread' = IF Head(queue).cmd = TASK_CREATE THEN "build" ELSE "pop"
    /\ UNCHANGED <<dispatchVars, dispatchPipe, mainInfo, workPipe, worker,
                   pipeThread, pipeInfo, job, started>>

(* A fault in job code ends the process: every thread, and the queue.      *)
WorkerDies ==
    /\ worker' = "zombie"
    /\ pipeThread' = "none"
    /\ pipeInfo' = <<>>
    /\ queue' = <<>>
    /\ taskThread' = "none"

(* A call into the job comes back, and task_thread goes on at label.       *)
JobReturns(label) ==
    /\ taskThread' = label
    /\ UNCHANGED <<worker, pipeThread, pipeInfo, queue>>

(* new JobTask(g_job_id), for the command that was popped last.            *)
TaskBuild ==
    /\ taskThread = "build"
    /\ Job!Construct
    /\ started' = Append(started, [dispatched |-> taken[Len(taken)].task_id,
                                   built |-> JobId])
    /\ \/ job' = "crashed" /\ WorkerDies
       \/ job' # "crashed" /\ JobReturns("check")
    /\ UNCHANGED <<dispatchVars, dispatchPipe, mainInfo, workPipe, taken>>

(* The test at the head of the inner loop: leave it for a new command.     *)
TaskCheck ==
    /\ taskThread = "check"
    /\ taskThread' = IF queue = <<>> THEN "next" ELSE "drop"
    /\ UNCHANGED <<dispatchVars, dispatchPipe, mainInfo, workPipe, worker,
                   pipeThread, pipeInfo, queue, job, taken, started>>

(* job->next(): the loop is also left when the result is not 0.            *)
TaskNext ==
    /\ taskThread = "next"
    /\ Job!NextCall
    /\ \/ job' = "crashed" /\ WorkerDies
       \/ job' = "ended" /\ JobReturns("drop")
       \/ job' = "frames" /\ JobReturns("check")
    /\ UNCHANGED <<dispatchVars, dispatchPipe, mainInfo, workPipe, taken,
                   started>>

(* The job is destroyed, and task_thread goes back to pop().               *)
TaskDrop ==
    /\ taskThread = "drop"
    /\ Job!Destroy
    /\ taskThread' = "pop"
    /\ UNCHANGED <<dispatchVars, dispatchPipe, mainInfo, workPipe, worker,
                   pipeThread, pipeInfo, queue, taken, started>>

-----------------------------------------------------------------------------
Environment == ServerSend \/ StreamEnds

DispatchProcess ==
    DispatchCall \/ DispatchRead \/ DispatchIgnore \/ DispatchFinish
        \/ DispatchWrite

MainProcess == MainRead \/ MainWrite

DaemonProcess == DaemonFork \/ DaemonReap

PipeThread == PipeRead \/ PipePush

TaskThread == TaskPop \/ TaskBuild \/ TaskCheck \/ TaskNext \/ TaskDrop

Next ==
    Environment \/ DispatchProcess \/ MainProcess \/ DaemonProcess
        \/ PipeThread \/ TaskThread

Spec == Init /\ [][Next]_vars

(* Every process and thread of the client is scheduled; the server and the *)
(* network owe nothing.  A job owes nothing either: its calls have no      *)
(* deadline, and one that is not answered holds task_thread for ever.      *)
Fairness ==
    /\ WF_vars(DispatchProcess)
    /\ WF_vars(MainProcess)
    /\ WF_vars(DaemonProcess)
    /\ WF_vars(PipeThread)
    /\ WF_vars(TaskPop)

HangingSpec == Spec /\ Fairness

(* The same with jobs whose calls all come back.                           *)
FairSpec == HangingSpec /\ WF_vars(TaskThread)
-----------------------------------------------------------------------------
(* Properties.                                                             *)

(* Every variable has the type of the C++ object it stands for, and each   *)
(* pipe stays within its capacity (main.cpp, dispatchProcess.cpp,          *)
(* workProcess.cpp).                                                       *)
TypeOK ==
    /\ rpc \in {"none", "open", "ended"}
    /\ stream \in Seq(Messages)
    /\ dispatch \in {"call", "read", "write"}
    /\ dispatchInfo \in Seq(TaskInfos)
    /\ dispatchPipe \in Seq(TaskInfos)
    /\ Len(dispatchPipe) <= DispatchPipeCap
    /\ mainInfo \in Seq(TaskInfos)
    /\ Len(mainInfo) <= 1
    /\ workPipe \in Seq(TaskInfos)
    /\ Len(workPipe) <= WorkPipeCap
    /\ worker \in {"none", "alive", "zombie"}
    /\ pipeThread \in {"none", "read", "push", "done"}
    /\ pipeInfo \in Seq(TaskInfos)
    /\ queue \in Seq(TaskInfos)
    /\ taskThread \in {"none", "pop", "build", "check", "next", "drop"}
    /\ job \in Job!LifeStates
    /\ received \in Seq(TaskInfos)
    /\ taken \in Seq(TaskInfos)
    /\ started \in Seq([dispatched : TaskIds, built : {JobId}])

(* The commands between the dispatch stream and a task thread's pop(), the *)
(* oldest first.                                                           *)
InFlight ==
    queue \o (pipeInfo \o (workPipe \o (mainInfo \o
        (dispatchPipe \o dispatchInfo))))

(* Nothing is lost, duplicated or reordered between the dispatch stream    *)
(* and pop(), and a worker's death discards no command: what was received  *)
(* is what was taken followed by what is in flight (the chain of blocking  *)
(* writes in dispatchProcess.cpp and main.cpp, and g_queue dying with its  *)
(* process).                                                               *)
Conservation == received = taken \o InFlight

(* While task_thread is inside the loop of a job, its process will never   *)
(* receive another command: pipe_thread has returned and the queue is      *)
(* empty, so the test of workProcess.cpp:206 cannot succeed.               *)
NoPreemption ==
    taskThread \in {"build", "check", "next", "drop"} =>
        pipeThread = "done" /\ queue = <<>>

(* What makes NoPreemption and Conservation inductive: a local TASK_INFO   *)
(* is filled only between its read and its write or push; and the threads  *)
(* of a worker get one command in its life, which is in the queue between  *)
(* pipe_thread's push and task_thread's pop; a job is built for a create.  *)
HandOver ==
    /\ dispatch # "write" => dispatchInfo = <<>>
    /\ dispatch = "write" => Len(dispatchInfo) = 1
    /\ pipeThread # "push" => pipeInfo = <<>>
    /\ pipeThread = "push" => Len(pipeInfo) = 1

OneCommand ==
    /\ worker # "alive" => pipeThread = "none" /\ taskThread = "none"
    /\ pipeThread # "done" => queue = <<>>
    /\ Len(queue) <= 1
    /\ taskThread = "build" =>
           taken # <<>> /\ taken[Len(taken)].cmd = TASK_CREATE

(* The creates popped whose jobs have been constructed: of the newest one  *)
(* the constructor may still be running.                                   *)
Built ==
    {i \in 1..Len(taken) :
        /\ taken[i].cmd = TASK_CREATE
        /\ ~(taskThread = "build" /\ i = Len(taken))}

(* The place of a create among them.                                       *)
Place(i) == Cardinality({j \in Built : j <= i})

(* Exactly the creates lead to jobs, one each and in order, also across    *)
(* the deaths of workers (task_thread, workProcess.cpp:199-218).           *)
StartedAreCreates ==
    /\ Len(started) = Cardinality(Built)
    /\ \A i \in Built : started[Place(i)].dispatched = taken[i].task_id

IInv ==
    TypeOK /\ HandOver /\ OneCommand /\ NoPreemption /\ Conservation
        /\ StartedAreCreates

(* A worker that has popped its command and has no job is idle for the     *)
(* rest of its life, and its life does not end: no step of any process     *)
(* leaves this state (pipe_thread has returned, pop() waits for ever).     *)
Idle ==
    worker = "alive" /\ pipeThread = "done" /\ queue = <<>>
        /\ taskThread = "pop"

IdleIsForever == [][Idle => Idle']_vars

Channel == INSTANCE CommandChannel WITH Infos <- TaskInfos

(* The whole path implements the channel that takes commands in the order  *)
(* of their receipt, each at most once.                                    *)
ChannelSpec == Channel!Spec

(* Whenever no worker has read its command yet, the next command received  *)
(* is taken: the death of a worker serves the one that waits, through the  *)
(* daemon's fork and both pipes, and whatever calls of jobs may hang       *)
(* (daemonProcess.cpp:24-43, and the RPCs of job_manager.cpp).             *)
NoWorkerBusy == worker # "alive" \/ pipeThread = "read"

FreshWorkerServes ==
    \A n \in 0..MaxCommands :
        (NoWorkerBusy /\ Len(taken) = n /\ Len(received) > n)
            ~> Len(taken) > n

-----------------------------------------------------------------------------
(* What the repository says of the path, and the code does not do.         *)

(* proto/taskmanagerback.proto:11, the dispatched task is created: the job *)
(* that a create starts is built for the task id it carries.               *)
JobIsDispatchedTask ==
    \A i \in 1..Len(started) : started[i].built = started[i].dispatched

(* The comment at workProcess.cpp:207, a new command ends the loop of the  *)
(* running job: a job with a command behind it is eventually left.         *)
NewCommandEndsJob ==
    (job = "frames" /\ workPipe # <<>>) ~> (job # "frames")
=============================================================================
