# A TLA+ model of jobClient

jobClient runs on a device that works for a task server. The server dispatches
*create task* and *cancel task* commands over a gRPC stream; the client fetches
the task's model and dataset, runs the model over the dataset through a plugin
and an inference engine, and reports progress and results. This directory holds
TLA+ modules translated from the source, the TLC runs that check them on small
instances, and TLAPS proofs of every safety property of those runs for all instances.

Contents: 1 inventory, 2 modules, 3 runs, 4 fairness, 5 proofs, 6 what the runs
found, 7 what is not modelled, 8 plan.

## 1. The system

Four kinds of processes and two threads, started by `main()`:

```
 server ==DispatchTaskID stream==> dispatch process
                                        | dispatch_fd (pipe)
                                        v
 server <=ReportDevice= report     main process (router)
                      process           | pfd (pipe)
                                        v
               daemon --fork/wait--> worker: pipe_thread -> g_queue -> task_thread
                                                                        | owns
 server <=GetTaskAimodel, GetTaskDataset, ReportTask================ JobTask
                                                   DatasetMgr, plugin, MxnetEngin
```

| component | state it keeps | operations | interacts with |
|---|---|---|---|
| dispatch process (`dispatchProcess/`, `grpc/device_manager.cpp`) | the open call, one `TASK_INFO` | open stream, read, translate, write to pipe, finish and retry for ever | server; main through `dispatch_fd` |
| main process (`main.cpp`) | one `TASK_INFO` | start everything; `select`, read, write | both pipes; never waits for its children |
| daemon (`workProcess/daemonProcess.cpp`) | the worker's pid | fork a worker, wait for its death, again | worker |
| worker, `pipe_thread` (`workProcess/workProcess.cpp`) | one `TASK_INFO` | one read from `pfd`, one `push_back`, return | `pfd`, `g_queue` |
| worker, `task_thread` (same file) | the job | `pop`; on create build a job and call `next()` until it is not 0 or the queue is not empty | `g_queue`, `JobTask` |
| `TaskQueue` (`workProcess/taskQueue.*`) | mutex, condition variable, queue | `push_back`, `pop`, `isEmpty` | both worker threads |
| `JobTask` (`workProcess/jobTask.*`, `dataset_mgr.*`, `pluginManager.*`, `engine/`, `grpc/job_manager.cpp`) | plugin, engine, dataset and position, results, frame count, time of the last report | constructor (`init`), `next`, `report`, `reportEnd` | server RPCs, plugin, OpenCV, MXNet, wall clock |
| report process (`reportProcess/`) | nothing | `ReportDevice` every 10 s | server |
| `JobBuffer` (`queue/jobQueue.h`) | mutex, two condition variables, ring of ints | `Produce`, `Consume` | threads of its user; in no build target |
| signal commands (`workProcess.cpp` 14-110) | `g_cmd`, `g_job_status`, `g_job_id` | two signal handlers, `status_check` | each other, through the slot `g_cmd`; the code that registers and calls them (138-177) is commented out |
| `Tensor`, `Shape` (`include/tensor.h`) | shape, shared storage | constructor, copy, `reshape`, `from_vector`, `from_cvmat` of an image or a batch | plugin (input), engines (outputs), OpenCV |
| process pool (`processpoll.h`) | parent: children's pids, turn; each process: epoll set, signal pipe | constructor, `run_parent`, `run_child`, `sig_handler` | clients, signals; in no build target |
| MNN engine (`engine/mnn/`) | interpreter, session | `loadModel`, `forward` | in no build target |
| `bak/` | | | in no build target |

What is hard here, and what makes each part correct:

* **Command path.** Five actors, two blocking pipes and a monitor; worker
  processes die (a job runs foreign code and throws exceptions out of its
  thread). Correct means: no command is lost, duplicated or reordered on its
  way to a `pop()`, whatever dies; exactly creates lead to jobs; a new worker
  takes up where the dead one left.
* **One read per worker.** `pipe_thread` has no loop. Which commands are
  served, when, and by which worker follows from this single read and from
  worker deaths, and is not what the comments say (section 6).
* **Process tree.** Which process inherits which pipe end follows from the
  order of `pipe()`, `fork()` and `close()` in `main()`, and decides who meets
  end-of-file or SIGPIPE when another dies. A failed fork is printed and start-up
  goes on without the child, or with main in its place.
* **TaskQueue.** Lost wakeups, stale answers, spurious wakeups.
* **JobBuffer.** The same with two condition variables, `notify_one` after the
  unlock, and a ring in which full and empty have equal indices.
* **Process pool.** Edges that merge, signals that merge, and several processes
  that accept from one socket: correct means that no child is told of a connection
  that is gone, none is skipped, and the parent ends after its last child.
* **Signal commands.** A handler interrupts the loop, and the other handler,
  between any two accesses to a slot of two plain members: correct means that a
  command that arrives between two looks of the loop is obeyed as it was sent.
* **Tensor.** Copies share a storage, and each knows its size only by its own
  shape; a batch is laid out by its first image alone, in ints, into a storage
  whose size is unsigned; `memcpy` takes from an image what the tensor's shape
  says, whatever the image's size, stride and element type are.
* **JobTask.** A construction that fails half way is not noticed by its caller;
  reports depend on a clock that may be set back; the progress is int
  arithmetic on an unbounded frame count; the division by the dataset's length.

The hazards, each at its line with the properties aimed at it, are listed under
`hazards` in `PROJECT.json`. None is listed for the signal commands: their handlers
and `status_check()` are compiled, but nothing registers or calls them.

## 2. The modules

| module | models | composed with |
|---|---|---|
| `CommandChannel` | the abstract promise: commands taken in order of receipt, each at most once | refined by `CommandPath` and by `TaskQueue` |
| `JobLife` | the contract of a job: what `task_thread` may rely on | refined by `JobTask`; instantiated in `CommandPath` as `Job` |
| `CommandPath` | server stream, dispatch process, main, pipes, daemon, worker threads | uses `JobLife` |
| `TaskQueue` | the monitor, step by step | refines `CommandChannel`, which justifies the atomic queue of `CommandPath` |
| `JobTask` | one job object | refines `JobLife`, which justifies the atomic `next()` of `CommandPath` |
| `ProcessTree` | start-up, pipe ends, end-of-file, SIGPIPE, the death of any process | the same path as `CommandPath`, with numbered commands and without stream and job |
| `JobBuffer` | the bounded buffer, step by step | refines `CommandChannel` |
| `ProcessPool` | the pool of `processpoll.h` with its kernel: edges, signals, sockets | stands alone |
| `SignalCommand` | the handlers of two signals and `status_check()`, access by access | stands alone: an older way for commands into the worker |
| `Tensor` | shapes, storages, images and net outputs in them | the data of `JobTask`'s inference, which treats it as one result |
| `MCTensor` | the images and lists of images of the run | extends `Tensor` |
| `CommandPathProofs`, `TaskQueueProofs`, `JobTaskProofs`, `JobBufferProofs`, `ProcessTreeProofs`, `ProcessPoolProofs`, `SignalCommandProofs`, `TensorProofs` | theorems and proofs | extend the module they are about |

`CommandPath`. `dispatch`, `pipeThread` and `taskThread` are program counters
of the three loops with more than one blocking point; main has two points, told
apart by whether `mainInfo` holds a record. A local `TASK_INFO` is a sequence of
length at most one. Writes to and reads from a pipe are atomic because a
`TASK_INFO` (16 bytes) is below `PIPE_BUF`; a write has the guard that there is
room, so it blocks as the system call does. `ServerSend` and `StreamEnds` are the
environment: any message at any time while a call is open, and an end of the call
that may lose what the client has not read. A call may fail and be repeated any
number of times. `TaskBuild` is the constructor and `TaskNext` one `next()`;
either may end the process (`WorkerDies`), which takes its threads and
`g_queue` with it. `DaemonReap` is the return of `waitpid`, `DaemonFork` the next
turn of the daemon's loop. `received`, `taken` and `started` are history
variables: no action reads them, except `taken` for the record of `started`
(the popped command is `task_thread`'s local `info`).

`JobTask`. `pc` names the call of `init()` that comes next, then `ready`,
`ended` or `crashed`. Each call of `init()` is an action with its failure
outcomes; in particular a failed call of `GetTaskDataset` goes on to
`parse("")`, which throws. One `next()` is one action, in four outcomes:
`NextDivides`, `NextEnds`, `NextFrame`, `NextFaults`. The head of `next()`
(`PeriodicReport`) is part of each of the outcomes that come after it. A result
string is the number of the frame it came from, so that `WindowIsNewest` can say
which results are sent; the text of a report is the sequence of its results and
of the brackets and commas around them, with the last one overwritten as
`reportEnd()` does. The division of an int by zero is undefined behaviour:
the constant `DivisionByZero` holds the outcomes of the build, a trap, or no trap
because the compiler may move the unused quotient past the early return; the
runs allow both.

`ProcessTree`. `at` says where each process is, `fds` which pipe ends it has
open; an end is open as long as some process holds it. `Fork` copies the
parent's ends, `Die` closes them. `Write` blocks, succeeds, or finds no reader and
kills its process by SIGPIPE (`piped`); a read without writers gives the
uninitialised record, `Phantom`. `Kill` is any other death, of any process, at any
point. The dispatch loop is run by the dispatch process or, after the failed third
fork, by main. A step that changes nothing is not an action: main's endless
reads of end-of-file, the daemon's turns in which `fork()` fails. After a
successful receive nothing of the stream matters here; it is in `CommandPath`.

`JobBuffer`. `at` is where each thread is between two steps others can
interleave; the threads at `wait` are the wait sets of the two condition
variables, `cond_not_full_` for producers and `cond_not_empty_` for consumers.
`NotifyOne` comes after `Unlock` and without the mutex, and picks any waiter.

`ProcessPool`. A process is its `m_idx`, -1 for the parent. `ready` holds the
edges since the last `epoll_wait` of a process, `events` those the current turn
has still to handle, in any order; `m_stop` is looked at between turns, as in the
code. A signal of the parent is `pending` (a set: signals merge), then a byte in
`sigPipe`, then received. Connections are counted, because any child accepts
any of them. What the model leaves out: the clients' data, signals sent to a
child by others than the parent (`ChildDies` has their effect), and end-of-file
on a child's socket, which `run_child` ignores.

`SignalCommand`. The program has one thread: a step of the loop needs that no
handler runs, and a step of a handler that it is the innermost one. The C++
memory is that of one thread interrupted by itself: two stores without a call
between them may come in either order, and the three tests of `g_cmd.cmd` may
use one load or several; the model has every such choice (`HandlerStores`,
`LoadTaskId` and `ClearCmd` in either order, `Load`). A signal that is pending
already is lost. The n-th signal sent has the id n, and `sent` its command.
`last` (who stored each member of the slot), `seenFrom` (whose command the loop
has loaded) and `obeyed` are history.

`Tensor`. `ref` is `data_`: two tensors with one `ref` share a storage, and
`Reset` is `data_.reset()`. An element of a storage is the place of the pixel it
came from (image, channel, row, column), so that a layout is checked by where
each pixel is. `size()` is unsigned and wraps at `UintSize`; `nitems`, `offset` and
the product of the assertion are ints. An int that overflows wraps (`Signed`), as
in `JobTask`: that is what the build's compiler makes of these expressions. An
image is what the tensor reads of a `cv::Mat`: rows, columns, channels, the
elements from one row to the next (`step`), the bytes of an element (`depth`) and
the bytes there are from its data on (`room`, 0 for NULL). `InPlanes` is what
`cv::split` writes, which knows the step; `InMemory` is what `memcpy` finds, which
does not: beside the pixels it finds the `Margin`, and bytes of another type are
no pixel's value (`Misfit`). `Faults` collects what a load may meet: a write
outside the storage, a read outside an image's memory, a failing assertion (the
build does not define `NDEBUG`). A load without faults is done; one with faults
ends in one of them (`Fail`), and nothing is said of the process after it: the
tensors are as if new. What an engine library returns is one value per
element; `MXPredGetOutput` fills the tensor only if it is asked for the size the
output has.

`TaskQueue`. A thread is `out` of the class or at a label between two steps
that other threads can interleave: at a lock, inside it, or asleep. `waiting` is
the wait set of the condition variable. A woken thread goes back to `pop`, where
it competes for the mutex and then tests again. `seen` is the answer the last
`isEmpty()` of a thread gave.

## 3. The runs

| run | expects | what it shows |
|---|---|---|
| `MCCommandPath` | pass, 156 k states | safety of the command path, its refinement of `CommandChannel`, and liveness across worker deaths with jobs that hang |
| `MCTaskQueue` | pass, 22 k states | two pushers and a worker's one popper: wakeups, FIFO, stale answers, liveness |
| `MCJobTask` | pass, 57 k states | a job's reports, faults and contract |
| `MCProcessTree` | pass, 40 k states | up to four deaths anywhere, failed forks: losses, order, the order of collapse; a writer without a reader dies |
| `MCJobBuffer` | pass, 27 k states | ring, wakeups and FIFO, two threads on each side; neither side sleeps on what it waits for |
| `MCProcessPool` | pass, 790 k states | deaths, connections and a termination at any time |
| `MCSignalCommand` | pass, 700 k states | handlers that interrupt `status_check()` and each other anywhere |
| `MCTensor` | pass, 30 k states | two tensors under all sequences of their operations, with images of every kind and faults |
| `MCCommandPathJobId`, `MCCommandPathPreempt`, `MCJobTaskEnd`, `MCProcessPoolEdge` | violation | section 6 |

The properties, and what would break them:

* `Conservation`: received = taken followed by what is in flight. A write that
  did not block, or a death that took a queued command along, breaks it. That a
  death takes no command along is not obvious: `g_queue` dies with its process,
  and is only ever empty then because the thread that could fill it has
  returned. `ChannelSpec` says the same as a refinement, step by step.
* `NoPreemption`: a worker with a job has received its last command.
* `StartedAreCreates`: jobs and popped creates correspond one to one, in order.
* `IdleIsForever`: an idle worker is a state no process leaves. After a cancel,
  or a job that ended, no later command is served.
* `FreshWorkerServes`: while no worker has read its command, the next command
  received is taken in the end, even when the jobs of other workers hung for
  ever before they died.
* `PhantomNeedsOrphan`: the uninitialised record is acted upon only when main,
  daemon and dispatch process are all dead. The last two never write to the work
  pipe; the ends they inherit and never close protect the worker.
* `DeathsOnlyLose`: what arrives is in order and arrives once, whoever dies; and while
  main and a reader of the work pipe live, each death costs at most the record
  the dead process was passing on.
* `CollapseOrder`, `DeathsPropagate`: SIGPIPE works its way from the worker's end
  to the server's, and no process waits for ever to write to a pipe without a
  reader. This depends on which process closed which end.
* `BothSidesMove`: a notification that reaches a thread whose predicate is
  false again never leaves another asleep that could go on.
* `NoLostWakeup`, `PopReturns`, `FifoSpec`, `FilledStands`: the monitor. `FifoSpec` of
  the ring rests on its three indices, which have to agree at every wrap.
* `NoEmptyAccept`: messages, children about to accept and events on their way never
  outnumber the backlog. It holds because of the edges that are lost, and breaks
  with a level-triggered socket.
* `TermStopsPool`: the parent ends when told to, and not before it has reaped its
  last child. It asks for a child that is alive: if all have
  died before the parent installs its SIGCHLD handler, nobody tells it, and it
  waits for ever.
* `TakesTurns`: no child is passed over between two connections of another.
* `NoNullDereference`: the order of the calls in `init()` protects `next()`
  from the null plugin, because a dataset is parsed only after the plugin was
  loaded; nothing in `next()` does.
* `ReportSpacing`: two periodic reports are more than 30 s apart on the clock,
  even when it was set back in between.
* `EndReportStandsAlone`: an end report comes only from a job without any
  frame, so that its text is a lone closing bracket and no JSON array.
* `WindowIsNewest`, `ProgressIsHonest`: what a report carries.
* `LifeSpec`: `JobTask` implements `JobLife`.
* `ObeyedAsSent`: a command that arrives between two calls of `status_check()`,
  and is not overwritten, is obeyed as it was sent. When the slot is empty again,
  what the loop obeyed last is the command of that very signal (`obeyed.id`), a
  create if it was a create and a cancel if it was a cancel, and a create has
  started the task it carries. It is false of a command that arrives inside
  `status_check()`, which may be lost to the clearing of the slot or leave its id
  to another.
* `CancelDoesNotLast`: once the signals cease, the slot is emptied and a job runs for
  ever, also after a cancel, because the suspension in `status_check()` is commented out.
* `SizeIsStorage`: through any sequence of copies and reshapes a tensor has as
  many elements as its `size()`. A `reshape()` that kept a larger storage would
  break it through the other owner of the storage. `from_vector()` is excepted: it
  leaves the shape.
* `ImagesInPlace`: after a load that met no fault, of images of one size with
  elements of the tensor's type, each pixel is where the shape says: in planes for
  every image, interleaved for continuous ones. What no image fills is zero.
  Interleaved parts of another image are excepted because `memcpy` misplaces them.
* `FaultNeedsOddBatch`: a write goes beyond the storage only if the images are more
  elements than an int counts (a single image: than an unsigned int counts), or
  if planes are filled from an image larger than the first or of a wider type. A
  read goes beyond an image only if `memcpy` is given one that is smaller than the
  first, of a narrower type, or a single empty one, or if there is none at all. An
  assertion fails only for a batch number that is 0 or too small, or an empty first
  image. Of net outputs only one that an int cannot count is at fault.
* `OutputsArrive`: outputs of up to four dimensions reach the plugin whole, as
  long as each dimension fits an int and all elements an unsigned int.

Bounds. `MaxCommands = 6` with one slot in each pipe: one command in each of the
worker, the work pipe, main, the dispatch pipe and the dispatch process fills
the whole path, so that every write blocks in some state, and a sixth waits for room;
creates and cancels differ, which lets reordering show with one task id. One slot is the smallest pipe that can be full and empty; the
proofs hold for all sizes. `MaxPushes = 5` with two pushers lets the queue hold several
elements, and spurious wakeups let the popper find it empty again; more poppers are
left to the proofs, because `FilledStands` is true of one only. `JobTask`: datasets of 0, 1 and 2 elements (nothing, only BEGIN, BEGIN and
END), the 30 s and the window of 20 scaled to 2, six frames so that windows are
below, at and above the limit, a clock of 13 values so that several periods fit
and it can be set back, and an int of 10 bits so that the product with 100
overflows at the sixth frame.

`MCProcessTree`: five commands fill the path as above, and
four deaths allow one of each process of the path, or the daemon's worker to
die twice and two others; one slot in each pipe. `MCJobBuffer`: a ring of two
slots is the smallest whose indices differ when it is neither full nor empty; four
elements wrap it twice and let both producers sleep on a full ring; the values
are two, so that order shows. `MCProcessPool`: three children, so that skipping a
dead one and taking turns differ, and as many connections; one unasked death and
one termination, which ends the others at the same time.

`MCSignalCommand`: five signals, two of each kind or more of one, so that a handler
finds its own or the other's command in the slot at every point of the loop.
`MCTensor`: two tensors are all that can share. An int is at least -16 and below 16,
so that each boundary is met from both sides. The images have 6, 10, 18 and 40
elements: two images of 6 are within an int; two of 10 are beyond it, and three still
within an unsigned int; one of 18 is beyond an int, and one of 40 beyond both. The others are a
part of another image, one of bytes, one of doubles and the empty one. The twelve
lists are empty, single, of equal images, of a smaller and a larger one in both
orders, and with each odd image behind or before a sound one; the batch number is
0 to 3. Outputs have one to five dimensions of 2: the 16 elements of four dimensions
are beyond an int and within an unsigned int, and five are too many for the tensor.

Deadlock is checked in the `TaskQueue`, `JobBuffer` and `SignalCommand` runs. The command path really
stops when an idle worker leaves both pipes full, a job ends, the processes
may all be dead, a tensor may take its process down, and a pool waits for a connection, so those runs switch the check off.

## 4. Fairness

`CommandPath!Fairness` is weak fairness of each process and thread: the kernel
schedules all of them, and each action is enabled until it is taken once it is
enabled (a pipe end has one reader at a time). Of the task thread only `TaskPop`
is fair: an RPC of a job has no deadline and foreign code need not return, so a
job may hang for ever (`HangingSpec`). `FairSpec` adds that it does not; only the
violation run `MCCommandPathPreempt` uses it, where a hanging job would refute
nothing. Nothing is assumed of the server and the network. `TaskQueue!FairSpec` is weak fairness of each thread's steps
inside a call; no thread has to call. In general a mutex is not fair, and `PopReturns`
is checked only for one popper, against pushers that cannot call for ever
(`MaxPushes`).

`ProcessTree!Fairness`: the living processes are scheduled, and the daemon's fork
succeeds at last (turns in which it fails change nothing). The server owes no
command: `DispatchReceive` has no fairness. `JobBuffer!FairSpec`: a thread
inside a call is scheduled, and a thread that wants the mutex gets it in the end
if the mutex is free again and again. Only an endless run of spurious wakeups
could prevent that here, because `MaxProduced` bounds the calls.
`ProcessPool!FairSpec`: living processes are scheduled and pending signals
delivered; clients, deaths and terminations are free.
`SignalCommand!FairSpec`: the worker runs, and pending signals are delivered; nobody
has to send one.

## 5. Proofs

All theorems hold for all values of the constants that satisfy the named
assumptions of their module (`ConstantsAssumption`); the proofs are checked
to the last leaf with SMT, Zenon and the PTL decision procedure.

* `CommandPathProofs`. The inductive invariant is `IInv` = `TypeOK`, `HandOver`,
  `OneCommand`, `NoPreemption`, `Conservation`, `StartedAreCreates`. `Conservation`
  alone is not inductive: a write appends its record only if the local record is
  filled exactly between read and write (`HandOver`), and `WorkerDies` discards
  `g_queue` and the pipe thread's record, which is harmless only if both are empty
  (`NoPreemption`). That in turn needs that a worker gets one command in its life
  (`OneCommand`). `StartedAreCreates` places the n-th job at the n-th create by
  counting the creates before it, and needs that a job is built for the command
  popped last, a create (`OneCommand` again). Theorems: `TypeCorrectness`,
  `CommandsAreConserved`, `JobsAreNotPreempted`, `CreatesStartJobs`,
  `IdleWorkerStaysIdle`, `PathImplementsChannel`.

* `TaskQueueProofs`. `IInv` = `TypeOK`, `MutualExclusion`, `TestStands`,
  `NoLostWakeup`, `Contents`. What a popper saw in its test stands until it waits or
  takes because it holds the mutex in between; so a thread joins the wait set only
  with an empty queue, and the only step that fills the queue leaves its thread
  about to notify. Theorems: `TypeCorrectness`, `WakeupsAreNotLost`,
  `QueueImplementsFifo`, and `AnswersStand` under the assumption of one popper.

* `JobTaskProofs`. `IInv` = `TypeOK`, `NeverUsedUp`, `BuildOrder`, `ReportMemory`,
  `ReportSpacing`, `EndReportStandsAlone`, `FramesCounted`, `ReportsMade`,
  `WindowIsNewest`. `BuildOrder` says which step of `init()` leaves what behind; with
  it a dataset that has elements implies plugin and engine (`NoNullDereference`).
  `NeverUsedUp` says that the position never moves, so that a job that ends has an
  empty dataset and no result. `ReportMemory` ties the time remembered to the last
  periodic report: between the two stands the report that is skipped when there is
  no result, which is harmless only because no report was made then either. The
  contents of a report follow from `FramesCounted` (the results are the numbers of
  the frames, in order) and `ReportsMade` (each report was made from those there
  were, and the frames of later reports are not fewer): the window is then an
  interval of numbers, and the progress a quotient that is monotonic in the frames
  as long as the product fits an int. Theorems: `TypeCorrectness`,
  `FailedInitIsHarmless`, `ReportsKeepDistance`, `ReportsSendNewest`, `HonestProgress`,
  `EndReportsAreEmpty`, `ClassImplementsLife`.

* `JobBufferProofs`. `IInv` = `TypeOK`, `MutualExclusion`, `TestStands`,
  `RingHoldsQueue`, `NoLostWakeup`. The lock makes a predicate stand until the data
  is moved, so that `buffered_` stays within the ring. `RingHoldsQueue` says that the
  slots from `begin_` on hold what was produced and not consumed. Its remainders are
  of numbers at most once around the ring (`OnceAround`), which turns them into a
  case distinction (`Slot`, `HoldsQueueIsRing`); a value put in goes to the one slot
  no other element has. `NoLostWakeup` counts threads: every step moves one thread
  (the notification two), and a thread joins or leaves those on the way exactly when
  an element, or a free slot, appears or goes (`CoveredMoves`). Theorems:
  `TypeCorrectness`, `WakeupsAreNotLost`, `BufferImplementsFifo`, for a ring of any
  size.

* `ProcessTreeProofs`. `IInv` = `TypeOK`, `KeptEnds`, `StartOrder`, `PipedAreDead`,
  `Hands`, `PhantomNeedsOrphan`, `CollapseOrder`, `NothingYet`, `IdleHands`,
  `WayInOrder`, `DeathsCostOneEach`. A read or a write finds its pipe
  abandoned only if no process has the other end, so the first two properties need
  `KeptEnds`, the ends a process never closes, and `StartOrder`, that a process which
  has not inherited its ends yet cannot have descendants that use the pipe. What
  is then true of the dead stays true because the dead fork no one
  (`DeathIsFinal`). `DeathsOnlyLose` needs the order of all records on the way, and
  not only of those taken (`WayInOrder`): as far back as they can still reach a
  worker, with a phantom counting as the last of all, because no record follows it;
  and that a hand is empty outside its read and write (`IdleHands`), so that a death
  costs at most the record in it. Theorems: `TypeCorrectness`,
  `PhantomsNeedOrphans`, `CollapseFromTheWorker`, `DeathsOnlyLoseCommands`, for any
  number of commands and deaths.

* `ProcessPoolProofs`. `IInv` = `TypeOK`, `StartsQuiet`, `NoEmptyAccept`,
  `NearerThanTold`, `TakesTurns`, and that the backlog never exceeds the connections
  made. `NoEmptyAccept` relates four numbers that one handler moves together: a
  message and a child about to accept each stand for one connection in the backlog,
  and an edge is counted once however many connections it merges. `TakesTurns` is
  about the past; `NearerThanTold` is what it comes to for the next turn: a child not
  told since another was is nearer to its turn, counted around the ring of slots
  (`Distance`). `StartsQuiet` says that nothing moves before a process is set up.
  Theorems: `TypeCorrectness`, `AcceptsFindConnections`, `ChildrenTakeTurns`, for any
  number of children up to the 16 of `MAX_PROCESS_NUMBER`.

* `SignalCommandProofs`. `IInv` = `TypeOK`, `OneSignalEach`, `SlotIsStored`, and
  `OnItsWay` for a command sent at the head of the loop. An id belongs to one signal,
  which is pending, in a handler, or stored, and each of these has the command that
  signal was sent for (`OneSignalEach`), so that equal ids in the two members of the
  slot are of one command; `SlotIsStored` says what the slot holds while handlers
  run; `OnItsWay` follows a command from the head of `status_check()` to its branch:
  what the loop has loaded is the value of the last store (`Seen`), so that the
  branch taken is that of the signal's own command, and `seenFrom` its id. At most
  two handlers run at once, one a signal, which is why `TypeOK` bounds them.
  Theorems: `TypeCorrectness`, `CommandsObeyedAsSent`, for any number of signals.

* `TensorProofs`. `IInv` = `TypeOK`, `SizeIsStorage`, `AsLoaded`,
  `FaultNeedsOddBatch`, `OutputsArrive`, said storage by storage (`ByStorage`).
  `Product`, the loop of `size()`, is a recursive function; that it is
  well defined, positive, and what the sizes of images and outputs say, is proved
  from the least number of dimensions for which it would not be (`FactorsExist`,
  `FactorsUnique`, `ProductIsLoop`). `AsLoaded` says that what a storage holds of
  images was left by a load without a fault. `EvenBatchesAreSafe` takes each fault
  by itself: without an image that is too large, too small or of another type, what
  is written ends within the storage (`EvenOverrun`), what is read within the image
  (`EvenOverread`), and the assertion compares one number with itself (`EvenFills`).
  `ImagesAreInPlace` needs that the int offsets are the true ones, which is proved
  by counting up the images: `nitems` is below half the range, so the first offset
  to wrap would be negative, and a negative offset is a write outside the storage
  (`CountingUp`, `OffsetsExact`). The rest is arithmetic: a number of three digits to
  two bases gives each pixel one place (`ThreeDigits`, `PixelInMemory`, `PixelAtPlace`),
  and that place lies in one image of the batch only (`ElementAt`). Theorems:
  `TypeCorrectness`, `SizesAreKept`, `ImagesAreInPlace`, `EvenBatchesAreSafe`,
  `OutputsAreWhole`.

Assumptions. Each module has its constants of their kinds, pipes and rings with at
least one slot, and finite sets of threads and tensors. Beyond that: in
`CommandPath`, `TaskIds` are natural numbers; in `JobTask`, a window of at least
one result and an int that holds the literal 100 of the progress; in `ProcessPool`,
at most 16 children, as the constructor asserts; in `Tensor`, what is true of every
`cv::Mat` (`ImagesAssumption`: dimensions are ints, a row is no longer than the step to
the next, and the memory holds all rows, or nothing of an empty image), and outputs
without a zero dimension. The number of elements of an image is not bounded, neither
by an int nor by an unsigned int. `AnswersStand` alone assumes one popper, which is what the worker has.

What the proofs changed. Two invariants were not what they should have been.
`ImagesInPlace` said that the places no image fills are zero in every batch;
in one that an unsigned int cannot count those places lie behind the storage,
which no run had reached. It now speaks of them only in batches that can be
counted. `NoLostWakeup` of `JobBuffer` compared the sleepers with the threads on
the way to them, and was not inductive; what is, and what it says now, is more:
while anyone sleeps, all there is to have is covered, however many sleep.

Each `IInv` was checked with TLC first, as an invariant under the bounds of its
module's passing run. The passing runs use the modules with the assumptions, so TLC
evaluates them.

Only model-checked: liveness (`FreshWorkerServes`, `PopReturns`,
`DeathsPropagate`, `BothSidesMove`, `TermStopsPool`, `CancelDoesNotLast`), because it
rests on fairness and `ENABLED`, which the prover does not reach; and the four
properties of section 6, whose counterexamples are behaviours and not theorems.
Every safety property of a passing run is stated by a theorem.

## 6. What the runs found

Four runs state what a comment or the protocol says, and TLC shows a behaviour
of the code that does otherwise:

1. `JobIsDispatchedTask`: a job is built for `g_job_id`, which is always 0, and
   not for the dispatched task (`workProcess.cpp:203`).
2. `NewCommandEndsJob`: the comment in `task_thread` says that a new command
   ends the loop of the running job; with one read per worker it waits in the
   pipe (`workProcess.cpp:190`, `207`).
3. `LastElementIsEnd`: the dataset position is not advanced, so the END code of
   `dataset_mgr.h:25` is never returned, and a job with data runs for ever.
4. `EachConnectionAssigned`: connections that arrive together make one edge, and the
   parent of the pool hands only one of them on (`processpoll.h:305`).

Passing runs say of the code what its author would hardly have meant:
`IdleIsForever` (no command is served after a cancel), `EndReportStandsAlone` (the
only end report there is carries a lone `]`, and the status START, although the
protocol has `TaskStatusFINISH`), `CancelDoesNotLast`, and the exceptions of
`FaultNeedsOddBatch` and `ImagesInPlace`, each of which the run reaches: a single empty
image without channel swap reads one element from NULL, because the `size()` of the
shape (1, 0, 0, 1), which stops at the first zero, is 1; the assertion that a batch
fills its tensor fails for an empty first image, for the same reason; equal images
that together are more than an int counts are written before their storage, as
`offset` turns negative; `memcpy` reads past the end of an image smaller than the
first of its batch; and the pixels of a part of another image are misplaced.

The liveness violations are under `FairSpec`: every process and thread keeps
running in the counterexamples.

## 7. Not modelled

* The report process beyond its fork: it repeats one RPC and `sleep(10)`, keeps
  nothing and shares nothing.
* The reading of the configuration: a file read once, before the first fork.
* The example plugin and the plugin interface: image and float arithmetic in
  OpenCV without a state; `JobTask` knows a plugin as code that answers or faults,
  `Tensor` has the tensors it makes.
* The life of an `MnnEngin`: no build target has it and nothing calls it, so that
  there is no order of `loadModel()` and `forward()` to model.
* `bak/`, in no build target, and the vendored `json.hpp` and `cmdline.h`, which are
  nearly all lines of the repository.
* RPC contents beyond what decides control; memory exhaustion (the results of a
  job without end); failures of `pipe()` and `close()`; logging.
* What the server sent on a stream and the client had not read when the call ended:
  the protocol has no acknowledgement a property could rest on.

## 8. Plan

1. (done) `CommandPath`, `TaskQueue`, `JobTask` with their abstract
   specifications, and the proofs about them.
2. (done) `ProcessTree`, `JobBuffer` and `ProcessPool`, model-checked.
3. (done) `SignalCommand` and `Tensor`, model-checked; jobs that hang in
   `CommandPath`; the text of reports in `JobTask`.
4. (done) Proofs about `JobBuffer` and `ProcessTree`.
5. (done) Proofs of the other safety properties: deaths in `ProcessTree`, the
   contents of reports, `ProcessPool`, `SignalCommand`, `Tensor`, the wakeups of
   `JobBuffer`, the jobs of `CommandPath`.
6. Proofs of what no run states yet: that the processes of `ProcessTree` which live
   implement `CommandChannel` up to the losses, and that `JobBuffer` and `TaskQueue`
   cannot be told apart by their users.
