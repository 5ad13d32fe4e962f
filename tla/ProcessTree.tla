---------------------------- MODULE ProcessTree ----------------------------
(***************************************************************************)
(* The processes of jobClient and the pipe ends they hold: the start-up in *)
(* main() with forks that may fail, the inheritance of descriptors, and    *)
(* what the death of a process does to the others.  An end of a pipe is    *)
(* open as long as some process holds it: reading from a pipe without      *)
(* writers finds its end, and writing to one without readers kills the     *)
(* writer by SIGPIPE, which nobody handles.                                *)
(*                                                                         *)
(* Commands are numbered in the order of their receipt; their contents,    *)
(* the stream and the job are in CommandPath.tla.  Steps that change       *)
(* nothing are not actions: main's read of the end of the dispatch pipe,   *)
(* which it repeats without a pause, and the turns of the daemon's loop in *)
(* which fork() fails.  pipe() and close() succeed: these processes hold   *)
(* a handful of descriptors.                                               *)
(***************************************************************************)
EXTENDS Naturals, Sequences

CONSTANTS
    MaxCommands,        \* bound: commands received
    MaxKills,           \* bound: deaths by other causes than SIGPIPE
    DispatchPipeCap,    \* capacity of the dispatch pipe in TASK_INFO records
    WorkPipeCap         \* capacity of the work pipe in TASK_INFO records

ASSUME ConstantsAssumption ==
    /\ MaxCommands \in Nat
    /\ MaxKills \in Nat
    /\ DispatchPipeCap \in Nat \ {0}
    /\ WorkPipeCap \in Nat \ {0}

Procs == {"main", "report", "daemon", "worker", "dispatch"}

Ends == {"workRead", "workWrite", "dispatchRead", "dispatchWrite"}

(* The TASK_INFO that a failed read leaves uninitialised.                  *)
Phantom == 0

VARIABLES
    at,             \* where each process is, none before its fork, or dead
    fds,            \* the pipe ends each process has open
    hand,           \* the record each process has read and not passed on
    dispatchPipe,   \* what dispatch_fd holds
    workPipe,       \* what pfd holds
    queue,          \* g_queue of the worker
    sent,           \* history: number of commands received
    taken,          \* history: commands popped by a worker
    kills,          \* history: number of deaths by other causes
    piped           \* history: the processes SIGPIPE has killed

pipes == <<dispatchPipe, workPipe>>
history == <<sent, taken, kills, piped>>
vars == <<at, fds, hand, pipes, queue, history>>

Init ==
    /\ at = [p \in Procs |-> IF p = "main" THEN "forkReport" ELSE "none"]
    /\ fds = [p \in Procs |-> {}]
    /\ hand = [p \in Procs |-> <<>>]
    /\ dispatchPipe = <<>>
    /\ workPipe = <<>>
    /\ queue = <<>>
    /\ sent = 0
    /\ taken = <<>>
    /\ kills = 0
    /\ piped = {}

Alive(p) == at[p] \notin {"none", "dead"}

Open(end) == \E p \in Procs : end \in fds[p]

Goto(p, label) == at' = [at EXCEPT ![p] = label]

(* fork(): the child has the descriptors its parent has, open included.    *)
Fork(parent, open, next, child, label) ==
    /\ at' = [at EXCEPT ![parent] = next, ![child] = label]
    /\ fds' = [fds EXCEPT ![parent] = open, ![child] = open]

Die(p) ==
    /\ Goto(p, "dead")
    /\ fds' = [fds EXCEPT ![p] = {}]
    /\ hand' = [hand EXCEPT ![p] = <<>>]
    /\ queue' = IF p = "worker" THEN <<>> ELSE queue

-----------------------------------------------------------------------------
(* Start-up, in main().  A failed fork is printed, and main goes on.       *)

ForkReport ==
    /\ at["main"] = "forkReport"
    /\ \/ Fork("main", {}, "forkDaemon", "report", "run")
       \/ Goto("main", "forkDaemon") /\ UNCHANGED fds
    /\ UNCHANGED <<hand, pipes, queue, history>>

(* pipe(pfd), and the fork of the daemon, which closes neither end.        *)
ForkDaemon ==
    /\ at["main"] = "forkDaemon"
    /\ LET open == {"workRead", "workWrite"}
       IN \/ Fork("main", open, "closeWorkRead", "daemon", "fork")
          \/ /\ Goto("main", "closeWorkRead")
             /\ fds' = [fds EXCEPT !["main"] = open]
    /\ UNCHANGED <<hand, pipes, queue, history>>

CloseWorkRead ==
    /\ at["main"] = "closeWorkRead"
    /\ fds' = [fds EXCEPT !["main"] = @ \ {"workRead"}]
    /\ Goto("main", "forkDispatch")
    /\ UNCHANGED <<hand, pipes, queue, history>>

(* pipe(dispatch_fd), and the fork of the dispatch process.  The case of   *)
(* the failed fork has no break: main itself runs run_task_dispatch.       *)
ForkDispatch ==
    /\ at["main"] = "forkDispatch"
    /\ LET open == fds["main"] \union {"dispatchRead", "dispatchWrite"}
       IN \/ Fork("main", open, "closeDispatchWrite",
                  "dispatch", "closeDispatchRead")
          \/ /\ Goto("main", "closeDispatchRead")
             /\ fds' = [fds EXCEPT !["main"] = open]
    /\ UNCHANGED <<hand, pipes, queue, history>>

CloseDispatchWrite ==
    /\ at["main"] = "closeDispatchWrite"
    /\ fds' = [fds EXCEPT !["main"] = @ \ {"dispatchWrite"}]
    /\ Goto("main", "select")
    /\ UNCHANGED <<hand, pipes, queue, history>>

-----------------------------------------------------------------------------
(* A variant of the write that does not stop at the capacity.              *)
WriteUnbounded(p, end, pipe, cap, next) ==
    /\ Open(end)
    /\ pipe' = pipe \o hand[p]
    /\ hand' = [hand EXCEPT ![p] = <<>>]
    /\ Goto(p, next)
    /\ UNCHANGED <<fds, queue, piped>>

(* A variant of the write that drops the record when there is no room.     *)
WriteDropping(p, end, pipe, cap, next) ==
    /\ Open(end)
    /\ pipe' = IF Len(pipe) < cap THEN pipe \o hand[p] ELSE pipe
    /\ hand' = [hand EXCEPT ![p] = <<>>]
    /\ Goto(p, next)
    /\ UNCHANGED <<fds, queue, piped>>

(* A blocking write, or death by SIGPIPE.                                  *)
Write(p, end, pipe, cap, next) ==
    \/ /\ Open(end)
       /\ Len(pipe) < cap
       /\ pipe' = pipe \o hand[p]
       /\ hand' = [hand EXCEPT ![p] = <<>>]
       /\ Goto(p, next)
       /\ UNCHANGED <<fds, queue, piped>>
    \/ /\ ~Open(end)
       /\ Die(p)
       /\ piped' = piped \union {p}
       /\ UNCHANGED pipe

(* Main as the router.                                                     *)
RouterRead ==
    /\ at["main"] = "select"
    /\ dispatchPipe # <<>>
    /\ hand' = [hand EXCEPT !["main"] = <<Head(dispatchPipe)>>]
    /\ dispatchPipe' = Tail(dispatchPipe)
    /\ Goto("main", "route")
    /\ UNCHANGED <<fds, workPipe, queue, history>>

RouterWrite ==
    /\ at["main"] = "route"
    /\ Write("main", "workRead", workPipe, WorkPipeCap, "select")
    /\ UNCHANGED <<dispatchPipe, sent, taken, kills>>

(* run_task_dispatch, in the dispatch process or in main.                  *)

(* A variant that keeps the read end of the dispatch pipe open.            *)
DispatchKeepsRead(p) ==
    /\ at[p] = "closeDispatchRead"
    /\ Goto(p, "receive")
    /\ UNCHANGED <<fds, hand, pipes, queue, history>>

(* A variant that closes the work pipe it has inherited as well.           *)
DispatchClosesAll(p) ==
    /\ at[p] = "closeDispatchRead"
    /\ fds' = [fds EXCEPT ![p] = {"dispatchWrite"}]
    /\ Goto(p, "receive")
    /\ UNCHANGED <<hand, pipes, queue, history>>

DispatchStart(p) ==
    /\ at[p] = "closeDispatchRead"
    /\ fds' = [fds EXCEPT ![p] = @ \ {"dispatchRead"}]
    /\ Goto(p, "receive")
    /\ UNCHANGED <<hand, pipes, queue, history>>

DispatchReceive(p) ==
    /\ at[p] = "receive"
    /\ sent < MaxCommands
    /\ sent' = sent + 1
    /\ hand' = [hand EXCEPT ![p] = <<sent + 1>>]
    /\ Goto(p, "forward")
    /\ UNCHANGED <<fds, pipes, queue, taken, kills, piped>>

DispatchWrite(p) ==
    /\ at[p] = "forward"
    /\ Write(p, "dispatchRead", dispatchPipe, DispatchPipeCap, "receive")
    /\ UNCHANGED <<workPipe, sent, taken, kills>>

-----------------------------------------------------------------------------
(* The daemon.                                                             *)

(* A variant that closes the daemon's own ends once it has forked.         *)
DaemonForksAndCloses ==
    /\ at["daemon"] = "fork"
    /\ at' = [at EXCEPT !["daemon"] = "wait", !["worker"] = "closeWorkWrite"]
    /\ fds' = [fds EXCEPT !["daemon"] = {}, !["worker"] = fds["daemon"]]
    /\ UNCHANGED <<hand, pipes, queue, history>>

DaemonForks ==
    /\ at["daemon"] = "fork"
    /\ Fork("daemon", fds["daemon"], "wait", "worker", "closeWorkWrite")
    /\ UNCHANGED <<hand, pipes, queue, history>>

DaemonReaps ==
    /\ at["daemon"] = "wait"
    /\ at["worker"] = "dead"
    /\ Goto("daemon", "fork")
    /\ UNCHANGED <<fds, hand, pipes, queue, history>>

-----------------------------------------------------------------------------
(* The worker: at["worker"] is where its pipe_thread is.                   *)

WorkerStart ==
    /\ at["worker"] = "closeWorkWrite"
    /\ fds' = [fds EXCEPT !["worker"] = @ \ {"workWrite"}]
    /\ Goto("worker", "read")
    /\ UNCHANGED <<hand, pipes, queue, history>>

(* The result of read() is not looked at: at the end of the pipe, the      *)
(* uninitialised record is passed on.                                      *)
WorkerRead ==
    /\ at["worker"] = "read"
    /\ \/ /\ workPipe # <<>>
          /\ hand' = [hand EXCEPT !["worker"] = <<Head(workPipe)>>]
          /\ workPipe' = Tail(workPipe)
       \/ /\ workPipe = <<>>
          /\ ~Open("workWrite")
          /\ hand' = [hand EXCEPT !["worker"] = <<Phantom>>]
          /\ UNCHANGED workPipe
    /\ Goto("worker", "push")
    /\ UNCHANGED <<fds, dispatchPipe, queue, history>>

(* A variant that goes back to its read, whatever the read returned.       *)
WorkerPushAndLoop ==
    /\ at["worker"] = "push"
    /\ queue' = queue \o hand["worker"]
    /\ hand' = [hand EXCEPT !["worker"] = <<>>]
    /\ Goto("worker", "read")
    /\ UNCHANGED <<fds, pipes, history>>

WorkerPush ==
    /\ at["worker"] = "push"
    /\ queue' = queue \o hand["worker"]
    /\ hand' = [hand EXCEPT !["worker"] = <<>>]
    /\ Goto("worker", "done")
    /\ UNCHANGED <<fds, pipes, history>>

(* task_thread's pop().                                                    *)
WorkerPop ==
    /\ queue # <<>>
    /\ taken' = Append(taken, Head(queue))
    /\ queue' = Tail(queue)
    /\ UNCHANGED <<at, fds, hand, pipes, sent, kills, piped>>

-----------------------------------------------------------------------------
(* A process dies: of a fault in its code, a job's among them, or killed.  *)
Kill(p) ==
    /\ Alive(p)
    /\ kills < MaxKills
    /\ kills' = kills + 1
    /\ Die(p)
    /\ UNCHANGED <<pipes, sent, taken, piped>>

Main ==
    ForkReport \/ ForkDaemon \/ CloseWorkRead \/ ForkDispatch
        \/ CloseDispatchWrite \/ RouterRead \/ RouterWrite

Dispatcher(p) == DispatchStart(p) \/ DispatchReceive(p) \/ DispatchWrite(p)

Daemon == DaemonForks \/ DaemonReaps

Worker == WorkerStart \/ WorkerRead \/ WorkerPush \/ WorkerPop

Next ==
    \/ Main \/ Daemon \/ Worker
    \/ \E p \in {"main", "dispatch"} : Dispatcher(p)
    \/ \E p \in Procs : Kill(p)

Spec == Init /\ [][Next]_vars

(* Living processes are scheduled, and the daemon's fork succeeds at last. *)
(* The server owes no command.                                             *)
Fairness ==
    /\ WF_vars(Main) /\ WF_vars(Daemon) /\ WF_vars(Worker)
    /\ \A p \in {"main", "dispatch"} :
           WF_vars(DispatchStart(p) \/ DispatchWrite(p))

FairSpec == Spec /\ Fairness
-----------------------------------------------------------------------------
(* Properties.                                                             *)

Commands == 1..MaxCommands

Records == Commands \union {Phantom}

(* Every variable has its type, pipes keep within their capacity, and the  *)
(* dead hold no pipe end and no record.                                    *)
TypeOK ==
    /\ at["main"] \in {"forkReport", "forkDaemon", "closeWorkRead",
            "forkDispatch", "closeDispatchWrite", "select", "route",
            "closeDispatchRead", "receive", "forward", "dead"}
    /\ at["report"] \in {"none", "run", "dead"}
    /\ at["daemon"] \in {"none", "fork", "wait", "dead"}
    /\ at["worker"] \in {"none", "closeWorkWrite", "read", "push", "done",
            "dead"}
    /\ at["dispatch"] \in {"none", "closeDispatchRead", "receive",
            "forward", "dead"}
    /\ DOMAIN at = Procs
    /\ fds \in [Procs -> SUBSET Ends]
    /\ hand \in [Procs -> Seq(Records)]
    /\ \A p \in Procs : ~Alive(p) => fds[p] = {} /\ hand[p] = <<>>
    /\ dispatchPipe \in Seq(Commands)
    /\ Len(dispatchPipe) <= DispatchPipeCap
    /\ workPipe \in Seq(Commands)
    /\ Len(workPipe) <= WorkPipeCap
    /\ queue \in Seq(Records)
    /\ sent \in 0..MaxCommands
    /\ taken \in Seq(Records)
    /\ kills \in 0..MaxKills
    /\ piped \subseteq {"main", "dispatch"}

(* The record no one has written is acted upon only in a worker that every *)
(* other process of the path has left alone: the daemon and the dispatch   *)
(* process never use the write end of the work pipe they inherit, but it   *)
(* keeps a waiting worker from the end of the pipe while one of them or    *)
(* main lives (workProcess.cpp:187-192 against main.cpp:33-59).            *)
PhantomNeedsOrphan ==
    (\E s \in {hand["worker"], queue, taken} :
         \E i \in 1..Len(s) : s[i] = Phantom)
        => ~Alive("main") /\ ~Alive("daemon") /\ ~Alive("dispatch")

(* SIGPIPE strikes from the worker's end only: the dispatch process dies   *)
(* of it after main, and main as the router after the daemon and the       *)
(* worker (main.cpp:105, dispatchProcess.cpp:41).                          *)
CollapseOrder ==
    /\ "dispatch" \in piped => ~Alive("main")
    /\ "main" \in piped /\ at["dispatch"] # "none" =>
           ~Alive("daemon") /\ ~Alive("worker")

(* What makes the two properties above inductive: which ends a process     *)
(* keeps as long as it lives, that the processes are started in order,     *)
(* that SIGPIPE's victims are dead, and that only a worker ever has a      *)
(* phantom in hand.                                                        *)
KeptEnds ==
    /\ \A p \in {"daemon", "worker"} : Alive(p) => "workRead" \in fds[p]
    /\ \A p \in {"daemon", "dispatch"} : Alive(p) => "workWrite" \in fds[p]
    /\ Alive("main") /\ at["main"] \notin {"forkReport", "forkDaemon"} =>
           "workWrite" \in fds["main"]
    /\ at["main"] \in {"closeDispatchWrite", "select", "route"} =>
           "dispatchRead" \in fds["main"]

StartOrder ==
    /\ at["dispatch"] # "none" =>
           at["main"] \in {"closeDispatchWrite", "select", "route", "dead"}
    /\ at["daemon"] # "none" =>
           at["main"] \notin {"forkReport", "forkDaemon"}
    /\ at["worker"] # "none" => at["daemon"] # "none"
    /\ at["daemon"] = "fork" => at["worker"] \in {"none", "dead"}

PipedAreDead == \A p \in piped : at[p] = "dead"

Hands ==
    /\ \A p \in Procs : Len(hand[p]) <= 1
    /\ \A p \in Procs \ {"worker"} : hand[p] \in Seq(Commands)

(* Deaths lose commands, and do nothing else: what is popped is in the     *)
(* order of receipt, no command twice, and a phantom comes last.  While    *)
(* main lives and the work pipe has a reader, each death costs at most the *)
(* one command the dead process was passing on; every other one is popped  *)
(* or on its way (main.cpp:94-109 and the blocking pipes, with any process *)
(* killed anywhere).                                                       *)
TakenInOrder ==
    \A i, j \in 1..Len(taken) :
        i < j => taken[i] # Phantom
                   /\ (taken[j] = Phantom \/ taken[i] < taken[j])

DeathsCostOneEach ==
    Alive("main") /\ Open("workRead") =>
        sent <= kills + Len(taken) + Len(queue) + Len(hand["worker"])
                  + Len(workPipe) + Len(hand["main"]) + Len(dispatchPipe)
                  + Len(hand["dispatch"])

DeathsOnlyLose == TakenInOrder /\ DeathsCostOneEach

(* What makes that inductive: nothing is received before main has forked   *)
(* the dispatch process or taken its place; a hand holds a record only     *)
(* between reading and passing on; a worker reads one record in its life;  *)
(* and all records from taken back to the dispatch process are in order,   *)
(* a phantom counting as the last of all, as far back as they can still    *)
(* reach a worker.                                                         *)
Router == at["main"] \in {"closeDispatchWrite", "select", "route"}

NothingYet ==
    at["main"] \in {"forkReport", "forkDaemon", "closeWorkRead",
                    "forkDispatch"}
        => sent = 0 /\ dispatchPipe = <<>>

IdleHands ==
    /\ hand["main"] # <<>> => at["main"] \in {"route", "forward"}
    /\ hand["dispatch"] # <<>> => at["dispatch"] = "forward"
    /\ hand["worker"] # <<>> => at["worker"] = "push"
    /\ queue # <<>> => at["worker"] = "done" /\ Len(queue) <= 1
    /\ hand["daemon"] = <<>> /\ hand["report"] = <<>>
    /\ at["worker"] \in {"closeWorkWrite", "read"} =>
           \A i \in 1..Len(taken) : taken[i] # Phantom

Weight(r) == IF r = Phantom THEN MaxCommands + 1 ELSE r

InOrder(s) ==
    \A i, j \in 1..Len(s) : i < j => Weight(s[i]) < Weight(s[j])

Near == ((taken \o queue) \o hand["worker"]) \o workPipe

Far ==
    IF Router THEN (hand["main"] \o dispatchPipe) \o hand["dispatch"]
    ELSE <<>>

WayInOrder ==
    /\ InOrder(Near \o Far)
    /\ \A i \in 1..Len(Near \o Far) : (Near \o Far)[i] <= sent

IInv ==
    TypeOK /\ KeptEnds /\ StartOrder /\ PipedAreDead /\ Hands
        /\ PhantomNeedsOrphan /\ CollapseOrder
        /\ NothingYet /\ IdleHands /\ WayInOrder /\ DeathsCostOneEach

(* A process that has to write to a pipe whose readers are gone does not   *)
(* wait for ever but dies: so does main for a work pipe without daemon and *)
(* worker, the dispatch process after main, and main with its first        *)
(* command when it runs the dispatch loop itself after a failed fork.      *)
DeathsPropagate ==
    /\ (at["main"] = "route" /\ ~Alive("daemon") /\ ~Alive("worker"))
           ~> at["main"] = "dead"
    /\ (at["dispatch"] = "forward" /\ at["main"] = "dead")
           ~> at["dispatch"] = "dead"
    /\ at["main"] = "forward" ~> at["main"] = "dead"
=============================================================================
