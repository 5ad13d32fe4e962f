----------------------------- MODULE TaskQueue -----------------------------
(***************************************************************************)
(* The class TaskQueue (workProcess/taskQueue.cpp), one step per effect on *)
(* shared state: a std::queue under a std::mutex, with one                 *)
(* std::condition_variable that pop() waits on.                            *)
(*                                                                         *)
(* In a worker, pipe_thread is the one pusher, and task_thread the one     *)
(* popper and the one caller of isEmpty(); the class allows any number.    *)
(* A notified waiter, and one that wakes without cause, leaves the wait    *)
(* set and takes the mutex again before it looks at the queue.             *)
(***************************************************************************)
EXTENDS Naturals, Sequences, FiniteSets

CONSTANTS
    Pushers,        \* the threads that call push_back()
    Poppers,        \* the threads that call pop() and isEmpty()
    Infos,          \* the values of TASK_INFO
    NoThread,
    MaxPushes       \* bound: calls of push_back()

ASSUME ConstantsAssumption ==
    /\ Pushers \intersect Poppers = {}
    /\ NoThread \notin Pushers \union Poppers
    /\ MaxPushes \in Nat

Threads == Pushers \union Poppers

VARIABLES
    mutex,          \* mutex_: its owner, or NoThread
    queue,          \* queue_
    waiting,        \* the threads in oneFinished_.wait()
    at,             \* where each thread is, see PusherLabels and
                    \* PopperLabels
    seen,           \* per popper, isEmpty()'s last answer until it pops or
                    \* asks again: none, empty or filled
    received,       \* history: pushed, in the order of queue_.push()
    taken           \* history: popped, in the order of queue_.pop()

vars == <<mutex, queue, waiting, at, seen, received, taken>>

PusherLabels == {"out", "push", "pushing", "notify", "unlock"}

PopperLabels == {"out", "pop", "testing", "wait", "waiting", "take",
                 "isEmpty", "reading", "unlock"}

(* Where a thread is inside the scope of its lock.                         *)
LockedLabels == {"pushing", "notify", "testing", "wait", "take", "reading",
                 "unlock"}

Init ==
    /\ mutex = NoThread
    /\ queue = <<>>
    /\ waiting = {}
    /\ at = [t \in Threads |-> "out"]
    /\ seen = [t \in Poppers |-> "none"]
    /\ received = <<>>
    /\ taken = <<>>

Goto(t, label) == at' = [at EXCEPT ![t] = label]

(* A variant whose push_back() does not take the mutex.                    *)
LockUnlessPush(t, from, to) ==
    /\ at[t] = from
    /\ from = "push" \/ mutex = NoThread
    /\ mutex' = IF from = "push" THEN mutex ELSE t
    /\ Goto(t, to)
    /\ UNCHANGED <<queue, waiting, seen, received, taken>>

(* lock_guard or unique_lock at the head of a member function; a woken     *)
(* waiter also comes through here.                                         *)
Lock(t, from, to) ==
    /\ at[t] = from
    /\ mutex = NoThread
    /\ mutex' = t
    /\ Goto(t, to)
    /\ UNCHANGED <<queue, waiting, seen, received, taken>>

(* The end of the lock's scope.                                            *)
Unlock(t) ==
    /\ at[t] = "unlock"
    /\ mutex' = NoThread
    /\ Goto(t, "out")
    /\ UNCHANGED <<queue, waiting, seen, received, taken>>

-----------------------------------------------------------------------------
(* push_back()                                                             *)

CallPush(t) ==
    /\ at[t] = "out"
    /\ Len(received) + Cardinality({u \in Pushers \ {t} :
            at[u] \in {"push", "pushing"}}) < MaxPushes
    /\ Goto(t, "push")
    /\ UNCHANGED <<mutex, queue, waiting, seen, received, taken>>

(* queue_.push() of the caller's argument.                                 *)
PushItem(t) ==
    /\ at[t] = "pushing"
    /\ \E info \in Infos :
          /\ queue' = Append(queue, info)
          /\ received' = Append(received, info)
    /\ Goto(t, "notify")
    /\ UNCHANGED <<mutex, waiting, seen, taken>>

(* A variant that forgets the notification.                                *)
NotifyNone(t) ==
    /\ at[t] = "notify"
    /\ Goto(t, "unlock")
    /\ UNCHANGED <<mutex, queue, waiting, seen, received, taken>>

(* notify_all(), still under the lock.                                     *)
NotifyAll(t) ==
    /\ at[t] = "notify"
    /\ waiting' = {}
    /\ at' = [u \in Threads |-> CASE u = t          -> "unlock"
                                  [] u \in waiting  -> "pop"
                                  [] OTHER          -> at[u]]
    /\ UNCHANGED <<mutex, queue, seen, received, taken>>

-----------------------------------------------------------------------------
(* pop()                                                                   *)

CallPop(t) ==
    /\ at[t] = "out"
    /\ Goto(t, "pop")
    /\ UNCHANGED <<mutex, queue, waiting, seen, received, taken>>

(* The predicate, on entry and after each wakeup.                          *)
Test(t) ==
    /\ at[t] = "testing"
    /\ Goto(t, IF queue = <<>> THEN "wait" ELSE "take")
    /\ UNCHANGED <<mutex, queue, waiting, seen, received, taken>>

(* A variant that gives the mutex up and is not yet among the waiters.     *)
WaitUnregistered(t) ==
    /\ at[t] = "wait"
    /\ mutex' = NoThread
    /\ Goto(t, "waiting")
    /\ UNCHANGED <<queue, waiting, seen, received, taken>>

(* wait(): the mutex is given up and the thread registered in one step.    *)
Wait(t) ==
    /\ at[t] = "wait"
    /\ mutex' = NoThread
    /\ waiting' = waiting \union {t}
    /\ Goto(t, "waiting")
    /\ UNCHANGED <<queue, seen, received, taken>>

(* A wait may end without a notification.                                  *)
WakeSpuriously(t) ==
    /\ at[t] = "waiting"
    /\ waiting' = waiting \ {t}
    /\ Goto(t, "pop")
    /\ UNCHANGED <<mutex, queue, seen, received, taken>>

(* A variant that copies front() and leaves the element in the queue.      *)
TakeItemKeeping(t) ==
    /\ at[t] = "take"
    /\ taken' = Append(taken, Head(queue))
    /\ seen' = [seen EXCEPT ![t] = "none"]
    /\ Goto(t, "unlock")
    /\ UNCHANGED <<mutex, queue, waiting, received>>

TakeItem(t) ==
    /\ at[t] = "take"
    /\ queue' = Tail(queue)
    /\ taken' = Append(taken, Head(queue))
    /\ seen' = [seen EXCEPT ![t] = "none"]
    /\ Goto(t, "unlock")
    /\ UNCHANGED <<mutex, waiting, received>>

-----------------------------------------------------------------------------
(* isEmpty()                                                               *)

CallIsEmpty(t) ==
    /\ at[t] = "out"
    /\ Goto(t, "isEmpty")
    /\ seen' = [seen EXCEPT ![t] = "none"]
    /\ UNCHANGED <<mutex, queue, waiting, received, taken>>

(* A variant that answers the opposite.                                    *)
ReadFilled(t) ==
    /\ at[t] = "reading"
    /\ seen' = [seen EXCEPT ![t] = IF queue = <<>> THEN "filled" ELSE "empty"]
    /\ Goto(t, "unlock")
    /\ UNCHANGED <<mutex, queue, waiting, received, taken>>

ReadEmpty(t) ==
    /\ at[t] = "reading"
    /\ seen' = [seen EXCEPT ![t] = IF queue = <<>> THEN "empty" ELSE "filled"]
    /\ Goto(t, "unlock")
    /\ UNCHANGED <<mutex, queue, waiting, received, taken>>

-----------------------------------------------------------------------------
(* The steps inside a call, which a scheduled thread takes.                *)
PushStep(t) ==
    Lock(t, "push", "pushing") \/ PushItem(t) \/ NotifyAll(t) \/ Unlock(t)

PopStep(t) ==
    Lock(t, "pop", "testing") \/ Test(t) \/ Wait(t) \/ TakeItem(t)
        \/ Lock(t, "isEmpty", "reading") \/ ReadEmpty(t) \/ Unlock(t)

Next ==
    \/ \E t \in Pushers : CallPush(t) \/ PushStep(t)
    \/ \E t \in Poppers :
           CallPop(t) \/ CallIsEmpty(t) \/ PopStep(t) \/ WakeSpuriously(t)

Spec == Init /\ [][Next]_vars

(* A thread inside a call is scheduled; nobody has to make another call,   *)
(* and the mutex owes no one a turn beyond that.                           *)
FairSpec ==
    /\ Spec
    /\ \A t \in Pushers : WF_vars(PushStep(t))
    /\ \A t \in Poppers : WF_vars(PopStep(t))
-----------------------------------------------------------------------------
(* Properties.                                                             *)

(* Every variable has its type, and the wait set is exactly the threads    *)
(* that sleep in pop() (taskQueue.h).                                      *)
TypeOK ==
    /\ mutex \in Threads \union {NoThread}
    /\ queue \in Seq(Infos)
    /\ at \in [Threads -> PusherLabels \union PopperLabels]
    /\ \A t \in Pushers : at[t] \in PusherLabels
    /\ \A t \in Poppers : at[t] \in PopperLabels
    /\ waiting = {t \in Poppers : at[t] = "waiting"}
    /\ seen \in [Poppers -> {"none", "empty", "filled"}]
    /\ received \in Seq(Infos)
    /\ taken \in Seq(Infos)

(* What makes NoLostWakeup and FifoSpec inductive: a thread inside the     *)
(* scope of its lock owns the mutex, so that what it saw of the queue      *)
(* stands until it acts on it; and the queue holds what was not taken.     *)
MutualExclusion == \A t \in Threads : at[t] \in LockedLabels => mutex = t

TestStands ==
    \A t \in Poppers : /\ at[t] = "wait" => queue = <<>>
                       /\ at[t] = "take" => queue # <<>>

Contents == received = taken \o queue

(* No wakeup is lost: when there is an element and a thread that sleeps    *)
(* for one, a pusher is about to notify (push_back() of taskQueue.cpp:12,  *)
(* against the test and the wait of taskQueue.cpp:21-23).                  *)
NoLostWakeup ==
    waiting # {} /\ queue # <<>> => \E t \in Pushers : at[t] = "notify"

IInv == TypeOK /\ MutualExclusion /\ TestStands /\ NoLostWakeup /\ Contents

Fifo == INSTANCE CommandChannel

(* Under any interleaving the class is a queue: elements are popped in the *)
(* order of their pushes, each once and none skipped (taskQueue.cpp).      *)
FifoSpec == Fifo!Spec

(* Where one thread alone calls pop() and isEmpty(), as task_thread does,  *)
(* the answer that there is an element is never out of date: the pop()     *)
(* that follows does not wait (workProcess.cpp:201-209).                   *)
FilledStands == \A t \in Poppers : seen[t] = "filled" => queue # <<>>

(* A popper inside pop() returns once there is an element, whichever way   *)
(* its wait and the pushes interleave (for one popper, as in a worker).    *)
PopReturns ==
    \A t \in Poppers :
        (at[t] \in {"pop", "testing", "wait", "waiting"} /\ queue # <<>>)
            ~> at[t] = "out"
=============================================================================
