----------------------------- MODULE JobBuffer -----------------------------
(***************************************************************************)
(* The bounded buffer of queue/jobQueue.h under any interleaving of the    *)
(* threads that produce and consume: a ring of circular_buffer_.size()     *)
(* slots, one mutex, and a condition variable for each side, notified once *)
(* and after the mutex was given up.                                       *)
(***************************************************************************)
EXTENDS Integers, Sequences, FiniteSets

CONSTANTS
    Producers,          \* threads that call Produce
    Consumers,          \* threads that call Consume
    Size,               \* circular_buffer_.size()
    Values,             \* the ints stored, 0 among them
    MaxProduced,        \* bound: calls of Produce
    NoThread            \* the owner of a free mutex

ASSUME ConstantsAssumption ==
    /\ Producers \intersect Consumers = {}
    /\ IsFiniteSet(Producers \union Consumers)
    /\ NoThread \notin Producers \union Consumers
    /\ Size \in Nat \ {0}
    /\ 0 \in Values
    /\ MaxProduced \in Nat

Threads == Producers \union Consumers

VARIABLES
    mutex,              \* mutex_: its owner
    ring,               \* circular_buffer_
    begin,              \* begin_
    end,                \* end_
    buffered,           \* buffered_
    at,                 \* where each thread is
    produced,           \* history: the values put in
    consumed            \* history: the values taken out

buffer == <<ring, begin, end, buffered>>
history == <<produced, consumed>>
vars == <<mutex, buffer, at, history>>

Init ==
    /\ mutex = NoThread
    /\ ring = [i \in 0..(Size - 1) |-> 0]
    /\ begin = 0
    /\ end = 0
    /\ buffered = 0
    /\ at = [t \in Threads |-> "out"]
    /\ produced = <<>>
    /\ consumed = <<>>

Goto(t, label) == at' = [at EXCEPT ![t] = label]

(* The sleeping threads are the wait sets of the two variables.            *)
WaitingNotFull == {t \in Producers : at[t] = "wait"}
WaitingNotEmpty == {t \in Consumers : at[t] = "wait"}

(* Calls in progress count against the bound of Produce.                   *)
Call(t) ==
    /\ at[t] = "out"
    /\ t \in Producers =>
           Len(produced) + Cardinality({u \in Producers :
               at[u] \in {"lock", "test", "move", "wait"}}) < MaxProduced
    /\ Goto(t, "lock")
    /\ UNCHANGED <<mutex, buffer, history>>

(* unique_lock at the head of a call, and again after a wakeup.            *)
Lock(t) ==
    /\ at[t] = "lock"
    /\ mutex = NoThread
    /\ mutex' = t
    /\ Goto(t, "test")
    /\ UNCHANGED <<buffer, history>>

(* A variant of the predicates that lets a producer into a full buffer.    *)
MayMoveOffByOne(t) ==
    IF t \in Producers THEN buffered <= Size ELSE buffered > 0

(* The predicates of the two waits: not full, and not empty.               *)
MayMove(t) == IF t \in Producers THEN buffered < Size ELSE buffered > 0

(* wait(): go on, or give the mutex up and sleep, in one step.             *)
Test(t) ==
    /\ at[t] = "test"
    /\ \/ MayMove(t) /\ Goto(t, "move") /\ UNCHANGED mutex
       \/ ~MayMove(t) /\ Goto(t, "wait") /\ mutex' = NoThread
    /\ UNCHANGED <<buffer, history>>

WakeSpuriously(t) ==
    /\ at[t] = "wait"
    /\ Goto(t, "lock")
    /\ UNCHANGED <<mutex, buffer, history>>

(* A variant of Produce that moves the index before it fills the slot.     *)
InsertAfterStep(t) ==
    /\ t \in Producers
    /\ at[t] = "move"
    /\ end' = (end + 1) % Size
    /\ \E n \in Values :
          /\ ring' = [ring EXCEPT ![(end + 1) % Size] = n]
          /\ produced' = Append(produced, n)
    /\ buffered' = buffered + 1
    /\ Goto(t, "unlock")
    /\ UNCHANGED <<mutex, begin, consumed>>

(* The body of Produce: the slot, the index, the counter.                  *)
Insert(t) ==
    /\ t \in Producers
    /\ at[t] = "move"
    /\ \E n \in Values :
          /\ ring' = [ring EXCEPT ![end] = n]
          /\ produced' = Append(produced, n)
    /\ end' = (end + 1) % Size
    /\ buffered' = buffered + 1
    /\ Goto(t, "unlock")
    /\ UNCHANGED <<mutex, begin, consumed>>

(* A variant of Consume that reads the slot after moving its index.        *)
RemoveNext(t) ==
    /\ t \in Consumers
    /\ at[t] = "move"
    /\ begin' = (begin + 1) % Size
    /\ consumed' = Append(consumed, ring[begin'])
    /\ buffered' = buffered - 1
    /\ Goto(t, "unlock")
    /\ UNCHANGED <<mutex, ring, end, produced>>

(* The body of Consume.                                                    *)
Remove(t) ==
    /\ t \in Consumers
    /\ at[t] = "move"
    /\ consumed' = Append(consumed, ring[begin])
    /\ begin' = (begin + 1) % Size
    /\ buffered' = buffered - 1
    /\ Goto(t, "unlock")
    /\ UNCHANGED <<mutex, ring, end, produced>>

Unlock(t) ==
    /\ at[t] = "unlock"
    /\ mutex' = NoThread
    /\ Goto(t, "notify")
    /\ UNCHANGED <<buffer, history>>

(* A variant with the two condition variables exchanged.                   *)
WaitersSwapped(t) ==
    IF t \in Producers THEN WaitingNotFull ELSE WaitingNotEmpty

(* The variable a thread notifies is the one the other side waits on.      *)
Waiters(t) == IF t \in Producers THEN WaitingNotEmpty ELSE WaitingNotFull

(* notify_one(), without the mutex: some waiter wakes, if there is one.    *)
NotifyOne(t) ==
    /\ at[t] = "notify"
    /\ \/ /\ Waiters(t) = {}
          /\ Goto(t, "out")
       \/ \E u \in Waiters(t) :
             at' = [at EXCEPT ![t] = "out", ![u] = "lock"]
    /\ UNCHANGED <<mutex, buffer, history>>

Step(t) ==
    Lock(t) \/ Test(t) \/ Insert(t) \/ Remove(t) \/ Unlock(t) \/ NotifyOne(t)

Next == \E t \in Threads : Call(t) \/ Step(t) \/ WakeSpuriously(t)

Spec == Init /\ [][Next]_vars

(* A thread inside a call is scheduled; nobody has to call.  Strong        *)
(* fairness says that a thread is not for ever beaten to the free mutex,   *)
(* which only an unending run of spurious wakeups would do here.           *)
FairSpec ==
    Spec /\ \A t \in Threads : WF_vars(Step(t)) /\ SF_vars(Lock(t))
-----------------------------------------------------------------------------
(* Properties.                                                             *)

(* Every variable has its type, the indices are slots of the ring, and no  *)
(* more is buffered than it has (jobQueue.h:53-59).                        *)
TypeOK ==
    /\ mutex \in Threads \union {NoThread}
    /\ ring \in [0..(Size - 1) -> Values]
    /\ begin \in 0..(Size - 1)
    /\ end \in 0..(Size - 1)
    /\ buffered \in 0..Size
    /\ at \in [Threads -> {"out", "lock", "test", "wait", "move", "unlock",
                            "notify"}]
    /\ produced \in Seq(Values)
    /\ consumed \in Seq(Values)

(* What makes TypeOK and FifoSpec inductive: a thread inside its lock owns *)
(* the mutex, so that its predicate still holds when it moves the data;    *)
(* and the slots from begin_ on hold what was produced and not consumed,   *)
(* in order, with end_ the first free one: the three indices of the ring   *)
(* agree at every wrap (jobQueue.h:19-28 and 35-44).                       *)
MutualExclusion ==
    \A t \in Threads : at[t] \in {"test", "move", "unlock"} => mutex = t

TestStands == \A t \in Threads : at[t] = "move" => MayMove(t)

RingHoldsQueue ==
    /\ buffered = Len(produced) - Len(consumed)
    /\ end = (begin + buffered) % Size
    /\ \A i \in 1..buffered :
           ring[(begin + i - 1) % Size] = produced[Len(consumed) + i]

(* How many of the threads are at one of the labels.                       *)
In(threads, labels) == Cardinality({t \in threads : at[t] \in labels})

(* The threads that are about to notify, and those of the notified side    *)
(* that are awake in their call.                                           *)
OnTheWay(others, own) ==
    In(others, {"unlock", "notify"}) + In(own, {"lock", "test", "move"})

(* No wakeup is lost between the unlock and the notification: while a      *)
(* consumer sleeps, there is for each element a thread on its way to it or *)
(* about to wake one, and the same for sleeping producers and free slots   *)
(* (jobQueue.h:28-31 and 46-48).                                           *)
NoLostWakeup ==
    /\ WaitingNotEmpty # {} => buffered <= OnTheWay(Producers, Consumers)
    /\ WaitingNotFull # {} =>
           Size - buffered <= OnTheWay(Consumers, Producers)

IInv ==
    TypeOK /\ MutualExclusion /\ TestStands /\ RingHoldsQueue /\ NoLostWakeup

Channel == INSTANCE CommandChannel
    WITH Infos <- Values, received <- produced, taken <- consumed

InCall(threads) ==
    \E t \in threads : at[t] \in {"lock", "test", "wait", "move"}

(* Whenever a consumer is in its call and an element is there, an element  *)
(* is consumed, and the same for producers and free slots: no side sleeps  *)
(* on what it waits for, whichever thread the notification reaches.        *)
BothSidesMove ==
    /\ \A n \in 0..MaxProduced :
           (InCall(Consumers) /\ buffered > 0 /\ Len(consumed) = n)
               ~> Len(consumed) > n
    /\ \A n \in 0..MaxProduced :
           (InCall(Producers) /\ buffered < Size /\ Len(produced) = n)
               ~> Len(produced) > n

(* Seen from outside the buffer is a queue: values come out in the order   *)
(* they went in, each once.                                                *)
FifoSpec == Channel!Spec
=============================================================================
