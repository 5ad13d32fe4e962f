-------------------------- MODULE TaskQueueProofs --------------------------
(***************************************************************************)
(* Proofs about TaskQueue: the types, mutual exclusion, no lost wakeup and *)
(* the order of a queue, for any sets of pushing and popping threads and   *)
(* any number of calls; and that isEmpty()'s answer stands where one       *)
(* thread pops.                                                            *)
(***************************************************************************)
EXTENDS TaskQueue, SequenceTheorems, TLAPS

(* The part of the inductive invariant that is about control.              *)
Control == TypeOK /\ MutualExclusion /\ TestStands /\ NoLostWakeup

(* Every step preserves it.                                                *)
LEMMA ControlStep ==
    Control /\ [Next]_vars => Control'
<1> SUFFICES ASSUME Control, [Next]_vars
             PROVE  Control'
  OBVIOUS
<1> USE ConstantsAssumption
    DEF Control, TypeOK, MutualExclusion, TestStands, NoLostWakeup, Threads,
        Goto, PusherLabels, PopperLabels, LockedLabels
<1>1. ASSUME NEW t \in Pushers, CallPush(t)
      PROVE  Control'
  BY <1>1 DEF CallPush
<1>2. ASSUME NEW t \in Pushers, Lock(t, "push", "pushing")
      PROVE  Control'
  BY <1>2 DEF Lock
<1>3. ASSUME NEW t \in Pushers, PushItem(t)
      PROVE  Control'
  BY <1>3 DEF PushItem
<1>4. ASSUME NEW t \in Pushers, NotifyAll(t)
      PROVE  Control'
  BY <1>4 DEF NotifyAll
<1>5. ASSUME NEW t \in Poppers, CallPop(t)
      PROVE  Control'
  BY <1>5 DEF CallPop
<1>6. ASSUME NEW t \in Poppers, CallIsEmpty(t)
      PROVE  Control'
  BY <1>6 DEF CallIsEmpty
<1>7. ASSUME NEW t \in Poppers, Lock(t, "pop", "testing")
      PROVE  Control'
  BY <1>7 DEF Lock
<1>8. ASSUME NEW t \in Poppers, Test(t)
      PROVE  Control'
  BY <1>8 DEF Test
<1>9. ASSUME NEW t \in Poppers, Wait(t)
      PROVE  Control'
  BY <1>9 DEF Wait
<1>10. ASSUME NEW t \in Poppers, WakeSpuriously(t)
       PROVE  Control'
  BY <1>10 DEF WakeSpuriously
<1>11. ASSUME NEW t \in Poppers, TakeItem(t)
       PROVE  Control'
  BY <1>11, HeadTailProperties DEF TakeItem
<1>12. ASSUME NEW t \in Poppers, Lock(t, "isEmpty", "reading")
       PROVE  Control'
  BY <1>12 DEF Lock
<1>13. ASSUME NEW t \in Poppers, ReadEmpty(t)
       PROVE  Control'
  BY <1>13 DEF ReadEmpty
<1>14. ASSUME NEW t \in Threads, Unlock(t)
       PROVE  Control'
  BY <1>14 DEF Unlock
<1>15. CASE UNCHANGED vars
  BY <1>15 DEF vars
<1>16. QED
  BY <1>1, <1>2, <1>3, <1>4, <1>5, <1>6, <1>7, <1>8, <1>9, <1>10, <1>11,
     <1>12, <1>13, <1>14, <1>15
     DEF Next, PushStep, PopStep

(* What is in the queue is what was pushed and not yet popped.             *)
LEMMA ContentsStep ==
    IInv /\ [Next]_vars => Contents'
<1> SUFFICES ASSUME TypeOK, TestStands, received = taken \o queue,
                    [Next]_vars
             PROVE  received' = taken' \o queue'
  BY DEF IInv, Contents
<1>1. /\ queue \in Seq(Infos)
      /\ taken \in Seq(Infos)
      /\ received \in Seq(Infos)
  BY DEF TypeOK
<1>2. ASSUME NEW t \in Pushers, PushItem(t)
      PROVE  received' = taken' \o queue'
  <2>1. PICK info \in Infos : /\ queue' = Append(queue, info)
                              /\ received' = Append(received, info)
                              /\ taken' = taken
    BY <1>2 DEF PushItem
  <2> DEFINE l == Append(taken \o queue, info)
             r == taken \o Append(queue, info)
  <2>2. l = r
    <3>1. /\ l \in Seq(Infos) /\ r \in Seq(Infos)
          /\ Len(l) = Len(r)
      BY <1>1
    <3>2. \A i \in 1..Len(l) : l[i] = r[i]
      BY <1>1
    <3>3. QED BY <3>1, <3>2, SeqEqual
  <2>3. QED BY <2>1, <2>2
<1>3. ASSUME NEW t \in Poppers, TakeItem(t)
      PROVE  received' = taken' \o queue'
  <2>1. queue # <<>>
    BY <1>3 DEF TakeItem, TestStands
  <2>2. Append(taken, Head(queue)) \o Tail(queue) = taken \o queue
    BY <1>1, <2>1, HeadTailProperties
  <2>3. QED BY <1>3, <2>2 DEF TakeItem
<1>4. CASE UNCHANGED <<queue, received, taken>>
  BY <1>4
<1>5. QED
  BY <1>2, <1>3, <1>4
     DEF Next, PushStep, PopStep, CallPush, NotifyAll, Unlock, Lock, CallPop,
         CallIsEmpty, Test, Wait, WakeSpuriously, ReadEmpty, vars

(* The initial states satisfy the inductive invariant.                     *)
LEMMA InitIInv ==
    Init => IInv
BY ConstantsAssumption
   DEF Init, IInv, TypeOK, MutualExclusion, TestStands, NoLostWakeup,
       Contents, Threads, PusherLabels, PopperLabels, LockedLabels

-----------------------------------------------------------------------------
(* Theorems.                                                               *)

(* The inductive invariant, for any threads and any number of calls.       *)
THEOREM InductiveInvariance == Spec => []IInv
<1>1. IInv /\ [Next]_vars => IInv'
  BY ControlStep, ContentsStep DEF IInv, Control
<1>2. QED BY InitIInv, <1>1, PTL DEF Spec

(* The variables keep their types, and the wait set its meaning.           *)
THEOREM TypeCorrectness == Spec => []TypeOK
<1>1. IInv => TypeOK
  BY DEF IInv
<1>2. QED BY InductiveInvariance, <1>1, PTL

(* No thread sleeps on an element that nobody will announce.               *)
THEOREM WakeupsAreNotLost == Spec => []NoLostWakeup
<1>1. IInv => NoLostWakeup
  BY DEF IInv
<1>2. QED BY InductiveInvariance, <1>1, PTL

(* The class is a queue: it implements CommandChannel, whose elements are  *)
(* taken in the order of their receipt.                                    *)
THEOREM QueueImplementsFifo == Spec => FifoSpec
<1>1. Init => Fifo!Init
  BY DEF Init, Fifo!Init
<1>2. IInv /\ [Next]_vars => [Fifo!Next]_(Fifo!vars)
  <2> SUFFICES ASSUME IInv, [Next]_vars
               PROVE  Fifo!Next \/ UNCHANGED Fifo!vars
    OBVIOUS
  <2> USE DEF Fifo!vars
  <2>1. ASSUME NEW t \in Pushers, PushItem(t)
        PROVE  Fifo!Next
    BY <2>1 DEF PushItem, Fifo!Next, Fifo!Receive
  <2>2. ASSUME NEW t \in Poppers, TakeItem(t)
        PROVE  Fifo!Next
    <3>1. /\ queue \in Seq(Infos) /\ taken \in Seq(Infos)
          /\ received = taken \o queue /\ queue # <<>>
      BY <2>2 DEF TakeItem, IInv, TypeOK, TestStands, Contents
    <3>2. /\ Len(taken) < Len(received)
          /\ received[Len(taken) + 1] = Head(queue)
      BY <3>1
    <3>3. QED BY <2>2, <3>2 DEF TakeItem, Fifo!Next, Fifo!Take
  <2>3. CASE UNCHANGED <<received, taken>>
    BY <2>3
  <2>4. QED
    BY <2>1, <2>2, <2>3
       DEF Next, PushStep, PopStep, CallPush, NotifyAll, Unlock, Lock,
           CallPop, CallIsEmpty, Test, Wait, WakeSpuriously, ReadEmpty, vars
<1>3. QED
  BY <1>1, <1>2, InductiveInvariance, PTL DEF Spec, FifoSpec, Fifo!Spec

(* Where a single thread calls pop() and isEmpty(), the answer that there  *)
(* is an element stands until that thread pops it.                         *)
THEOREM AnswersStand ==
    ASSUME \A t, u \in Poppers : t = u
    PROVE  Spec => []FilledStands
<1>1. Init => FilledStands
  BY DEF Init, FilledStands
<1>2. IInv /\ FilledStands /\ [Next]_vars => FilledStands'
  <2> SUFFICES ASSUME IInv, FilledStands, [Next]_vars
               PROVE  FilledStands'
    OBVIOUS
  <2> USE DEF FilledStands
  <2>1. ASSUME NEW t \in Pushers, PushItem(t)
        PROVE  FilledStands'
    BY <2>1 DEF PushItem, IInv, TypeOK
  <2>2. ASSUME NEW t \in Poppers, TakeItem(t)
        PROVE  FilledStands'
    BY <2>2 DEF TakeItem, IInv, TypeOK
  <2>3. ASSUME NEW t \in Poppers, ReadEmpty(t)
        PROVE  FilledStands'
    BY <2>3 DEF ReadEmpty, IInv, TypeOK
  <2>4. ASSUME NEW t \in Poppers, CallIsEmpty(t)
        PROVE  FilledStands'
    BY <2>4 DEF CallIsEmpty, IInv, TypeOK
  <2>5. CASE UNCHANGED <<queue, seen>>
    BY <2>5
  <2>6. QED
    BY <2>1, <2>2, <2>3, <2>4, <2>5
       DEF Next, PushStep, PopStep, CallPush, NotifyAll, Unlock, Lock,
           CallPop, Test, Wait, WakeSpuriously, vars
<1>3. QED BY <1>1, <1>2, InductiveInvariance, PTL DEF Spec
=============================================================================
