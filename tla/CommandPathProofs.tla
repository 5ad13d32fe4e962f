------------------------- MODULE CommandPathProofs -------------------------
(***************************************************************************)
(* Proofs about CommandPath: the types, the single command of a worker's   *)
(* life, the conservation of commands, the jobs they start, and that the   *)
(* path implements CommandChannel, for all task ids, pipe capacities and   *)
(* numbers of commands.                                                    *)
(***************************************************************************)
EXTENDS CommandPath, SequenceTheorems, FiniteSetTheorems, TLAPS

-----------------------------------------------------------------------------
(* Concatenation, under a name the provers do not look behind.             *)

Cat(s, t) == s \o t

(* What the proofs use of concatenation.                                   *)
LEMMA CatProperties ==
    ASSUME NEW S
    PROVE  /\ \A s, t \in Seq(S) : Cat(s, t) \in Seq(S)
           /\ \A s \in Seq(S) : Cat(<<>>, s) = s
           /\ \A s \in Seq(S) : Cat(s, <<>>) = s
           /\ \A s, t, u \in Seq(S) : Cat(s, Cat(t, u)) = Cat(Cat(s, t), u)
BY ConcatProperties, ConcatEmptySeq, ConcatAssociative DEF Cat

(* The head of a sequence moved to an empty neighbour on its left.         *)
LEMMA CatShift ==
    ASSUME NEW S, NEW h \in Seq(S), NEW t \in Seq(S), NEW r \in Seq(S)
    PROVE  Cat(h, Cat(t, r)) = Cat(<<>>, Cat(Cat(h, t), r))
BY CatProperties

(* The head of a sequence moved to the end of its neighbour on the left.   *)
LEMMA CatTake ==
    ASSUME NEW S, NEW t \in Seq(S), NEW h \in Seq(S), NEW q \in Seq(S),
           NEW r \in Seq(S)
    PROVE  Cat(Cat(t, h), Cat(q, r)) = Cat(t, Cat(Cat(h, q), r))
BY CatProperties

(* Appending is concatenating a sequence of one element.                   *)
LEMMA AppendIsCat ==
    ASSUME NEW S, NEW s \in Seq(S), NEW e \in S
    PROVE  Append(s, e) = Cat(s, <<e>>)
<1>1. /\ Append(s, e) \in Seq(S)
      /\ s \o <<e>> \in Seq(S)
      /\ Len(Append(s, e)) = Len(s \o <<e>>)
      /\ \A i \in 1..Len(Append(s, e)) : Append(s, e)[i] = (s \o <<e>>)[i]
  OBVIOUS
<1>2. QED BY <1>1, SeqEqual DEF Cat

(* A sequence is its head followed by its tail.                            *)
LEMMA HeadThenTail ==
    ASSUME NEW S, NEW s \in Seq(S), s # <<>>
    PROVE  /\ <<Head(s)>> \in Seq(S)
           /\ Tail(s) \in Seq(S)
           /\ Cat(<<Head(s)>>, Tail(s)) = s
<1>1. Head(s) \in S /\ Tail(s) \in Seq(S)
  BY HeadTailProperties
<1>2. /\ <<Head(s)>> \o Tail(s) \in Seq(S)
      /\ Len(<<Head(s)>> \o Tail(s)) = Len(s)
      /\ \A i \in 1..Len(s) : (<<Head(s)>> \o Tail(s))[i] = s[i]
  BY <1>1
<1>3. QED BY <1>1, <1>2, SeqEqual DEF Cat

(* A command with a kind, made from a message, is a TASK_INFO.             *)
LEMMA InfoOfType ==
    \A m \in Messages : InfoOf(m) \in TaskInfos
BY DEF InfoOf, Messages, TaskInfos

-----------------------------------------------------------------------------
(* The types are preserved by every step.                                  *)
LEMMA TypeStep ==
    IInv /\ [Next]_vars => TypeOK'
<1> SUFFICES ASSUME TypeOK, HandOver, OneCommand, NoPreemption, [Next]_vars
             PROVE  TypeOK'
  BY DEF IInv
<1> USE ConstantsAssumption DEF TypeOK, dispatchVars, workerVars
<1>1. CASE ServerSend
  BY <1>1 DEF ServerSend
<1>2. CASE StreamEnds
  <2>1. PICK n \in 0..Len(stream) : stream' = SubSeq(stream, 1, n)
    BY <1>2 DEF StreamEnds
  <2>2. stream' \in Seq(Messages)
    BY <2>1
  <2>3. QED BY <1>2, <2>2 DEF StreamEnds
<1>3. CASE DispatchCall
  BY <1>3 DEF DispatchCall
<1>4. CASE DispatchRead
  <2>1. Head(stream) \in Messages /\ Tail(stream) \in Seq(Messages)
    BY <1>4, HeadTailProperties DEF DispatchRead
  <2>2. InfoOf(Head(stream)) \in TaskInfos
    BY <2>1, InfoOfType
  <2>3. QED BY <1>4, <2>1, <2>2 DEF DispatchRead
<1>5. CASE DispatchIgnore
  <2>1. Tail(stream) \in Seq(Messages)
    BY <1>5, HeadTailProperties DEF DispatchIgnore
  <2>2. QED BY <1>5, <2>1 DEF DispatchIgnore
<1>6. CASE DispatchFinish
  BY <1>6 DEF DispatchFinish
<1>7. CASE DispatchWrite
  <2>1. /\ dispatchPipe' \in Seq(TaskInfos)
        /\ Len(dispatchPipe') = Len(dispatchPipe) + Len(dispatchInfo)
    BY <1>7, ConcatProperties DEF DispatchWrite
  <2>2. Len(dispatchInfo) = 1
    BY <1>7 DEF DispatchWrite, HandOver
  <2>3. QED BY <1>7, <2>1, <2>2 DEF DispatchWrite
<1>8. CASE MainRead
  <2>1. /\ Head(dispatchPipe) \in TaskInfos
        /\ Tail(dispatchPipe) \in Seq(TaskInfos)
        /\ Len(Tail(dispatchPipe)) = Len(dispatchPipe) - 1
    BY <1>8, HeadTailProperties DEF MainRead
  <2>2. QED BY <1>8, <2>1 DEF MainRead
<1>9. CASE MainWrite
  <2>1. /\ workPipe' \in Seq(TaskInfos)
        /\ Len(workPipe') = Len(workPipe) + Len(mainInfo)
    BY <1>9, ConcatProperties DEF MainWrite
  <2>2. QED BY <1>9, <2>1 DEF MainWrite
<1>10. CASE DaemonFork
  BY <1>10 DEF DaemonFork
<1>11. CASE DaemonReap
  BY <1>11 DEF DaemonReap, Job!Destroy, Job!LifeStates
<1>12. CASE PipeRead
  <2>1. /\ Head(workPipe) \in TaskInfos
        /\ Tail(workPipe) \in Seq(TaskInfos)
        /\ Len(Tail(workPipe)) = Len(workPipe) - 1
    BY <1>12, HeadTailProperties DEF PipeRead
  <2>2. QED BY <1>12, <2>1 DEF PipeRead
<1>13. CASE PipePush
  <2>1. queue' \in Seq(TaskInfos)
    BY <1>13, ConcatProperties DEF PipePush
  <2>2. QED BY <1>13, <2>1 DEF PipePush
<1>14. CASE TaskPop
  <2>1. Head(queue) \in TaskInfos /\ Tail(queue) \in Seq(TaskInfos)
    BY <1>14, HeadTailProperties DEF TaskPop
  <2>2. QED BY <1>14, <2>1 DEF TaskPop
<1>15. CASE TaskBuild
  <2>1. taken[Len(taken)] \in TaskInfos
    BY <1>15 DEF TaskBuild, OneCommand
  <2>2. [dispatched |-> taken[Len(taken)].task_id, built |-> JobId]
            \in [dispatched : TaskIds, built : {JobId}]
    BY <2>1 DEF TaskInfos
  <2>3. started' \in Seq([dispatched : TaskIds, built : {JobId}])
    BY <1>15, <2>2 DEF TaskBuild
  <2>4. job' \in Job!LifeStates
    BY <1>15 DEF TaskBuild, Job!Construct, Job!LifeStates
  <2>5. CASE WorkerDies
    BY <1>15, <2>3, <2>4, <2>5 DEF TaskBuild, WorkerDies
  <2>6. CASE JobReturns("check")
    BY <1>15, <2>3, <2>4, <2>6 DEF TaskBuild, JobReturns
  <2>7. QED BY <1>15, <2>5, <2>6 DEF TaskBuild
<1>16. CASE TaskCheck
  BY <1>16 DEF TaskCheck
<1>17. CASE TaskNext
  <2>1. job' \in Job!LifeStates
    BY <1>17 DEF TaskNext, Job!NextCall, Job!NextWithData,
                 Job!NextWithoutData, Job!LifeStates
  <2>2. CASE WorkerDies
    BY <1>17, <2>1, <2>2 DEF TaskNext, WorkerDies
  <2>3. CASE JobReturns("drop") \/ JobReturns("check")
    BY <1>17, <2>1, <2>3 DEF TaskNext, JobReturns
  <2>4. QED BY <1>17, <2>2, <2>3 DEF TaskNext
<1>18. CASE TaskDrop
  BY <1>18 DEF TaskDrop, Job!Destroy, Job!LifeStates
<1>19. CASE UNCHANGED vars
  BY <1>19 DEF vars
<1>20. QED
  BY <1>1, <1>2, <1>3, <1>4, <1>5, <1>6, <1>7, <1>8, <1>9, <1>10, <1>11,
     <1>12, <1>13, <1>14, <1>15, <1>16, <1>17, <1>18, <1>19
     DEF Next, Environment, DispatchProcess, MainProcess, DaemonProcess,
         PipeThread, TaskThread

-----------------------------------------------------------------------------
(* A local TASK_INFO holds one record between its read and its write.      *)
LEMMA HandOverStep ==
    IInv /\ [Next]_vars => HandOver'
<1> SUFFICES ASSUME TypeOK, HandOver, OneCommand, NoPreemption, [Next]_vars
             PROVE  HandOver'
  BY DEF IInv
<1> USE DEF HandOver, dispatchVars, workerVars
<1>1. CASE Environment
  BY <1>1 DEF Environment, ServerSend, StreamEnds
<1>2. CASE DispatchProcess
  BY <1>2 DEF DispatchProcess, DispatchCall, DispatchRead, DispatchIgnore,
              DispatchFinish, DispatchWrite
<1>3. CASE MainProcess
  BY <1>3 DEF MainProcess, MainRead, MainWrite
<1>4. CASE DaemonProcess
  BY <1>4 DEF DaemonProcess, DaemonFork, DaemonReap, OneCommand
<1>5. CASE PipeThread
  BY <1>5 DEF PipeThread, PipeRead, PipePush
<1>6. CASE TaskThread
  <2>1. CASE TaskPop \/ TaskCheck \/ TaskDrop
    BY <2>1 DEF TaskPop, TaskCheck, TaskDrop
  <2>2. CASE TaskBuild
    BY <2>2 DEF TaskBuild, WorkerDies, JobReturns
  <2>3. CASE TaskNext
    BY <2>3 DEF TaskNext, WorkerDies, JobReturns
  <2>4. QED BY <1>6, <2>1, <2>2, <2>3 DEF TaskThread
<1>7. CASE UNCHANGED vars
  BY <1>7 DEF vars
<1>8. QED BY <1>1, <1>2, <1>3, <1>4, <1>5, <1>6, <1>7 DEF Next

(* A worker gets one command, and works on it with nothing behind it: the  *)
(* steps of a worker's threads, and those that start and end a worker.     *)
LEMMA OneCommandStep ==
    IInv /\ [Next]_vars => OneCommand' /\ NoPreemption'
<1> SUFFICES ASSUME TypeOK, HandOver, OneCommand, NoPreemption, [Next]_vars
             PROVE  OneCommand' /\ NoPreemption'
  BY DEF IInv
<1> USE DEF OneCommand, NoPreemption, dispatchVars, workerVars
<1>1. CASE Environment
  BY <1>1 DEF Environment, ServerSend, StreamEnds
<1>2. CASE DispatchProcess
  BY <1>2 DEF DispatchProcess, DispatchCall, DispatchRead, DispatchIgnore,
              DispatchFinish, DispatchWrite
<1>3. CASE MainProcess
  BY <1>3 DEF MainProcess, MainRead, MainWrite
<1>4. CASE DaemonProcess
  BY <1>4 DEF DaemonProcess, DaemonFork, DaemonReap
<1>5. CASE PipeRead
  BY <1>5 DEF PipeRead, TypeOK
<1>6. CASE PipePush
  <2>1. queue = <<>> /\ Len(pipeInfo) = 1
    BY <1>6 DEF PipePush, HandOver
  <2>2. queue' = pipeInfo
    <3>1. pipeInfo \in Seq(TaskInfos)
      BY DEF TypeOK
    <3>2. <<>> \o pipeInfo = pipeInfo
      BY <3>1, ConcatEmptySeq
    <3>3. QED BY <1>6, <2>1, <3>2 DEF PipePush
  <2>3. Len(queue') = 1
    BY <2>1, <2>2
  <2>4. NoPreemption'
    BY <1>6 DEF PipePush
  <2>5. QED BY <1>6, <2>3, <2>4 DEF PipePush
<1>7. CASE TaskPop
  <2>1. queue' = <<>>
    BY <1>7 DEF TaskPop, TypeOK
  <2>2. pipeThread = "done" /\ taken' # <<>>
    BY <1>7 DEF TaskPop, TypeOK
  <2>3. taken'[Len(taken')] = Head(queue)
    BY <1>7 DEF TaskPop, TypeOK
  <2>4. QED BY <1>7, <2>1, <2>2, <2>3 DEF TaskPop
<1>8. CASE TaskBuild
  BY <1>8 DEF TaskBuild, WorkerDies, JobReturns
<1>9. CASE TaskCheck
  BY <1>9 DEF TaskCheck
<1>10. CASE TaskNext
  BY <1>10 DEF TaskNext, WorkerDies, JobReturns
<1>11. CASE TaskDrop
  BY <1>11 DEF TaskDrop
<1>12. CASE UNCHANGED vars
  BY <1>12 DEF vars
<1>13. QED
  BY <1>1, <1>2, <1>3, <1>4, <1>5, <1>6, <1>7, <1>8, <1>9, <1>10, <1>11,
     <1>12 DEF Next, PipeThread, TaskThread

-----------------------------------------------------------------------------
(* Conservation, step by step along the path.                              *)

(* The commands taken and those in flight.                                 *)
Path ==
    Cat(taken, Cat(queue, Cat(pipeInfo, Cat(workPipe, Cat(mainInfo,
        Cat(dispatchPipe, dispatchInfo))))))

Links ==
    /\ taken \in Seq(TaskInfos)
    /\ queue \in Seq(TaskInfos)
    /\ pipeInfo \in Seq(TaskInfos)
    /\ workPipe \in Seq(TaskInfos)
    /\ mainInfo \in Seq(TaskInfos)
    /\ dispatchPipe \in Seq(TaskInfos)
    /\ dispatchInfo \in Seq(TaskInfos)

(* Every step moves records along the path or loses them with a worker.    *)
LEMMA ConservationStep ==
    IInv /\ [Next]_vars => Conservation'
<1> SUFFICES ASSUME TypeOK, HandOver, OneCommand, NoPreemption, Conservation,
                    [Next]_vars
             PROVE  Conservation'
  BY DEF IInv
<1>a. received = Path
  BY DEF Conservation, InFlight, Path, Cat
<1>b. SUFFICES received' = Path'
  BY DEF Conservation, InFlight, Path, Cat
<1>c. Links
  BY DEF TypeOK, Links
<1> USE DEF Links, dispatchVars, workerVars
<1>1. CASE DispatchRead
  <2> DEFINE info == InfoOf(Head(stream))
  <2>1. info \in TaskInfos
    BY <1>1, HeadTailProperties, InfoOfType DEF DispatchRead, TypeOK
  <2>2. <<info>> \in Seq(TaskInfos)
    BY <2>1
  <2>3. received' = Cat(received, <<info>>)
    BY <1>1, <2>1, AppendIsCat DEF DispatchRead, TypeOK
  <2>4. dispatchInfo = <<>> /\ dispatchInfo' = <<info>>
    BY <1>1 DEF DispatchRead, HandOver
  <2> DEFINE x == <<info>>
  <2> HIDE DEF info, x
  <2> DEFINE m == Cat(mainInfo, dispatchPipe)
             w == Cat(workPipe, m)
             p == Cat(pipeInfo, w)
             q == Cat(queue, p)
  <2>5. Cat(taken, Cat(queue, Cat(pipeInfo, Cat(workPipe, Cat(mainInfo,
            Cat(dispatchPipe, x)))))) = Cat(Cat(taken, q), x)
    <3>0. x \in Seq(TaskInfos)
      BY <2>2 DEF x
    <3>1. m \in Seq(TaskInfos)
          /\ Cat(mainInfo, Cat(dispatchPipe, x)) = Cat(m, x)
      BY <1>c, <3>0, CatProperties
    <3> HIDE DEF m
    <3>2. w \in Seq(TaskInfos) /\ Cat(workPipe, Cat(m, x)) = Cat(w, x)
      BY <1>c, <3>0, <3>1, CatProperties
    <3> HIDE DEF w
    <3>3. p \in Seq(TaskInfos) /\ Cat(pipeInfo, Cat(w, x)) = Cat(p, x)
      BY <1>c, <3>0, <3>2, CatProperties
    <3> HIDE DEF p
    <3>4. q \in Seq(TaskInfos) /\ Cat(queue, Cat(p, x)) = Cat(q, x)
      BY <1>c, <3>0, <3>3, CatProperties
    <3> HIDE DEF q
    <3>5. Cat(taken, Cat(q, x)) = Cat(Cat(taken, q), x)
      BY <1>c, <3>0, <3>4, CatProperties
    <3>6. QED BY <3>1, <3>2, <3>3, <3>4, <3>5
  <2>6. Path' = Cat(Path, <<info>>)
    <3>1. Cat(dispatchPipe, <<>>) = dispatchPipe
      BY <1>c, CatProperties
    <3>2. Path = Cat(taken, q)
      BY <2>4, <3>1 DEF Path
    <3>3. QED BY <1>1, <2>4, <2>5, <3>2 DEF DispatchRead, Path, x
  <2>7. QED BY <1>a, <2>3, <2>6
<1>2. CASE DispatchWrite
  <2>1. dispatchPipe' = Cat(dispatchPipe, dispatchInfo)
    BY <1>2 DEF DispatchWrite, Cat
  <2>2. Path' = Path
    BY <1>2, <1>c, <2>1, CatProperties DEF DispatchWrite, Path
  <2>3. QED BY <1>2, <1>a, <2>2 DEF DispatchWrite
<1>3. CASE MainRead
  <2>1. /\ mainInfo = <<>>
        /\ dispatchPipe = Cat(mainInfo', dispatchPipe')
        /\ Links'
    BY <1>3, <1>c, HeadThenTail DEF MainRead
  <2>2. Cat(mainInfo', Cat(dispatchPipe', dispatchInfo)) =
            Cat(mainInfo, Cat(dispatchPipe, dispatchInfo))
    BY <1>c, <2>1, CatShift
  <2>3. Path' = Path
    BY <1>3, <2>2 DEF MainRead, Path
  <2>4. QED BY <1>3, <1>a, <2>3 DEF MainRead
<1>4. CASE MainWrite
  <2>1. workPipe' = Cat(workPipe, mainInfo)
    BY <1>4 DEF MainWrite, Cat
  <2>2. Path' = Path
    BY <1>4, <1>c, <2>1, CatProperties DEF MainWrite, Path
  <2>3. QED BY <1>4, <1>a, <2>2 DEF MainWrite
<1>5. CASE PipeRead
  <2>1. /\ pipeInfo = <<>>
        /\ workPipe = Cat(pipeInfo', workPipe')
        /\ Links'
    BY <1>5, <1>c, HeadThenTail DEF PipeRead, HandOver
  <2> DEFINE r == Cat(mainInfo, Cat(dispatchPipe, dispatchInfo))
  <2>2. r \in Seq(TaskInfos)
    BY <1>c, CatProperties
  <2>3. Cat(pipeInfo', Cat(workPipe', r)) = Cat(pipeInfo, Cat(workPipe, r))
    BY <1>c, <2>1, <2>2, CatShift
  <2>4. Path' = Path
    BY <1>5, <2>3 DEF PipeRead, Path
  <2>5. QED BY <1>5, <1>a, <2>4 DEF PipeRead
<1>6. CASE PipePush
  <2>1. queue' = Cat(queue, pipeInfo)
    BY <1>6 DEF PipePush, Cat
  <2>2. Path' = Path
    BY <1>6, <1>c, <2>1, CatProperties DEF PipePush, Path
  <2>3. QED BY <1>6, <1>a, <2>2 DEF PipePush
<1>7. CASE TaskPop
  <2>1. /\ <<Head(queue)>> \in Seq(TaskInfos)
        /\ queue' \in Seq(TaskInfos)
        /\ queue = Cat(<<Head(queue)>>, queue')
    BY <1>7, <1>c, HeadThenTail DEF TaskPop
  <2>2. taken' = Cat(taken, <<Head(queue)>>)
    BY <1>7, <1>c, HeadTailProperties, AppendIsCat DEF TaskPop
  <2> DEFINE r == Cat(pipeInfo, Cat(workPipe, Cat(mainInfo,
                      Cat(dispatchPipe, dispatchInfo))))
             h == <<Head(queue)>>
  <2>3. r \in Seq(TaskInfos)
    BY <1>c, CatProperties
  <2> HIDE DEF r, h
  <2>4. Cat(Cat(taken, h), Cat(queue', r)) = Cat(taken, Cat(queue, r))
    <3>1. h \in Seq(TaskInfos) /\ Cat(h, queue') = queue
      BY <2>1 DEF h
    <3>2. Cat(Cat(taken, h), Cat(queue', r)) =
              Cat(taken, Cat(Cat(h, queue'), r))
      BY <1>c, <2>1, <2>3, <3>1, CatTake
    <3>3. QED BY <3>1, <3>2
  <2>5. Path' = Path
    BY <1>7, <2>2, <2>4 DEF TaskPop, Path, r, h
  <2>6. QED BY <1>7, <1>a, <2>5 DEF TaskPop
<1>8. CASE TaskBuild \/ TaskNext
  <2>1. queue = <<>> /\ pipeInfo = <<>>
    BY <1>8 DEF TaskBuild, TaskNext, NoPreemption, HandOver
  <2>2. queue' = <<>> /\ pipeInfo' = <<>>
    BY <1>8, <2>1 DEF TaskBuild, TaskNext, WorkerDies, JobReturns
  <2>3. QED BY <1>8, <1>a, <2>1, <2>2 DEF TaskBuild, TaskNext, Path
<1>9. CASE Environment
  BY <1>9, <1>a DEF Environment, ServerSend, StreamEnds, Path
<1>10. CASE DispatchCall \/ DispatchIgnore \/ DispatchFinish
  BY <1>10, <1>a DEF DispatchCall, DispatchIgnore, DispatchFinish, Path
<1>11. CASE DaemonProcess
  BY <1>11, <1>a DEF DaemonProcess, DaemonFork, DaemonReap, Path
<1>12. CASE TaskCheck \/ TaskDrop
  BY <1>12, <1>a DEF TaskCheck, TaskDrop, Path
<1>13. CASE UNCHANGED vars
  BY <1>13, <1>a DEF vars, Path
<1>14. QED
  BY <1>1, <1>2, <1>3, <1>4, <1>5, <1>6, <1>7, <1>8, <1>9, <1>10, <1>11,
     <1>12, <1>13
     DEF Next, DispatchProcess, MainProcess, PipeThread, TaskThread

-----------------------------------------------------------------------------
(* Jobs and creates.                                                       *)

(* The places of the creates among n commands.                             *)
LEMMA Places ==
    ASSUME NEW n \in Nat, NEW B \in SUBSET (1..n), NEW i \in B
    PROVE  /\ IsFiniteSet(B) /\ Cardinality(B) \in Nat
           /\ Cardinality({j \in B : j <= i}) \in 1..Cardinality(B)
<1> DEFINE P == {j \in B : j <= i}
<1>1. IsFiniteSet(B)
  <2>1. IsFiniteSet(1..n)
    BY FS_Interval
  <2>2. QED BY <2>1, FS_Subset
<1>2. IsFiniteSet(P) /\ Cardinality(P) <= Cardinality(B)
  BY <1>1, FS_Subset
<1>3. Cardinality(P) # 0
  <2>1. P # {}
    OBVIOUS
  <2>2. QED BY <1>2, <2>1, FS_EmptySet
<1>4. Cardinality(P) \in Nat /\ Cardinality(B) \in Nat
  BY <1>1, <1>2, FS_CardinalityType
<1> HIDE DEF P
<1>5. Cardinality(P) \in 1..Cardinality(B)
  BY <1>2, <1>3, <1>4
<1>6. QED BY <1>1, <1>4, <1>5 DEF P

(* Popping and building keep jobs and creates one to one: a create that is *)
(* popped waits for its job, and the job built is that of the newest.      *)
LEMMA StartedStep ==
    IInv /\ [Next]_vars => StartedAreCreates'
<1> SUFFICES ASSUME TypeOK, OneCommand, StartedAreCreates, [Next]_vars
             PROVE  StartedAreCreates'
  BY DEF IInv
<1> DEFINE n == Len(taken)
<1>1. /\ n \in Nat /\ Built \in SUBSET (1..n)
      /\ taken \in Seq(TaskInfos)
      /\ started \in Seq([dispatched : TaskIds, built : {JobId}])
  BY DEF TypeOK, Built
<1>2. ASSUME Built' = Built, started' = started,
             \A i \in 1..n : taken'[i] = taken[i]
      PROVE  StartedAreCreates'
  BY <1>1, <1>2 DEF StartedAreCreates, Place
<1>3. ASSUME taken' = taken, started' = started,
             taskThread' = "build" <=> taskThread = "build"
      PROVE  StartedAreCreates'
  <2>1. Built' = Built
    BY <1>3 DEF Built
  <2>2. QED BY <1>2, <1>3, <2>1
<1>4. CASE Environment
  BY <1>3, <1>4 DEF Environment, ServerSend, StreamEnds, workerVars
<1>5. CASE DispatchProcess
  BY <1>3, <1>5 DEF DispatchProcess, DispatchCall, DispatchRead,
                    DispatchIgnore, DispatchFinish, DispatchWrite, workerVars
<1>6. CASE MainProcess
  BY <1>3, <1>6 DEF MainProcess, MainRead, MainWrite, workerVars
<1>7. CASE DaemonProcess
  BY <1>3, <1>7 DEF DaemonProcess, DaemonFork, DaemonReap, OneCommand
<1>8. CASE PipeThread
  BY <1>3, <1>8 DEF PipeThread, PipeRead, PipePush
<1>9. CASE TaskCheck \/ TaskNext \/ TaskDrop
  BY <1>3, <1>9
     DEF TaskCheck, TaskNext, TaskDrop, WorkerDies, JobReturns
<1>10. CASE TaskPop
  <2> DEFINE e == Head(queue)
  <2>1. /\ taskThread = "pop" /\ e \in TaskInfos
        /\ taken' = Append(taken, e) /\ started' = started
        /\ taskThread' = "build" <=> e.cmd = TASK_CREATE
    BY <1>10 DEF TaskPop, TypeOK
  <2> HIDE DEF e
  <2>2. /\ Len(taken') = n + 1 /\ taken'[n + 1] = e
        /\ \A i \in 1..n : taken'[i] = taken[i]
    BY <1>1, <2>1
  <2> HIDE DEF n
  <2>3. ASSUME NEW i \in 1..n
        PROVE  i \in Built' <=> i \in Built
    <3>1. i # n + 1 /\ i \in 1..(n + 1)
      BY <1>1
    <3>2. QED BY <2>1, <2>2, <3>1 DEF Built, n
  <2>4. n + 1 \notin Built'
    BY <2>1, <2>2 DEF Built
  <2>5. Built' \subseteq 1..(n + 1)
    BY <2>2 DEF Built
  <2>6. Built' = Built
    <3>1. Built' \subseteq 1..n
      BY <1>1, <2>4, <2>5
    <3>2. Built \subseteq 1..n
      BY <1>1 DEF n
    <3>3. QED BY <2>3, <3>1, <3>2, Zenon
  <2>7. QED BY <1>2, <2>1, <2>2, <2>6
<1>11. CASE TaskBuild
  <2>1. /\ taskThread = "build" /\ taskThread' # "build"
        /\ taken' = taken
        /\ started' = Append(started,
                             [dispatched |-> taken[n].task_id,
                              built |-> JobId])
    BY <1>11 DEF TaskBuild, WorkerDies, JobReturns
  <2>2. n \in 1..n /\ taken[n].cmd = TASK_CREATE /\ taken[n] \in TaskInfos
    BY <1>1, <2>1 DEF OneCommand
  <2>3. /\ n \notin Built /\ Built' = Built \union {n}
        /\ \A i \in Built : i < n
    BY <1>1, <2>1, <2>2 DEF Built
  <2> HIDE DEF n
  <2>4. IsFiniteSet(Built) /\ Cardinality(Built) \in Nat
    <3>1. IsFiniteSet(1..n)
      BY <1>1, FS_Interval
    <3>2. QED BY <1>1, <3>1, FS_Subset, FS_CardinalityType
  <2>5. Cardinality(Built') = Cardinality(Built) + 1
    BY <2>3, <2>4, FS_AddElement
  <2>6. /\ Len(started') = Len(started) + 1
        /\ started'[Len(started) + 1].dispatched = taken[n].task_id
        /\ \A k \in 1..Len(started) : started'[k] = started[k]
    BY <1>1, <2>1, <2>2 DEF TaskInfos
  <2>7. ASSUME NEW i \in Built
        PROVE  started'[Place(i)'].dispatched = taken'[i].task_id
    <3>1. {j \in Built' : j <= i} = {j \in Built : j <= i}
      BY <1>1, <2>3
    <3>2. Place(i)' = Place(i)
      BY <3>1 DEF Place
    <3>3. Place(i) \in 1..Len(started)
      <4>1. Cardinality({j \in Built : j <= i}) \in 1..Cardinality(Built)
        BY <1>1, <2>7, Places
      <4>2. QED BY <4>1 DEF Place, StartedAreCreates
    <3>4. started'[Place(i)] = started[Place(i)]
      BY <2>6, <3>3
    <3>5. QED BY <2>1, <3>2, <3>4 DEF StartedAreCreates
  <2>8. ASSUME NEW i, i = n
        PROVE  started'[Place(i)'].dispatched = taken'[i].task_id
    <3>1. {j \in Built' : j <= i} = Built'
      <4>1. n <= i /\ \A j \in Built : j <= i
        BY <1>1, <2>3, <2>8
      <4>2. \A j \in Built' : j <= i
        BY <2>3, <2>8, <4>1
      <4>3. QED BY <4>2
    <3>2. Place(i)' = Len(started) + 1
      BY <2>5, <3>1 DEF Place, StartedAreCreates
    <3>3. QED BY <2>1, <2>6, <2>8, <3>2
  <2>9. Len(started') = Cardinality(Built')
    BY <2>5, <2>6 DEF StartedAreCreates
  <2>10. ASSUME NEW i \in Built'
         PROVE  started'[Place(i)'].dispatched = taken'[i].task_id
    BY <2>3, <2>7, <2>8, <2>10
  <2>11. QED BY <2>9, <2>10 DEF StartedAreCreates
<1>12. CASE UNCHANGED vars
  BY <1>3, <1>12 DEF vars, workerVars
<1>13. QED
  BY <1>4, <1>5, <1>6, <1>7, <1>8, <1>9, <1>10, <1>11, <1>12
     DEF Next, TaskThread

-----------------------------------------------------------------------------
(* Theorems.                                                               *)

(* The initial states satisfy the inductive invariant.                     *)
LEMMA InitIInv ==
    Init => IInv
<1> SUFFICES ASSUME Init
             PROVE  IInv
  OBVIOUS
<1>1. TypeOK
  BY ConstantsAssumption DEF Init, TypeOK, Job!Init, Job!LifeStates
<1>2. HandOver /\ OneCommand /\ NoPreemption
  BY DEF Init, HandOver, OneCommand, NoPreemption
<1>3. Conservation
  BY DEF Init, Conservation, InFlight
<1>4. StartedAreCreates
  <2>1. Built = {} /\ Len(started) = 0
    BY DEF Init, Built
  <2>2. QED BY <2>1, FS_EmptySet DEF StartedAreCreates
<1>5. QED BY <1>1, <1>2, <1>3, <1>4 DEF IInv

(* The inductive invariant of the path, for every set of task ids, every   *)
(* capacity of the two pipes and any number of commands.                   *)
THEOREM InductiveInvariance == Spec => []IInv
<1>1. IInv /\ [Next]_vars => IInv'
  BY TypeStep, HandOverStep, OneCommandStep, ConservationStep, StartedStep
     DEF IInv
<1>2. QED BY InitIInv, <1>1, PTL DEF Spec

(* The variables keep their types and the pipes their capacities.          *)
THEOREM TypeCorrectness == Spec => []TypeOK
<1>1. IInv => TypeOK
  BY DEF IInv
<1>2. QED BY InductiveInvariance, <1>1, PTL

(* No command interrupts a job: while task_thread builds or runs one, its  *)
(* queue is empty and nobody is left to fill it (workProcess.cpp:181-218). *)
THEOREM JobsAreNotPreempted == Spec => []NoPreemption
<1>1. IInv => NoPreemption
  BY DEF IInv
<1>2. QED BY InductiveInvariance, <1>1, PTL

(* Nothing is lost, duplicated or reordered on the way from the stream to  *)
(* pop(), whichever workers die in between.                                *)
THEOREM CommandsAreConserved == Spec => []Conservation
<1>1. IInv => Conservation
  BY DEF IInv
<1>2. QED BY InductiveInvariance, <1>1, PTL

(* Exactly the creates lead to jobs, one each and in their order, whatever *)
(* workers die: the jobs started are, place by place, those of the creates *)
(* popped (workProcess.cpp:199-218).                                       *)
THEOREM CreatesStartJobs == Spec => []StartedAreCreates
<1>1. IInv => StartedAreCreates
  BY DEF IInv
<1>2. QED BY InductiveInvariance, <1>1, PTL

(* No step of any process or thread leaves the state of an idle worker     *)
(* that has had its command.                                               *)
THEOREM IdleWorkerStaysIdle == Spec => IdleIsForever
<1>1. [Next]_vars => [Idle => Idle']_vars
  <2> SUFFICES ASSUME Next, Idle
               PROVE  Idle'
    BY DEF Idle
  <2> USE DEF Idle, dispatchVars, workerVars
  <2>1. CASE Environment \/ MainProcess
    BY <2>1 DEF Environment, ServerSend, StreamEnds, MainProcess, MainRead,
                MainWrite
  <2>2. CASE DispatchProcess
    BY <2>2 DEF DispatchProcess, DispatchCall, DispatchRead, DispatchIgnore,
                DispatchFinish, DispatchWrite
  <2>3. CASE DaemonProcess
    BY <2>3 DEF DaemonProcess, DaemonFork, DaemonReap
  <2>4. CASE PipeThread
    BY <2>4 DEF PipeThread, PipeRead, PipePush
  <2>5. CASE TaskThread
    BY <2>5 DEF TaskThread, TaskPop, TaskBuild, TaskCheck, TaskNext, TaskDrop
  <2>6. QED BY <2>1, <2>2, <2>3, <2>4, <2>5 DEF Next
<1>2. QED BY <1>1, PTL DEF Spec, IdleIsForever

-----------------------------------------------------------------------------
(* The path implements CommandChannel.                                     *)

(* A pop takes the oldest command that was received and not taken.         *)
LEMMA PopTakesNext ==
    ASSUME IInv, TaskPop
    PROVE  Channel!Take
<1> DEFINE r == pipeInfo \o (workPipe \o (mainInfo \o
                    (dispatchPipe \o dispatchInfo)))
<1>1. /\ taken \in Seq(TaskInfos) /\ queue \in Seq(TaskInfos)
      /\ queue # <<>> /\ taken' = Append(taken, Head(queue))
      /\ received' = received
  BY DEF IInv, TypeOK, TaskPop, dispatchVars
<1>2. r \in Seq(TaskInfos)
  BY ConcatProperties DEF IInv, TypeOK
<1>3. received = taken \o (queue \o r)
  BY DEF IInv, Conservation, InFlight
<1> HIDE DEF r
<1>4. /\ queue \o r \in Seq(TaskInfos)
      /\ Len(queue \o r) > 0
      /\ (queue \o r)[1] = Head(queue)
  BY <1>1, <1>2
<1> DEFINE q == queue \o r
<1> HIDE DEF q
<1>5. q \in Seq(TaskInfos) /\ Len(q) > 0 /\ q[1] = Head(queue)
      /\ received = taken \o q
  BY <1>3, <1>4 DEF q
<1>6. Len(taken) < Len(received) /\ received[Len(taken) + 1] = q[1]
  BY <1>1, <1>5
<1>7. QED BY <1>1, <1>5, <1>6 DEF Channel!Take

(* Every step of the command path is a step of the abstract channel, or    *)
(* none.                                                                   *)
LEMMA ChannelStep ==
    IInv /\ [Next]_vars => [Channel!Next]_(Channel!vars)
<1> SUFFICES ASSUME IInv, [Next]_vars
             PROVE  Channel!Next \/ UNCHANGED Channel!vars
  OBVIOUS
<1> USE DEF Channel!vars, dispatchVars, workerVars
<1>1. CASE DispatchRead
  <2>1. InfoOf(Head(stream)) \in TaskInfos
    BY <1>1, HeadTailProperties, InfoOfType DEF DispatchRead, IInv, TypeOK
  <2>2. Channel!Receive
    BY <1>1, <2>1 DEF DispatchRead, Channel!Receive
  <2>3. QED BY <2>2 DEF Channel!Next
<1>2. CASE TaskPop
  BY <1>2, PopTakesNext DEF Channel!Next
<1>3. CASE Environment \/ MainProcess \/ DaemonProcess \/ PipeThread
  BY <1>3 DEF Environment, ServerSend, StreamEnds, MainProcess, MainRead,
              MainWrite, DaemonProcess, DaemonFork, DaemonReap, PipeThread,
              PipeRead, PipePush
<1>4. CASE DispatchCall \/ DispatchIgnore \/ DispatchFinish \/ DispatchWrite
  BY <1>4 DEF DispatchCall, DispatchIgnore, DispatchFinish, DispatchWrite
<1>5. CASE TaskBuild \/ TaskCheck \/ TaskNext \/ TaskDrop
  BY <1>5 DEF TaskBuild, TaskCheck, TaskNext, TaskDrop
<1>6. CASE UNCHANGED vars
  BY <1>6 DEF vars
<1>7. QED
  BY <1>1, <1>2, <1>3, <1>4, <1>5, <1>6
     DEF Next, DispatchProcess, TaskThread

(* The whole path, with its pipes, processes and dying workers, implements *)
(* the channel in which each command is taken once and in order.           *)
THEOREM PathImplementsChannel == Spec => ChannelSpec
<1>1. Init => Channel!Init
  BY DEF Init, Channel!Init
<1>2. QED
  BY <1>1, ChannelStep, InductiveInvariance, PTL
     DEF Spec, ChannelSpec, Channel!Spec
=============================================================================
