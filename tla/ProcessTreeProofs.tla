------------------------- MODULE ProcessTreeProofs -------------------------
(***************************************************************************)
(* Proofs about ProcessTree: the types and pipe capacities, when a record  *)
(* that no one has written is acted upon, in which order SIGPIPE takes the *)
(* processes down, and what deaths cost: for any number of commands and    *)
(* deaths and pipes of any size.                                           *)
(***************************************************************************)
EXTENDS ProcessTree, SequenceTheorems, TLAPS

(* The part of the inductive invariant about processes and pipe ends.      *)
Places ==
    /\ at["main"] \in {"forkReport", "forkDaemon", "closeWorkRead",
            "forkDispatch", "closeDispatchWrite", "select", "route",
            "closeDispatchRead", "receive", "forward", "dead"}
    /\ at["report"] \in {"none", "run", "dead"}
    /\ at["daemon"] \in {"none", "fork", "wait", "dead"}
    /\ at["worker"] \in {"none", "closeWorkWrite", "read", "push", "done",
            "dead"}
    /\ at["dispatch"] \in {"none", "closeDispatchRead", "receive",
            "forward", "dead"}
    /\ DOMAIN at = Procs
    /\ fds \in [Procs -> SUBSET Ends]
    /\ \A p \in Procs : ~Alive(p) => fds[p] = {}

Tree == Places /\ KeptEnds /\ StartOrder

(* Every step preserves it.                                                *)
LEMMA TreeStep ==
    Tree /\ [Next]_vars => Tree'
<1> SUFFICES ASSUME Tree, [Next]_vars
             PROVE  Tree'
  OBVIOUS
<1> USE DEF Tree, Places, KeptEnds, StartOrder, Alive, Goto, Procs, Ends
<1>1. CASE ForkReport
  BY <1>1 DEF ForkReport, Fork
<1>2. CASE ForkDaemon
  BY <1>2 DEF ForkDaemon, Fork
<1>3. CASE CloseWorkRead
  BY <1>3 DEF CloseWorkRead
<1>4. CASE ForkDispatch
  BY <1>4 DEF ForkDispatch, Fork
<1>5. CASE CloseDispatchWrite
  BY <1>5 DEF CloseDispatchWrite
<1>6. CASE RouterRead
  BY <1>6 DEF RouterRead
<1>7. CASE RouterWrite
  BY <1>7 DEF RouterWrite, Write, Die
<1>8. CASE DaemonForks
  BY <1>8 DEF DaemonForks, Fork
<1>9. CASE DaemonReaps
  BY <1>9 DEF DaemonReaps
<1>10. CASE WorkerStart
  BY <1>10 DEF WorkerStart
<1>11. CASE WorkerRead
  BY <1>11 DEF WorkerRead
<1>12. CASE WorkerPush
  BY <1>12 DEF WorkerPush
<1>13. CASE WorkerPop
  BY <1>13 DEF WorkerPop
<1>14. ASSUME NEW p \in {"main", "dispatch"}, DispatchStart(p)
       PROVE  Tree'
  BY <1>14 DEF DispatchStart
<1>15. ASSUME NEW p \in {"main", "dispatch"}, DispatchReceive(p)
       PROVE  Tree'
  BY <1>15 DEF DispatchReceive
<1>16. ASSUME NEW p \in {"main", "dispatch"}, DispatchWrite(p)
       PROVE  Tree'
  BY <1>16 DEF DispatchWrite, Write, Die
<1>17. ASSUME NEW p \in Procs, Kill(p)
       PROVE  Tree'
  BY <1>17 DEF Kill, Die
<1>18. CASE UNCHANGED vars
  BY <1>18 DEF vars
<1>19. QED
  BY <1>1, <1>2, <1>3, <1>4, <1>5, <1>6, <1>7, <1>8, <1>9, <1>10, <1>11,
     <1>12, <1>13, <1>14, <1>15, <1>16, <1>17, <1>18
     DEF Next, Main, Daemon, Worker, Dispatcher

(* The part of the inductive invariant about records: in hands, and        *)
(* elsewhere.                                                              *)
InHand ==
    /\ hand \in [Procs -> Seq(Records)]
    /\ \A p \in Procs : ~Alive(p) => hand[p] = <<>>
    /\ Hands

Elsewhere ==
    /\ dispatchPipe \in Seq(Commands)
    /\ Len(dispatchPipe) <= DispatchPipeCap
    /\ workPipe \in Seq(Commands)
    /\ Len(workPipe) <= WorkPipeCap
    /\ queue \in Seq(Records)
    /\ sent \in 0..MaxCommands
    /\ taken \in Seq(Records)
    /\ kills \in 0..MaxKills
    /\ piped \subseteq {"main", "dispatch"}

Data == InHand /\ Elsewhere

(* A step that puts at most one record into the hand of one process, and   *)
(* none into a dead hand, and in which no other process dies, keeps hands  *)
(* in order.                                                               *)
LEMMA OneHandChanges ==
    ASSUME InHand,
           NEW p \in Procs,
           NEW s \in Seq(Records), Len(s) <= 1,
           p # "worker" => s \in Seq(Commands),
           hand' = [hand EXCEPT ![p] = s],
           ~Alive(p)' => s = <<>>,
           \A q \in Procs \ {p} : ~Alive(q)' => ~Alive(q)
    PROVE  InHand'
<1>1. hand' \in [Procs -> Seq(Records)]
  BY DEF InHand
<1>2. /\ hand'[p] = s
      /\ \A q \in Procs \ {p} : hand'[q] = hand[q]
  BY DEF InHand
<1>3. ASSUME NEW q \in Procs, ~Alive(q)'
      PROVE  hand'[q] = <<>>
  <2>1. CASE q = p
    BY <1>2, <1>3, <2>1
  <2>2. CASE q # p
    BY <1>2, <1>3, <2>2 DEF InHand
  <2>3. QED BY <2>1, <2>2
<1>4. Hands'
  BY <1>2 DEF InHand, Hands
<1>5. QED BY <1>1, <1>3, <1>4 DEF InHand

(* So does one that changes no hand and in which no process dies.          *)
LEMMA NoHandChanges ==
    ASSUME InHand, hand' = hand, \A q \in Procs : ~Alive(q)' => ~Alive(q)
    PROVE  InHand'
<1>1. \A q \in Procs : ~Alive(q)' => hand'[q] = <<>>
  BY DEF InHand
<1>2. QED BY <1>1 DEF InHand, Hands

(* What a hand can hold.                                                   *)
LEMMA ShortHands ==
    /\ <<>> \in Seq(Records) /\ <<>> \in Seq(Commands) /\ Len(<<>>) = 0
    /\ \A r \in Records : <<r>> \in Seq(Records) /\ Len(<<r>>) = 1
    /\ \A c \in Commands : <<c>> \in Seq(Commands) /\ c \in Records
BY DEF Records

(* Hands that are emptied, and hands that take up a record.                *)
LEMMA HandEmptied ==
    ASSUME InHand, NEW p \in Procs, hand' = [hand EXCEPT ![p] = <<>>],
           \A q \in Procs \ {p} : ~Alive(q)' => ~Alive(q)
    PROVE  InHand'
<1>1. PICK s \in Seq(Records) : s = <<>>
  BY ShortHands
<1>2. /\ Len(s) <= 1 /\ s \in Seq(Commands)
      /\ hand' = [hand EXCEPT ![p] = s]
  BY <1>1, ShortHands
<1>3. QED BY <1>1, <1>2, OneHandChanges

(* A hand that takes up a record.                                          *)
LEMMA HandFilled ==
    ASSUME InHand, NEW p \in Procs, NEW r \in Records,
           p # "worker" => r \in Commands,
           hand' = [hand EXCEPT ![p] = <<r>>],
           Alive(p)',
           \A q \in Procs \ {p} : ~Alive(q)' => ~Alive(q)
    PROVE  InHand'
<1>1. PICK s \in Seq(Records) : s = <<r>>
  BY ShortHands
<1>2. /\ Len(s) <= 1 /\ (p # "worker" => s \in Seq(Commands))
      /\ hand' = [hand EXCEPT ![p] = s]
  BY <1>1, ShortHands
<1>3. QED BY <1>1, <1>2, OneHandChanges

(* A pipe with room for one more takes what a writer has in hand.          *)
LEMMA PipeTakesHand ==
    ASSUME InHand, NEW p \in {"main", "dispatch"},
           NEW pipe \in Seq(Commands), NEW cap \in Nat, Len(pipe) < cap
    PROVE  pipe \o hand[p] \in Seq(Commands) /\ Len(pipe \o hand[p]) <= cap
<1>1. hand[p] \in Seq(Commands) /\ Len(hand[p]) <= 1
  BY DEF InHand, Hands, Procs
<1>2. QED BY <1>1

(* What is taken from the head of a pipe is a command.                     *)
LEMMA PipeGives ==
    ASSUME NEW pipe \in Seq(Commands), pipe # <<>>
    PROVE  /\ Head(pipe) \in Commands /\ Head(pipe) \in Records
           /\ Tail(pipe) \in Seq(Commands)
           /\ Len(Tail(pipe)) <= Len(pipe)
BY HeadTailProperties DEF Records

(* Every step preserves what is true of records.                           *)
LEMMA DataStep ==
    Tree /\ Data /\ [Next]_vars => Data'
<1> SUFFICES ASSUME Tree, InHand, Elsewhere, [Next]_vars
             PROVE  InHand' /\ Elsewhere'
  BY DEF Data
<1> USE ConstantsAssumption
<1>1. CASE \/ ForkReport \/ ForkDaemon \/ CloseWorkRead \/ ForkDispatch
           \/ CloseDispatchWrite \/ DaemonForks \/ DaemonReaps \/ WorkerStart
           \/ \E p \in {"main", "dispatch"} : DispatchStart(p)
  <2>1. UNCHANGED <<hand, pipes, queue, history>>
    BY <1>1
       DEF ForkReport, ForkDaemon, CloseWorkRead, ForkDispatch,
           CloseDispatchWrite, DaemonForks, DaemonReaps, WorkerStart,
           DispatchStart
  <2>2. \A q \in Procs : ~Alive(q)' => ~Alive(q)
    BY <1>1
       DEF ForkReport, ForkDaemon, CloseWorkRead, ForkDispatch,
           CloseDispatchWrite, DaemonForks, DaemonReaps, WorkerStart,
           DispatchStart, Fork, Goto, Alive, Procs, Tree, Places
  <2>3. InHand'
    BY <2>1, <2>2, NoHandChanges
  <2>4. Elsewhere'
    BY <2>1 DEF Elsewhere, pipes, history
  <2>5. QED BY <2>3, <2>4
<1>2. CASE RouterRead
  <2>1. /\ dispatchPipe # <<>> /\ dispatchPipe' = Tail(dispatchPipe)
        /\ hand' = [hand EXCEPT !["main"] = <<Head(dispatchPipe)>>]
        /\ UNCHANGED <<workPipe, queue, history>>
    BY <1>2 DEF RouterRead
  <2>2. Alive("main")' /\ \A q \in Procs \ {"main"} : ~Alive(q)' => ~Alive(q)
    BY <1>2 DEF RouterRead, Goto, Alive, Procs, Tree, Places
  <2>3. InHand'
    BY <2>1, <2>2, PipeGives, HandFilled DEF Elsewhere, Procs
  <2>4. Elsewhere'
    BY <2>1, PipeGives DEF Elsewhere, history
  <2>5. QED BY <2>3, <2>4
<1>3. CASE RouterWrite
  <2>1. hand' = [hand EXCEPT !["main"] = <<>>]
    BY <1>3 DEF RouterWrite, Write, Die
  <2>2. \A q \in Procs \ {"main"} : ~Alive(q)' => ~Alive(q)
    BY <1>3 DEF RouterWrite, Write, Die, Goto, Alive, Procs, Tree, Places
  <2>3. InHand'
    BY <2>1, <2>2, HandEmptied DEF Procs
  <2>4. Elsewhere'
    <3>1. \/ /\ Len(workPipe) < WorkPipeCap
             /\ workPipe' = workPipe \o hand["main"]
          \/ workPipe' = workPipe
      BY <1>3 DEF RouterWrite, Write
    <3>2. workPipe' \in Seq(Commands) /\ Len(workPipe') <= WorkPipeCap
      BY <3>1, PipeTakesHand DEF Elsewhere
    <3>3. /\ queue' = queue /\ piped' \subseteq piped \union {"main"}
          /\ UNCHANGED <<dispatchPipe, sent, taken, kills>>
      BY <1>3 DEF RouterWrite, Write, Die
    <3>4. QED BY <3>2, <3>3 DEF Elsewhere
  <2>5. QED BY <2>3, <2>4
<1>4. CASE WorkerRead
  <2>1. PICK record \in Records :
          /\ hand' = [hand EXCEPT !["worker"] = <<record>>]
          /\ \/ workPipe' = workPipe
             \/ workPipe # <<>> /\ workPipe' = Tail(workPipe)
    <3>1. workPipe # <<>> => Head(workPipe) \in Records
      BY PipeGives DEF Elsewhere
    <3>2. Phantom \in Records
      BY DEF Records
    <3>3. QED BY <1>4, <3>1, <3>2 DEF WorkerRead
  <2>2. /\ Alive("worker")'
        /\ \A q \in Procs \ {"worker"} : ~Alive(q)' => ~Alive(q)
    BY <1>4 DEF WorkerRead, Alive, Goto, Tree, Places, Procs
  <2>3. InHand'
    BY <2>1, <2>2, HandFilled DEF Procs
  <2>4. workPipe' \in Seq(Commands) /\ Len(workPipe') <= WorkPipeCap
    <3>1. CASE workPipe' = workPipe
      BY <3>1 DEF Elsewhere
    <3>2. CASE workPipe # <<>> /\ workPipe' = Tail(workPipe)
      <4>1. /\ Tail(workPipe) \in Seq(Commands)
            /\ Len(Tail(workPipe)) <= Len(workPipe)
        BY <3>2, PipeGives DEF Elsewhere
      <4>2. QED BY <3>2, <4>1 DEF Elsewhere
    <3>3. QED BY <2>1, <3>1, <3>2
  <2>5. UNCHANGED <<dispatchPipe, queue, history>>
    BY <1>4 DEF WorkerRead
  <2>6. QED BY <2>3, <2>4, <2>5 DEF Elsewhere, history
<1>5. CASE WorkerPush
  <2>1. /\ queue' = queue \o hand["worker"]
        /\ hand' = [hand EXCEPT !["worker"] = <<>>]
        /\ UNCHANGED <<pipes, history>>
    BY <1>5 DEF WorkerPush
  <2>2. \A q \in Procs \ {"worker"} : ~Alive(q)' => ~Alive(q)
    BY <1>5 DEF WorkerPush, Alive, Goto, Tree, Places, Procs
  <2>3. InHand'
    BY <2>1, <2>2, HandEmptied DEF Procs
  <2>4. queue' \in Seq(Records)
    <3>1. hand["worker"] \in Seq(Records)
      BY DEF InHand, Procs
    <3>2. QED BY <2>1, <3>1 DEF Elsewhere
  <2>5. QED BY <2>1, <2>3, <2>4 DEF Elsewhere, pipes, history
<1>6. CASE WorkerPop
  <2>1. InHand'
    <3>1. hand' = hand /\ \A q \in Procs : ~Alive(q)' => ~Alive(q)
      BY <1>6 DEF WorkerPop, Alive
    <3>2. QED BY <3>1, NoHandChanges
  <2>2. queue' \in Seq(Records) /\ taken' \in Seq(Records)
    BY <1>6, HeadTailProperties DEF WorkerPop, Elsewhere
  <2>3. QED BY <1>6, <2>1, <2>2 DEF WorkerPop, Elsewhere, pipes
<1>7. ASSUME NEW p \in {"main", "dispatch"}, DispatchReceive(p)
      PROVE  InHand' /\ Elsewhere'
  <2>1. /\ sent' = sent + 1 /\ sent < MaxCommands
        /\ hand' = [hand EXCEPT ![p] = <<sent + 1>>]
        /\ UNCHANGED <<pipes, queue, taken, kills, piped>>
    BY <1>7 DEF DispatchReceive
  <2>2. sent' \in 0..MaxCommands /\ sent + 1 \in Commands
    BY <2>1 DEF Elsewhere, Commands
  <2>3. Alive(p)' /\ \A q \in Procs \ {p} : ~Alive(q)' => ~Alive(q)
    BY <1>7 DEF DispatchReceive, Alive, Goto, Tree, Places, Procs
  <2>4. InHand'
    BY <2>1, <2>2, <2>3, HandFilled DEF Procs, Records
  <2>5. QED BY <2>1, <2>2, <2>4 DEF Elsewhere, pipes
<1>8. ASSUME NEW p \in {"main", "dispatch"}, DispatchWrite(p)
      PROVE  InHand' /\ Elsewhere'
  <2>1. hand' = [hand EXCEPT ![p] = <<>>]
    BY <1>8 DEF DispatchWrite, Write, Die
  <2>2. \A q \in Procs \ {p} : ~Alive(q)' => ~Alive(q)
    BY <1>8 DEF DispatchWrite, Write, Die, Goto, Alive, Procs, Tree, Places
  <2>3. InHand'
    BY <2>1, <2>2, HandEmptied DEF Procs
  <2>4. Elsewhere'
    <3>1. \/ /\ Len(dispatchPipe) < DispatchPipeCap
             /\ dispatchPipe' = dispatchPipe \o hand[p]
          \/ dispatchPipe' = dispatchPipe
      BY <1>8 DEF DispatchWrite, Write
    <3>2. /\ dispatchPipe' \in Seq(Commands)
          /\ Len(dispatchPipe') <= DispatchPipeCap
      BY <3>1, PipeTakesHand DEF Elsewhere
    <3>3. /\ queue' = queue /\ piped' \subseteq piped \union {p}
          /\ UNCHANGED <<workPipe, sent, taken, kills>>
      BY <1>8 DEF DispatchWrite, Write, Die
    <3>4. QED BY <3>2, <3>3 DEF Elsewhere
  <2>5. QED BY <2>3, <2>4
<1>9. ASSUME NEW p \in Procs, Kill(p)
      PROVE  InHand' /\ Elsewhere'
  <2>1. hand' = [hand EXCEPT ![p] = <<>>]
    BY <1>9 DEF Kill, Die
  <2>2. \A q \in Procs \ {p} : ~Alive(q)' => ~Alive(q)
    BY <1>9 DEF Kill, Die, Goto, Alive, Procs, Tree, Places
  <2>3. InHand'
    BY <2>1, <2>2, HandEmptied
  <2>4. queue' \in Seq(Records)
    BY <1>9, ShortHands DEF Kill, Die, Elsewhere
  <2>5. kills' \in 0..MaxKills
    BY <1>9 DEF Kill, Elsewhere
  <2>6. QED BY <1>9, <2>3, <2>4, <2>5 DEF Kill, Elsewhere, pipes
<1>10. CASE UNCHANGED vars
  <2>1. hand' = hand /\ \A q \in Procs : ~Alive(q)' => ~Alive(q)
    BY <1>10 DEF vars, Alive
  <2>2. InHand'
    BY <2>1, NoHandChanges
  <2>3. QED BY <1>10, <2>2 DEF vars, pipes, history, Elsewhere
<1>11. QED
  BY <1>1, <1>2, <1>3, <1>4, <1>5, <1>6, <1>7, <1>8, <1>9, <1>10
     DEF Next, Main, Daemon, Worker, Dispatcher

-----------------------------------------------------------------------------
(* The dead stay dead, and what only the dead could have started is never  *)
(* started.                                                                *)
LEMMA DeathIsFinal ==
    ASSUME Tree, [Next]_vars, at["main"] = "dead"
    PROVE  /\ at'["main"] = "dead"
           /\ at["dispatch"] = "none" => at'["dispatch"] = "none"
           /\ ~Alive("dispatch") => ~Alive("dispatch")'
           /\ ~Alive("daemon") =>
                  /\ ~Alive("daemon")'
                  /\ ~Alive("worker") => ~Alive("worker")'
<1> USE DEF Tree, Places, Alive, Goto, Procs
<1>1. CASE Main
  BY <1>1 DEF Main, ForkReport, ForkDaemon, CloseWorkRead, ForkDispatch,
              CloseDispatchWrite, RouterRead, RouterWrite
<1>2. CASE Daemon
  BY <1>2 DEF Daemon, DaemonForks, DaemonReaps, Fork
<1>3. CASE Worker
  BY <1>3 DEF Worker, WorkerStart, WorkerRead, WorkerPush, WorkerPop
<1>4. ASSUME NEW p \in {"main", "dispatch"}, Dispatcher(p)
      PROVE  p = "dispatch" /\ Alive("dispatch")
             /\ at' = [at EXCEPT !["dispatch"] = at'["dispatch"]]
  BY <1>4 DEF Dispatcher, DispatchStart, DispatchReceive, DispatchWrite,
              Write, Die
<1>5. ASSUME NEW p \in Procs, Kill(p)
      PROVE  Alive(p) /\ at' = [at EXCEPT ![p] = "dead"]
  BY <1>5 DEF Kill, Die
<1>6. CASE UNCHANGED vars
  BY <1>6 DEF vars
<1>7. QED
  BY <1>1, <1>2, <1>3, <1>4, <1>5, <1>6 DEF Next

(* A process SIGPIPE has killed never leaves the state dead.               *)
LEMMA PipedStep ==
    Tree /\ PipedAreDead /\ piped \subseteq {"main", "dispatch"}
        /\ [Next]_vars => PipedAreDead'
<1> SUFFICES ASSUME Tree, PipedAreDead, piped \subseteq {"main", "dispatch"},
                    [Next]_vars
             PROVE  PipedAreDead'
  OBVIOUS
<1>1. ASSUME NEW p \in {"main", "dispatch"}, at[p] = "dead"
      PROVE  at'[p] = "dead"
  <2> USE DEF Tree, Places, StartOrder, Alive, Goto, Procs
  <2>1. CASE Main
    BY <1>1, <2>1
       DEF Main, ForkReport, ForkDaemon, CloseWorkRead, ForkDispatch,
           CloseDispatchWrite, RouterRead, RouterWrite, Fork, Write, Die
  <2>2. CASE Daemon
    BY <1>1, <2>2 DEF Daemon, DaemonForks, DaemonReaps, Fork
  <2>3. CASE Worker
    BY <1>1, <2>3 DEF Worker, WorkerStart, WorkerRead, WorkerPush, WorkerPop
  <2>4. ASSUME NEW q \in {"main", "dispatch"}, Dispatcher(q)
        PROVE  at'[p] = "dead"
    BY <1>1, <2>4
       DEF Dispatcher, DispatchStart, DispatchReceive, DispatchWrite, Write,
           Die
  <2>5. ASSUME NEW q \in Procs, Kill(q)
        PROVE  at'[p] = "dead"
    BY <1>1, <2>5 DEF Kill, Die
  <2>6. CASE UNCHANGED vars
    BY <1>1, <2>6 DEF vars
  <2>7. QED BY <2>1, <2>2, <2>3, <2>4, <2>5, <2>6 DEF Next
<1>2. ASSUME NEW p \in piped', p \notin piped
      PROVE  at'[p] = "dead"
  <2>1. PICK q \in {"main", "dispatch"} :
          piped' = piped \union {q} /\ Die(q)
    BY <1>2
       DEF Next, Main, ForkReport, ForkDaemon, CloseWorkRead, ForkDispatch,
           CloseDispatchWrite, RouterRead, RouterWrite, Daemon, DaemonForks,
           DaemonReaps, Worker, WorkerStart, WorkerRead, WorkerPush,
           WorkerPop, Dispatcher, DispatchStart, DispatchReceive,
           DispatchWrite, Write, Kill, vars, history
  <2>2. QED BY <1>2, <2>1 DEF Die, Goto, Tree, Places, Procs
<1>3. QED BY <1>1, <1>2 DEF PipedAreDead

(* Who is alive when SIGPIPE strikes.                                      *)
LEMMA CollapseStep ==
    ASSUME Tree, PipedAreDead, piped \subseteq {"main", "dispatch"},
           CollapseOrder, [Next]_vars
    PROVE  CollapseOrder'
<1>1. ASSUME piped' = piped
      PROVE  CollapseOrder'
  <2>1. ("main" \in piped \/ "dispatch" \in piped) => at["main"] = "dead"
    BY DEF PipedAreDead, CollapseOrder, Alive, Tree, Places
  <2>2. "main" \in piped /\ at'["dispatch"] # "none" =>
          at["dispatch"] # "none"
    BY <2>1, DeathIsFinal
  <2>3. QED BY <1>1, <2>1, <2>2, DeathIsFinal DEF CollapseOrder, Alive
<1>2. CASE RouterWrite
  <2>1. CASE Open("workRead")
    BY <1>1, <1>2, <2>1 DEF RouterWrite, Write
  <2>2. CASE ~Open("workRead")
    <3>1. ~Alive("daemon") /\ ~Alive("worker")
      BY <2>2 DEF Open, Tree, KeptEnds, Procs
    <3>2. /\ at["main"] = "route" /\ at' = [at EXCEPT !["main"] = "dead"]
      BY <1>2, <2>2 DEF RouterWrite, Write, Die, Goto
    <3>3. QED BY <3>1, <3>2 DEF CollapseOrder, Alive, Tree, Places, Procs
  <2>3. QED BY <2>1, <2>2
<1>3. ASSUME NEW p \in {"main", "dispatch"}, DispatchWrite(p)
      PROVE  CollapseOrder'
  <2>1. CASE Open("dispatchRead")
    BY <1>1, <1>3, <2>1 DEF DispatchWrite, Write
  <2>2. CASE ~Open("dispatchRead")
    <3>1. /\ at[p] = "forward" /\ at' = [at EXCEPT ![p] = "dead"]
          /\ piped' = piped \union {p}
      BY <1>3, <2>2 DEF DispatchWrite, Write, Die, Goto
    <3>2. CASE p = "main"
      <4>1. at["dispatch"] = "none"
        BY <3>1, <3>2 DEF Tree, StartOrder
      <4>2. QED
        BY <3>1, <3>2, <4>1 DEF CollapseOrder, Alive, Tree, Places, Procs
    <3>3. CASE p = "dispatch"
      <4>1. at["main"] = "dead"
        BY <2>2, <3>1, <3>3
           DEF Open, Tree, KeptEnds, StartOrder, Procs
      <4>2. QED
        BY <3>1, <3>3, <4>1 DEF CollapseOrder, Alive, Tree, Places, Procs
    <3>4. QED BY <3>2, <3>3
  <2>3. QED BY <2>1, <2>2
<1>4. ASSUME ~RouterWrite,
             \A p \in {"main", "dispatch"} : ~DispatchWrite(p)
      PROVE  piped' = piped
  BY <1>4
     DEF Next, Main, ForkReport, ForkDaemon, CloseWorkRead, ForkDispatch,
         CloseDispatchWrite, RouterRead, Daemon, DaemonForks, DaemonReaps,
         Worker, WorkerStart, WorkerRead, WorkerPush, WorkerPop, Dispatcher,
         DispatchStart, DispatchReceive, Kill, vars, history
<1>5. QED BY <1>1, <1>2, <1>3, <1>4

-----------------------------------------------------------------------------
(* A worker without phantoms, and one that is left alone.                  *)
Clean ==
    /\ hand["worker"] \in Seq(Commands)
    /\ queue \in Seq(Commands)
    /\ taken \in Seq(Commands)

Orphan == ~Alive("main") /\ ~Alive("daemon") /\ ~Alive("dispatch")

(* A sequence of records without a phantom is one of commands.             *)
LEMMA CommandsHaveNoPhantom ==
    ASSUME NEW s \in Seq(Records)
    PROVE  (s \in Seq(Commands)) <=> (\A i \in 1..Len(s) : s[i] # Phantom)
<1>1. Phantom \notin Commands /\ Records = Commands \union {Phantom}
  BY ConstantsAssumption DEF Phantom, Commands, Records
<1>2. ASSUME s \in Seq(Commands), NEW i \in 1..Len(s)
      PROVE  s[i] # Phantom
  <2>1. s[i] \in Commands
    BY <1>2, ElementOfSeq
  <2>2. QED BY <1>1, <2>1
<1>3. ASSUME \A i \in 1..Len(s) : s[i] # Phantom
      PROVE  s \in Seq(Commands)
  <2>1. \A i \in 1..Len(s) : s[i] \in Commands
    BY <1>1, <1>3, ElementOfSeq
  <2>2. QED BY <2>1
<1>4. QED BY <1>2, <1>3

(* So the property is that the worker is clean or left alone.              *)
LEMMA PhantomOrClean ==
    ASSUME Data
    PROVE  PhantomNeedsOrphan <=> Clean \/ Orphan
<1>1. /\ hand["worker"] \in Seq(Records) /\ queue \in Seq(Records)
      /\ taken \in Seq(Records)
  BY DEF Data, InHand, Elsewhere, Procs
<1>2. Clean <=> \A s \in {hand["worker"], queue, taken} :
                    \A i \in 1..Len(s) : s[i] # Phantom
  BY <1>1, CommandsHaveNoPhantom DEF Clean
<1>3. QED BY <1>2 DEF PhantomNeedsOrphan, Orphan

(* A phantom is read only by a worker left alone: every other process that *)
(* lives keeps the write end of the work pipe open.                        *)
LEMMA PhantomStep ==
    ASSUME Tree, Data, Clean \/ Orphan, [Next]_vars
    PROVE  (Clean \/ Orphan)'
<1>1. CASE Orphan
  <2>1. at["main"] = "dead"
    BY <1>1 DEF Orphan, Alive, Tree, Places
  <2>2. ~Alive("main")'
    BY <2>1, DeathIsFinal DEF Alive
  <2>3. QED BY <1>1, <2>1, <2>2, DeathIsFinal DEF Orphan
<1>2. CASE Clean
  <2>1. CASE WorkerRead
    <3>1. CASE workPipe # <<>>
      <4>1. Head(workPipe) \in Commands
        BY <3>1, PipeGives DEF Data, Elsewhere
      <4>2. hand'["worker"] = <<Head(workPipe)>>
        BY <2>1, <3>1 DEF WorkerRead, Data, InHand, Procs
      <4>3. hand'["worker"] \in Seq(Commands)
        BY <4>1, <4>2
      <4>4. QED BY <1>2, <2>1, <4>3 DEF WorkerRead, Clean, history
    <3>2. CASE workPipe = <<>>
      <4>1. ~Open("workWrite") /\ at["worker"] = "read"
        BY <2>1, <3>2 DEF WorkerRead
      <4>2. Orphan
        BY <4>1 DEF Open, Orphan, Tree, KeptEnds, StartOrder, Procs
      <4>3. QED BY <1>1, <4>2
    <3>3. QED BY <3>1, <3>2
  <2>2. CASE WorkerPush
    <3>1. queue' \in Seq(Commands)
      BY <1>2, <2>2 DEF WorkerPush, Clean
    <3>2. hand'["worker"] = <<>>
      BY <2>2 DEF WorkerPush, Data, InHand, Procs
    <3>3. QED
      BY <1>2, <2>2, <3>1, <3>2, ShortHands DEF WorkerPush, Clean, history
  <2>3. CASE WorkerPop
    <3>1. queue' \in Seq(Commands) /\ taken' \in Seq(Commands)
      BY <1>2, <2>3, HeadTailProperties DEF WorkerPop, Clean
    <3>2. QED BY <1>2, <2>3, <3>1 DEF WorkerPop, Clean
  <2>4. ASSUME NEW p \in Procs, Kill(p)
        PROVE  Clean'
    <3>1. /\ hand' = [hand EXCEPT ![p] = <<>>] /\ taken' = taken
          /\ queue' = <<>> \/ queue' = queue
      BY <2>4 DEF Kill, Die
    <3>2. hand'["worker"] = <<>> \/ hand'["worker"] = hand["worker"]
      BY <3>1 DEF Data, InHand, Procs
    <3>3. QED BY <1>2, <3>1, <3>2, ShortHands DEF Clean
  <2>5. ASSUME ~WorkerRead, ~WorkerPush, ~WorkerPop,
               \A p \in Procs : ~Kill(p)
        PROVE  Clean'
    <3>1. /\ queue' = queue /\ taken' = taken
          /\ \/ hand' = hand
             \/ \E p \in {"main", "dispatch"}, s \in {hand'["main"],
                    hand'["dispatch"]} : hand' = [hand EXCEPT ![p] = s]
      <4>1. ASSUME NEW p \in {"main", "dispatch"}, Dispatcher(p)
            PROVE  /\ queue' = queue /\ taken' = taken
                   /\ hand' = hand
                      \/ hand' = [hand EXCEPT ![p] = hand'[p]]
        BY <4>1
           DEF Dispatcher, DispatchStart, DispatchReceive, DispatchWrite,
               Write, Die, history, Data, InHand, Procs
      <4>2. CASE Main
        BY <4>2
           DEF Main, ForkReport, ForkDaemon, CloseWorkRead, ForkDispatch,
               CloseDispatchWrite, RouterRead, RouterWrite, Write, Die,
               history, Data, InHand, Procs
      <4>3. QED
        BY <2>5, <4>1, <4>2
           DEF Next, Daemon, DaemonForks, DaemonReaps, Worker, WorkerStart,
               vars, history
    <3>2. hand'["worker"] = hand["worker"]
      BY <3>1 DEF Data, InHand, Procs
    <3>3. QED BY <1>2, <3>1, <3>2 DEF Clean
  <2>6. QED BY <2>1, <2>2, <2>3, <2>4, <2>5
<1>3. QED BY <1>1, <1>2

-----------------------------------------------------------------------------
(* Sequences of records along the way.                                     *)
LEMMA ConcatAt ==
    ASSUME NEW s \in Seq(Records), NEW t \in Seq(Records)
    PROVE  /\ s \o t \in Seq(Records)
           /\ Len(s) \in Nat /\ Len(t) \in Nat
           /\ Len(s \o t) = Len(s) + Len(t)
           /\ \A i \in 1..Len(s) : (s \o t)[i] = s[i]
           /\ \A j \in 1..Len(t) : (s \o t)[Len(s) + j] = t[j]
           /\ \A k \in 1..Len(s \o t) :
                  \/ k \in 1..Len(s)
                  \/ k - Len(s) \in 1..Len(t) /\ k = Len(s) + (k - Len(s))
OBVIOUS

(* A phantom weighs more than any command.                                 *)
LEMMA WeightIsNatural ==
    \A r \in Records : Weight(r) \in Nat
BY ConstantsAssumption DEF Records, Commands, Weight, Phantom

(* Two sequences are in order one after the other if each is, and all of   *)
(* the first comes before all of the second.                               *)
LEMMA InOrderTogether ==
    ASSUME NEW s \in Seq(Records), NEW t \in Seq(Records)
    PROVE  InOrder(s \o t) <=>
               /\ InOrder(s) /\ InOrder(t)
               /\ \A i \in 1..Len(s), j \in 1..Len(t) :
                      Weight(s[i]) < Weight(t[j])
<1> DEFINE st == s \o t
<1>1. /\ Len(s) \in Nat /\ Len(t) \in Nat
      /\ Len(st) = Len(s) + Len(t)
      /\ \A i \in 1..Len(s) : st[i] = s[i]
      /\ \A j \in 1..Len(t) : st[Len(s) + j] = t[j]
      /\ \A k \in 1..Len(st) :
             \/ k \in 1..Len(s)
             \/ k - Len(s) \in 1..Len(t) /\ k = Len(s) + (k - Len(s))
  BY ConcatAt
<1> HIDE DEF st
<1>2. ASSUME InOrder(st)
      PROVE  /\ InOrder(s) /\ InOrder(t)
             /\ \A i \in 1..Len(s), j \in 1..Len(t) :
                    Weight(s[i]) < Weight(t[j])
  <2>1. ASSUME NEW i \in 1..Len(s), NEW j \in 1..Len(s), i < j
        PROVE  Weight(s[i]) < Weight(s[j])
    <3>1. i \in 1..Len(st) /\ j \in 1..Len(st)
      BY <1>1
    <3>2. Weight(st[i]) < Weight(st[j])
      BY <1>2, <2>1, <3>1 DEF InOrder
    <3>3. QED BY <1>1, <3>2
  <2>2. ASSUME NEW i \in 1..Len(t), NEW j \in 1..Len(t), i < j
        PROVE  Weight(t[i]) < Weight(t[j])
    <3>1. /\ Len(s) + i \in 1..Len(st) /\ Len(s) + j \in 1..Len(st)
          /\ Len(s) + i < Len(s) + j
      BY <1>1, <2>2
    <3>2. Weight(st[Len(s) + i]) < Weight(st[Len(s) + j])
      BY <1>2, <3>1 DEF InOrder
    <3>3. QED BY <1>1, <3>2
  <2>3. ASSUME NEW i \in 1..Len(s), NEW j \in 1..Len(t)
        PROVE  Weight(s[i]) < Weight(t[j])
    <3>1. i \in 1..Len(st) /\ Len(s) + j \in 1..Len(st) /\ i < Len(s) + j
      BY <1>1
    <3>2. Weight(st[i]) < Weight(st[Len(s) + j])
      BY <1>2, <3>1 DEF InOrder
    <3>3. QED BY <1>1, <3>2
  <2>4. QED BY <2>1, <2>2, <2>3 DEF InOrder
<1>3. ASSUME InOrder(s), InOrder(t),
             \A i \in 1..Len(s), j \in 1..Len(t) : Weight(s[i]) < Weight(t[j])
      PROVE  InOrder(st)
  <2> SUFFICES ASSUME NEW k \in 1..Len(st), NEW l \in 1..Len(st), k < l
               PROVE  Weight(st[k]) < Weight(st[l])
    BY DEF InOrder
  <2>1. CASE l \in 1..Len(s)
    <3>1. k \in 1..Len(s)
      BY <2>1
    <3>2. Weight(s[k]) < Weight(s[l])
      BY <1>3, <2>1, <3>1 DEF InOrder
    <3>3. QED BY <1>1, <2>1, <3>1, <3>2
  <2>2. CASE k \in 1..Len(s) /\ l \notin 1..Len(s)
    <3>1. l - Len(s) \in 1..Len(t) /\ st[l] = t[l - Len(s)]
      BY <1>1, <2>2
    <3>2. Weight(s[k]) < Weight(t[l - Len(s)])
      BY <1>3, <2>2, <3>1
    <3>3. QED BY <1>1, <2>2, <3>1, <3>2
  <2>3. CASE k \notin 1..Len(s)
    <3>1. l \notin 1..Len(s)
      BY <2>3, <1>1
    <3>2. /\ k - Len(s) \in 1..Len(t) /\ st[k] = t[k - Len(s)]
          /\ l - Len(s) \in 1..Len(t) /\ st[l] = t[l - Len(s)]
      BY <1>1, <2>3, <3>1
    <3>3. k - Len(s) < l - Len(s)
      BY <1>1
    <3>4. Weight(t[k - Len(s)]) < Weight(t[l - Len(s)])
      BY <1>3, <3>2, <3>3 DEF InOrder
    <3>5. QED BY <3>2, <3>4
  <2>4. QED BY <2>1, <2>2, <2>3
<1>4. QED BY <1>2, <1>3 DEF st

(* Nothing in a sequence is beyond n.                                      *)
Within(s, n) == \A i \in 1..Len(s) : s[i] <= n

(* The same of two sequences one after the other.                          *)
LEMMA WithinTogether ==
    ASSUME NEW s \in Seq(Records), NEW t \in Seq(Records), NEW n
    PROVE  Within(s \o t, n) <=> Within(s, n) /\ Within(t, n)
<1> DEFINE st == s \o t
<1>1. /\ Len(s) \in Nat /\ Len(t) \in Nat
      /\ Len(st) = Len(s) + Len(t)
      /\ \A i \in 1..Len(s) : st[i] = s[i]
      /\ \A j \in 1..Len(t) : st[Len(s) + j] = t[j]
      /\ \A k \in 1..Len(st) :
             \/ k \in 1..Len(s)
             \/ k - Len(s) \in 1..Len(t) /\ k = Len(s) + (k - Len(s))
  BY ConcatAt
<1> HIDE DEF st
<1>2. ASSUME Within(st, n)
      PROVE  Within(s, n) /\ Within(t, n)
  <2>1. ASSUME NEW j \in 1..Len(t)
        PROVE  t[j] <= n
    <3>1. Len(s) + j \in 1..Len(st)
      BY <1>1
    <3>2. QED BY <1>1, <1>2, <3>1 DEF Within
  <2>2. ASSUME NEW i \in 1..Len(s)
        PROVE  s[i] <= n
    <3>1. i \in 1..Len(st)
      BY <1>1
    <3>2. QED BY <1>1, <1>2, <3>1 DEF Within
  <2>3. QED BY <2>1, <2>2 DEF Within
<1>3. ASSUME Within(s, n), Within(t, n)
      PROVE  Within(st, n)
  <2> SUFFICES ASSUME NEW k \in 1..Len(st)
               PROVE  st[k] <= n
    BY DEF Within
  <2>1. CASE k \in 1..Len(s)
    BY <1>1, <1>3, <2>1 DEF Within
  <2>2. CASE k \notin 1..Len(s)
    <3>1. k - Len(s) \in 1..Len(t) /\ st[k] = t[k - Len(s)]
      BY <1>1, <2>2
    <3>2. QED BY <1>3, <3>1 DEF Within
  <2>3. QED BY <2>1, <2>2
<1>4. QED BY <1>2, <1>3 DEF st

Good(s, n) == InOrder(s) /\ Within(s, n)

(* What is left when the middle is lost is still in order.                 *)
LEMMA MiddleLost ==
    ASSUME NEW s \in Seq(Records), NEW t \in Seq(Records),
           NEW u \in Seq(Records), NEW n, Good((s \o t) \o u, n)
    PROVE  Good(s \o u, n) /\ Good(s \o t, n) /\ Good(s, n)
<1>1. s \o t \in Seq(Records)
  BY ConcatAt
<1>2. /\ InOrder(s \o t) /\ InOrder(u)
      /\ \A i \in 1..Len(s \o t), j \in 1..Len(u) :
             Weight((s \o t)[i]) < Weight(u[j])
  BY <1>1, InOrderTogether DEF Good
<1>3. InOrder(s)
  BY <1>2, InOrderTogether
<1>4. ASSUME NEW i \in 1..Len(s), NEW j \in 1..Len(u)
      PROVE  Weight(s[i]) < Weight(u[j])
  <2>1. i \in 1..Len(s \o t) /\ (s \o t)[i] = s[i]
    BY ConcatAt
  <2>2. QED BY <1>2, <2>1
<1>5. InOrder(s \o u)
  BY <1>2, <1>3, <1>4, InOrderTogether
<1>6. Within(s \o t, n) /\ Within(u, n)
  BY <1>1, WithinTogether DEF Good
<1>7. Within(s, n)
  BY <1>6, WithinTogether
<1>8. Within(s \o u, n)
  BY <1>6, <1>7, WithinTogether
<1>9. QED BY <1>2, <1>3, <1>5, <1>6, <1>7, <1>8 DEF Good

(* A phantom or the next command can follow commands.                      *)
LEMMA OneMore ==
    ASSUME NEW s \in Seq(Records), NEW n \in 0..MaxCommands, Good(s, n),
           \A i \in 1..Len(s) : s[i] # Phantom,
           NEW r \in Records, r = Phantom \/ r = n + 1, NEW m \in Nat,
           n <= m, r <= m
    PROVE  Good(s \o <<r>>, m)
<1> USE ConstantsAssumption
<1>1. /\ <<r>> \in Seq(Records) /\ Len(<<r>>) = 1 /\ <<r>>[1] = r
  OBVIOUS
<1>2. InOrder(<<r>>) /\ Within(<<r>>, m)
  BY <1>1 DEF InOrder, Within
<1>3. ASSUME NEW i \in 1..Len(s)
      PROVE  Weight(s[i]) < Weight(r) /\ s[i] <= m
  <2>1. s[i] \in Nat /\ s[i] <= n /\ s[i] # Phantom
    BY DEF Good, Within, Records, Commands, Phantom
  <2>2. QED BY <2>1 DEF Weight, Phantom
<1>4. Within(s, m)
  BY <1>3 DEF Within
<1>5. \A i \in 1..Len(s), j \in 1..Len(<<r>>) : Weight(s[i]) < Weight(<<r>>[j])
  BY <1>1, <1>3
<1>6. QED
  BY <1>1, <1>2, <1>4, <1>5, InOrderTogether, WithinTogether DEF Good

-----------------------------------------------------------------------------
(* Concatenation, under a name the provers do not look behind.             *)
Cat(s, t) == s \o t

(* What the proofs use of concatenation.                                   *)
LEMMA CatProperties ==
    ASSUME NEW S
    PROVE  /\ \A s, t \in Seq(S) : Cat(s, t) \in Seq(S)
           /\ \A s, t \in Seq(S) : Len(Cat(s, t)) = Len(s) + Len(t)
           /\ \A s \in Seq(S) : Cat(<<>>, s) = s
           /\ \A s \in Seq(S) : Cat(s, <<>>) = s
           /\ \A s, t, u \in Seq(S) : Cat(s, Cat(t, u)) = Cat(Cat(s, t), u)
BY ConcatProperties, ConcatEmptySeq, ConcatAssociative DEF Cat

(* The same of the sequences of records, which the moves below are about.   *)
LEMMA CatRecords ==
    /\ \A s, t \in Seq(Records) : Cat(s, t) \in Seq(Records)
    /\ \A s \in Seq(Records) : Cat(<<>>, s) = s
    /\ \A s \in Seq(Records) : Cat(s, <<>>) = s
    /\ \A s, t, u \in Seq(Records) : Cat(s, Cat(t, u)) = Cat(Cat(s, t), u)
BY CatProperties

(* The front of what is in order is in order.                              *)
LEMMA FrontInOrder ==
    ASSUME NEW s \in Seq(Records), NEW t \in Seq(Records), NEW n,
           Good(Cat(s, t), n)
    PROVE  Good(s, n)
BY InOrderTogether, WithinTogether DEF Good, Cat

(* A sequence is its head and its tail.                                    *)
LEMMA CatHead ==
    ASSUME NEW s \in Seq(Records), s # <<>>
    PROVE  /\ <<Head(s)>> \in Seq(Records) /\ Tail(s) \in Seq(Records)
           /\ Len(<<Head(s)>>) = 1
           /\ Len(s) \in Nat \ {0} /\ Len(Tail(s)) = Len(s) - 1
           /\ s = Cat(<<Head(s)>>, Tail(s))
           /\ \A t \in Seq(Records) : Append(t, Head(s)) = Cat(t, <<Head(s)>>)
<1>1. /\ Head(s) \in Records /\ Tail(s) \in Seq(Records)
      /\ Len(Tail(s)) = Len(s) - 1
      /\ \A i \in 1..Len(Tail(s)) : Tail(s)[i] = s[i + 1]
      /\ Len(s) \in Nat \ {0}
  BY HeadTailProperties, EmptySeq
<1>2. /\ <<Head(s)>> \o Tail(s) \in Seq(Records)
      /\ Len(<<Head(s)>> \o Tail(s)) = Len(s)
      /\ \A i \in 1..Len(s) : (<<Head(s)>> \o Tail(s))[i] = s[i]
  BY <1>1
<1>3. s = Cat(<<Head(s)>>, Tail(s))
  BY <1>1, <1>2, SeqEqual DEF Cat
<1>4. ASSUME NEW t \in Seq(Records)
      PROVE  Append(t, Head(s)) = Cat(t, <<Head(s)>>)
  BY <1>1 DEF Cat
<1>5. QED BY <1>1, <1>3, <1>4

(* Records moved along the way.                                            *)
LEMMA MoveAll ==
    ASSUME NEW a \in Seq(Records), NEW b \in Seq(Records),
           NEW c \in Seq(Records)
    PROVE  Cat(Cat(a, Cat(b, c)), <<>>) = Cat(Cat(a, b), c)
<1>1. Cat(a, Cat(b, c)) \in Seq(Records)
  BY CatRecords
<1>2. Cat(Cat(a, Cat(b, c)), <<>>) = Cat(a, Cat(b, c))
  BY <1>1, CatRecords
<1>3. QED BY <1>2, CatRecords

(* The head of one part becomes the end of the part before it.             *)
LEMMA MoveHead ==
    ASSUME NEW a \in Seq(Records), NEW b \in Seq(Records), b # <<>>
    PROVE  /\ Cat(Append(a, Head(b)), Tail(b)) = Cat(a, b)
           /\ Cat(Cat(a, <<Head(b)>>), Tail(b)) = Cat(a, b)
<1>1. /\ <<Head(b)>> \in Seq(Records) /\ Tail(b) \in Seq(Records)
      /\ b = Cat(<<Head(b)>>, Tail(b))
      /\ Append(a, Head(b)) = Cat(a, <<Head(b)>>)
  BY CatHead
<1>2. Cat(a, Cat(<<Head(b)>>, Tail(b))) = Cat(Cat(a, <<Head(b)>>), Tail(b))
  BY <1>1, CatRecords
<1>3. QED BY <1>1, <1>2

(* From the front of the far part to the end of the near part.             *)
LEMMA MoveAcross ==
    ASSUME NEW a \in Seq(Records), NEW b \in Seq(Records),
           NEW c \in Seq(Records), NEW d \in Seq(Records),
           NEW e \in Seq(Records)
    PROVE  Cat(Cat(a, Cat(b, c)), Cat(Cat(<<>>, d), e))
               = Cat(Cat(a, b), Cat(Cat(c, d), e))
<1> DEFINE ab == Cat(a, b)
           de == Cat(d, e)
<1>1. ab \in Seq(Records) /\ de \in Seq(Records)
  BY CatRecords
<1>2. Cat(a, Cat(b, c)) = Cat(ab, c)
  BY CatRecords
<1>3. Cat(Cat(<<>>, d), e) = de
  BY CatRecords
<1>4. Cat(Cat(c, d), e) = Cat(c, de)
  BY CatRecords
<1> HIDE DEF ab, de
<1>5. Cat(Cat(ab, c), de) = Cat(ab, Cat(c, de))
  BY <1>1, CatRecords
<1>6. QED BY <1>2, <1>3, <1>4, <1>5 DEF ab

(* The way around what a worker holds.                                     *)
LEMMA AroundWorker ==
    ASSUME NEW t \in Seq(Records), NEW q \in Seq(Records),
           NEW w \in Seq(Records), NEW p \in Seq(Records),
           NEW f \in Seq(Records)
    PROVE  /\ Cat(Cat(Cat(Cat(t, q), w), p), f)
                  = Cat(Cat(t, Cat(q, w)), Cat(p, f))
           /\ Cat(Cat(Cat(Cat(t, <<>>), <<>>), p), f) = Cat(t, Cat(p, f))
<1> DEFINE x == Cat(t, Cat(q, w))
<1>1. x \in Seq(Records) /\ Cat(Cat(t, q), w) = x
  BY CatRecords
<1> HIDE DEF x
<1>2. Cat(Cat(x, p), f) = Cat(x, Cat(p, f))
  BY <1>1, CatRecords
<1>3. Cat(t, <<>>) = t
  BY CatRecords
<1>4. Cat(Cat(t, p), f) = Cat(t, Cat(p, f))
  BY CatRecords
<1>5. Cat(Cat(Cat(t, q), w), p) = Cat(x, p)
  BY <1>1
<1>6. QED BY <1>2, <1>3, <1>4, <1>5 DEF x

-----------------------------------------------------------------------------
(* The way in these terms.                                                 *)
LEMMA WayIsCat ==
    /\ Near = Cat(Cat(Cat(taken, queue), hand["worker"]), workPipe)
    /\ Router => Far = Cat(Cat(hand["main"], dispatchPipe), hand["dispatch"])
    /\ ~Router => Far = <<>>
    /\ WayInOrder <=> Good(Cat(Near, Far), sent)
BY DEF Near, Far, WayInOrder, Good, Within, Cat

(* All parts of the way are sequences of records.                          *)
LEMMA WayTypes ==
    ASSUME Data
    PROVE  /\ taken \in Seq(Records) /\ queue \in Seq(Records)
           /\ workPipe \in Seq(Records) /\ dispatchPipe \in Seq(Records)
           /\ \A p \in Procs : hand[p] \in Seq(Records)
           /\ <<>> \in Seq(Records)
           /\ Near \in Seq(Records) /\ Far \in Seq(Records)
           /\ sent \in 0..MaxCommands
<1>1. /\ taken \in Seq(Records) /\ queue \in Seq(Records)
      /\ sent \in 0..MaxCommands
      /\ \A p \in Procs : hand[p] \in Seq(Records)
  BY DEF Data, InHand, Elsewhere
<1>2. workPipe \in Seq(Records) /\ dispatchPipe \in Seq(Records)
  <2>1. Commands \subseteq Records
    BY DEF Records
  <2>2. workPipe \in Seq(Commands) /\ dispatchPipe \in Seq(Commands)
    BY DEF Data, Elsewhere
  <2>3. QED BY <2>1, <2>2, SeqMonotonic
<1>3. <<>> \in Seq(Records)
  BY EmptySeq
<1>4. "worker" \in Procs /\ "main" \in Procs /\ "dispatch" \in Procs
  BY DEF Procs
<1>5. Near \in Seq(Records)
  <2>1. Cat(taken, queue) \in Seq(Records)
    BY <1>1, CatProperties
  <2>2. Cat(Cat(taken, queue), hand["worker"]) \in Seq(Records)
    BY <1>1, <1>4, <2>1, CatProperties
  <2>3. QED BY <1>2, <2>2, CatProperties, WayIsCat
<1>6. Far \in Seq(Records)
  <2>1. Cat(hand["main"], dispatchPipe) \in Seq(Records)
    BY <1>1, <1>2, <1>4, CatProperties
  <2>2. Cat(Cat(hand["main"], dispatchPipe), hand["dispatch"])
          \in Seq(Records)
    BY <1>1, <1>4, <2>1, CatProperties
  <2>3. QED BY <1>3, <2>2, WayIsCat
<1>7. QED BY <1>1, <1>2, <1>3, <1>5, <1>6

(* A step that sets one hand leaves the others alone.                      *)
LEMMA HandsAfter ==
    ASSUME Data, NEW p \in Procs, NEW s, hand' = [hand EXCEPT ![p] = s]
    PROVE  hand'[p] = s /\ \A q \in Procs \ {p} : hand'[q] = hand[q]
BY DEF Data, InHand

(* A way that stays, or that is cut short, stays in order.                 *)
LEMMA WayStays ==
    ASSUME Data, WayInOrder, sent' \in Nat, sent' >= sent,
           Cat(Near, Far)' = Cat(Near, Far)
    PROVE  WayInOrder'
<1> DEFINE way == Cat(Near, Far)
<1>1. Good(way, sent) /\ way \in Seq(Records) /\ sent \in Nat
  BY WayIsCat, WayTypes, CatProperties
<1> HIDE DEF way
<1>2. Within(way, sent')
  <2>1. \A i \in 1..Len(way) : way[i] \in Nat
    BY <1>1, ConstantsAssumption DEF Records, Commands, Phantom
  <2>2. QED BY <1>1, <2>1 DEF Good, Within
<1>3. Good(way, sent')
  BY <1>1, <1>2 DEF Good
<1>4. (WayInOrder <=> Good(Cat(Near, Far), sent))'
  BY WayIsCat, PTL
<1>5. QED BY <1>3, <1>4 DEF way

(* The same when main dies and the far part can reach no worker any more.  *)
LEMMA FarLost ==
    ASSUME Data, WayInOrder, sent' = sent, Near' = Near, Far' = <<>>
    PROVE  WayInOrder'
<1>1. Good(Near, sent)
  BY WayIsCat, WayTypes, FrontInOrder
<1>2. Cat(Near, <<>>) = Near
  BY WayTypes, CatProperties
<1>3. (WayInOrder <=> Good(Cat(Near, Far), sent))'
  BY WayIsCat, PTL
<1>4. QED BY <1>1, <1>2, <1>3

(* The steps that move records along the way.                              *)
Fit == Tree /\ Data /\ NothingYet /\ IdleHands /\ (Clean \/ Orphan)

(* Main as the router.                                                     *)
LEMMA RouterSteps ==
    ASSUME Fit, WayInOrder, RouterRead \/ RouterWrite
    PROVE  WayInOrder'
<1> USE DEF Fit
<1>1. "main" \in Procs /\ "dispatch" \in Procs /\ "worker" \in Procs
  BY DEF Procs
<1>2. Router
  BY DEF RouterRead, RouterWrite, Router
<1> DEFINE near == Cat(Cat(taken, queue), hand["worker"])
<1>3. /\ near \in Seq(Records) /\ Near = Cat(near, workPipe)
      /\ Far = Cat(Cat(hand["main"], dispatchPipe), hand["dispatch"])
      /\ workPipe \in Seq(Records) /\ dispatchPipe \in Seq(Records)
      /\ hand["main"] \in Seq(Records) /\ hand["dispatch"] \in Seq(Records)
      /\ hand["worker"] \in Seq(Records) /\ <<>> \in Seq(Records)
      /\ sent \in Nat
  <2>1. /\ taken \in Seq(Records) /\ queue \in Seq(Records)
        /\ workPipe \in Seq(Records) /\ dispatchPipe \in Seq(Records)
        /\ hand["main"] \in Seq(Records) /\ hand["dispatch"] \in Seq(Records)
        /\ hand["worker"] \in Seq(Records) /\ <<>> \in Seq(Records)
        /\ sent \in Nat
    BY <1>1, WayTypes
  <2>2. Cat(taken, queue) \in Seq(Records)
    BY <2>1, CatProperties
  <2>3. near \in Seq(Records)
    BY <2>1, <2>2, CatProperties
  <2>4. QED BY <1>2, <2>1, <2>3, WayIsCat
<1>4. CASE RouterRead
  <2>1. /\ dispatchPipe # <<>> /\ dispatchPipe' = Tail(dispatchPipe)
        /\ hand' = [hand EXCEPT !["main"] = <<Head(dispatchPipe)>>]
        /\ UNCHANGED <<workPipe, queue, sent, taken>>
        /\ at' = [at EXCEPT !["main"] = "route"] /\ at["main"] = "select"
    BY <1>4 DEF RouterRead, Goto, history
  <2>2. hand["main"] = <<>> /\ Router'
    BY <1>1, <2>1 DEF IdleHands, Router, Tree, Places
  <2>3. /\ hand'["main"] = <<Head(dispatchPipe)>>
        /\ hand'["dispatch"] = hand["dispatch"]
        /\ hand'["worker"] = hand["worker"]
    BY <1>1, <2>1, HandsAfter
  <2>4. Near' = Near
    BY <2>1, <2>3 DEF Near
  <2>5. Cat(<<Head(dispatchPipe)>>, Tail(dispatchPipe))
          = Cat(<<>>, dispatchPipe)
    BY <1>3, <2>1, CatHead, CatProperties
  <2>6. Far' = Cat(Cat(<<Head(dispatchPipe)>>, Tail(dispatchPipe)),
                   hand["dispatch"])
    BY <2>1, <2>2, <2>3 DEF Far, Cat
  <2>7. Far' = Far
    BY <1>3, <2>2, <2>5, <2>6
  <2>8. Cat(Near, Far)' = Cat(Near, Far)
    BY <2>4, <2>7 DEF Cat
  <2>9. QED BY <1>3, <2>1, <2>8, WayStays
<1>5. CASE RouterWrite
  <2>1. at["main"] = "route"
    BY <1>5 DEF RouterWrite
  <2>2. CASE Open("workRead")
    <3>1. /\ workPipe' = workPipe \o hand["main"]
          /\ hand' = [hand EXCEPT !["main"] = <<>>]
          /\ at' = [at EXCEPT !["main"] = "select"]
          /\ UNCHANGED <<dispatchPipe, queue, sent, taken>>
      BY <1>5, <2>2 DEF RouterWrite, Write, Goto
    <3>2. Router'
      BY <3>1 DEF Router, Tree, Places, Procs
    <3>3. /\ hand'["main"] = <<>> /\ hand'["dispatch"] = hand["dispatch"]
          /\ hand'["worker"] = hand["worker"]
      BY <1>1, <3>1, HandsAfter
    <3>4. Near' = Cat(near, Cat(workPipe, hand["main"]))
      BY <3>1, <3>3 DEF Near, Cat
    <3>5. Far' = Cat(Cat(<<>>, dispatchPipe), hand["dispatch"])
      BY <3>1, <3>2, <3>3 DEF Far, Cat
    <3> HIDE DEF near
    <3>6. Cat(Near', Far') = Cat(Near, Far)
      BY <1>3, <3>4, <3>5, MoveAcross
    <3>7. Cat(Near, Far)' = Cat(Near, Far)
      BY <3>6 DEF Cat
    <3>8. QED BY <1>3, <3>1, <3>7, WayStays
  <2>3. CASE ~Open("workRead")
    <3>1. /\ hand' = [hand EXCEPT !["main"] = <<>>]
          /\ at' = [at EXCEPT !["main"] = "dead"]
          /\ UNCHANGED <<workPipe, queue, sent, taken>>
      BY <1>5, <2>3 DEF RouterWrite, Write, Goto, Die
    <3>2. ~Router'
      BY <3>1 DEF Router, Tree, Places, Procs
    <3>3. hand'["worker"] = hand["worker"]
      BY <1>1, <3>1, HandsAfter
    <3>4. Near' = Near /\ Far' = <<>>
      BY <3>1, <3>2, <3>3 DEF Near, Far
    <3>5. QED BY <3>1, <3>4, FarLost
  <2>4. QED BY <2>2, <2>3
<1>6. QED BY <1>4, <1>5

(* The worker, which may read a phantom only when nothing can follow it.   *)
LEMMA WorkerSteps ==
    ASSUME Fit, WayInOrder, WorkerRead \/ WorkerPush \/ WorkerPop
    PROVE  WayInOrder'
<1> USE DEF Fit
<1>1. "main" \in Procs /\ "dispatch" \in Procs /\ "worker" \in Procs
  BY DEF Procs
<1>2. /\ taken \in Seq(Records) /\ queue \in Seq(Records)
      /\ workPipe \in Seq(Records) /\ hand["worker"] \in Seq(Records)
      /\ <<>> \in Seq(Records) /\ sent \in Nat /\ sent \in 0..MaxCommands
      /\ Cat(taken, queue) \in Seq(Records)
      /\ Near = Cat(Cat(Cat(taken, queue), hand["worker"]), workPipe)
  BY <1>1, WayTypes, WayIsCat, CatProperties
<1>3. /\ UNCHANGED <<sent, dispatchPipe>>
      /\ \E s : hand' = [hand EXCEPT !["worker"] = s]
      /\ Router' = Router
  <2>1. CASE WorkerPop
    <3>1. hand = [hand EXCEPT !["worker"] = hand["worker"]]
      BY DEF Data, InHand
    <3>2. QED BY <2>1, <3>1 DEF WorkerPop, pipes, Router
  <2>2. CASE WorkerPush
    BY <2>2 DEF WorkerPush, pipes, history, Router, Goto, Tree, Places, Procs
  <2>3. CASE WorkerRead
    BY <2>3 DEF WorkerRead, history, Router, Goto, Tree, Places, Procs
  <2>4. QED BY <2>1, <2>2, <2>3
<1>4. hand'["main"] = hand["main"] /\ hand'["dispatch"] = hand["dispatch"]
  BY <1>1, <1>3, HandsAfter
<1>5. Far' = Far
  BY <1>3, <1>4 DEF Far
<1>6. ASSUME Near' = Near
      PROVE  WayInOrder'
  <2>1. Cat(Near, Far)' = Cat(Near, Far)
    BY <1>5, <1>6 DEF Cat
  <2>2. QED BY <1>2, <1>3, <2>1, WayStays
<1>7. CASE WorkerPop
  <2>1. /\ queue # <<>> /\ taken' = Append(taken, Head(queue))
        /\ queue' = Tail(queue) /\ UNCHANGED <<hand, workPipe>>
    BY <1>7 DEF WorkerPop, pipes
  <2>2. Cat(taken', queue') = Cat(taken, queue)
    BY <1>2, <2>1, MoveHead
  <2>3. Near' = Near
    BY <2>1, <2>2 DEF Near, Cat
  <2>4. QED BY <1>6, <2>3
<1>8. CASE WorkerPush
  <2>1. /\ queue' = Cat(queue, hand["worker"])
        /\ hand' = [hand EXCEPT !["worker"] = <<>>]
        /\ UNCHANGED <<taken, workPipe>>
    BY <1>8 DEF WorkerPush, pipes, history, Cat
  <2>2. hand'["worker"] = <<>>
    BY <1>1, <2>1, HandsAfter
  <2>3. Cat(Cat(taken', queue'), hand'["worker"])
          = Cat(Cat(taken, queue), hand["worker"])
    BY <1>2, <2>1, <2>2, MoveAll
  <2>4. Near' = Near
    BY <2>1, <2>3 DEF Near, Cat
  <2>5. QED BY <1>6, <2>4
<1>9. CASE WorkerRead
  <2>1. /\ at["worker"] = "read" /\ hand["worker"] = <<>> /\ queue = <<>>
        /\ \A i \in 1..Len(taken) : taken[i] # Phantom
        /\ UNCHANGED <<taken, queue>>
    BY <1>9 DEF WorkerRead, IdleHands, history
  <2>2. CASE workPipe # <<>>
    <3>1. /\ hand' = [hand EXCEPT !["worker"] = <<Head(workPipe)>>]
          /\ workPipe' = Tail(workPipe)
      BY <1>9, <2>2 DEF WorkerRead
    <3>2. hand'["worker"] = <<Head(workPipe)>>
      BY <1>1, <3>1, HandsAfter
    <3>3. Cat(Cat(taken, queue), hand["worker"]) = Cat(taken, queue)
      BY <1>2, <2>1, CatProperties
    <3>4. Cat(Cat(Cat(taken, queue), <<Head(workPipe)>>), Tail(workPipe))
            = Near
      BY <1>2, <2>2, <3>3, MoveHead
    <3>5. Near' = Near
      BY <2>1, <3>1, <3>2, <3>4 DEF Near, Cat
    <3>6. QED BY <1>6, <3>5
  <2>3. CASE workPipe = <<>>
    <3>1. /\ hand' = [hand EXCEPT !["worker"] = <<Phantom>>]
          /\ workPipe' = workPipe /\ ~Open("workWrite")
      BY <1>9, <2>3 DEF WorkerRead
    <3>2. hand'["worker"] = <<Phantom>>
      BY <1>1, <3>1, HandsAfter
    <3>3. ~Router
      BY <3>1 DEF Open, Router, Alive, Tree, KeptEnds, Procs
    <3>4. Far = <<>>
      BY <3>3 DEF Far
    <3>5. Near = taken
      BY <1>2, <2>1, <2>3, CatProperties
    <3>6. Good(taken, sent)
      BY <1>2, <3>4, <3>5, WayIsCat, CatProperties
    <3>7. /\ Phantom \in Records /\ Phantom <= sent
          /\ <<Phantom>> \in Seq(Records)
      BY <1>2 DEF Records, Phantom
    <3>8. Good(Cat(taken, <<Phantom>>), sent)
      BY <1>2, <2>1, <3>6, <3>7, OneMore DEF Cat
    <3>9. Near' = Cat(Cat(Cat(taken, <<>>), <<Phantom>>), <<>>)
      BY <2>1, <2>3, <3>1, <3>2 DEF Near, Cat
    <3>10. Cat(taken, <<Phantom>>) \in Seq(Records)
      BY <1>2, <3>7, CatProperties
    <3>11. Cat(Near', Far') = Cat(taken, <<Phantom>>)
      BY <1>2, <1>5, <3>4, <3>9, <3>10, CatProperties
    <3>12. (WayInOrder <=> Good(Cat(Near, Far), sent))'
      BY WayIsCat, PTL
    <3>13. Cat(Near, Far)' = Cat(Near', Far')
      BY DEF Cat
    <3>14. QED BY <1>3, <3>8, <3>11, <3>12, <3>13
  <2>4. QED BY <2>2, <2>3
<1>10. QED BY <1>7, <1>8, <1>9

(* The dispatch process dies with what it has in hand.                     *)
LEMMA HandLost ==
    ASSUME Data, WayInOrder, Router, Router', sent' = sent, Near' = Near,
           dispatchPipe' = dispatchPipe,
           hand' = [hand EXCEPT !["dispatch"] = <<>>]
    PROVE  WayInOrder'
<1>1. "main" \in Procs /\ "dispatch" \in Procs
  BY DEF Procs
<1>2. /\ Near \in Seq(Records)
      /\ hand["dispatch"] \in Seq(Records) /\ hand["main"] \in Seq(Records)
      /\ dispatchPipe \in Seq(Records)
  BY <1>1, WayTypes
<1> DEFINE far == Cat(hand["main"], dispatchPipe)
<1>3. far \in Seq(Records)
  BY <1>2, CatProperties
<1>4. hand'["dispatch"] = <<>> /\ hand'["main"] = hand["main"]
  BY <1>1, HandsAfter
<1>5. Far' = Cat(far, <<>>) /\ Far = Cat(far, hand["dispatch"])
  BY <1>4 DEF Far, Cat
<1> HIDE DEF far
<1>6. Far' = far
  BY <1>3, <1>5, CatProperties
<1>7. Cat(Near, Far) = Cat(Cat(Near, far), hand["dispatch"])
  <2>1. Cat(Near, Cat(far, hand["dispatch"]))
          = Cat(Cat(Near, far), hand["dispatch"])
    <3> DEFINE lost == hand["dispatch"]
    <3>1. lost \in Seq(Records)
      BY <1>2
    <3> HIDE DEF lost
    <3>2. Cat(Near, Cat(far, lost)) = Cat(Cat(Near, far), lost)
      BY <1>2, <1>3, <3>1, CatProperties
    <3>3. QED BY <3>2 DEF lost
  <2>2. Far = Cat(far, hand["dispatch"])
    BY <1>5
  <2>3. QED BY <2>1, <2>2
<1>8. Cat(Near, far) \in Seq(Records)
  BY <1>2, <1>3, CatProperties
<1>9. Good(Cat(Near, far), sent)
  BY <1>2, <1>7, <1>8, WayIsCat, FrontInOrder
<1>10. (WayInOrder <=> Good(Cat(Near, Far), sent))'
  BY WayIsCat, PTL
<1>11. Cat(Near, Far)' = Cat(Near, far)
  BY <1>6 DEF Cat
<1>12. QED BY <1>9, <1>10, <1>11

(* Nothing on the way to a worker that is not left alone is a phantom.     *)
LEMMA WayOfCommands ==
    ASSUME Fit, Router, NEW i \in 1..Len(Near)
    PROVE  Near[i] # Phantom
<1> USE DEF Fit
<1>1. Clean
  BY DEF Router, Orphan, Alive
<1>2. /\ taken \in Seq(Commands) /\ queue \in Seq(Commands)
      /\ hand["worker"] \in Seq(Commands) /\ workPipe \in Seq(Commands)
  BY <1>1 DEF Clean, Data, Elsewhere
<1>3. Cat(taken, queue) \in Seq(Commands)
  BY <1>2, CatProperties
<1>4. Cat(Cat(taken, queue), hand["worker"]) \in Seq(Commands)
  BY <1>2, <1>3, CatProperties
<1>5. Near \in Seq(Commands)
  BY <1>2, <1>4, CatProperties, WayIsCat
<1>6. Near \in Seq(Records)
  BY WayTypes
<1>7. QED BY <1>5, <1>6, CommandsHaveNoPhantom

(* The dispatch loop, which numbers what it receives.                      *)
LEMMA DispatchSteps ==
    ASSUME Fit, WayInOrder, NEW p \in {"main", "dispatch"},
           DispatchReceive(p) \/ DispatchWrite(p)
    PROVE  WayInOrder'
<1> USE DEF Fit
<1>1. "main" \in Procs /\ "dispatch" \in Procs /\ "worker" \in Procs
  BY DEF Procs
<1>2. /\ Near \in Seq(Records) /\ Far \in Seq(Records)
      /\ dispatchPipe \in Seq(Records) /\ <<>> \in Seq(Records)
      /\ hand["main"] \in Seq(Records) /\ hand["dispatch"] \in Seq(Records)
      /\ sent \in Nat /\ sent \in 0..MaxCommands
      /\ Cat(hand["main"], dispatchPipe) \in Seq(Records)
  <2>1. /\ Near \in Seq(Records) /\ Far \in Seq(Records)
        /\ dispatchPipe \in Seq(Records) /\ <<>> \in Seq(Records)
        /\ hand["main"] \in Seq(Records) /\ hand["dispatch"] \in Seq(Records)
        /\ sent \in Nat /\ sent \in 0..MaxCommands
    BY <1>1, WayTypes
  <2>2. QED BY <2>1, CatProperties
<1>3. /\ UNCHANGED <<taken, queue, workPipe>>
      /\ sent' \in Nat /\ sent' >= sent
      /\ \/ hand' = [hand EXCEPT ![p] = <<sent + 1>>]
         \/ hand' = [hand EXCEPT ![p] = <<>>]
      /\ \/ at' = [at EXCEPT ![p] = "forward"]
         \/ at' = [at EXCEPT ![p] = "receive"]
         \/ at' = [at EXCEPT ![p] = "dead"]
  <2>1. CASE DispatchReceive(p)
    <3>1. /\ UNCHANGED <<taken, queue, workPipe>>
          /\ hand' = [hand EXCEPT ![p] = <<sent + 1>>]
          /\ at' = [at EXCEPT ![p] = "forward"]
          /\ sent' = sent + 1
      BY <2>1 DEF DispatchReceive, pipes, Goto
    <3>2. QED BY <1>2, <3>1
  <2>2. CASE DispatchWrite(p)
    <3>1. /\ UNCHANGED <<taken, workPipe, sent>> /\ queue' = queue
          /\ hand' = [hand EXCEPT ![p] = <<>>]
      BY <2>2 DEF DispatchWrite, Write, Die
    <3>2. \/ at' = [at EXCEPT ![p] = "receive"]
          \/ at' = [at EXCEPT ![p] = "dead"]
      BY <2>2 DEF DispatchWrite, Write, Die, Goto
    <3>3. QED BY <1>2, <3>1, <3>2
  <2>3. QED BY <2>1, <2>2
<1>4. Near' = Near
  <2>1. hand'["worker"] = hand["worker"]
    BY <1>1, <1>3, HandsAfter
  <2>2. QED BY <1>3, <2>1 DEF Near
<1>5. ASSUME Far' = Far
      PROVE  WayInOrder'
  <2>1. Cat(Near, Far)' = Cat(Near, Far)
    BY <1>4, <1>5 DEF Cat
  <2>2. QED BY <1>3, <2>1, WayStays
<1>6. CASE ~Router
  <2>1. ~Router'
    <3>1. CASE p = "main"
      <4>1. at'["main"] \in {"receive", "forward", "dead"}
        BY <3>1 DEF DispatchReceive, DispatchWrite, Write, Die, Goto, Tree,
                    Places, Procs
      <4>2. QED BY <4>1 DEF Router
    <3>2. CASE p = "dispatch"
      BY <1>3, <1>6, <3>2 DEF Router, Tree, Places, Procs
    <3>3. QED BY <3>1, <3>2
  <2>2. Far = <<>> /\ Far' = <<>>
    BY <1>6, <2>1 DEF Far
  <2>3. QED BY <1>5, <2>2
<1>7. CASE Router
  <2>1. p = "dispatch" /\ Router'
    <3>1. p # "main"
      BY <1>7 DEF Router, DispatchReceive, DispatchWrite
    <3>2. QED BY <1>3, <1>7, <3>1 DEF Router, Tree, Places, Procs
  <2>2. hand'["main"] = hand["main"]
    BY <1>1, <1>3, <2>1, HandsAfter
  <2>3. /\ Far = Cat(Cat(hand["main"], dispatchPipe), hand["dispatch"])
        /\ Far' = Cat(Cat(hand["main"], dispatchPipe'), hand'["dispatch"])
    BY <1>7, <2>1, <2>2 DEF Far, Cat
  <2>4. CASE DispatchReceive(p)
    <3>1. /\ hand["dispatch"] = <<>> /\ dispatchPipe' = dispatchPipe
          /\ hand' = [hand EXCEPT !["dispatch"] = <<sent + 1>>]
          /\ sent' = sent + 1 /\ sent < MaxCommands
      BY <2>1, <2>4 DEF DispatchReceive, IdleHands, pipes
    <3>2. hand'["dispatch"] = <<sent + 1>>
      BY <1>1, <3>1, HandsAfter
    <3>3. sent + 1 \in Records /\ <<sent + 1>> \in Seq(Records)
      BY <1>2, <3>1, ConstantsAssumption DEF Records, Commands
    <3> DEFINE far == Cat(hand["main"], dispatchPipe)
               new == <<sent + 1>>
               way == Cat(Near, Far)
    <3>4. Far = far
      BY <1>2, <2>3, <3>1, CatProperties
    <3>5. Cat(Near', Far') = Cat(way, new)
      <4>1. Far' = Cat(far, new)
        BY <2>3, <3>1, <3>2
      <4>2. far \in Seq(Records)
        BY <1>2
      <4> HIDE DEF far, new
      <4>3. new \in Seq(Records)
        BY <3>3 DEF new
      <4>4. Cat(Near, Cat(far, new)) = Cat(Cat(Near, far), new)
        BY <1>2, <4>2, <4>3, CatProperties
      <4>5. QED BY <1>4, <3>4, <4>1, <4>4
    <3>6. way \in Seq(Records) /\ Good(way, sent)
      BY <1>2, CatProperties, WayIsCat
    <3>7. \A i \in 1..Len(way) : way[i] # Phantom
      <4>1. Far \in Seq(Commands)
        <5>1. hand["main"] \in Seq(Commands) /\ dispatchPipe \in Seq(Commands)
          BY DEF Data, InHand, Elsewhere, Hands, Procs
        <5>2. QED BY <3>4, <5>1, CatProperties
      <4>2. Near \in Seq(Commands)
        BY <1>2, <1>7, WayOfCommands, CommandsHaveNoPhantom
      <4>3. way \in Seq(Commands)
        BY <4>1, <4>2, CatProperties
      <4> HIDE DEF way
      <4>4. QED BY <3>6, <4>3, CommandsHaveNoPhantom
    <3> HIDE DEF way
    <3>8. Good(Cat(way, new), sent')
      <4>1. sent + 1 \in Nat /\ sent <= sent + 1 /\ sent + 1 <= sent + 1
        BY <1>2
      <4>2. QED BY <1>2, <3>1, <3>3, <3>6, <3>7, <4>1, OneMore DEF Cat
    <3>9. (WayInOrder <=> Good(Cat(Near, Far), sent))'
      BY WayIsCat, PTL
    <3>10. Cat(Near, Far)' = Cat(Near', Far')
      BY DEF Cat
    <3>11. QED BY <3>5, <3>8, <3>9, <3>10
  <2>5. CASE DispatchWrite(p)
    <3>1. CASE Open("dispatchRead")
      <4>1. /\ dispatchPipe' = Cat(dispatchPipe, hand["dispatch"])
            /\ hand' = [hand EXCEPT !["dispatch"] = <<>>]
        BY <2>1, <2>5, <3>1 DEF DispatchWrite, Write, Cat
      <4>2. hand'["dispatch"] = <<>>
        BY <1>1, <4>1, HandsAfter
      <4>3. Far' = Far
        BY <1>2, <2>3, <4>1, <4>2, MoveAll
      <4>4. QED BY <1>5, <4>3
    <3>2. CASE ~Open("dispatchRead")
      <4>1. /\ dispatchPipe' = dispatchPipe /\ sent' = sent
            /\ hand' = [hand EXCEPT !["dispatch"] = <<>>]
        BY <2>1, <2>5, <3>2 DEF DispatchWrite, Write, Die
      <4>2. QED BY <1>4, <1>7, <2>1, <4>1, HandLost
    <3>3. QED BY <3>1, <3>2
  <2>6. QED BY <2>4, <2>5
<1>8. QED BY <1>6, <1>7

(* Forks, and the closing of inherited ends.                               *)
Quiet ==
    \/ ForkReport \/ ForkDaemon \/ CloseWorkRead \/ ForkDispatch
    \/ CloseDispatchWrite \/ Daemon \/ WorkerStart
    \/ \E p \in {"main", "dispatch"} : DispatchStart(p)

(* They move no record; the fork of the dispatch process makes main the    *)
(* router of a path that is empty so far.                                  *)
LEMMA QuietSteps ==
    ASSUME Fit, WayInOrder, Quiet
    PROVE  WayInOrder'
<1> USE DEF Fit
<1>1. "main" \in Procs /\ "dispatch" \in Procs /\ "worker" \in Procs
  BY DEF Procs
<1>2. UNCHANGED <<hand, pipes, queue, history>>
  BY DEF Quiet, ForkReport, ForkDaemon, CloseWorkRead, ForkDispatch,
         CloseDispatchWrite, Daemon, DaemonForks, DaemonReaps, WorkerStart,
         DispatchStart
<1>3. Near' = Near /\ sent' = sent /\ sent \in Nat
  BY <1>2, WayTypes DEF Near, pipes, history
<1>4. ASSUME Far' = Far
      PROVE  WayInOrder'
  <2>1. Cat(Near, Far)' = Cat(Near, Far)
    BY <1>3, <1>4 DEF Cat
  <2>2. QED BY <1>3, <2>1, WayStays
<1>5. CASE Router' = Router
  BY <1>2, <1>4, <1>5 DEF Far, pipes
<1>6. CASE Router' # Router
  <2>1. at["main"] = "forkDispatch"
    BY <1>6 DEF Quiet, ForkReport, ForkDaemon, CloseWorkRead, ForkDispatch,
         CloseDispatchWrite, Daemon, DaemonForks, DaemonReaps, WorkerStart,
         DispatchStart, Fork, Goto, Tree, Places, StartOrder, Router, Procs
  <2>2. hand["main"] = <<>> /\ dispatchPipe = <<>>
    BY <2>1 DEF IdleHands, NothingYet
  <2>3. hand["dispatch"] = <<>>
    BY <1>1, <2>1 DEF Tree, StartOrder, Data, InHand, Alive
  <2>4. Cat(<<>>, <<>>) = <<>>
    BY WayTypes, CatProperties
  <2>5. Far' = <<>>
    BY <1>2, <2>2, <2>3, <2>4 DEF Far, Cat, pipes
  <2>6. QED BY <1>3, <2>5, FarLost
<1>7. QED BY <1>5, <1>6

(* A death takes away what the process holds.                              *)
LEMMA KillSteps ==
    ASSUME Fit, WayInOrder, NEW p \in Procs, Kill(p)
    PROVE  WayInOrder'
<1> USE DEF Fit
<1>1. "main" \in Procs /\ "dispatch" \in Procs /\ "worker" \in Procs
  BY DEF Procs
<1>2. /\ UNCHANGED <<dispatchPipe, workPipe, sent, taken>>
      /\ hand' = [hand EXCEPT ![p] = <<>>]
      /\ at' = [at EXCEPT ![p] = "dead"]
      /\ queue' = IF p = "worker" THEN <<>> ELSE queue
      /\ sent \in Nat
  BY WayTypes DEF Kill, Die, Goto, pipes
<1>3. hand'[p] = <<>> /\ \A q \in Procs \ {p} : hand'[q] = hand[q]
  BY <1>2, HandsAfter
<1>4. p # "main" => Router' = Router
  BY <1>1, <1>2 DEF Router, Tree, Places
<1>5. CASE p = "main"
  <2>1. Near' = Near
    BY <1>1, <1>2, <1>3, <1>5 DEF Near
  <2>2. ~Router'
    BY <1>1, <1>2, <1>5 DEF Router, Tree, Places
  <2>3. Far' = <<>>
    BY <2>2 DEF Far
  <2>4. QED BY <1>2, <2>1, <2>3, FarLost
<1>6. CASE p = "dispatch"
  <2>1. Near' = Near
    BY <1>1, <1>2, <1>3, <1>6 DEF Near
  <2>2. CASE Router
    BY <1>2, <1>4, <1>6, <2>1, <2>2, HandLost
  <2>3. CASE ~Router
    <3>1. Far' = Far
      BY <1>4, <1>6, <2>3 DEF Far
    <3>2. Cat(Near, Far)' = Cat(Near, Far)
      BY <2>1, <3>1 DEF Cat
    <3>3. QED BY <1>2, <3>2, WayStays
  <2>4. QED BY <2>2, <2>3
<1>7. CASE p \in {"report", "daemon"}
  <2>1. Near' = Near /\ Far' = Far
    <3>1. p \notin {"main", "dispatch", "worker"}
      BY <1>7
    <3>2. /\ hand'["main"] = hand["main"] /\ queue' = queue
          /\ hand'["dispatch"] = hand["dispatch"]
          /\ hand'["worker"] = hand["worker"]
      BY <1>1, <1>2, <1>3, <3>1
    <3>3. Near' = Near
      BY <1>2, <3>2 DEF Near
    <3>4. Far' = Far
      BY <1>2, <1>4, <3>1, <3>2 DEF Far
    <3>5. QED BY <3>3, <3>4
  <2>2. Cat(Near, Far)' = Cat(Near, Far)
    BY <2>1 DEF Cat
  <2>3. QED BY <1>2, <2>2, WayStays
<1>8. CASE p = "worker"
  <2> DEFINE held == Cat(queue, hand["worker"])
             rest == Cat(workPipe, Far)
  <2>1. /\ taken \in Seq(Records) /\ queue \in Seq(Records)
        /\ hand["worker"] \in Seq(Records) /\ workPipe \in Seq(Records)
        /\ Far \in Seq(Records) /\ <<>> \in Seq(Records)
    BY <1>1, WayTypes
  <2>2. held \in Seq(Records) /\ rest \in Seq(Records)
    BY <2>1, CatProperties
  <2>3. Cat(Near, Far) = Cat(Cat(taken, held), rest)
    BY <2>1, WayIsCat, AroundWorker
  <2>4. Near' = Cat(Cat(Cat(taken, <<>>), <<>>), workPipe)
    BY <1>1, <1>2, <1>3, <1>8 DEF Near, Cat
  <2>5. Far' = Far
    BY <1>1, <1>2, <1>3, <1>4, <1>8 DEF Far
  <2>6. Cat(Near', Far') = Cat(taken, rest)
    BY <2>1, <2>4, <2>5, AroundWorker
  <2> HIDE DEF held, rest
  <2>7. Good(Cat(Cat(taken, held), rest), sent)
    BY <2>3, WayIsCat
  <2>8. Good(Cat(taken, rest), sent)
    BY <2>1, <2>2, <2>7, MiddleLost DEF Cat
  <2>9. (WayInOrder <=> Good(Cat(Near, Far), sent))'
    BY WayIsCat, PTL
  <2>10. Cat(Near, Far)' = Cat(Near', Far')
    BY DEF Cat
  <2>11. QED BY <1>2, <2>6, <2>8, <2>9, <2>10
<1>9. QED BY <1>5, <1>6, <1>7, <1>8 DEF Procs

(* Every step keeps the way in order.                                      *)
LEMMA WayStep ==
    ASSUME Fit, WayInOrder, [Next]_vars
    PROVE  WayInOrder'
<1>1. CASE Quiet
  BY <1>1, QuietSteps
<1>2. CASE RouterRead \/ RouterWrite
  BY <1>2, RouterSteps
<1>3. CASE WorkerRead \/ WorkerPush \/ WorkerPop
  BY <1>3, WorkerSteps
<1>4. ASSUME NEW p \in {"main", "dispatch"},
             DispatchReceive(p) \/ DispatchWrite(p)
      PROVE  WayInOrder'
  BY <1>4, DispatchSteps
<1>5. ASSUME NEW p \in Procs, Kill(p)
      PROVE  WayInOrder'
  BY <1>5, KillSteps
<1>6. CASE UNCHANGED vars
  <2>1. Near' = Near /\ Far' = Far /\ sent' = sent
    BY <1>6 DEF vars, pipes, history, Near, Far, Router
  <2>2. Cat(Near, Far)' = Cat(Near, Far)
    BY <2>1 DEF Cat
  <2>3. QED BY <2>1, <2>2, WayStays, WayTypes DEF Fit
<1>7. QED
  BY <1>1, <1>2, <1>3, <1>4, <1>5, <1>6
     DEF Next, Main, Worker, Dispatcher, Quiet

-----------------------------------------------------------------------------
(* Nothing is received before main routes or has taken the dispatch        *)
(* process's place.                                                        *)
LEMMA NothingYetStep ==
    ASSUME Tree, NothingYet, [Next]_vars
    PROVE  NothingYet'
<1> USE DEF Tree, Places, StartOrder, NothingYet, Goto, Procs
<1>1. CASE Main
  BY <1>1 DEF Main, ForkReport, ForkDaemon, CloseWorkRead, ForkDispatch,
              CloseDispatchWrite, RouterRead, RouterWrite, Fork, Write, Die,
              pipes, history
<1>2. CASE Daemon
  BY <1>2 DEF Daemon, DaemonForks, DaemonReaps, Fork, pipes, history
<1>3. CASE Worker
  BY <1>3 DEF Worker, WorkerStart, WorkerRead, WorkerPush, WorkerPop, pipes,
              history
<1>4. ASSUME NEW p \in {"main", "dispatch"}, Dispatcher(p)
      PROVE  NothingYet'
  BY <1>4 DEF Dispatcher, DispatchStart, DispatchReceive, DispatchWrite,
              Write, Die, pipes, history
<1>5. ASSUME NEW p \in Procs, Kill(p)
      PROVE  NothingYet'
  BY <1>5 DEF Kill, Die, pipes
<1>6. CASE UNCHANGED vars
  BY <1>6 DEF vars, pipes, history
<1>7. QED BY <1>1, <1>2, <1>3, <1>4, <1>5, <1>6 DEF Next

(* A hand holds a record only between reading and passing on, and a worker *)
(* gets one record in its life.                                            *)
LEMMA IdleHandsStep ==
    ASSUME Tree, Data, Clean \/ Orphan, IdleHands, [Next]_vars
    PROVE  IdleHands'
<1> USE DEF Tree, Places, Goto
<1>1. /\ "main" \in Procs /\ "dispatch" \in Procs /\ "worker" \in Procs
      /\ "daemon" \in Procs /\ "report" \in Procs
  BY DEF Procs
<1>2. \A p \in Procs : ~Alive(p) => hand[p] = <<>>
  BY DEF Data, InHand
<1>3. CASE Quiet /\ ~DaemonForks
  <2>1. UNCHANGED <<hand, pipes, queue, history>>
    BY <1>3 DEF Quiet, ForkReport, ForkDaemon, CloseWorkRead, ForkDispatch,
         CloseDispatchWrite, Daemon, DaemonReaps, WorkerStart, DispatchStart
  <2>2. /\ at'["main"] = at["main"] \/ at["main"] \notin {"route", "forward"}
        /\ at'["dispatch"] = at["dispatch"] \/ at["dispatch"] # "forward"
        /\ \/ at'["worker"] = at["worker"]
           \/ at["worker"] = "closeWorkWrite" /\ at'["worker"] = "read"
    BY <1>1, <1>3
       DEF Quiet, ForkReport, ForkDaemon, CloseWorkRead, ForkDispatch, Fork,
         CloseDispatchWrite, Daemon, DaemonReaps, WorkerStart, DispatchStart,
         StartOrder
  <2>3. QED BY <2>1, <2>2 DEF IdleHands, history
<1>4. CASE DaemonForks
  <2>1. /\ UNCHANGED <<hand, queue, taken>>
        /\ at'["main"] = at["main"] /\ at'["dispatch"] = at["dispatch"]
        /\ at["daemon"] = "fork"
    BY <1>1, <1>4 DEF DaemonForks, Fork, history
  <2>2. \A i \in 1..Len(taken) : taken[i] # Phantom
    <3>1. taken \in Seq(Commands) /\ taken \in Seq(Records)
      BY <2>1 DEF Orphan, Alive, Clean, Data, Elsewhere
    <3>2. QED BY <3>1, CommandsHaveNoPhantom
  <2>3. at["worker"] \notin {"push", "done"}
    BY <1>4 DEF DaemonForks, StartOrder
  <2>4. QED BY <2>1, <2>2, <2>3 DEF IdleHands
<1>5. CASE RouterRead \/ RouterWrite
  <2>1. /\ at["main"] \in {"select", "route"}
        /\ hand' = [hand EXCEPT !["main"] = hand'["main"]]
        /\ at' = [at EXCEPT !["main"] = at'["main"]]
        /\ hand'["main"] # <<>> => at'["main"] = "route"
        /\ queue' = queue /\ taken' = taken
    BY <1>1, <1>5
       DEF RouterRead, RouterWrite, Write, Die, history, Data, InHand
  <2>2. QED BY <1>1, <2>1 DEF IdleHands, Data, InHand
<1>6. CASE WorkerRead
  <2>1. /\ at["worker"] = "read" /\ UNCHANGED <<queue, taken>>
        /\ \A q \in Procs \ {"worker"} : hand'[q] = hand[q] /\ at'[q] = at[q]
        /\ at'["worker"] = "push"
    BY <1>1, <1>6 DEF WorkerRead, history, Data, InHand
  <2>2. QED BY <1>1, <2>1 DEF IdleHands
<1>7. CASE WorkerPush
  <2>1. /\ at["worker"] = "push" /\ queue' = queue \o hand["worker"]
        /\ taken' = taken /\ at'["worker"] = "done"
        /\ \A q \in Procs \ {"worker"} : hand'[q] = hand[q] /\ at'[q] = at[q]
        /\ hand'["worker"] = <<>>
    BY <1>1, <1>7 DEF WorkerPush, history, Data, InHand
  <2>2. Len(queue') <= 1
    <3>1. queue = <<>> /\ hand["worker"] \in Seq(Records)
            /\ Len(hand["worker"]) <= 1
      BY <1>1, <2>1 DEF IdleHands, Data, InHand, Hands
    <3>2. QED BY <2>1, <3>1
  <2>3. QED BY <1>1, <2>1, <2>2 DEF IdleHands
<1>8. CASE WorkerPop
  <2>1. /\ queue # <<>> /\ queue' = Tail(queue) /\ UNCHANGED <<at, hand>>
    BY <1>8 DEF WorkerPop
  <2>2. at["worker"] = "done" /\ Len(queue) <= 1
    BY <2>1 DEF IdleHands
  <2>3. Len(queue') <= 1
    BY <2>1, <2>2, HeadTailProperties DEF Data, Elsewhere
  <2>4. QED BY <2>1, <2>2, <2>3 DEF IdleHands
<1>9. ASSUME NEW p \in {"main", "dispatch"},
             DispatchReceive(p) \/ DispatchWrite(p)
      PROVE  IdleHands'
  <2>1. /\ at[p] \in {"receive", "forward"}
        /\ \A q \in Procs \ {p} : hand'[q] = hand[q] /\ at'[q] = at[q]
        /\ hand'[p] # <<>> => at'[p] = "forward"
        /\ queue' = queue /\ taken' = taken
    BY <1>1, <1>9
       DEF DispatchReceive, DispatchWrite, Write, Die, history, Data, InHand
  <2>2. QED BY <1>1, <2>1 DEF IdleHands
<1>10. ASSUME NEW p \in Procs, Kill(p)
       PROVE  IdleHands'
  <2>1. /\ \A q \in Procs \ {p} : hand'[q] = hand[q] /\ at'[q] = at[q]
        /\ hand'[p] = <<>> /\ at'[p] = "dead" /\ taken' = taken
        /\ queue' = IF p = "worker" THEN <<>> ELSE queue
    BY <1>1, <1>10 DEF Kill, Die, Data, InHand
  <2>2. QED BY <1>1, <2>1 DEF IdleHands
<1>11. CASE UNCHANGED vars
  BY <1>11 DEF vars, IdleHands, history
<1>12. QED
  BY <1>3, <1>4, <1>5, <1>6, <1>7, <1>8, <1>9, <1>10, <1>11
     DEF Next, Main, Worker, Dispatcher, Quiet

-----------------------------------------------------------------------------
(* The commands that are popped or on their way, and the deaths.  Size is  *)
(* Len, under a name the provers do not look behind.                       *)
Size(s) == Len(s)

Account ==
    kills + Size(taken) + Size(queue) + Size(hand["worker"]) + Size(workPipe)
        + Size(hand["main"]) + Size(dispatchPipe) + Size(hand["dispatch"])

(* All of these are natural numbers, and a hand holds one record at most.  *)
LEMMA AccountTypes ==
    ASSUME Data
    PROVE  /\ kills \in Nat /\ sent \in Nat
           /\ Size(taken) \in Nat /\ Size(queue) \in Nat
           /\ Size(workPipe) \in Nat /\ Size(dispatchPipe) \in Nat
           /\ \A p \in Procs : Size(hand[p]) \in 0..1
           /\ Account \in Nat
<1>1. /\ kills \in Nat /\ sent \in Nat
      /\ Size(taken) \in Nat /\ Size(queue) \in Nat
      /\ Size(workPipe) \in Nat /\ Size(dispatchPipe) \in Nat
  BY ConstantsAssumption DEF Data, Elsewhere, Size
<1>2. \A p \in Procs : Size(hand[p]) \in 0..1
  <2> SUFFICES ASSUME NEW p \in Procs
               PROVE  Size(hand[p]) \in 0..1
    OBVIOUS
  <2>1. hand[p] \in Seq(Records) /\ Size(hand[p]) <= 1
    BY DEF Data, InHand, Hands, Size
  <2>2. Size(hand[p]) \in Nat
    BY <2>1, LenProperties DEF Size
  <2>3. QED BY <2>1, <2>2
<1>3. Account \in Nat
  <2>1. /\ Size(hand["main"]) \in Nat /\ Size(hand["dispatch"]) \in Nat
        /\ Size(hand["worker"]) \in Nat
    BY <1>2 DEF Procs
  <2>2. QED BY <1>1, <2>1 DEF Account
<1>4. QED BY <1>1, <1>2, <1>3

(* Readers of the work pipe are not made but by the first fork.            *)
LEMMA NoNewReader ==
    ASSUME Tree, [Next]_vars, Alive("main")', Open("workRead")', ~ForkDaemon
    PROVE  Alive("main") /\ Open("workRead")
<1>1. Alive("main")
  BY DeathIsFinal DEF Alive, Tree, Places
<1>2. PICK p \in Procs : "workRead" \in fds'[p]
  BY DEF Open
<1>3. \E q \in Procs : "workRead" \in fds[q]
  <2> USE DEF Tree, Places, Procs
  <2>1. CASE ForkReport \/ CloseWorkRead \/ ForkDispatch
               \/ CloseDispatchWrite \/ Daemon \/ WorkerStart
    BY <1>2, <2>1 DEF ForkReport, CloseWorkRead, ForkDispatch,
       CloseDispatchWrite, Daemon, DaemonForks, DaemonReaps, WorkerStart, Fork
  <2>2. CASE RouterRead \/ RouterWrite
    BY <1>2, <2>2 DEF RouterRead, RouterWrite, Write, Die
  <2>3. CASE WorkerRead \/ WorkerPush \/ WorkerPop
    BY <1>2, <2>3 DEF WorkerRead, WorkerPush, WorkerPop
  <2>4. ASSUME NEW r \in {"main", "dispatch"}, Dispatcher(r)
        PROVE  \E q \in Procs : "workRead" \in fds[q]
    BY <1>2, <2>4 DEF Dispatcher, DispatchStart, DispatchReceive,
       DispatchWrite, Write, Die
  <2>5. ASSUME NEW r \in Procs, Kill(r)
        PROVE  \E q \in Procs : "workRead" \in fds[q]
    BY <1>2, <2>5 DEF Kill, Die
  <2>6. CASE UNCHANGED vars
    BY <1>2, <2>6 DEF vars
  <2>7. QED BY <2>1, <2>2, <2>3, <2>4, <2>5, <2>6 DEF Next, Main, Worker
<1>4. QED BY <1>1, <1>3 DEF Open

(* What the moves of records do to lengths.                                *)
LEMMA LengthOfMoves ==
    ASSUME NEW s \in Seq(Records), NEW t \in Seq(Records)
    PROVE  /\ Size(s \o t) = Size(s) + Size(t)
           /\ s # <<>> => /\ Size(s) \in Nat \ {0}
                          /\ Size(Tail(s)) = Size(s) - 1
                          /\ Size(Append(t, Head(s))) = Size(t) + 1
           /\ \A r : Size(<<r>>) = 1
           /\ Size(<<>>) = 0
BY HeadTailProperties, EmptySeq DEF Size

(* What a death empties has no length.                                     *)
LEMMA LengthOfNone == Size(<<>>) = 0
BY DEF Size

(* No step loses a command, unless it is a death, which loses one at most, *)
(* or main or the last reader of the work pipe goes.                       *)
LEMMA AccountStep ==
    ASSUME Fit, Data', [Next]_vars, Alive("main")', Open("workRead"),
           ~ForkDaemon
    PROVE  sent' + Account <= sent + Account'
<1>1. /\ "main" \in Procs /\ "dispatch" \in Procs /\ "worker" \in Procs
      /\ Tree /\ Data /\ IdleHands
  BY DEF Procs, Fit
<1>2. /\ kills \in Nat /\ sent \in Nat
      /\ Size(taken) \in Nat /\ Size(queue) \in Nat
      /\ Size(workPipe) \in Nat /\ Size(dispatchPipe) \in Nat
      /\ Size(hand["main"]) \in 0..1 /\ Size(hand["dispatch"]) \in 0..1
      /\ Size(hand["worker"]) \in 0..1
  BY <1>1, AccountTypes
<1>3. /\ taken \in Seq(Records) /\ queue \in Seq(Records)
      /\ workPipe \in Seq(Records) /\ dispatchPipe \in Seq(Records)
      /\ hand["main"] \in Seq(Records) /\ hand["dispatch"] \in Seq(Records)
      /\ hand["worker"] \in Seq(Records)
  BY <1>1, WayTypes
<1>4. CASE Quiet \/ UNCHANGED vars
  <2>1. UNCHANGED <<hand, dispatchPipe, workPipe, queue, sent, taken, kills>>
    BY <1>4 DEF Quiet, ForkReport, ForkDaemon, CloseWorkRead, ForkDispatch,
         CloseDispatchWrite, Daemon, DaemonForks, DaemonReaps, WorkerStart,
         DispatchStart, vars, pipes, history
  <2>2. Account' = Account
    BY <2>1 DEF Account
  <2>3. QED BY <1>1, <2>1, <2>2, AccountTypes
<1>5. CASE RouterRead
  <2>1. /\ dispatchPipe # <<>> /\ dispatchPipe' = Tail(dispatchPipe)
        /\ hand' = [hand EXCEPT !["main"] = <<Head(dispatchPipe)>>]
        /\ UNCHANGED <<workPipe, queue, sent, taken, kills>>
        /\ hand["main"] = <<>>
    BY <1>1, <1>5 DEF RouterRead, history, IdleHands
  <2>2. /\ hand'["main"] = <<Head(dispatchPipe)>>
        /\ hand'["dispatch"] = hand["dispatch"]
        /\ hand'["worker"] = hand["worker"]
    BY <1>1, <2>1, HandsAfter
  <2>3. Size(hand'["main"]) = 1 /\ Size(dispatchPipe') = Size(dispatchPipe) - 1
          /\ Size(hand["main"]) = 0
    BY <1>3, <2>1, <2>2, LengthOfMoves
  <2>4. /\ Size(hand'["dispatch"]) = Size(hand["dispatch"])
        /\ Size(hand'["worker"]) = Size(hand["worker"])
        /\ UNCHANGED <<workPipe, queue, sent, taken, kills>>
    BY <2>1, <2>2 DEF Size
  <2>5. QED BY <1>2, <2>3, <2>4 DEF Account
<1>6. CASE RouterWrite
  <2>1. /\ workPipe' = workPipe \o hand["main"]
        /\ hand' = [hand EXCEPT !["main"] = <<>>]
        /\ UNCHANGED <<dispatchPipe, queue, sent, taken, kills>>
    BY <1>6 DEF RouterWrite, Write
  <2>2. /\ hand'["main"] = <<>> /\ hand'["dispatch"] = hand["dispatch"]
        /\ hand'["worker"] = hand["worker"]
    BY <1>1, <2>1, HandsAfter
  <2>3. /\ Size(workPipe') = Size(workPipe) + Size(hand["main"])
        /\ Size(hand'["main"]) = 0
    BY <1>3, <2>1, <2>2, LengthOfMoves
  <2>4. /\ Size(hand'["dispatch"]) = Size(hand["dispatch"])
        /\ Size(hand'["worker"]) = Size(hand["worker"])
        /\ UNCHANGED <<dispatchPipe, queue, sent, taken, kills>>
    BY <2>1, <2>2 DEF Size
  <2>5. QED BY <1>2, <2>3, <2>4 DEF Account
<1>7. CASE WorkerRead
  <2>1. /\ UNCHANGED <<dispatchPipe, queue, sent, taken, kills>>
        /\ hand["worker"] = <<>>
    BY <1>1, <1>7 DEF WorkerRead, history, IdleHands
  <2>2. PICK r : /\ hand' = [hand EXCEPT !["worker"] = <<r>>]
                 /\ \/ workPipe' = workPipe
                    \/ workPipe # <<>> /\ workPipe' = Tail(workPipe)
    BY <1>7 DEF WorkerRead
  <2>3. /\ hand'["worker"] = <<r>> /\ hand'["main"] = hand["main"]
        /\ hand'["dispatch"] = hand["dispatch"]
    BY <1>1, <2>2, HandsAfter
  <2>4. Size(hand'["worker"]) = 1 /\ Size(hand["worker"]) = 0
    BY <1>3, <2>1, <2>3, LengthOfMoves
  <2>5. \/ Size(workPipe') = Size(workPipe)
        \/ Size(workPipe') = Size(workPipe) - 1
    BY <1>3, <2>2, LengthOfMoves
  <2>6. QED BY <1>2, <2>1, <2>3, <2>4, <2>5 DEF Account
<1>8. CASE WorkerPush
  <2>1. /\ queue' = queue \o hand["worker"]
        /\ hand' = [hand EXCEPT !["worker"] = <<>>]
        /\ UNCHANGED <<dispatchPipe, workPipe, sent, taken, kills>>
    BY <1>8 DEF WorkerPush, pipes, history
  <2>2. /\ hand'["worker"] = <<>> /\ hand'["main"] = hand["main"]
        /\ hand'["dispatch"] = hand["dispatch"]
    BY <1>1, <2>1, HandsAfter
  <2>3. /\ Size(queue') = Size(queue) + Size(hand["worker"])
        /\ Size(hand'["worker"]) = 0
    BY <1>3, <2>1, <2>2, LengthOfMoves
  <2>4. /\ Size(hand'["main"]) = Size(hand["main"])
        /\ Size(hand'["dispatch"]) = Size(hand["dispatch"])
        /\ UNCHANGED <<dispatchPipe, workPipe, sent, taken, kills>>
    BY <2>1, <2>2 DEF Size
  <2>5. QED BY <1>2, <2>3, <2>4 DEF Account
<1>9. CASE WorkerPop
  <2>1. /\ queue # <<>> /\ taken' = Append(taken, Head(queue))
        /\ queue' = Tail(queue)
    BY <1>9 DEF WorkerPop
  <2>2. UNCHANGED <<hand, dispatchPipe, workPipe, sent, kills>>
    BY <1>9 DEF WorkerPop, pipes
  <2>3. /\ Size(taken') = Size(taken) + 1 /\ Size(queue') = Size(queue) - 1
    BY <1>3, <2>1, LengthOfMoves
  <2>4. QED BY <1>2, <2>2, <2>3 DEF Account
<1>10. ASSUME NEW p \in {"main", "dispatch"}, DispatchReceive(p)
       PROVE  sent' + Account <= sent + Account'
  <2>1. /\ sent' = sent + 1 /\ hand' = [hand EXCEPT ![p] = <<sent + 1>>]
        /\ UNCHANGED <<dispatchPipe, workPipe, queue, taken, kills>>
        /\ hand[p] = <<>>
    BY <1>1, <1>10 DEF DispatchReceive, pipes, IdleHands
  <2>2. /\ hand'[p] = <<sent + 1>>
        /\ \A q \in {"main", "dispatch", "worker"} \ {p} : hand'[q] = hand[q]
    <3>1. p \in Procs /\ {"main", "dispatch", "worker"} \subseteq Procs
      BY DEF Procs
    <3>2. /\ hand'[p] = <<sent + 1>>
          /\ \A q \in Procs \ {p} : hand'[q] = hand[q]
      BY <1>1, <2>1, <3>1, HandsAfter
    <3>3. QED BY <3>1, <3>2
  <2>3. Size(hand'[p]) = 1 /\ Size(hand[p]) = 0
    BY <1>3, <2>1, <2>2, LengthOfMoves
  <2>4. /\ UNCHANGED <<dispatchPipe, workPipe, queue, taken, kills>>
        /\ sent' = sent + 1
        /\ \A q \in {"main", "dispatch", "worker"} \ {p} :
               Size(hand'[q]) = Size(hand[q])
    BY <2>1, <2>2
  <2>5. CASE p = "main"
    BY <1>2, <2>3, <2>4, <2>5 DEF Account
  <2>6. CASE p = "dispatch"
    BY <1>2, <2>3, <2>4, <2>6 DEF Account
  <2>7. QED BY <2>5, <2>6
<1>11. ASSUME NEW p \in {"main", "dispatch"}, DispatchWrite(p)
       PROVE  sent' + Account <= sent + Account'
  <2>1. Open("dispatchRead")
    <3>1. SUFFICES ASSUME ~Open("dispatchRead")
                   PROVE  FALSE
      OBVIOUS
    <3>2. at[p] = "forward" /\ at' = [at EXCEPT ![p] = "dead"]
      BY <1>11, <3>1 DEF DispatchWrite, Write, Die, Goto
    <3>3. CASE p = "main"
      BY <1>1, <3>2, <3>3 DEF Alive, Tree, Places
    <3>4. CASE p = "dispatch"
      <4>1. at["main"] = "dead"
        BY <1>1, <3>1, <3>2, <3>4
           DEF Open, Tree, KeptEnds, StartOrder, Procs
      <4>2. QED BY <1>1, <4>1, DeathIsFinal DEF Alive
    <3>5. QED BY <3>3, <3>4
  <2>2. /\ dispatchPipe' = dispatchPipe \o hand[p]
        /\ hand' = [hand EXCEPT ![p] = <<>>]
        /\ UNCHANGED <<workPipe, queue, sent, taken, kills>>
    BY <1>11, <2>1 DEF DispatchWrite, Write
  <2>3. /\ hand'[p] = <<>>
        /\ \A q \in {"main", "dispatch", "worker"} \ {p} : hand'[q] = hand[q]
    BY <1>1, <2>2, HandsAfter
  <2>4. /\ Size(dispatchPipe') = Size(dispatchPipe) + Size(hand[p])
        /\ Size(hand'[p]) = 0
    BY <1>3, <2>2, <2>3, LengthOfMoves
  <2>5. /\ UNCHANGED <<workPipe, queue, sent, taken, kills>>
        /\ \A q \in {"main", "dispatch", "worker"} \ {p} :
               Size(hand'[q]) = Size(hand[q])
    BY <2>2, <2>3
  <2>6. CASE p = "main"
    BY <1>2, <2>4, <2>5, <2>6 DEF Account
  <2>7. CASE p = "dispatch"
    BY <1>2, <2>4, <2>5, <2>7 DEF Account
  <2>8. QED BY <2>6, <2>7
<1>12. ASSUME NEW p \in Procs, Kill(p)
       PROVE  sent' + Account <= sent + Account'
  <2>1. /\ kills' = kills + 1 /\ hand' = [hand EXCEPT ![p] = <<>>]
        /\ at' = [at EXCEPT ![p] = "dead"]
        /\ queue' = IF p = "worker" THEN <<>> ELSE queue
        /\ UNCHANGED <<dispatchPipe, workPipe, sent, taken>>
    BY <1>12 DEF Kill, Die, Goto, pipes
  <2>2. /\ hand'[p] = <<>>
        /\ \A q \in {"main", "dispatch", "worker"} \ {p} : hand'[q] = hand[q]
    BY <1>1, <2>1, HandsAfter
  <2>3. p # "main"
    BY <1>1, <2>1 DEF Alive, Tree, Places
  <2>4. /\ kills' = kills + 1
        /\ UNCHANGED <<dispatchPipe, workPipe, sent, taken>>
    BY <2>1
  <2>5. CASE p = "dispatch"
    <3>1. queue' = queue
      BY <2>1, <2>5
    <3>2. /\ Size(hand'["main"]) = Size(hand["main"])
          /\ Size(hand'["worker"]) = Size(hand["worker"])
          /\ Size(hand'["dispatch"]) = 0
      BY <2>2, <2>5, LengthOfNone
    <3>3. QED BY <1>2, <2>4, <3>1, <3>2 DEF Account
  <2>6. CASE p = "worker"
    <3>1. Size(queue) + Size(hand["worker"]) <= 1
      <4>1. CASE queue = <<>>
        BY <1>2, <4>1, LengthOfNone
      <4>2. CASE queue # <<>>
        <5>1. hand["worker"] = <<>> /\ Size(queue) <= 1
          BY <1>1, <4>2 DEF IdleHands, Size
        <5>2. Size(hand["worker"]) = 0
          BY <5>1, LengthOfNone
        <5>3. QED BY <1>2, <5>1, <5>2
      <4>3. QED BY <4>1, <4>2
    <3>2. Size(queue') = 0
      BY <2>1, <2>6, LengthOfNone
    <3>3. /\ Size(hand'["main"]) = Size(hand["main"])
          /\ Size(hand'["dispatch"]) = Size(hand["dispatch"])
          /\ Size(hand'["worker"]) = 0
      BY <2>2, <2>6, LengthOfNone
    <3>4. QED BY <1>2, <2>4, <3>1, <3>2, <3>3 DEF Account
  <2>7. CASE p \in {"daemon", "report"}
    <3>1. queue' = queue
      BY <2>1, <2>7
    <3>2. /\ Size(hand'["main"]) = Size(hand["main"])
          /\ Size(hand'["dispatch"]) = Size(hand["dispatch"])
          /\ Size(hand'["worker"]) = Size(hand["worker"])
      BY <2>2, <2>7
    <3>3. QED BY <1>2, <2>4, <3>1, <3>2 DEF Account
  <2>8. QED BY <2>3, <2>5, <2>6, <2>7 DEF Procs
<1>13. QED
  BY <1>4, <1>5, <1>6, <1>7, <1>8, <1>9, <1>10, <1>11, <1>12
     DEF Next, Main, Worker, Dispatcher, Quiet

(* So every step keeps the account.                                        *)
LEMMA CostStep ==
    ASSUME Fit, Data', DeathsCostOneEach, [Next]_vars
    PROVE  DeathsCostOneEach'
<1> SUFFICES ASSUME Alive("main")', Open("workRead")'
             PROVE  sent' <= Account'
  BY DEF DeathsCostOneEach, Account, Size
<1>1. Data' => sent' \in Nat /\ Account' \in Nat
  <2>1. (Data => sent \in Nat /\ Account \in Nat)'
    BY AccountTypes, PTL
  <2>2. QED BY <2>1
<1>2. sent \in Nat /\ Account \in Nat
  BY AccountTypes DEF Fit
<1>3. CASE ForkDaemon
  <2>1. sent' = 0
    BY <1>3 DEF ForkDaemon, history, Fit, NothingYet
  <2>2. QED BY <1>1, <2>1
<1>4. CASE ~ForkDaemon
  <2>1. Alive("main") /\ Open("workRead")
    BY <1>4, NoNewReader DEF Fit
  <2>2. sent' + Account <= sent + Account'
    BY <1>4, <2>1, AccountStep
  <2>3. sent <= Account
    BY <2>1 DEF DeathsCostOneEach, Account, Size
  <2>4. QED BY <1>1, <1>2, <2>2, <2>3
<1>5. QED BY <1>3, <1>4


-----------------------------------------------------------------------------
(* The inductive invariant in the parts the lemmas are about.              *)
LEMMA InvariantParts ==
    IInv <=> Fit /\ PipedAreDead /\ CollapseOrder /\ WayInOrder
                /\ DeathsCostOneEach
<1>1. TypeOK /\ Hands <=> Places /\ Data
  BY DEF TypeOK, Places, Data, InHand, Elsewhere
<1>2. QED BY <1>1, PhantomOrClean DEF IInv, Tree, Fit

(* The initial states satisfy the inductive invariant.                     *)
LEMMA InitInvariant == Init => IInv
<1> SUFFICES ASSUME Init
             PROVE  IInv
  OBVIOUS
<1> USE ConstantsAssumption DEF Init
<1>1. Tree
  BY DEF Tree, Places, KeptEnds, StartOrder, Alive, Procs, Ends
<1>2. InHand
  BY ShortHands DEF InHand, Hands, Procs, Alive
<1>3. Elsewhere
  BY ShortHands DEF Elsewhere
<1>4. Clean
  BY ShortHands DEF Clean, Procs
<1>5. PipedAreDead /\ CollapseOrder
  BY DEF PipedAreDead, CollapseOrder
<1>6. NothingYet /\ IdleHands
  BY DEF NothingYet, IdleHands, Procs
<1>7. Fit
  BY <1>1, <1>2, <1>3, <1>4, <1>6 DEF Fit, Data
<1>8. WayInOrder
  <2>1. /\ taken = <<>> /\ queue = <<>> /\ workPipe = <<>> /\ ~Router
        /\ hand["worker"] = <<>>
    BY DEF Router, Procs
  <2>2. Cat(<<>>, <<>>) = <<>>
    BY ShortHands, CatProperties
  <2>3. Cat(Near, Far) = <<>>
    BY <2>1, <2>2, WayIsCat
  <2>4. Good(<<>>, sent)
    BY DEF Good, InOrder, Within
  <2>5. QED BY <2>3, <2>4, WayIsCat
<1>9. DeathsCostOneEach
  BY DEF DeathsCostOneEach, Open, Procs
<1>10. QED BY <1>5, <1>7, <1>8, <1>9, InvariantParts

(* Every step preserves it.                                                *)
LEMMA Inductive == Spec => []IInv
<1>1. IInv /\ [Next]_vars => IInv'
  <2> SUFFICES ASSUME IInv, [Next]_vars
               PROVE  IInv'
    OBVIOUS
  <2>1. /\ Fit /\ PipedAreDead /\ CollapseOrder /\ WayInOrder
        /\ DeathsCostOneEach
    BY InvariantParts
  <2>2. /\ Tree /\ Data /\ NothingYet /\ IdleHands /\ (Clean \/ Orphan)
        /\ piped \subseteq {"main", "dispatch"}
    BY <2>1 DEF Fit, Data, Elsewhere
  <2>3. Tree' /\ Data' /\ PipedAreDead' /\ CollapseOrder'
          /\ (Clean \/ Orphan)'
    BY <2>1, <2>2, TreeStep, DataStep, PipedStep, CollapseStep, PhantomStep
  <2>4. NothingYet' /\ IdleHands'
    BY <2>2, NothingYetStep, IdleHandsStep
  <2>5. WayInOrder' /\ DeathsCostOneEach'
    BY <2>1, <2>3, WayStep, CostStep
  <2>6. Fit'
    BY <2>3, <2>4 DEF Fit
  <2>7. (IInv <=> Fit /\ PipedAreDead /\ CollapseOrder /\ WayInOrder
                     /\ DeathsCostOneEach)'
    BY InvariantParts, PTL
  <2>8. QED BY <2>3, <2>5, <2>6, <2>7
<1>2. QED BY InitInvariant, <1>1, PTL DEF Spec

(* Every variable has its type, neither pipe ever holds more than its      *)
(* capacity, and a dead process holds neither a pipe end nor a record: for *)
(* any number of commands and deaths and pipes of any size.                *)
THEOREM TypeCorrectness == Spec => []TypeOK
<1>1. IInv => TypeOK
  BY DEF IInv
<1>2. QED BY Inductive, <1>1, PTL

(* A worker acts upon a record no one has written only when main, the      *)
(* daemon and the dispatch process are gone: as long as one of them lives, *)
(* the write end of the work pipe it has inherited and never closed keeps  *)
(* the worker's read() from returning without a record.                    *)
THEOREM PhantomsNeedOrphans == Spec => []PhantomNeedsOrphan
<1>1. IInv => PhantomNeedsOrphan
  BY DEF IInv
<1>2. QED BY Inductive, <1>1, PTL

(* SIGPIPE takes the processes down from the worker's end: the dispatch    *)
(* process only after main, main as the router only after the daemon and   *)
(* the worker.                                                             *)
THEOREM CollapseFromTheWorker == Spec => []CollapseOrder
<1>1. IInv => CollapseOrder
  BY DEF IInv
<1>2. QED BY Inductive, <1>1, PTL

(* Whichever processes die, wherever they are, deaths lose commands and do *)
(* nothing else: what the workers pop is in the order of receipt, no       *)
(* command twice, and a phantom only as the last of all.  While main lives *)
(* and the work pipe has a reader, each death costs at most one command:   *)
(* every other one is popped, in a pipe or in a hand that passes it on.    *)
THEOREM DeathsOnlyLoseCommands == Spec => []DeathsOnlyLose
<1>1. IInv => DeathsOnlyLose
  <2> SUFFICES ASSUME IInv
               PROVE  DeathsOnlyLose
    OBVIOUS
  <2>1. Fit /\ WayInOrder /\ DeathsCostOneEach
    BY InvariantParts
  <2>2. /\ Near \in Seq(Records) /\ Far \in Seq(Records)
        /\ taken \in Seq(Records) /\ queue \in Seq(Records)
        /\ hand["worker"] \in Seq(Records) /\ workPipe \in Seq(Records)
        /\ <<>> \in Seq(Records)
    BY <2>1, WayTypes DEF Fit, Procs
  <2>3. Good(Near, sent)
    BY <2>1, <2>2, WayIsCat, FrontInOrder
  <2>4. InOrder(taken)
    <3> DEFINE one == Cat(taken, queue)
               two == Cat(one, hand["worker"])
    <3>1. one \in Seq(Records)
      BY <2>2, CatProperties
    <3> HIDE DEF one
    <3>2. two \in Seq(Records)
      BY <2>2, <3>1, CatProperties
    <3> HIDE DEF two
    <3>3. Near = Cat(two, workPipe)
      BY WayIsCat DEF one, two
    <3>4. Good(two, sent)
      BY <2>2, <2>3, <3>2, <3>3, FrontInOrder
    <3>5. Good(one, sent)
      BY <2>2, <3>1, <3>4, FrontInOrder DEF two
    <3>6. Good(taken, sent)
      BY <2>2, <3>5, FrontInOrder DEF one
    <3>7. QED BY <3>6 DEF Good
  <2>5. ASSUME NEW i \in 1..Len(taken), NEW j \in 1..Len(taken), i < j
        PROVE  taken[i] # Phantom
                 /\ (taken[j] = Phantom \/ taken[i] < taken[j])
    <3>1. taken[i] \in Records /\ taken[j] \in Records
      BY <2>2, ElementOfSeq
    <3>2. Weight(taken[i]) < Weight(taken[j])
      BY <2>4, <2>5 DEF InOrder
    <3>3. \A r \in Records : Weight(r) <= MaxCommands + 1
      BY ConstantsAssumption DEF Weight, Records, Commands, Phantom
    <3>4. Weight(Phantom) = MaxCommands + 1
      BY DEF Weight
    <3>5. taken[i] # Phantom
      BY <3>1, <3>2, <3>3, <3>4, WeightIsNatural
    <3>6. QED BY <3>2, <3>5 DEF Weight
  <2>6. QED BY <2>1, <2>5 DEF DeathsOnlyLose, TakenInOrder
<1>2. QED BY Inductive, <1>1, PTL
=============================================================================
