--------------------------- MODULE CommandChannel ---------------------------
(***************************************************************************)
(* The promise of the command path between the dispatch process and the    *)
(* worker's task thread: commands are taken in the order in which they     *)
(* were received, each at most once and none skipped, whatever processes,  *)
(* pipes and worker restarts lie between.                                  *)
(***************************************************************************)
EXTENDS Naturals, Sequences

CONSTANT Infos      \* the values of TASK_INFO

VARIABLES
    received,       \* the commands read off the dispatch stream, in order
    taken           \* the commands popped by a task thread, in order

vars == <<received, taken>>

Init ==
    /\ received = <<>>
    /\ taken = <<>>

Receive ==
    /\ \E info \in Infos : received' = Append(received, info)
    /\ UNCHANGED taken

Take ==
    /\ Len(taken) < Len(received)
    /\ taken' = Append(taken, received[Len(taken) + 1])
    /\ UNCHANGED received

Next == Receive \/ Take

Spec == Init /\ [][Next]_vars
=============================================================================
