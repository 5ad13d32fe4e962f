------------------------------ MODULE JobLife ------------------------------
(***************************************************************************)
(* What task_thread (workProcess.cpp) may rely on about a JobTask object:  *)
(* its constructor, the results of next(), and its destruction.  The class *)
(* itself is modelled in JobTask.tla, which implements this contract; the  *)
(* command path (CommandPath.tla) uses the contract in its place.          *)
(*                                                                         *)
(*   none     no object                                                    *)
(*   empty    constructed, and the dataset has no element: either the      *)
(*            dataset file is an empty array, or init() returned early,    *)
(*            which the constructor only records in init_ok                *)
(*   frames   constructed with at least one dataset element                *)
(*   ended    next() has returned -1                                       *)
(*   crashed  the call took the worker process down: an exception out of   *)
(*            the thread function, a fault in the plugin or in the         *)
(*            inference library, the division by an empty dataset's length *)
(***************************************************************************)
VARIABLE life

LifeStates == {"none", "empty", "frames", "ended", "crashed"}

Init == life = "none"

(* new JobTask(id).  init()'s result is stored and never read, so the      *)
(* caller cannot tell a failed construction from a good one.               *)
Construct ==
    /\ life = "none"
    /\ life' \in {"empty", "frames", "crashed"}

(* job->next(), on a job without data: report() divides by the length, and *)
(* if the process survives that, next() answers -1.                        *)
NextWithoutData ==
    /\ life = "empty"
    /\ life' \in {"ended", "crashed"}

(* A dataset with elements is never exhausted: next() answers 0 for ever,  *)
(* unless a call takes the process down.                                   *)
NextWithData ==
    /\ life = "frames"
    /\ life' \in {"frames", "crashed"}

NextCall == NextWithoutData \/ NextWithData

(* The unique_ptr of task_thread goes out of scope, or the process that    *)
(* held the object is reaped.                                              *)
Destroy ==
    /\ life # "none"
    /\ life' = "none"

Next == Construct \/ NextCall \/ Destroy

Spec == Init /\ [][Next]_life
=============================================================================
