--------------------------- MODULE SignalCommand ---------------------------
(***************************************************************************)
(* Commands as signals (workProcess/workProcess.cpp, lines 14 to 110): the *)
(* handlers of SIGUSR1 and SIGUSR2 write the one slot g_cmd, and the       *)
(* worker's loop asks status_check() between two turns of its job.  The    *)
(* code is compiled; the loop and the registration of the handlers (lines  *)
(* 138 to 177, with an empty signal mask) are commented out.               *)
(*                                                                         *)
(* One thread: a handler interrupts the loop, or the handler of the other  *)
(* signal, between any two accesses to g_cmd, and the interrupted code     *)
(* goes on when it returns.  g_cmd is an ordinary struct.  So two stores   *)
(* with no call between them may be made in either order, and a member     *)
(* that is tested twice may be loaded once.                                *)
(***************************************************************************)
EXTENDS Naturals, Sequences

CONSTANT MaxSignals     \* bound: signals sent

ASSUME ConstantsAssumption == MaxSignals \in Nat

Cmds == {"CMD_CREATE", "CMD_CANCEL"}

VARIABLES
    cmd,                \* g_cmd.cmd
    taskId,             \* g_cmd.task_id
    jobId,              \* g_job_id
    status,             \* g_job_status
    at,                 \* where the loop is: head, or a test or branch
    seen,               \* the value of g_cmd.cmd loaded last
    todo,               \* accesses to g_cmd the branch taken has still to make
    pending,            \* signals that wait for delivery, at most one a kind
    handlers,           \* the handlers at work, the running one at the end
    sent,               \* history: the commands sent; the n-th has task id n
    last,               \* history: who wrote cmd last, and who task_id
    seenFrom,           \* history: who wrote the value of cmd in seen
    obeyed              \* history: the last command obeyed, its id and job

g_cmd == <<cmd, taskId>>
loop == <<jobId, status, at, seen, todo>>
signals == <<pending, handlers, sent>>
history == <<last, seenFrom, obeyed>>
vars == <<g_cmd, loop, signals, history>>

Init ==
    /\ cmd = "CMD_NONE"
    /\ taskId = 0
    /\ jobId = 0
    /\ status = "JOB_NONE"
    /\ at = "head"
    /\ seen = "CMD_NONE"
    /\ todo = {}
    /\ pending = {}
    /\ handlers = <<>>
    /\ sent = <<>>
    /\ last = [cmd |-> 0, task_id |-> 0, head |-> TRUE]
    /\ seenFrom = 0
    /\ obeyed = [cmd |-> "CMD_NONE", id |-> 0, job |-> 0]

-----------------------------------------------------------------------------
(* The signals; SIGUSR1 stands for CMD_CREATE, SIGUSR2 for CMD_CANCEL.     *)

(* A signal of a kind that is pending already is lost.                     *)
Send ==
    /\ Len(sent) < MaxSignals
    /\ \E c \in Cmds :
          /\ sent' = Append(sent, c)
          /\ pending' = IF \E p \in pending : p.cmd = c THEN pending
                        ELSE pending \union {[cmd |-> c, id |-> Len(sent')]}
    /\ UNCHANGED <<g_cmd, loop, handlers, history>>

(* A variant that lets a handler interrupt itself.                         *)
DeliverUnblocked ==
    /\ \E p \in pending :
          /\ pending' = pending \ {p}
          /\ handlers' = Append(handlers,
                [cmd |-> p.cmd, id |-> p.id, todo |-> {"cmd", "task_id"}])
    /\ UNCHANGED <<g_cmd, loop, sent, history>>

(* A handler starts on top of what runs, its own signal being blocked.     *)
Deliver ==
    /\ \E p \in pending :
          /\ \A i \in 1..Len(handlers) : handlers[i].cmd # p.cmd
          /\ pending' = pending \ {p}
          /\ handlers' = Append(handlers,
                [cmd |-> p.cmd, id |-> p.id, todo |-> {"cmd", "task_id"}])
    /\ UNCHANGED <<g_cmd, loop, sent, history>>

Top == handlers[Len(handlers)]

(* One of the two stores of the running handler; after both it returns.    *)
HandlerStores(member) ==
    /\ handlers # <<>>
    /\ member \in Top.todo
    /\ handlers' = IF Top.todo = {member}
                   THEN SubSeq(handlers, 1, Len(handlers) - 1)
                   ELSE [handlers EXCEPT ![Len(handlers)].todo = @ \ {member}]
    /\ last' = [last EXCEPT ![member] = Top.id, !.head = (at = "head")]

(* A variant in which both handlers store the same command.                *)
StoreCancel ==
    /\ HandlerStores("cmd")
    /\ cmd' = "CMD_CANCEL"
    /\ UNCHANGED <<taskId, loop, pending, sent, seenFrom, obeyed>>

StoreCmd ==
    /\ HandlerStores("cmd")
    /\ cmd' = Top.cmd
    /\ UNCHANGED <<taskId, loop, pending, sent, seenFrom, obeyed>>

StoreTaskId ==
    /\ HandlerStores("task_id")
    /\ taskId' = Top.id
    /\ UNCHANGED <<cmd, loop, pending, sent, seenFrom, obeyed>>

Handler == StoreCmd \/ StoreTaskId

-----------------------------------------------------------------------------
(* The loop: status_check(), again and again, while no handler runs.       *)

(* A test loads g_cmd.cmd, or goes by the value loaded before.             *)
LoadFresh == seen' = cmd /\ seenFrom' = last.cmd

Load == UNCHANGED <<seen, seenFrom>> \/ LoadFresh

(* A variant that stays idle until a command comes.                        *)
TestNoneAndSuspend ==
    /\ handlers = <<>>
    /\ at = "head"
    /\ LoadFresh
    /\ at' = IF cmd = "CMD_NONE" THEN "head" ELSE "create"
    /\ UNCHANGED <<g_cmd, jobId, status, todo, signals, last, obeyed>>

(* CMD_NONE == g_cmd.cmd: without a command a job goes on (CONTINUE), and  *)
(* one is started if there is none (RESET).                                *)
TestNone ==
    /\ handlers = <<>>
    /\ at = "head"
    /\ LoadFresh
    /\ IF cmd = "CMD_NONE" THEN status' = "JOB_RUNNING" /\ at' = "head"
                           ELSE status' = status /\ at' = "create"
    /\ UNCHANGED <<g_cmd, jobId, todo, signals, last, obeyed>>

(* CMD_CREATE == g_cmd.cmd, on the value loaded before or a fresh one.     *)
TestCreate ==
    /\ handlers = <<>>
    /\ at = "create"
    /\ Load
    /\ IF seen' = "CMD_CREATE"
       THEN at' = "start" /\ todo' = {"task_id", "cmd"}
       ELSE at' = "cancel" /\ UNCHANGED todo
    /\ UNCHANGED <<g_cmd, jobId, status, signals, last, obeyed>>

(* CMD_CANCEL == g_cmd.cmd; CONTINUE when it has become something else.    *)
TestCancel ==
    /\ handlers = <<>>
    /\ at = "cancel"
    /\ Load
    /\ IF seen' = "CMD_CANCEL" THEN at' = "stop" /\ todo' = {"cmd"}
                               ELSE at' = "head" /\ UNCHANGED todo
    /\ UNCHANGED <<g_cmd, jobId, status, signals, last, obeyed>>

(* The branch of the command obeyed is left with its last access to g_cmd. *)
Leave(c, job, newStatus) ==
    IF todo' # {} THEN UNCHANGED <<status, at, obeyed>>
    ELSE /\ status' = newStatus
         /\ at' = "head"
         /\ obeyed' = [cmd |-> c, id |-> seenFrom, job |-> job]

(* A variant of a create that restarts the job it has.                     *)
LoadNothing ==
    /\ handlers = <<>>
    /\ at = "start"
    /\ "task_id" \in todo
    /\ todo' = todo \ {"task_id"}
    /\ jobId' = jobId
    /\ Leave("CMD_CREATE", jobId', "JOB_RUNNING")
    /\ UNCHANGED <<g_cmd, seen, signals, last, seenFrom>>

(* g_job_id = g_cmd.task_id.                                               *)
LoadTaskId ==
    /\ handlers = <<>>
    /\ at = "start"
    /\ "task_id" \in todo
    /\ todo' = todo \ {"task_id"}
    /\ jobId' = taskId
    /\ Leave("CMD_CREATE", jobId', "JOB_RUNNING")
    /\ UNCHANGED <<g_cmd, seen, signals, last, seenFrom>>

(* A variant of a create whose command stays in the slot.                  *)
ClearNothing ==
    /\ handlers = <<>>
    /\ at \in {"start", "stop"}
    /\ "cmd" \in todo
    /\ todo' = todo \ {"cmd"}
    /\ cmd' = IF at = "start" THEN cmd ELSE "CMD_NONE"
    /\ \/ at = "start" /\ Leave("CMD_CREATE", jobId, "JOB_RUNNING")
       \/ at = "stop" /\ Leave("CMD_CANCEL", jobId, "JOB_NONE")
    /\ UNCHANGED <<taskId, jobId, seen, signals, last, seenFrom>>

(* g_cmd.cmd = CMD_NONE, whatever has come into the slot since the test.   *)
ClearCmd ==
    /\ handlers = <<>>
    /\ at \in {"start", "stop"}
    /\ "cmd" \in todo
    /\ todo' = todo \ {"cmd"}
    /\ cmd' = "CMD_NONE"
    /\ \/ at = "start" /\ Leave("CMD_CREATE", jobId, "JOB_RUNNING")
       \/ at = "stop" /\ Leave("CMD_CANCEL", jobId, "JOB_NONE")
    /\ UNCHANGED <<taskId, jobId, seen, signals, last, seenFrom>>

StatusCheck == TestNone \/ TestCreate \/ TestCancel \/ LoadTaskId \/ ClearCmd

Next == Send \/ Deliver \/ Handler \/ StatusCheck

Spec == Init /\ [][Next]_vars

(* The worker runs and the kernel delivers; nobody has to send.            *)
FairSpec ==
    Spec /\ WF_vars(Deliver) /\ WF_vars(Handler) /\ WF_vars(StatusCheck)
-----------------------------------------------------------------------------
(* Properties.                                                             *)

(* The members of g_cmd.                                                   *)
Accesses == {"cmd", "task_id"}

(* Every variable has the type of the C++ object it stands for             *)
(* (workProcess.cpp:14-33), only the branches have accesses to make, and   *)
(* no handler has returned that has a store to make.                       *)
TypeOK ==
    /\ cmd \in Cmds \union {"CMD_NONE"}
    /\ taskId \in 0..MaxSignals
    /\ jobId \in 0..MaxSignals
    /\ status \in {"JOB_NONE", "JOB_RUNNING"}
    /\ at \in {"head", "create", "cancel", "start", "stop"}
    /\ seen \in Cmds \union {"CMD_NONE"}
    /\ todo \subseteq Accesses
    /\ todo # {} <=> at \in {"start", "stop"}
    /\ sent \in Seq(Cmds)
    /\ Len(sent) <= MaxSignals
    /\ pending \subseteq [cmd : Cmds, id : 1..MaxSignals]
    /\ handlers \in Seq([cmd : Cmds, id : 1..MaxSignals,
                         todo : (SUBSET Accesses) \ {{}}])
    /\ Len(handlers) <= 2
    /\ last \in [cmd : 0..MaxSignals, task_id : 0..MaxSignals, head : BOOLEAN]
    /\ seenFrom \in 0..MaxSignals
    /\ obeyed \in [cmd : Cmds \union {"CMD_NONE"}, id : 0..MaxSignals,
                   job : 0..MaxSignals]

(* A command that arrives between two status_checks, and that no later     *)
(* handler has overwritten, is obeyed as it was sent: the loop cannot      *)
(* consume it without doing it, what it does is the command of that very   *)
(* signal, a create or a cancel, and a create starts the task it carries.  *)
(* What arrives inside a status_check may be lost or take another's id     *)
(* (workProcess.cpp:34-44 against 52-107).                                 *)
ObeyedAsSent ==
    at = "head" /\ handlers = <<>> /\ cmd = "CMD_NONE"
        /\ last.head /\ last.cmd = last.task_id /\ last.cmd # 0 =>
            /\ obeyed.id = last.cmd
            /\ obeyed.cmd = sent[last.cmd]
            /\ obeyed.cmd = "CMD_CREATE" => obeyed.job = last.task_id

(* What makes it inductive: an id belongs to one signal, which is pending, *)
(* or at a handler, or has been stored; what the slot holds while handlers *)
(* run; and how far the loop has come with a command sent at its head.     *)
OneSignalEach ==
    /\ \A p \in pending :
          /\ p.id \in 1..Len(sent) /\ p.cmd = sent[p.id]
          /\ last.cmd # p.id /\ last.task_id # p.id
          /\ \A q \in pending : q.id = p.id => q = p
          /\ \A i \in 1..Len(handlers) : handlers[i].id # p.id
    /\ \A i \in 1..Len(handlers) :
          /\ handlers[i].id \in 1..Len(sent)
          /\ handlers[i].cmd = sent[handlers[i].id]
          /\ \A j \in 1..Len(handlers) :
                i # j => /\ handlers[i].id # handlers[j].id
                         /\ handlers[i].cmd # handlers[j].cmd
    /\ last.cmd \in 0..Len(sent) /\ last.task_id \in 0..Len(sent)

SlotIsStored ==
    /\ taskId = last.task_id
    /\ cmd # "CMD_NONE" => last.cmd # 0 /\ cmd = sent[last.cmd]
    /\ \A i \in 1..Len(handlers) :
          IF "cmd" \in handlers[i].todo THEN last.cmd # handlers[i].id
                                        ELSE cmd \in Cmds

(* The value in seen is the command in the slot.                           *)
Seen(c) == cmd = c /\ seen = c /\ seenFrom = last.cmd

OnItsWay ==
    \/ at = "head" /\ cmd \in Cmds
    \/ at = "create" /\ cmd \in Cmds /\ Seen(cmd)
    \/ at = "cancel" /\ Seen("CMD_CANCEL")
    \/ /\ at = "start"
       /\ seenFrom = last.cmd /\ sent[last.cmd] = "CMD_CREATE"
       /\ "task_id" \notin todo => jobId = last.task_id
    \/ /\ at = "stop"
       /\ seenFrom = last.cmd /\ sent[last.cmd] = "CMD_CANCEL"
    \/ /\ at = "head" /\ cmd = "CMD_NONE"
       /\ obeyed.id = last.cmd
       /\ obeyed.cmd = sent[last.cmd]
       /\ obeyed.cmd = "CMD_CREATE" => obeyed.job = last.task_id

IInv ==
    /\ TypeOK
    /\ OneSignalEach
    /\ SlotIsStored
    /\ handlers = <<>> /\ last.head /\ last.cmd = last.task_id
           /\ last.cmd # 0 => OnItsWay

(* Once the signals cease, the slot is emptied and a job runs for ever,    *)
(* also when the last word was a cancel: a status_check without a command  *)
(* starts a job (workProcess.cpp:54-63).                                   *)
CancelDoesNotLast ==
    <>[](cmd = "CMD_NONE" /\ status = "JOB_RUNNING")
=============================================================================
