---------------------------- MODULE ProcessPool ----------------------------
(***************************************************************************)
(* The pool of processpoll.h: a parent that watches the listening socket   *)
(* and tells a child of each new connection, children that accept them,    *)
(* edge-triggered epoll in each process, and signals that come back as     *)
(* bytes of a pipe.  A connection is a unit of a count: nothing in the     *)
(* pool tells one from another.  T::process() appears as what may take a   *)
(* child down; it forks no process.                                        *)
(***************************************************************************)
EXTENDS Integers, Sequences, FiniteSets

CONSTANTS
    ProcessNumber,      \* m_process_number
    MaxConnections,     \* bound: connections made by clients
    MaxDeaths,          \* bound: children that die unasked
    MaxTerminations     \* bound: SIGTERM or SIGINT sent to the parent

ASSUME ConstantsAssumption ==
    /\ ProcessNumber \in 1..16
    /\ MaxConnections \in Nat
    /\ MaxDeaths \in Nat
    /\ MaxTerminations \in Nat

(* The m_idx of a process.                                                 *)
Children == 0..(ProcessNumber - 1)
Parent == -1
Procs == Children \union {Parent}

VARIABLES
    at,             \* where each process is
    slot,           \* m_sub_process[c].m_pid is not -1, in the parent
    stop,           \* m_stop of each process
    ready,          \* edges that epoll_wait has not returned yet
    events,         \* events of the turn that are still to be handled
    pending,        \* signals of the parent whose handler has not run
    sigPipe,        \* the parent's sig_pipefd
    signals,        \* what the parent has received from it
    messages,       \* messages to each child that it has not received
    backlog,        \* connections nobody has accepted
    turn,           \* sub_process_counter
    sentTo,         \* history: the children that were told, in order
    count           \* bounds: what has happened of each kind

signalling == <<pending, sigPipe, signals>>
vars == <<at, slot, stop, ready, events, signalling, messages, backlog, turn,
          sentTo, count>>

Init ==
    /\ at = [p \in Procs |-> IF p = Parent THEN "fork" ELSE "none"]
    /\ slot = [c \in Children |-> FALSE]
    /\ stop = [p \in Procs |-> FALSE]
    /\ ready = [p \in Procs |-> {}]
    /\ events = [p \in Procs |-> {}]
    /\ pending = {}
    /\ sigPipe = <<>>
    /\ signals = <<>>
    /\ messages = [c \in Children |-> 0]
    /\ backlog = 0
    /\ turn = 0
    /\ sentTo = <<>>
    /\ count = [connections |-> 0, deaths |-> 0, terminations |-> 0]

Alive(c) == at[c] \in {"setup", "loop", "accept"}

Zombies == {c \in Children : at[c] = "zombie"}

Edge(p, fd) == ready' = [ready EXCEPT ![p] = @ \union {fd}]

Goto(p, label) == at' = [at EXCEPT ![p] = label]

(* The processes of a set end, and the parent is sent SIGCHLD: once for    *)
(* several of them, and for nothing before its handler is there.           *)
Ends(dead) ==
    /\ at' = [p \in Procs |-> IF p \in dead THEN "zombie" ELSE at[p]]
    /\ messages' = [c \in Children |-> IF c \in dead THEN 0 ELSE messages[c]]
    /\ events' = [p \in Procs |-> IF p \in dead THEN {} ELSE events[p]]
    /\ pending' = IF at[Parent] = "loop" /\ dead # {}
                  THEN pending \union {"CHLD"} ELSE pending

-----------------------------------------------------------------------------
(* The constructor and setup_sig_pipe().                                   *)

(* A failed fork aborts the parent, by an assertion.                       *)
ForkChild ==
    /\ at[Parent] = "fork"
    /\ LET c == Cardinality({d \in Children : at[d] # "none"})
       IN \/ /\ at' = [at EXCEPT ![c] = "setup",
                                 ![Parent] = IF c + 1 = ProcessNumber
                                             THEN "setup" ELSE "fork"]
             /\ slot' = [slot EXCEPT ![c] = TRUE]
          \/ Goto(Parent, "aborted") /\ UNCHANGED slot
    /\ UNCHANGED <<stop, ready, events, signalling, messages, backlog, turn,
                   sentTo, count>>

(* The handlers, and the first look at a descriptor: what is there already *)
(* is one edge.                                                            *)
SetupParent ==
    /\ at[Parent] = "setup"
    /\ Goto(Parent, "loop")
    /\ IF backlog > 0 THEN Edge(Parent, "listen") ELSE UNCHANGED ready
    /\ UNCHANGED <<slot, stop, events, signalling, messages, backlog, turn,
                   sentTo, count>>

SetupChild(c) ==
    /\ at[c] = "setup"
    /\ Goto(c, "loop")
    /\ IF messages[c] > 0 THEN Edge(c, "pipe") ELSE UNCHANGED ready
    /\ UNCHANGED <<slot, stop, events, signalling, messages, backlog, turn,
                   sentTo, count>>

-----------------------------------------------------------------------------
(* The loops.                                                              *)

TurnOver(p) ==
    at[p] = "loop" /\ events[p] = {} /\ (p = Parent => signals = <<>>)

(* A variant that watches the listening socket without EPOLLET.            *)
PollLevel(p) ==
    /\ TurnOver(p)
    /\ ~stop[p]
    /\ ready[p] # {}
    /\ events' = [events EXCEPT ![p] = ready[p]]
    /\ ready' = [ready EXCEPT ![p] =
                     IF backlog > 0 THEN @ \intersect {"listen"} ELSE {}]
    /\ UNCHANGED <<at, slot, stop, signalling, messages, backlog, turn, sentTo,
                   count>>

(* epoll_wait returns each edge once.                                      *)
Poll(p) ==
    /\ TurnOver(p)
    /\ ~stop[p]
    /\ ready[p] # {}
    /\ events' = [events EXCEPT ![p] = ready[p]]
    /\ ready' = [ready EXCEPT ![p] = {}]
    /\ UNCHANGED <<at, slot, stop, signalling, messages, backlog, turn, sentTo,
                   count>>

Handled(p, fd) == events' = [events EXCEPT ![p] = @ \ {fd}]

(* The first child from sub_process_counter on whose slot is taken.        *)
FirstFromTurn ==
    LET index(k) == (turn + k) % ProcessNumber
    IN index(CHOOSE k \in Children :
                 slot[index(k)] /\ \A j \in 0..(k - 1) : ~slot[index(j)])

(* Variants of the turn: one past the last child, and one that stays.      *)
NextTurnUnwrapped(i) == i + 1
SameTurn(i) == i

NextTurn(i) == (i + 1) % ProcessNumber

(* The parent hands one connection on.  Its send fails, unnoticed, when    *)
(* the child is dead.  Without a child it leaves the turn and the loop.    *)
HandleListen ==
    /\ "listen" \in events[Parent]
    /\ signals = <<>>
    /\ IF \E c \in Children : slot[c]
       THEN LET i == FirstFromTurn
            IN /\ turn' = NextTurn(i)
               /\ sentTo' = Append(sentTo, i)
               /\ messages' = IF Alive(i) THEN [messages EXCEPT ![i] = @ + 1]
                              ELSE messages
               /\ IF at[i] \in {"loop", "accept"} THEN Edge(i, "pipe")
                  ELSE UNCHANGED ready
               /\ Handled(Parent, "listen")
               /\ UNCHANGED stop
       ELSE /\ stop' = [stop EXCEPT ![Parent] = TRUE]
            /\ events' = [events EXCEPT ![Parent] = {}]
            /\ UNCHANGED <<turn, sentTo, messages, ready>>
    /\ UNCHANGED <<at, slot, signalling, backlog, count>>

RecvSignals ==
    /\ "sig" \in events[Parent]
    /\ signals = <<>>
    /\ signals' = sigPipe
    /\ sigPipe' = <<>>
    /\ Handled(Parent, "sig")
    /\ UNCHANGED <<at, slot, stop, ready, pending, messages, backlog, turn,
                   sentTo, count>>

(* A variant that asks waitpid once for each signal.                       *)
ReapOne == IF Zombies = {} THEN {} ELSE {CHOOSE c \in Zombies : TRUE}

(* The loop over waitpid.                                                  *)
ReapAll == Zombies

(* A variant that does not look whether a child is left.                   *)
NoLook(slots) == TRUE

NoneLeft(slots) == \A c \in Children : ~slots[c]

HandleChld ==
    /\ signals # <<>> /\ Head(signals) = "CHLD"
    /\ signals' = Tail(signals)
    /\ at' = [p \in Procs |-> IF p \in ReapAll THEN "reaped" ELSE at[p]]
    /\ slot' = [c \in Children |-> slot[c] /\ c \notin ReapAll]
    /\ stop' = [stop EXCEPT ![Parent] = NoneLeft(slot')]
    /\ UNCHANGED <<ready, events, pending, sigPipe, messages, backlog, turn,
                   sentTo, count>>

(* kill() of each child: the end of those that have no handler yet.        *)
HandleTerm ==
    /\ signals # <<>> /\ Head(signals) = "TERM"
    /\ signals' = Tail(signals)
    /\ LET told == {c \in Children : slot[c]}
       IN /\ Ends({c \in told : at[c] = "setup"})
          /\ ready' = [p \in Procs |->
                 IF p \in told /\ at[p] \in {"loop", "accept"}
                 THEN ready[p] \union {"sig"} ELSE ready[p]]
    /\ UNCHANGED <<slot, stop, sigPipe, backlog, turn, sentTo, count>>

(* A child is told of a connection, and accepts one: any one.  A receive   *)
(* that finds no message is not told from one that does.                   *)
RecvMessage(c) ==
    /\ at[c] = "loop"
    /\ "pipe" \in events[c]
    /\ messages' = [messages EXCEPT ![c] = IF @ > 0 THEN @ - 1 ELSE 0]
    /\ Goto(c, "accept")
    /\ Handled(c, "pipe")
    /\ UNCHANGED <<slot, stop, ready, signalling, backlog, turn, sentTo,
                   count>>

Accept(c) ==
    /\ at[c] = "accept"
    /\ backlog' = IF backlog > 0 THEN backlog - 1 ELSE 0
    /\ Goto(c, "loop")
    /\ UNCHANGED <<slot, stop, ready, events, signalling, messages, turn,
                   sentTo, count>>

RecvTerm(c) ==
    /\ at[c] = "loop"
    /\ "sig" \in events[c]
    /\ stop' = [stop EXCEPT ![c] = TRUE]
    /\ Handled(c, "sig")
    /\ UNCHANGED <<at, slot, ready, signalling, messages, backlog, turn,
                   sentTo, count>>

LeaveParent ==
    /\ TurnOver(Parent)
    /\ stop[Parent]
    /\ Goto(Parent, "stopped")
    /\ UNCHANGED <<slot, stop, ready, events, signalling, messages, backlog,
                   turn, sentTo, count>>

LeaveChild(c) ==
    /\ TurnOver(c)
    /\ stop[c]
    /\ Ends({c})
    /\ UNCHANGED <<slot, stop, ready, sigPipe, signals, backlog, turn, sentTo,
                   count>>

-----------------------------------------------------------------------------
(* sig_handler() of the parent.                                            *)
Deliver ==
    /\ at[Parent] = "loop"
    /\ \E s \in pending :
          /\ pending' = pending \ {s}
          /\ sigPipe' = Append(sigPipe, s)
    /\ Edge(Parent, "sig")
    /\ UNCHANGED <<at, slot, stop, events, signals, messages, backlog, turn,
                   sentTo, count>>

Counted(kind, bound) ==
    /\ count[kind] < bound
    /\ count' = [count EXCEPT ![kind] = @ + 1]

Connect ==
    /\ at[Parent] \in {"fork", "setup", "loop"}
    /\ Counted("connections", MaxConnections)
    /\ backlog' = backlog + 1
    /\ IF at[Parent] = "loop" THEN Edge(Parent, "listen") ELSE UNCHANGED ready
    /\ UNCHANGED <<at, slot, stop, events, signalling, messages, turn, sentTo>>

(* A parent without its handlers dies of the signal.                       *)
Terminate ==
    /\ Counted("terminations", MaxTerminations)
    /\ \/ /\ at[Parent] = "loop"
          /\ pending' = pending \union {"TERM"}
          /\ UNCHANGED at
       \/ /\ at[Parent] \in {"fork", "setup"}
          /\ Goto(Parent, "aborted")
          /\ UNCHANGED pending
    /\ UNCHANGED <<slot, stop, ready, events, sigPipe, signals, messages,
                   backlog, turn, sentTo>>

ChildDies(c) ==
    /\ Alive(c)
    /\ Counted("deaths", MaxDeaths)
    /\ Ends({c})
    /\ UNCHANGED <<slot, stop, ready, sigPipe, signals, backlog, turn, sentTo>>

RunParent ==
    ForkChild \/ SetupParent \/ Poll(Parent) \/ HandleListen \/ RecvSignals
        \/ HandleChld \/ HandleTerm \/ LeaveParent

RunChild(c) ==
    SetupChild(c) \/ Poll(c) \/ RecvMessage(c) \/ Accept(c) \/ RecvTerm(c)
        \/ LeaveChild(c)

Next ==
    \/ RunParent \/ Deliver \/ Connect \/ Terminate
    \/ \E c \in Children : RunChild(c) \/ ChildDies(c)

Spec == Init /\ [][Next]_vars

(* Living processes are scheduled and pending signals delivered.           *)
FairSpec ==
    /\ Spec
    /\ WF_vars(RunParent) /\ WF_vars(Deliver)
    /\ \A c \in Children : WF_vars(RunChild(c))
-----------------------------------------------------------------------------
(* Properties.                                                             *)

(* Every variable has its type.                                            *)
TypeOK ==
    /\ at[Parent] \in {"fork", "setup", "loop", "stopped", "aborted"}
    /\ \A c \in Children :
           at[c] \in {"none", "setup", "loop", "accept", "zombie", "reaped"}
    /\ DOMAIN at = Procs
    /\ slot \in [Children -> BOOLEAN]
    /\ stop \in [Procs -> BOOLEAN]
    /\ ready \in [Procs -> SUBSET {"listen", "pipe", "sig"}]
    /\ events \in [Procs -> SUBSET {"listen", "pipe", "sig"}]
    /\ pending \subseteq {"CHLD", "TERM"}
    /\ sigPipe \in Seq({"CHLD", "TERM"})
    /\ signals \in Seq({"CHLD", "TERM"})
    /\ messages \in [Children -> 0..MaxConnections]
    /\ backlog \in 0..MaxConnections
    /\ turn \in Children
    /\ sentTo \in Seq(Children)
    /\ count \in [connections : 0..MaxConnections, deaths : 0..MaxDeaths,
                  terminations : 0..MaxTerminations]

(* The events of a descriptor that are on their way to its handler.        *)
Outstanding(p, fd) ==
    (IF fd \in ready[p] THEN 1 ELSE 0) + (IF fd \in events[p] THEN 1 ELSE 0)

(* The messages that children have not received, numbered for each child.  *)
OnTheWay ==
    {m \in Children \X (1..MaxConnections) : m[2] <= messages[m[1]]}

AboutToAccept == {c \in Children : at[c] = "accept"}

(* A connection waits for every message on its way, every child about to   *)
(* accept and every event of the listening socket not yet handed on: a     *)
(* child that is told to accept never finds the backlog empty, whichever   *)
(* child was there first (processpoll.h:214-232 against 303-321).          *)
BacklogSuffices ==
    Cardinality(OnTheWay) + Cardinality(AboutToAccept)
        + Outstanding(Parent, "listen") <= backlog

EventsHaveMessages ==
    \A c \in Children :
        Alive(c) => Outstanding(c, "pipe") <= messages[c]

NoEmptyAccept == BacklogSuffices /\ EventsHaveMessages

(* Between two connections for the same child, every other child that is   *)
(* in the pool has got one (the round robin of processpoll.h:307-319 with  *)
(* children dropping out).                                                 *)
TakesTurns ==
    \A q \in 1..Len(sentTo) : \A p \in 1..(q - 1) :
        sentTo[p] = sentTo[q] =>
            \A c \in Children \ {sentTo[p]} :
                slot[c] => \E k \in p..q : sentTo[k] = c

(* What makes these properties inductive: that nothing moves before its    *)
(* process is set up and children are forked in order, how far each child  *)
(* is from its turn, and that a child which is not told again yet is       *)
(* nearer to its turn than those told since.                               *)
Quiet(p) == ready[p] = {} /\ events[p] = {}

StartsQuiet ==
    /\ at[Parent] \in {"fork", "setup"} =>
           /\ Quiet(Parent)
           /\ sentTo = <<>>
           /\ AboutToAccept = {}
           /\ \A c \in Children : messages[c] = 0
    /\ \A c \in Children : at[c] \in {"none", "setup"} => Quiet(c)
    /\ at[Parent] = "fork" =>
           \E n \in Children : \A c \in Children : at[c] = "none" <=> c >= n

Distance(c) == IF c >= turn THEN c - turn ELSE c - turn + ProcessNumber

NearerThanTold ==
    \A p \in 1..Len(sentTo) : \A c \in Children \ {sentTo[p]} :
        slot[c] => \/ \E k \in p..Len(sentTo) : sentTo[k] = c
                   \/ Distance(c) < Distance(sentTo[p])

IInv ==
    /\ TypeOK /\ backlog <= count.connections
    /\ StartsQuiet /\ NoEmptyAccept /\ NearerThanTold /\ TakesTurns

(* A pool told to terminate while a child lives comes to its end, and has  *)
(* reaped every child, whatever is merged, pending or dying at that time,  *)
(* one SIGCHLD standing for several of them (processpoll.h:332-371).       *)
TermStopsPool ==
    ("TERM" \in pending /\ \E c \in Children : Alive(c))
        ~> at[Parent] = "stopped" /\ \A c \in Children : at[c] = "reaped"

-----------------------------------------------------------------------------
(* What the repository says of the pool, and the code does not do.         *)

(* The comment at processpoll.h:306 says that a new connection is assigned *)
(* to a child: the children are told of as many as have come.              *)
EachConnectionAssigned ==
    \A n \in 1..MaxConnections :
        (at[Parent] = "loop" /\ count.connections >= n) ~> Len(sentTo) >= n
=============================================================================
