------------------------- MODULE ProcessPoolProofs -------------------------
(***************************************************************************)
(* Proofs about ProcessPool: the types, that no child is sent to an empty  *)
(* backlog, and that the children take turns, for every number of children *)
(* the pool can have and any number of connections, deaths and signals.    *)
(***************************************************************************)
EXTENDS ProcessPool, SequenceTheorems, FiniteSetTheorems,
        WellFoundedInduction, TLAPS

-----------------------------------------------------------------------------
(* The turn.                                                               *)

(* The order of the natural numbers as a set of pairs.                     *)
Below == {ss \in Nat \X Nat : ss[1] < ss[2]}

(* Every set of natural numbers has a least element.                       *)
LEMMA LeastElement ==
    ASSUME NEW T \in SUBSET Nat, T # {}
    PROVE  \E x \in T : \A y \in T : x <= y
<1>1. OpToRel(<, Nat) = Below
  BY Zenon DEF OpToRel, Below
<1>2. IsWellFoundedOn(Below, Nat)
  BY Zenon, <1>1, NatLessThanWellFounded
<1>3. PICK x \in T : \A y \in T : <<y, x>> \notin Below
  BY <1>2, WFMin
<1>4. ASSUME NEW y \in T, y < x
      PROVE  FALSE
  BY <1>3, <1>4 DEF Below
<1>5. QED BY <1>4

(* The remainder of what is at most once around the children.              *)
LEMMA OnceAround ==
    ASSUME NEW x \in 0..(2 * ProcessNumber - 1)
    PROVE  x % ProcessNumber =
               IF x < ProcessNumber THEN x ELSE x - ProcessNumber
<1> USE ConstantsAssumption
<1>1. CASE x < ProcessNumber
  BY <1>1
<1>2. CASE x >= ProcessNumber
  BY <1>2
<1>3. QED BY <1>1, <1>2

(* The child that is k children on from the turn.                          *)
Child(k) ==
    IF turn + k < ProcessNumber THEN turn + k ELSE turn + k - ProcessNumber

(* Going on from the turn and the distance from it undo each other.        *)
LEMMA ChildAndDistance ==
    ASSUME turn \in Children, NEW k \in Children
    PROVE  /\ (turn + k) % ProcessNumber = Child(k)
           /\ Child(k) \in Children /\ Distance(Child(k)) = k
           /\ Distance(k) \in Children /\ Child(Distance(k)) = k
<1> USE ConstantsAssumption DEF Children
<1>1. turn + k \in 0..(2 * ProcessNumber - 1)
  OBVIOUS
<1>2. (turn + k) % ProcessNumber = Child(k)
  <2> DEFINE x == turn + k
  <2> HIDE DEF x
  <2>1. x % ProcessNumber =
            IF x < ProcessNumber THEN x ELSE x - ProcessNumber
    BY <1>1, OnceAround DEF x
  <2>2. QED BY <2>1 DEF x, Child
<1>3. QED BY <1>2 DEF Child, Distance

(* The search from the turn on ends at the child whose turn is nearest.    *)
LEMMA FirstIsNearest ==
    ASSUME turn \in Children, \E c \in Children : slot[c]
    PROVE  /\ FirstFromTurn \in Children
           /\ slot[FirstFromTurn]
           /\ \A c \in Children :
                  slot[c] => Distance(FirstFromTurn) <= Distance(c)
<1> DEFINE index(k) == (turn + k) % ProcessNumber
           First(k) == slot[index(k)] /\ \A j \in 0..(k - 1) : ~slot[index(j)]
           T == {k \in Children : slot[Child(k)]}
<1>1. \A k \in Children : index(k) = Child(k)
  BY ChildAndDistance
<1>2. PICK k \in T : \A j \in T : k <= j
  <2>1. T \in SUBSET Nat
    BY ConstantsAssumption DEF Children
  <2>2. T # {}
    BY ChildAndDistance
  <2>3. QED BY <2>1, <2>2, LeastElement
<1>3. k \in Children /\ First(k)
  <2>1. \A j \in 0..(k - 1) : j \in Children /\ j \notin T
    BY <1>2, ConstantsAssumption DEF Children
  <2>2. QED BY <1>1, <1>2, <2>1
<1>4. PICK n \in Children : First(n) /\ FirstFromTurn = index(n)
  BY <1>3, Zenon DEF FirstFromTurn
<1>5. FirstFromTurn = Child(n) /\ slot[Child(n)]
  BY <1>1, <1>4
<1>6. ASSUME NEW c \in Children, slot[c]
      PROVE  n <= Distance(c)
  <2>1. Distance(c) \in Children /\ slot[index(Distance(c))]
    BY <1>1, <1>6, ChildAndDistance
  <2>2. Distance(c) \notin 0..(n - 1)
    BY <1>4, <2>1
  <2>3. QED BY <2>1, <2>2, ConstantsAssumption DEF Children
<1>7. QED BY <1>5, <1>6, ChildAndDistance

-----------------------------------------------------------------------------
(* The types, in two parts, and the start of the pool.                     *)
Counts ==
    [connections : 0..MaxConnections, deaths : 0..MaxDeaths,
     terminations : 0..MaxTerminations]

Places ==
    /\ at[Parent] \in {"fork", "setup", "loop", "stopped", "aborted"}
    /\ \A c \in Children :
           at[c] \in {"none", "setup", "loop", "accept", "zombie", "reaped"}
    /\ DOMAIN at = Procs

Types ==
    /\ slot \in [Children -> BOOLEAN]
    /\ stop \in [Procs -> BOOLEAN]
    /\ ready \in [Procs -> SUBSET {"listen", "pipe", "sig"}]
    /\ events \in [Procs -> SUBSET {"listen", "pipe", "sig"}]
    /\ pending \subseteq {"CHLD", "TERM"}
    /\ sigPipe \in Seq({"CHLD", "TERM"})
    /\ signals \in Seq({"CHLD", "TERM"})
    /\ messages \in [Children -> 0..MaxConnections]
    /\ backlog \in 0..MaxConnections
    /\ turn \in Children
    /\ sentTo \in Seq(Children)
    /\ count \in Counts
    /\ backlog <= count.connections

Control == Places /\ Types /\ StartsQuiet

(* Counting stays within the bounds.                                       *)
LEMMA CountingOn ==
    ASSUME Types
    PROVE  /\ Counted("connections", MaxConnections) =>
                  /\ count' \in Counts
                  /\ count'.connections = count.connections + 1
           /\ Counted("deaths", MaxDeaths) =>
                  /\ count' \in Counts
                  /\ count'.connections = count.connections
           /\ Counted("terminations", MaxTerminations) =>
                  /\ count' \in Counts
                  /\ count'.connections = count.connections
<1> USE ConstantsAssumption
<1>1. /\ count.connections \in 0..MaxConnections
      /\ count.deaths \in 0..MaxDeaths
      /\ count.terminations \in 0..MaxTerminations
      /\ count = [connections |-> count.connections, deaths |-> count.deaths,
                  terminations |-> count.terminations]
  BY DEF Types, Counts
<1>2. ASSUME Counted("connections", MaxConnections)
      PROVE  /\ count' \in Counts
             /\ count'.connections = count.connections + 1
  <2>1. /\ count.connections < MaxConnections
        /\ count' = [connections |-> count.connections + 1,
                     deaths |-> count.deaths,
                     terminations |-> count.terminations]
    BY <1>1, <1>2 DEF Counted
  <2>2. QED BY <1>1, <2>1 DEF Counts
<1>3. ASSUME Counted("deaths", MaxDeaths)
      PROVE  count' \in Counts /\ count'.connections = count.connections
  <2>1. /\ count.deaths < MaxDeaths
        /\ count' = [connections |-> count.connections,
                     deaths |-> count.deaths + 1,
                     terminations |-> count.terminations]
    BY <1>1, <1>3 DEF Counted
  <2>2. QED BY <1>1, <2>1 DEF Counts
<1>4. ASSUME Counted("terminations", MaxTerminations)
      PROVE  count' \in Counts /\ count'.connections = count.connections
  <2>1. /\ count.terminations < MaxTerminations
        /\ count' = [connections |-> count.connections,
                     deaths |-> count.deaths,
                     terminations |-> count.terminations + 1]
    BY <1>1, <1>4 DEF Counted
  <2>2. QED BY <1>1, <2>1 DEF Counts
<1>5. QED BY <1>2, <1>3, <1>4

(* What is counted is finite.                                              *)
LEMMA ChildrenAreFinite == IsFiniteSet(Children)
<1>1. 0 \in Int /\ ProcessNumber - 1 \in Int
  BY ConstantsAssumption
<1>2. QED BY <1>1, FS_Interval DEF Children

(* So are the children about to accept.                                    *)
LEMMA AboutToAcceptIsFinite ==
    IsFiniteSet(AboutToAccept) /\ Cardinality(AboutToAccept) \in Nat
<1>1. AboutToAccept \in SUBSET Children
  BY DEF AboutToAccept
<1>2. QED BY <1>1, ChildrenAreFinite, FS_Subset, FS_CardinalityType

(* So are the messages on their way.                                       *)
LEMMA OnTheWayIsFinite ==
    IsFiniteSet(OnTheWay) /\ Cardinality(OnTheWay) \in Nat
<1>1. IsFiniteSet(1..MaxConnections)
  <2>1. 1 \in Int /\ MaxConnections \in Int
    BY ConstantsAssumption
  <2>2. QED BY <2>1, FS_Interval
<1>2. IsFiniteSet(Children \X (1..MaxConnections))
  BY <1>1, ChildrenAreFinite, FS_Product
<1>3. OnTheWay \in SUBSET (Children \X (1..MaxConnections))
  BY DEF OnTheWay
<1>4. QED BY <1>2, <1>3, FS_Subset, FS_CardinalityType

NumbersAreNatural ==
    Cardinality(OnTheWay) \in Nat /\ Cardinality(AboutToAccept) \in Nat

(* Both can be counted, in every state.                                    *)
LEMMA NumbersNatural == NumbersAreNatural
BY OnTheWayIsFinite, AboutToAcceptIsFinite DEF NumbersAreNatural

(* The number of messages on their way is at least that of each child, so  *)
(* an event of the listening socket leaves room for one more.              *)
LEMMA RoomForMessage ==
    ASSUME Types, NoEmptyAccept, "listen" \in events[Parent],
           NEW c \in Children
    PROVE  messages[c] < MaxConnections
<1> USE ConstantsAssumption
<1>1. messages[c] \in 0..MaxConnections
  BY DEF Types
<1>2. IsFiniteSet(OnTheWay)
  BY OnTheWayIsFinite
<1>3. Cardinality(1..messages[c]) <= Cardinality(OnTheWay)
  <2> DEFINE f == [k \in 1..messages[c] |-> <<c, k>>]
  <2>1. f \in Injection(1..messages[c], OnTheWay)
    BY <1>1 DEF OnTheWay, Injection, IsInjective
  <2>2. QED BY <1>2, <2>1, FS_Injection
<1>4. Cardinality(1..messages[c]) = messages[c]
  <2>1. 1 \in Int /\ messages[c] \in Int
    BY <1>1
  <2>2. Cardinality(1..messages[c]) =
            IF 1 > messages[c] THEN 0 ELSE messages[c] - 1 + 1
    BY <2>1, FS_Interval
  <2>3. QED BY <1>1, <2>2
<1>5. Cardinality(AboutToAccept) \in Nat /\ Cardinality(OnTheWay) \in Nat
  BY <1>2, AboutToAcceptIsFinite, FS_CardinalityType
<1>6. Outstanding(Parent, "listen") \in 1..2
  BY DEF Outstanding
<1>7. backlog \in 0..MaxConnections
  BY DEF Types
<1>8. QED BY <1>1, <1>3, <1>4, <1>5, <1>6, <1>7
     DEF NoEmptyAccept, BacklogSuffices

-----------------------------------------------------------------------------
(* Every step keeps each process at one of its places.                     *)
LEMMA PlacesStep ==
    Places /\ StartsQuiet /\ [Next]_vars => Places'
<1> SUFFICES ASSUME Places, StartsQuiet, [Next]_vars
             PROVE  Places'
  OBVIOUS
<1> USE ConstantsAssumption DEF Places, Goto, TurnOver, Procs, Children, Parent
<1>1. CASE ForkChild
  BY <1>1 DEF ForkChild, StartsQuiet
<1>2. CASE SetupParent
  BY <1>2 DEF SetupParent
<1>3. ASSUME NEW p \in Procs, Poll(p)
      PROVE  Places'
  BY <1>3 DEF Poll
<1>4. CASE HandleListen
  BY <1>4 DEF HandleListen
<1>5. CASE RecvSignals
  BY <1>5 DEF RecvSignals
<1>6. CASE HandleChld
  BY <1>6 DEF HandleChld, ReapAll, Zombies, NoneLeft
<1>7. CASE HandleTerm
  BY <1>7 DEF HandleTerm, Ends
<1>8. CASE LeaveParent
  BY <1>8 DEF LeaveParent
<1>9. ASSUME NEW c \in Children, SetupChild(c)
      PROVE  Places'
  BY <1>9 DEF SetupChild
<1>10. ASSUME NEW c \in Children, RecvMessage(c)
      PROVE  Places'
  BY <1>10 DEF RecvMessage
<1>11. ASSUME NEW c \in Children, Accept(c)
      PROVE  Places'
  BY <1>11 DEF Accept
<1>12. ASSUME NEW c \in Children, RecvTerm(c)
      PROVE  Places'
  BY <1>12 DEF RecvTerm
<1>13. ASSUME NEW c \in Children, LeaveChild(c)
      PROVE  Places'
  BY <1>13 DEF LeaveChild, Ends
<1>14. CASE Deliver
  BY <1>14 DEF Deliver
<1>15. CASE Connect
  BY <1>15 DEF Connect, Counted
<1>16. CASE Terminate
  BY <1>16 DEF Terminate, Counted
<1>17. ASSUME NEW c \in Children, ChildDies(c)
      PROVE  Places'
  BY <1>17 DEF ChildDies, Ends, Counted
<1>18. CASE UNCHANGED vars
  BY <1>18 DEF vars
<1>19. QED
  BY <1>1, <1>2, <1>3, <1>4, <1>5, <1>6, <1>7, <1>8, <1>9, <1>10, <1>11,
     <1>12, <1>13, <1>14, <1>15, <1>16, <1>17, <1>18
     DEF Next, RunParent, RunChild

(* Every step keeps the types and the bounds of what is counted.           *)
LEMMA TypesStep ==
    Places /\ Types /\ NoEmptyAccept /\ [Next]_vars => Types'
<1> SUFFICES ASSUME Places, Types, NoEmptyAccept, [Next]_vars
             PROVE  Types'
  OBVIOUS
<1> USE ConstantsAssumption
        DEF Types, Handled, Edge, Procs, Children, Parent, signalling
<1>1. CASE ForkChild
  BY <1>1 DEF ForkChild, Goto
<1>2. CASE SetupParent
  BY <1>2 DEF SetupParent
<1>3. ASSUME NEW p \in Procs, Poll(p)
      PROVE  Types'
  BY <1>3 DEF Poll
<1>4. CASE HandleListen
  <2>1. CASE ~\E c \in Children : slot[c]
    BY <1>4, <2>1 DEF HandleListen
  <2>2. CASE \E c \in Children : slot[c]
    <3>1. FirstFromTurn \in Children
      BY <2>2, FirstIsNearest
    <3>2. PICK i \in Children :
            /\ turn' = NextTurn(i) /\ sentTo' = Append(sentTo, i)
            /\ messages' = messages
                 \/ messages' = [messages EXCEPT ![i] = @ + 1]
            /\ ready' = ready
                 \/ ready' = [ready EXCEPT ![i] = @ \union {"pipe"}]
            /\ events' = [events EXCEPT ![Parent] = @ \ {"listen"}]
      BY <1>4, <2>2, <3>1 DEF HandleListen
    <3>3. messages[i] + 1 \in 0..MaxConnections
      BY <1>4, RoomForMessage, SMTT(30) DEF HandleListen
    <3>4. turn' \in Children
      <4>1. i + 1 \in 0..(2 * ProcessNumber - 1)
        OBVIOUS
      <4>2. QED BY <3>2, <4>1, OnceAround DEF NextTurn
    <3>5. messages' \in [Children -> 0..MaxConnections]
      BY <3>2, <3>3
    <3>6. sentTo' \in Seq(Children)
      BY <3>2
    <3>7. /\ ready' \in [Procs -> SUBSET {"listen", "pipe", "sig"}]
          /\ events' \in [Procs -> SUBSET {"listen", "pipe", "sig"}]
      BY <3>2, SMTT(30)
    <3>8. UNCHANGED <<slot, stop, signalling, backlog, count>>
      BY <1>4, <2>2 DEF HandleListen
    <3>9. QED BY <3>4, <3>5, <3>6, <3>7, <3>8
  <2>3. QED BY <2>1, <2>2
<1>5. CASE RecvSignals
  BY <1>5 DEF RecvSignals
<1>6. CASE HandleChld
  BY <1>6 DEF HandleChld, ReapAll, Zombies, NoneLeft
<1>7. CASE HandleTerm
  <2>1. ready' \in [Procs -> SUBSET {"listen", "pipe", "sig"}]
    BY <1>7 DEF HandleTerm
  <2>2. messages' \in [Children -> 0..MaxConnections]
    BY <1>7 DEF HandleTerm, Ends
  <2>3. /\ events' \in [Procs -> SUBSET {"listen", "pipe", "sig"}]
        /\ pending' \subseteq {"CHLD", "TERM"}
    BY <1>7 DEF HandleTerm, Ends
  <2>4. signals' \in Seq({"CHLD", "TERM"})
    BY <1>7 DEF HandleTerm
  <2>5. QED BY <1>7, <2>1, <2>2, <2>3, <2>4 DEF HandleTerm
<1>8. CASE LeaveParent
  BY <1>8 DEF LeaveParent
<1>9. ASSUME NEW c \in Children, SetupChild(c)
      PROVE  Types'
  <2>1. \/ ready' = ready
        \/ ready' = [ready EXCEPT ![c] = @ \union {"pipe"}]
    BY <1>9 DEF SetupChild
  <2>2. QED BY <1>9, <2>1 DEF SetupChild
<1>10. ASSUME NEW c \in Children, RecvMessage(c)
      PROVE  Types'
  BY <1>10 DEF RecvMessage
<1>11. ASSUME NEW c \in Children, Accept(c)
      PROVE  Types'
  <2>1. /\ UNCHANGED <<slot, stop, ready, events, signalling, messages, turn,
                       sentTo, count>>
        /\ backlog' = IF backlog > 0 THEN backlog - 1 ELSE 0
    BY <1>11 DEF Accept
  <2>2. backlog' \in 0..MaxConnections /\ backlog' <= backlog
    BY <2>1
  <2>3. count.connections \in 0..MaxConnections
    BY DEF Counts
  <2>4. backlog' <= count.connections
    BY <2>2, <2>3
  <2>5. QED BY <2>1, <2>2, <2>4
<1>12. ASSUME NEW c \in Children, RecvTerm(c)
      PROVE  Types'
  BY <1>12 DEF RecvTerm
<1>13. ASSUME NEW c \in Children, LeaveChild(c)
      PROVE  Types'
  BY <1>13 DEF LeaveChild, Ends
<1>14. CASE Deliver
  BY <1>14 DEF Deliver
<1>15. CASE Connect
  <2>1. /\ count' \in Counts
        /\ count'.connections = count.connections + 1
    BY <1>15, CountingOn DEF Connect
  <2>2. QED BY <1>15, <2>1, SMTT(30) DEF Connect, Counts
<1>16. CASE Terminate
  <2>1. count' \in Counts /\ count'.connections = count.connections
    BY <1>16, CountingOn DEF Terminate
  <2>2. QED BY <1>16, <2>1 DEF Terminate
<1>17. ASSUME NEW c \in Children, ChildDies(c)
      PROVE  Types'
  <2>1. count' \in Counts /\ count'.connections = count.connections
    BY <1>17, CountingOn DEF ChildDies
  <2>2. /\ messages' \in [Children -> 0..MaxConnections]
        /\ events' \in [Procs -> SUBSET {"listen", "pipe", "sig"}]
        /\ pending' \subseteq {"CHLD", "TERM"}
    BY <1>17 DEF ChildDies, Ends
  <2>3. QED BY <1>17, <2>1, <2>2 DEF ChildDies
<1>18. CASE UNCHANGED vars
  BY <1>18 DEF vars
<1>19. QED
  BY <1>1, <1>2, <1>3, <1>4, <1>5, <1>6, <1>7, <1>8, <1>9, <1>10, <1>11,
     <1>12, <1>13, <1>14, <1>15, <1>16, <1>17, <1>18
     DEF Next, RunParent, RunChild

(* A process that has not been set up is told nothing.                     *)
LEMMA QuietStep ==
    Places /\ Types /\ NoEmptyAccept /\ StartsQuiet /\ [Next]_vars
        => StartsQuiet'
<1> SUFFICES ASSUME Places, Types, NoEmptyAccept, StartsQuiet, [Next]_vars
             PROVE  StartsQuiet'
  OBVIOUS
<1> USE ConstantsAssumption
        DEF Places, Types, StartsQuiet, Quiet, Goto, Handled, AboutToAccept,
            Edge, TurnOver, Procs, Children, Parent
<1>1. CASE ForkChild
  <2>1. PICK n \in Children : \A c \in Children : at[c] = "none" <=> c >= n
    BY <1>1 DEF ForkChild
  <2>2. Cardinality({d \in Children : at[d] # "none"}) = n
    <3>1. {d \in Children : at[d] # "none"} = 0..(n - 1)
      BY <2>1
    <3>2. Cardinality(0..(n - 1)) = n
      <4>1. 0 \in Int /\ n - 1 \in Int
        OBVIOUS
      <4>2. Cardinality(0..(n - 1)) =
                IF 0 > n - 1 THEN 0 ELSE n - 1 - 0 + 1
        BY <4>1, FS_Interval
      <4>3. QED BY <4>2
    <3>3. QED BY <3>1, <3>2
  <2>3. CASE at' = [at EXCEPT ![n] = "setup",
                              ![Parent] = IF n + 1 = ProcessNumber
                                          THEN "setup" ELSE "fork"]
    <3>1. at'[Parent] = IF n + 1 = ProcessNumber THEN "setup" ELSE "fork"
      BY <2>3
    <3>2. \A c \in Children : at'[c] = IF c = n THEN "setup" ELSE at[c]
      <4>1. Parent \notin Children /\ Children \subseteq Procs
        OBVIOUS
      <4>2. QED BY <2>3, <4>1
    <3>3. at'[Parent] = "fork" =>
            /\ n + 1 \in Children
            /\ \A c \in Children : at'[c] = "none" <=> c >= n + 1
      BY <2>1, <3>1, <3>2
    <3>4. UNCHANGED <<ready, events, sentTo, messages>> /\ at[Parent] = "fork"
      BY <1>1 DEF ForkChild
    <3>5. AboutToAccept' = {}
      BY <3>2, <3>4
    <3>6. \A c \in Children : at[c] \in {"none", "setup"} =>
                              ready[c] = {} /\ events[c] = {}
      OBVIOUS
    <3>7. \A c \in Children : at'[c] \in {"none", "setup"} =>
                              ready'[c] = {} /\ events'[c] = {}
      BY <2>1, <3>2, <3>4, <3>6
    <3>8. QED BY <3>3, <3>4, <3>5, <3>7
  <2>4. CASE Goto(Parent, "aborted")
    BY <1>1, <2>4 DEF ForkChild, signalling
  <2>5. QED BY <1>1, <2>2, <2>3, <2>4 DEF ForkChild
<1>2. CASE SetupParent
  BY <1>2 DEF SetupParent
<1>3. ASSUME NEW p \in Procs, Poll(p)
      PROVE  StartsQuiet'
  BY <1>3 DEF Poll
<1>4. CASE HandleListen
  BY <1>4 DEF HandleListen
<1>5. CASE RecvSignals
  BY <1>5 DEF RecvSignals
<1>6. CASE HandleChld
  BY <1>6 DEF HandleChld, ReapAll, Zombies, NoneLeft
<1>7. CASE HandleTerm
  BY <1>7 DEF HandleTerm, Ends
<1>8. CASE LeaveParent
  BY <1>8 DEF LeaveParent
<1>9. ASSUME NEW c \in Children, SetupChild(c)
      PROVE  StartsQuiet'
  BY <1>9 DEF SetupChild
<1>10. ASSUME NEW c \in Children, RecvMessage(c)
      PROVE  StartsQuiet'
  <2>1. messages[c] # 0
    BY <1>10 DEF RecvMessage, NoEmptyAccept, EventsHaveMessages, Outstanding,
                Alive
  <2>2. at[Parent] \notin {"fork", "setup"} /\ at[c] = "loop"
    BY <1>10, <2>1 DEF RecvMessage
  <2>3. QED BY <1>10, <2>2 DEF RecvMessage
<1>11. ASSUME NEW c \in Children, Accept(c)
      PROVE  StartsQuiet'
  BY <1>11 DEF Accept
<1>12. ASSUME NEW c \in Children, RecvTerm(c)
      PROVE  StartsQuiet'
  BY <1>12 DEF RecvTerm
<1>13. ASSUME NEW c \in Children, LeaveChild(c)
      PROVE  StartsQuiet'
  BY <1>13 DEF LeaveChild, Ends
<1>14. CASE Deliver
  BY <1>14 DEF Deliver
<1>15. CASE Connect
  BY <1>15 DEF Connect, Counted
<1>16. CASE Terminate
  BY <1>16 DEF Terminate, Counted
<1>17. ASSUME NEW c \in Children, ChildDies(c)
      PROVE  StartsQuiet'
  <2>1. /\ at' = [p \in Procs |-> IF p \in {c} THEN "zombie" ELSE at[p]]
        /\ messages' = [d \in Children |->
                            IF d \in {c} THEN 0 ELSE messages[d]]
        /\ events' = [p \in Procs |-> IF p \in {c} THEN {} ELSE events[p]]
        /\ UNCHANGED <<ready, sentTo>>
    BY <1>17 DEF ChildDies, Ends
  <2>2. at[c] # "none"
    BY <1>17 DEF ChildDies, Alive
  <2>3. QED BY <2>1, <2>2
<1>18. CASE UNCHANGED vars
  BY <1>18 DEF vars
<1>19. QED
  BY <1>1, <1>2, <1>3, <1>4, <1>5, <1>6, <1>7, <1>8, <1>9, <1>10, <1>11,
     <1>12, <1>13, <1>14, <1>15, <1>16, <1>17, <1>18
     DEF Next, RunParent, RunChild

-----------------------------------------------------------------------------
(* How the numbers of messages and of children about to accept change.     *)
LEMMA MessageAdded ==
    ASSUME Types, NEW c \in Children, messages[c] < MaxConnections,
           messages' = [messages EXCEPT ![c] = @ + 1]
    PROVE  Cardinality(OnTheWay)' = Cardinality(OnTheWay) + 1
<1> USE ConstantsAssumption
<1>1. messages \in [Children -> 0..MaxConnections]
  BY DEF Types
<1>2. OnTheWay' = OnTheWay \union {<<c, messages[c] + 1>>}
  BY <1>1 DEF OnTheWay
<1>3. <<c, messages[c] + 1>> \notin OnTheWay
  BY <1>1 DEF OnTheWay
<1>4. QED BY <1>2, <1>3, OnTheWayIsFinite, FS_AddElement

(* One message received is one less on its way.                            *)
LEMMA MessageTaken ==
    ASSUME Types, NEW c \in Children, messages[c] # 0,
           messages' = [messages EXCEPT ![c] = @ - 1]
    PROVE  Cardinality(OnTheWay)' = Cardinality(OnTheWay) - 1
<1> USE ConstantsAssumption
<1>1. messages \in [Children -> 0..MaxConnections]
  BY DEF Types
<1>2. OnTheWay' = OnTheWay \ {<<c, messages[c]>>}
  BY <1>1 DEF OnTheWay
<1>3. <<c, messages[c]>> \in OnTheWay
  BY <1>1 DEF OnTheWay
<1>4. QED BY <1>2, <1>3, OnTheWayIsFinite, FS_RemoveElement

(* No more messages for any child are no more in all.                      *)
LEMMA FewerMessages ==
    ASSUME Types, Types', \A c \in Children : messages'[c] <= messages[c]
    PROVE  Cardinality(OnTheWay)' <= Cardinality(OnTheWay)
<1>1. /\ messages \in [Children -> 0..MaxConnections]
      /\ messages' \in [Children -> 0..MaxConnections]
  BY DEF Types
<1>2. OnTheWay' \in SUBSET OnTheWay
  BY <1>1, ConstantsAssumption DEF OnTheWay
<1>3. QED BY <1>2, OnTheWayIsFinite, FS_Subset

(* No more children about to accept are no greater number.                 *)
LEMMA FewerAccept ==
    ASSUME \A c \in Children : at'[c] = "accept" => at[c] = "accept"
    PROVE  Cardinality(AboutToAccept)' <= Cardinality(AboutToAccept)
<1>1. AboutToAccept' \in SUBSET AboutToAccept
  BY DEF AboutToAccept
<1>2. QED BY <1>1, AboutToAcceptIsFinite, FS_Subset

(* A child that comes to accept is one more.                               *)
LEMMA AcceptBegins ==
    ASSUME Places, NEW c \in Children, at[c] # "accept", Goto(c, "accept")
    PROVE  Cardinality(AboutToAccept)' = Cardinality(AboutToAccept) + 1
<1>1. AboutToAccept' = AboutToAccept \union {c} /\ c \notin AboutToAccept
  BY DEF AboutToAccept, Goto, Places, Procs
<1>2. QED BY <1>1, AboutToAcceptIsFinite, FS_AddElement

(* A child that has accepted is one less.                                  *)
LEMMA AcceptEnds ==
    ASSUME Places, NEW c \in Children, at[c] = "accept", Goto(c, "loop")
    PROVE  Cardinality(AboutToAccept)' = Cardinality(AboutToAccept) - 1
<1>1. AboutToAccept' = AboutToAccept \ {c} /\ c \in AboutToAccept
  BY DEF AboutToAccept, Goto, Places, Procs
<1>2. QED BY <1>1, AboutToAcceptIsFinite, FS_RemoveElement

(* A step that adds nothing to what waits for connections keeps enough.    *)
LEMMA NothingAdded ==
    ASSUME Types, Types', BacklogSuffices, backlog' = backlog,
           \A c \in Children : messages'[c] <= messages[c],
           \A c \in Children : at'[c] = "accept" => at[c] = "accept",
           Outstanding(Parent, "listen")' <= Outstanding(Parent, "listen")
    PROVE  BacklogSuffices'
<1>1. /\ Cardinality(OnTheWay)' <= Cardinality(OnTheWay)
      /\ Cardinality(AboutToAccept)' <= Cardinality(AboutToAccept)
  BY FewerMessages, FewerAccept
<1>2. Outstanding(Parent, "listen") \in 0..2
      /\ Outstanding(Parent, "listen")' \in 0..2
  BY DEF Outstanding
<1>3. NumbersAreNatural /\ NumbersAreNatural'
  BY NumbersNatural, PTL
<1>4. backlog \in Nat
  BY ConstantsAssumption DEF Types
<1>5. QED
  BY <1>1, <1>2, <1>3, <1>4 DEF BacklogSuffices, NumbersAreNatural

(* No step makes a child find the backlog empty.                           *)
LEMMA BacklogStep ==
    ASSUME Control, Control', NoEmptyAccept, [Next]_vars
    PROVE  BacklogSuffices'
<1> USE ConstantsAssumption
<1> DEFINE Calm == /\ backlog' = backlog
                   /\ \A c \in Children : messages'[c] <= messages[c]
                   /\ \A c \in Children :
                          at'[c] = "accept" => at[c] = "accept"
                   /\ Outstanding(Parent, "listen")'
                          <= Outstanding(Parent, "listen")
<1>1. Types /\ Types' /\ Places /\ BacklogSuffices /\ EventsHaveMessages
  BY DEF Control, NoEmptyAccept
<1>2. Calm => BacklogSuffices'
  BY <1>1, NothingAdded
<1> HIDE DEF Calm
<1>3. /\ NumbersAreNatural /\ NumbersAreNatural' /\ backlog \in Nat
      /\ Outstanding(Parent, "listen") \in 0..2
      /\ Outstanding(Parent, "listen")' \in 0..2
  <2>1. NumbersAreNatural /\ NumbersAreNatural'
    BY NumbersNatural, PTL
  <2>2. QED BY <1>1, <2>1 DEF Outstanding, Types
<1>4. \A c \in Children : messages[c] \in Nat
  BY <1>1 DEF Types
<1>5. CASE \/ ForkChild \/ RecvSignals \/ HandleChld \/ HandleTerm
           \/ LeaveParent \/ Deliver \/ Terminate \/ UNCHANGED vars
           \/ Poll(Parent)
  <2> USE <1>1, <1>4
      DEF Calm, Types, Places, Procs, Outstanding, Goto, Handled, Edge
  <2>1. CASE ForkChild
    <3>1. PICK n :
            \/ at' = [at EXCEPT ![n] = "setup",
                                ![Parent] = IF n + 1 = ProcessNumber
                                            THEN "setup" ELSE "fork"]
            \/ at' = [at EXCEPT ![Parent] = "aborted"]
      BY <2>1 DEF ForkChild
    <3>2. \A c \in Children : at'[c] = "accept" => at[c] = "accept"
      BY <3>1
    <3>3. QED BY <1>2, <2>1, <3>2 DEF ForkChild
  <2>2. CASE RecvSignals
    BY <1>2, <2>2 DEF RecvSignals
  <2>3. CASE HandleChld
    BY <1>2, <2>3 DEF HandleChld
  <2>4. CASE HandleTerm
    BY <1>2, <2>4 DEF HandleTerm, Ends
  <2>5. CASE LeaveParent
    BY <1>2, <2>5 DEF LeaveParent
  <2>6. CASE Deliver
    BY <1>2, <2>6 DEF Deliver
  <2>7. CASE Terminate
    BY <1>2, <2>7 DEF Terminate
  <2>8. CASE UNCHANGED vars
    BY <1>2, <2>8 DEF vars
  <2>9. CASE Poll(Parent)
    BY <1>2, <2>9 DEF Poll, TurnOver
  <2>10. QED
    BY <1>5, <2>1, <2>2, <2>3, <2>4, <2>5, <2>6, <2>7, <2>8, <2>9
<1>6. ASSUME NEW c \in Children,
             \/ SetupChild(c) \/ Poll(c) \/ RecvTerm(c) \/ LeaveChild(c)
             \/ ChildDies(c)
      PROVE  BacklogSuffices'
  <2> USE <1>1, <1>4
      DEF Calm, Types, Places, Procs, Parent, Children, Outstanding, Goto,
          Handled, Edge
  <2>1. CASE SetupChild(c)
    BY <1>2, <2>1 DEF SetupChild
  <2>2. CASE Poll(c)
    BY <1>2, <2>2 DEF Poll
  <2>3. CASE RecvTerm(c)
    BY <1>2, <2>3 DEF RecvTerm
  <2>4. CASE LeaveChild(c)
    BY <1>2, <2>4 DEF LeaveChild, Ends
  <2>5. CASE ChildDies(c)
    BY <1>2, <2>5 DEF ChildDies, Ends
  <2>6. QED BY <1>6, <2>1, <2>2, <2>3, <2>4, <2>5
<1>7. CASE SetupParent
  <2>1. /\ Quiet(Parent) /\ AboutToAccept = {}
        /\ \A c \in Children : messages[c] = 0
    BY <1>7 DEF SetupParent, Control, StartsQuiet
  <2>2. OnTheWay' = {} /\ AboutToAccept' = {}
    BY <1>1, <1>7, <2>1
       DEF SetupParent, OnTheWay, AboutToAccept, Goto, Places, Procs
  <2>3. Cardinality(OnTheWay') = 0 /\ Cardinality(AboutToAccept') = 0
    BY <2>2, FS_EmptySet
  <2>4. /\ backlog' = backlog
        /\ Outstanding(Parent, "listen")' <= IF backlog > 0 THEN 1 ELSE 0
    BY <1>1, <1>3, <1>7, <2>1
       DEF SetupParent, Quiet, Edge, Outstanding, Types, Procs
  <2>5. QED BY <1>3, <2>3, <2>4 DEF BacklogSuffices
<1>8. CASE HandleListen
  <2>1. CASE ~\E c \in Children : slot[c]
    BY <1>1, <1>2, <1>4, <1>8, <2>1
       DEF HandleListen, Calm, Types, Procs, Outstanding
  <2>2. CASE \E c \in Children : slot[c]
    <3>1. FirstFromTurn \in Children
      BY <1>1, <2>2, FirstIsNearest DEF Types
    <3>2. PICK i \in Children :
            /\ messages' = messages
                 \/ messages' = [messages EXCEPT ![i] = @ + 1]
            /\ ready' = ready
                 \/ ready' = [ready EXCEPT ![i] = @ \union {"pipe"}]
            /\ events' = [events EXCEPT ![Parent] = @ \ {"listen"}]
            /\ UNCHANGED <<at, backlog>>
      BY <1>8, <2>2, <3>1 DEF HandleListen, Edge, Handled
    <3>3. Outstanding(Parent, "listen")' = Outstanding(Parent, "listen") - 1
      <4>1. "listen" \in events[Parent] /\ "listen" \notin events'[Parent]
        BY <1>1, <1>8, <3>2 DEF HandleListen, Types, Procs
      <4>2. ready'[Parent] = ready[Parent]
        BY <1>1, <3>2 DEF Types, Procs, Parent, Children
      <4>3. QED BY <4>1, <4>2 DEF Outstanding
    <3>4. Cardinality(AboutToAccept)' = Cardinality(AboutToAccept)
      BY <3>2 DEF AboutToAccept
    <3>5. CASE messages' = messages
      BY <1>2, <1>3, <1>4, <3>2, <3>3, <3>5 DEF Calm
    <3>6. CASE messages' = [messages EXCEPT ![i] = @ + 1]
      <4>1. messages[i] < MaxConnections
        BY <1>1, <1>8, RoomForMessage DEF HandleListen, NoEmptyAccept
      <4>2. Cardinality(OnTheWay)' = Cardinality(OnTheWay) + 1
        BY <1>1, <3>6, <4>1, MessageAdded
      <4>3. QED
        BY <1>1, <1>3, <3>2, <3>3, <3>4, <4>2
           DEF BacklogSuffices, NumbersAreNatural
    <3>7. QED BY <3>2, <3>5, <3>6
  <2>3. QED BY <2>1, <2>2
<1>9. ASSUME NEW c \in Children, RecvMessage(c)
      PROVE  BacklogSuffices'
  <2>1. messages[c] # 0
    BY <1>1, <1>4, <1>9
       DEF RecvMessage, EventsHaveMessages, Outstanding, Alive
  <2>2. /\ messages' = [messages EXCEPT ![c] = @ - 1]
        /\ UNCHANGED <<ready, backlog>>
    <3>1. messages[c] > 0
      BY <1>4, <2>1
    <3>2. (IF messages[c] > 0 THEN messages[c] - 1 ELSE 0) = messages[c] - 1
      BY <3>1
    <3>3. QED BY <1>9, <3>2 DEF RecvMessage
  <2>3. Cardinality(OnTheWay)' = Cardinality(OnTheWay) - 1
    BY <1>1, <2>1, <2>2, MessageTaken
  <2>4. Cardinality(AboutToAccept)' = Cardinality(AboutToAccept) + 1
    BY <1>1, <1>9, AcceptBegins DEF RecvMessage
  <2>5. Outstanding(Parent, "listen")' = Outstanding(Parent, "listen")
    BY <1>1, <1>9, <2>2
       DEF RecvMessage, Handled, Outstanding, Types, Procs, Parent, Children
  <2>6. QED
    BY <1>1, <1>3, <2>2, <2>3, <2>4, <2>5
       DEF BacklogSuffices, NumbersAreNatural
<1>10. ASSUME NEW c \in Children, Accept(c)
       PROVE  BacklogSuffices'
  <2>1. Cardinality(AboutToAccept)' = Cardinality(AboutToAccept) - 1
    BY <1>1, <1>10, AcceptEnds DEF Accept
  <2>2. UNCHANGED <<ready, events, messages>>
    BY <1>10 DEF Accept
  <2>3. /\ Cardinality(OnTheWay)' = Cardinality(OnTheWay)
        /\ Outstanding(Parent, "listen")' = Outstanding(Parent, "listen")
    BY <2>2 DEF OnTheWay, Outstanding
  <2>4. backlog' >= backlog - 1
    BY <1>3, <1>10 DEF Accept
  <2>5. backlog' \in Nat
    BY <1>3, <1>10 DEF Accept
  <2>6. QED
    BY <1>1, <1>3, <2>1, <2>3, <2>4, <2>5
       DEF BacklogSuffices, NumbersAreNatural
<1>11. CASE Connect
  <2>1. UNCHANGED <<at, messages, events>> /\ backlog' = backlog + 1
    BY <1>11 DEF Connect
  <2>2. /\ Cardinality(OnTheWay)' = Cardinality(OnTheWay)
        /\ Cardinality(AboutToAccept)' = Cardinality(AboutToAccept)
    BY <2>1 DEF OnTheWay, AboutToAccept
  <2>3. Outstanding(Parent, "listen")' <= Outstanding(Parent, "listen") + 1
    <3>1. ready' = ready \/ Edge(Parent, "listen")
      BY <1>11 DEF Connect
    <3>2. QED BY <1>1, <2>1, <3>1 DEF Edge, Outstanding, Types, Procs
  <2>4. QED
    BY <1>1, <1>3, <2>1, <2>2, <2>3
       DEF BacklogSuffices, NumbersAreNatural
<1>12. QED
  BY <1>5, <1>6, <1>7, <1>8, <1>9, <1>10, <1>11
     DEF Next, RunParent, RunChild, Procs

(* Nor without a message for its event.                                    *)
LEMMA EventsStep ==
    ASSUME Control, Control', NoEmptyAccept, [Next]_vars
    PROVE  EventsHaveMessages'
<1> USE ConstantsAssumption
<1> DEFINE Same(c) ==
        /\ Alive(c)' => Alive(c)
        /\ ready'[c] = ready[c] /\ events'[c] = events[c]
        /\ messages'[c] = messages[c]
<1> SUFFICES ASSUME NEW d \in Children, Alive(d)'
             PROVE  Outstanding(d, "pipe")' <= messages'[d]
  BY DEF EventsHaveMessages
<1>1. /\ Types /\ Types' /\ Places /\ Places' /\ StartsQuiet /\ StartsQuiet'
      /\ EventsHaveMessages
  BY DEF Control, NoEmptyAccept
<1>2. messages[d] \in Nat /\ messages'[d] \in Nat
  BY <1>1 DEF Types
<1>3. Same(d) => Outstanding(d, "pipe")' <= messages'[d]
  BY <1>1 DEF EventsHaveMessages, Outstanding
<1>4. at'[d] = "setup" => Outstanding(d, "pipe")' <= messages'[d]
  BY <1>1, <1>2 DEF StartsQuiet, Quiet, Outstanding
<1>5. ASSUME NEW c \in Children, c # d, RunChild(c) \/ ChildDies(c)
      PROVE  Same(d)
  <2> USE <1>1 DEF Types, Places, Procs, Alive, Goto, Handled, Edge
  <2>1. CASE SetupChild(c)
    BY <1>5, <2>1 DEF SetupChild
  <2>2. CASE Poll(c)
    BY <1>5, <2>2 DEF Poll
  <2>3. CASE RecvMessage(c)
    BY <1>5, <2>3 DEF RecvMessage
  <2>4. CASE Accept(c)
    BY <1>5, <2>4 DEF Accept
  <2>5. CASE RecvTerm(c)
    BY <1>5, <2>5 DEF RecvTerm
  <2>6. CASE LeaveChild(c)
    BY <1>5, <2>6 DEF LeaveChild, Ends
  <2>7. CASE ChildDies(c)
    BY <1>5, <2>7 DEF ChildDies, Ends
  <2>8. QED
    BY <1>5, <2>1, <2>2, <2>3, <2>4, <2>5, <2>6, <2>7 DEF RunChild
<1>6. ASSUME RunChild(d) \/ ChildDies(d)
      PROVE  Outstanding(d, "pipe")' <= messages'[d]
  <2> USE <1>1, <1>2
      DEF Types, Places, Procs, Alive, Goto, Handled, Edge, Outstanding,
          EventsHaveMessages
  <2>1. CASE SetupChild(d)
    BY <2>1 DEF SetupChild, StartsQuiet, Quiet
  <2>2. CASE Poll(d)
    BY <2>2 DEF Poll, TurnOver
  <2>3. CASE RecvMessage(d)
    BY <2>3 DEF RecvMessage
  <2>4. CASE Accept(d)
    BY <2>4 DEF Accept
  <2>5. CASE RecvTerm(d)
    BY <2>5 DEF RecvTerm
  <2>6. CASE LeaveChild(d)
    BY <2>6 DEF LeaveChild, Ends
  <2>7. CASE ChildDies(d)
    BY <2>7 DEF ChildDies, Ends
  <2>8. QED BY <1>6, <2>1, <2>2, <2>3, <2>4, <2>5, <2>6, <2>7 DEF RunChild
<1>7. CASE HandleListen
  <2>1. CASE ~\E c \in Children : slot[c]
    BY <1>1, <1>3, <1>7, <2>1
       DEF HandleListen, Types, Procs, Parent, Children, Alive
  <2>2. CASE \E c \in Children : slot[c]
    <3>1. FirstFromTurn \in Children
      BY <1>1, <2>2, FirstIsNearest DEF Types
    <3>2. PICK i \in Children :
            /\ messages' = IF Alive(i) THEN [messages EXCEPT ![i] = @ + 1]
                           ELSE messages
            /\ ready' = IF at[i] \in {"loop", "accept"}
                        THEN [ready EXCEPT ![i] = @ \union {"pipe"}]
                        ELSE ready
            /\ events' = [events EXCEPT ![Parent] = @ \ {"listen"}]
            /\ at' = at
      BY <1>7, <2>2, <3>1 DEF HandleListen, Edge, Handled
    <3>3. events'[d] = events[d]
      BY <1>1, <3>2 DEF Types, Procs, Parent, Children
    <3>4. CASE i = d /\ at[d] \in {"loop", "accept"}
      <4>1. messages'[d] = messages[d] + 1
        BY <1>1, <3>2, <3>4 DEF Types, Alive
      <4>2. Outstanding(d, "pipe")' <= Outstanding(d, "pipe") + 1
        BY <1>1, <3>2, <3>3, <3>4 DEF Types, Procs, Outstanding
      <4>3. Outstanding(d, "pipe") <= messages[d]
        BY <1>1, <3>4 DEF EventsHaveMessages, Alive
      <4>4. Outstanding(d, "pipe") \in 0..2 /\ Outstanding(d, "pipe")' \in 0..2
        BY DEF Outstanding
      <4>5. QED BY <1>2, <4>1, <4>2, <4>3, <4>4
    <3>5. CASE i # d
      BY <1>1, <1>3, <3>2, <3>3, <3>5 DEF Types, Procs, Alive
    <3>6. CASE i = d /\ at[d] \notin {"loop", "accept"}
      BY <1>4, <3>2, <3>6 DEF Alive
    <3>7. QED BY <3>4, <3>5, <3>6
  <2>3. QED BY <2>1, <2>2
<1>8. CASE \/ ForkChild \/ SetupParent \/ Poll(Parent) \/ RecvSignals
           \/ HandleChld \/ HandleTerm \/ LeaveParent \/ Deliver \/ Connect
           \/ Terminate \/ UNCHANGED vars
  <2> USE <1>1, <1>2, <1>3, <1>4
      DEF Types, Places, Procs, Parent, Children, Alive, Goto, Handled, Edge
  <2>1. CASE ForkChild
    <3>1. PICK n :
            \/ at' = [at EXCEPT ![n] = "setup",
                                ![Parent] = IF n + 1 = ProcessNumber
                                            THEN "setup" ELSE "fork"]
            \/ at' = [at EXCEPT ![Parent] = "aborted"]
      BY <2>1 DEF ForkChild
    <3>2. at'[d] = at[d] \/ at'[d] = "setup"
      BY <3>1
    <3>3. QED BY <2>1, <3>2 DEF ForkChild
  <2>2. CASE SetupParent
    BY <2>2 DEF SetupParent
  <2>3. CASE Poll(Parent)
    BY <2>3 DEF Poll
  <2>4. CASE RecvSignals
    BY <2>4 DEF RecvSignals
  <2>5. CASE HandleChld
    BY <2>5 DEF HandleChld
  <2>6. CASE HandleTerm
    <3>1. PICK dead \in SUBSET Children : Ends(dead)
      BY <2>6 DEF HandleTerm
    <3>2. ready'[d] = ready[d] \/ ready'[d] = ready[d] \union {"sig"}
      BY <2>6 DEF HandleTerm
    <3>3. d \notin dead /\ Alive(d)
      BY <3>1 DEF Ends
    <3>4. events'[d] = events[d] /\ messages'[d] = messages[d]
      BY <3>1, <3>3 DEF Ends
    <3>5. Outstanding(d, "pipe")' = Outstanding(d, "pipe")
      BY <3>2, <3>4 DEF Outstanding
    <3>6. QED BY <3>3, <3>4, <3>5 DEF EventsHaveMessages
  <2>7. CASE LeaveParent
    BY <2>7 DEF LeaveParent
  <2>8. CASE Deliver
    BY <2>8 DEF Deliver
  <2>9. CASE Connect
    BY <2>9 DEF Connect
  <2>10. CASE Terminate
    BY <2>10 DEF Terminate
  <2>11. CASE UNCHANGED vars
    BY <2>11 DEF vars
  <2>12. QED
    BY <1>8, <2>1, <2>2, <2>3, <2>4, <2>5, <2>6, <2>7, <2>8, <2>9, <2>10,
       <2>11
<1>9. QED
  BY <1>3, <1>5, <1>6, <1>7, <1>8 DEF Next, RunParent

-----------------------------------------------------------------------------
(* Only a send changes the turn, and only a fork takes a slot, before any  *)
(* send.                                                                   *)
LEMMA TurnsRest ==
    ASSUME Control, [Next]_vars, ~HandleListen
    PROVE  /\ turn' = turn /\ sentTo' = sentTo
           /\ sentTo = <<>> \/ \A c \in Children : slot'[c] => slot[c]
<1>1. CASE ForkChild
  BY <1>1 DEF ForkChild, Control, StartsQuiet
<1>2. CASE HandleChld
  BY <1>2 DEF HandleChld
<1>3. CASE ~ForkChild /\ ~HandleChld
  BY <1>3
     DEF Next, RunParent, RunChild, SetupParent, Poll, RecvSignals,
         HandleTerm, LeaveParent, SetupChild, RecvMessage, Accept, RecvTerm,
         LeaveChild, Deliver, Connect, Terminate, ChildDies, vars
<1>4. QED BY <1>1, <1>2, <1>3

(* One send: the child told goes to the end of the rotation, and every     *)
(* child that has not been told since comes nearer to its turn.            *)
LEMMA TurnsServe ==
    ASSUME Control, NearerThanTold, TakesTurns, NEW i \in Children, slot[i],
           \A c \in Children : slot[c] => Distance(i) <= Distance(c),
           turn' = NextTurn(i), sentTo' = Append(sentTo, i), slot' = slot
    PROVE  NearerThanTold' /\ TakesTurns'
<1> USE ConstantsAssumption
<1> DEFINE n == Len(sentTo) + 1
<1>1. turn \in Children /\ sentTo \in Seq(Children)
  BY DEF Control, Types
<1>2. /\ Len(sentTo') = n /\ n \in Nat /\ sentTo'[n] = i
      /\ \A p \in 1..(n - 1) : sentTo'[p] = sentTo[p] /\ sentTo[p] \in Children
  BY <1>1
<1> DEFINE Now(c) ==
             IF c >= turn' THEN c - turn' ELSE c - turn' + ProcessNumber
<1>3. ASSUME NEW c \in Children
      PROVE  Now(c) = IF Distance(c) > Distance(i)
                      THEN Distance(c) - Distance(i) - 1
                      ELSE Distance(c) - Distance(i) - 1 + ProcessNumber
  <2> DEFINE x == i + 1
  <2>1. x \in 0..(2 * ProcessNumber - 1) /\ x <= ProcessNumber
    BY DEF Children
  <2>2. turn' = x % ProcessNumber
    BY DEF NextTurn
  <2> HIDE DEF x
  <2>3. turn' = IF x = ProcessNumber THEN 0 ELSE x
    <3>1. x % ProcessNumber =
            IF x < ProcessNumber THEN x ELSE x - ProcessNumber
      BY <2>1, OnceAround
    <3>2. QED BY <2>1, <2>2, <3>1
  <2>4. x = i + 1
    BY DEF x
  <2>5. QED BY <1>1, <2>3, <2>4 DEF Distance, Children
<1>4. \A c \in Children : Distance(c) \in Children
  BY <1>1, ChildAndDistance
<1>5. ASSUME NEW c \in Children, NEW d \in Children, Distance(c) = Distance(d)
      PROVE  c = d
  BY <1>1, <1>5 DEF Distance, Children
<1>6. ASSUME NEW p \in 1..(n - 1), NEW c \in Children \ {sentTo[p]},
             slot[c], \A k \in p..n : sentTo'[k] # c
      PROVE  Now(c) < Now(sentTo[p]) /\ sentTo[p] # i
  <2>1. c # i
    BY <1>2, <1>6
  <2>2. \A k \in p..(n - 1) : sentTo[k] # c
    BY <1>2, <1>6
  <2>3. Distance(c) < Distance(sentTo[p])
    BY <1>6, <2>2 DEF NearerThanTold
  <2>4. Distance(i) < Distance(c)
    <3>1. Distance(i) <= Distance(c) /\ Distance(i) # Distance(c)
      BY <1>5, <1>6, <2>1
    <3>2. QED BY <1>4, <3>1 DEF Children
  <2>5. sentTo[p] \in Children
    BY <1>2
  <2>6. /\ Distance(c) \in Int /\ Distance(i) \in Int
        /\ Distance(sentTo[p]) \in Int
    BY <1>4, <2>5, SMTT(30) DEF Children
  <2>7. Now(c) = Distance(c) - Distance(i) - 1
    BY <1>3, <2>4, <2>6
  <2>8. Now(sentTo[p]) = Distance(sentTo[p]) - Distance(i) - 1
    BY <1>3, <2>3, <2>4, <2>5, <2>6
  <2> HIDE DEF Now
  <2>9. QED BY <2>3, <2>4, <2>6, <2>7, <2>8
<1>7. ASSUME NEW c \in Children \ {i}, slot[c]
      PROVE  Now(c) < Now(i)
  <2>1. Distance(i) <= Distance(c) /\ Distance(i) # Distance(c)
    BY <1>5, <1>7
  <2>2. Distance(c) \in Children /\ Distance(i) \in Children
    BY <1>4
  <2>3. Distance(c) > Distance(i)
    BY <2>1, <2>2 DEF Children
  <2>4. Now(c) = Distance(c) - Distance(i) - 1
    BY <1>3, <2>3
  <2>5. Now(i) = Distance(i) - Distance(i) - 1 + ProcessNumber
    BY <1>3, <2>2 DEF Children
  <2> HIDE DEF Now
  <2>6. QED BY <2>2, <2>3, <2>4, <2>5 DEF Children
<1>8. NearerThanTold'
  <2>1. NearerThanTold' <=>
          \A p \in 1..n : \A c \in Children \ {sentTo'[p]} :
              slot[c] => \/ \E k \in p..n : sentTo'[k] = c
                         \/ Now(c) < Now(sentTo'[p])
    BY <1>2 DEF NearerThanTold, Distance
  <2> HIDE DEF Now
  <2> SUFFICES ASSUME NEW p \in 1..n, NEW c \in Children \ {sentTo'[p]},
                      slot[c], \A k \in p..n : sentTo'[k] # c
               PROVE  Now(c) < Now(sentTo'[p])
    BY <2>1
  <2>2. CASE p = n
    BY <1>2, <1>7, <2>2
  <2>3. CASE p # n
    <3>1. p \in 1..(n - 1) /\ sentTo'[p] = sentTo[p]
      BY <1>2, <2>3
    <3>2. QED BY <1>6, <3>1
  <2>4. QED BY <2>2, <2>3
<1>9. TakesTurns'
  <2> SUFFICES ASSUME NEW q \in 1..n, NEW p \in 1..(q - 1),
                      sentTo'[p] = sentTo'[q],
                      NEW c \in Children \ {sentTo'[p]}, slot[c]
               PROVE  \E k \in p..q : sentTo'[k] = c
    BY <1>2 DEF TakesTurns
  <2>1. p \in 1..(n - 1) /\ sentTo'[p] = sentTo[p]
    BY <1>2
  <2>2. CASE q = n
    BY <1>2, <1>6, <2>1, <2>2
  <2>3. CASE q # n
    <3>1. q \in 1..Len(sentTo) /\ sentTo'[q] = sentTo[q]
      BY <1>2, <2>3
    <3>2. PICK k \in p..q : sentTo[k] = c
      BY <2>1, <3>1 DEF TakesTurns
    <3>3. k \in 1..(n - 1)
      BY <1>2, <3>1
    <3>4. QED BY <1>2, <3>2, <3>3
  <2>4. QED BY <2>2, <2>3
<1>10. QED BY <1>8, <1>9

(* Every step keeps the order of the turns.                                *)
LEMMA TurnsStep ==
    ASSUME Control, NearerThanTold, TakesTurns, [Next]_vars
    PROVE  NearerThanTold' /\ TakesTurns'
<1>1. CASE ~HandleListen
  <2>1. /\ turn' = turn /\ sentTo' = sentTo
        /\ sentTo = <<>> \/ \A c \in Children : slot'[c] => slot[c]
    BY <1>1, TurnsRest
  <2>2. CASE sentTo = <<>>
    BY <2>1, <2>2 DEF NearerThanTold, TakesTurns
  <2>3. CASE \A c \in Children : slot'[c] => slot[c]
    BY <2>1, <2>3 DEF NearerThanTold, TakesTurns, Distance
  <2>4. QED BY <2>1, <2>2, <2>3
<1>2. CASE HandleListen
  <2>1. CASE \E c \in Children : slot[c]
    <3>1. /\ FirstFromTurn \in Children /\ slot[FirstFromTurn]
          /\ \A c \in Children :
                 slot[c] => Distance(FirstFromTurn) <= Distance(c)
      BY <2>1, FirstIsNearest DEF Control, Types
    <3>2. /\ turn' = NextTurn(FirstFromTurn)
          /\ sentTo' = Append(sentTo, FirstFromTurn)
          /\ slot' = slot
      BY <1>2, <2>1 DEF HandleListen
    <3>3. QED BY <3>1, <3>2, TurnsServe
  <2>2. CASE ~\E c \in Children : slot[c]
    BY <1>2, <2>2
       DEF HandleListen, NearerThanTold, TakesTurns, Distance
  <2>3. QED BY <2>1, <2>2
<1>3. QED BY <1>1, <1>2

-----------------------------------------------------------------------------
(* The invariant in the parts the lemmas are about.                        *)
LEMMA InvariantParts ==
    IInv <=> Control /\ NoEmptyAccept /\ NearerThanTold /\ TakesTurns
<1>1. TypeOK /\ backlog <= count.connections <=> Places /\ Types
  BY DEF TypeOK, Places, Types, Counts
<1>2. QED BY <1>1 DEF IInv, Control

(* It holds at the start.                                                  *)
LEMMA InitInvariant == Init => IInv
<1> SUFFICES ASSUME Init
             PROVE  IInv
  OBVIOUS
<1> USE ConstantsAssumption DEF Init
<1>1. Parent \in Procs /\ Parent \notin Children /\ Children \subseteq Procs
  BY DEF Parent, Procs, Children
<1>2. Places
  BY <1>1 DEF Places
<1>3. Types
  <2>1. count \in Counts /\ count.connections = 0
    BY DEF Counts
  <2>2. 0 \in Children
    BY DEF Children
  <2>3. QED BY <2>1, <2>2 DEF Types
<1>4. AboutToAccept = {}
  BY <1>1 DEF AboutToAccept
<1>5. StartsQuiet
  <2>1. 0 \in Children /\ \A c \in Children : at[c] = "none" <=> c >= 0
    BY <1>1 DEF Children
  <2>2. QED BY <1>1, <1>4, <2>1 DEF StartsQuiet, Quiet
<1>6. NoEmptyAccept
  <2>1. OnTheWay = {}
    BY DEF OnTheWay
  <2>2. Cardinality(OnTheWay) = 0 /\ Cardinality(AboutToAccept) = 0
    BY <1>4, <2>1, FS_EmptySet
  <2>3. \A p \in Procs : Outstanding(p, "listen") = 0
                           /\ Outstanding(p, "pipe") = 0
    BY DEF Outstanding
  <2>4. QED
    BY <1>1, <2>2, <2>3
       DEF NoEmptyAccept, BacklogSuffices, EventsHaveMessages
<1>7. NearerThanTold /\ TakesTurns
  BY DEF NearerThanTold, TakesTurns
<1>8. QED BY <1>2, <1>3, <1>5, <1>6, <1>7, InvariantParts DEF Control

(* Every step keeps it.                                                    *)
LEMMA Inductive == Spec => []IInv
<1>1. IInv /\ [Next]_vars => IInv'
  <2> SUFFICES ASSUME IInv, [Next]_vars
               PROVE  IInv'
    OBVIOUS
  <2>1. Control /\ NoEmptyAccept /\ NearerThanTold /\ TakesTurns
    BY InvariantParts
  <2>2. Control'
    BY <2>1, PlacesStep, TypesStep, QuietStep DEF Control
  <2>3. NoEmptyAccept'
    BY <2>1, <2>2, BacklogStep, EventsStep DEF NoEmptyAccept
  <2>4. NearerThanTold' /\ TakesTurns'
    BY <2>1, TurnsStep
  <2>5. (IInv <=> Control /\ NoEmptyAccept /\ NearerThanTold
                    /\ TakesTurns)'
    BY InvariantParts, PTL
  <2>6. QED BY <2>2, <2>3, <2>4, <2>5
<1>2. QED BY InitInvariant, <1>1, PTL DEF Spec

(* Every variable has its type, and no more is counted than the bounds     *)
(* allow: the turn never leaves m_sub_process, and no child has more       *)
(* messages than there are connections.                                    *)
THEOREM TypeCorrectness == Spec => []TypeOK
<1>1. IInv => TypeOK
  BY DEF IInv
<1>2. QED BY Inductive, <1>1, PTL

(* A child that is told to accept never finds the backlog empty, for any   *)
(* number of children, and of connections, deaths and terminations.        *)
THEOREM AcceptsFindConnections == Spec => []NoEmptyAccept
<1>1. IInv => NoEmptyAccept
  BY DEF IInv
<1>2. QED BY Inductive, <1>1, PTL

(* Between two connections for one child every other child still in the    *)
(* pool gets one, whichever children die and whenever.                     *)
THEOREM ChildrenTakeTurns == Spec => []TakesTurns
<1>1. IInv => TakesTurns
  BY DEF IInv
<1>2. QED BY Inductive, <1>1, PTL
=============================================================================
