-------------------------- MODULE JobBufferProofs --------------------------
(***************************************************************************)
(* Proofs about JobBuffer: types and bounds of the indices, the wakeups,   *)
(* and the order of a queue, for a ring of any size, any sets of producing *)
(* and consuming threads and any number of calls.                          *)
(***************************************************************************)
EXTENDS JobBuffer, SequenceTheorems, FiniteSetTheorems, TLAPS

(* The remainder of what is at most once around the ring.                  *)
LEMMA OnceAround ==
    ASSUME NEW x \in 0..(2 * Size - 1)
    PROVE  x % Size = IF x < Size THEN x ELSE x - Size
<1> USE ConstantsAssumption
<1>1. CASE x < Size
  BY <1>1
<1>2. CASE x >= Size
  BY <1>2
<1>3. QED BY <1>1, <1>2

(* The types and the lock: every step preserves them.                      *)
Control == TypeOK /\ MutualExclusion /\ TestStands

(* Types and lock are preserved by every step.                             *)
LEMMA ControlStep ==
    Control /\ [Next]_vars => Control'
<1> SUFFICES ASSUME Control, [Next]_vars
             PROVE  Control'
  OBVIOUS
<1> USE ConstantsAssumption
    DEF Control, TypeOK, MutualExclusion, TestStands, MayMove, Threads, Goto,
        buffer, history
<1>1. ASSUME NEW t \in Threads, Call(t)
      PROVE  Control'
  BY <1>1 DEF Call
<1>2. ASSUME NEW t \in Threads, Lock(t)
      PROVE  Control'
  BY <1>2 DEF Lock
<1>3. ASSUME NEW t \in Threads, Test(t)
      PROVE  Control'
  BY <1>3 DEF Test
<1>4. ASSUME NEW t \in Threads, Insert(t)
      PROVE  Control'
  <2>1. end + 1 \in 0..(2 * Size - 1) /\ (end + 1) % Size \in 0..(Size - 1)
    BY OnceAround
  <2>2. PICK n \in Values :
          /\ ring' = [ring EXCEPT ![end] = n]
          /\ produced' = Append(produced, n)
    BY <1>4 DEF Insert
  <2>3. QED BY <1>4, <2>1, <2>2 DEF Insert
<1>5. ASSUME NEW t \in Threads, Remove(t)
      PROVE  Control'
  <2>1. begin + 1 \in 0..(2 * Size - 1) /\ (begin + 1) % Size \in 0..(Size - 1)
    BY OnceAround
  <2>2. QED BY <1>5, <2>1 DEF Remove
<1>6. ASSUME NEW t \in Threads, Unlock(t)
      PROVE  Control'
  BY <1>6 DEF Unlock
<1>7. ASSUME NEW t \in Threads, NotifyOne(t)
      PROVE  Control'
  BY <1>7 DEF NotifyOne, Waiters, WaitingNotEmpty, WaitingNotFull
<1>8. ASSUME NEW t \in Threads, WakeSpuriously(t)
      PROVE  Control'
  BY <1>8 DEF WakeSpuriously
<1>9. CASE UNCHANGED vars
  BY <1>9 DEF vars
<1>10. QED
  BY <1>1, <1>2, <1>3, <1>4, <1>5, <1>6, <1>7, <1>8, <1>9 DEF Next, Step

(* The slot that is n slots after begin_, without a remainder.             *)
Slot(b, n) == IF b + n < Size THEN b + n ELSE b + n - Size

(* The code's remainder finds that slot.                                   *)
LEMMA SlotIsRemainder ==
    ASSUME NEW b \in 0..(Size - 1), NEW n \in 0..Size
    PROVE  (b + n) % Size = Slot(b, n) /\ Slot(b, n) \in 0..(Size - 1)
<1>1. b + n \in 0..(2 * Size - 1)
  BY ConstantsAssumption
<1>2. (b + n) % Size = IF b + n < Size THEN b + n ELSE b + n - Size
  <2> DEFINE x == b + n
  <2> HIDE DEF x
  <2>1. x % Size = IF x < Size THEN x ELSE x - Size
    BY <1>1, OnceAround DEF x
  <2>2. QED BY <2>1, ConstantsAssumption DEF x
<1>3. QED BY <1>1, <1>2, ConstantsAssumption DEF Slot

(* So the ring holds the queue from begin_ on.                             *)
HoldsQueue ==
    /\ buffered = Len(produced) - Len(consumed)
    /\ end = Slot(begin, buffered)
    /\ \A n \in 0..(buffered - 1) :
           ring[Slot(begin, n)] = produced[Len(consumed) + n + 1]

(* Said with or without remainders, it is the same.                        *)
LEMMA HoldsQueueIsRing ==
    TypeOK => (HoldsQueue <=> RingHoldsQueue)
<1> SUFFICES ASSUME TypeOK
             PROVE  HoldsQueue <=> RingHoldsQueue
  OBVIOUS
<1> USE ConstantsAssumption
<1>1. begin \in 0..(Size - 1) /\ buffered \in 0..Size
  BY DEF TypeOK
<1>2. end = (begin + buffered) % Size <=> end = Slot(begin, buffered)
  BY <1>1, SlotIsRemainder
<1>3. ASSUME NEW i \in 1..buffered
      PROVE  /\ i - 1 \in 0..(buffered - 1)
             /\ (begin + i - 1) % Size = Slot(begin, i - 1)
  <2>1. i - 1 \in 0..Size /\ begin + (i - 1) = begin + i - 1
    BY <1>1
  <2>2. (begin + (i - 1)) % Size = Slot(begin, i - 1)
    BY <1>1, <2>1, SlotIsRemainder
  <2>3. QED BY <1>1, <2>1, <2>2
<1>4. /\ Len(consumed) \in Nat /\ Len(produced) \in Nat
  BY DEF TypeOK
<1>5. ASSUME RingHoldsQueue, NEW n \in 0..(buffered - 1)
      PROVE  ring[Slot(begin, n)] = produced[Len(consumed) + n + 1]
  <2>1. n + 1 \in 1..buffered /\ (n + 1) - 1 = n
    BY <1>1
  <2>2. ring[(begin + (n + 1) - 1) % Size] = produced[Len(consumed) + (n + 1)]
    BY <1>5, <2>1 DEF RingHoldsQueue
  <2>3. (begin + (n + 1) - 1) % Size = Slot(begin, n)
    BY <1>3, <2>1
  <2>4. Len(consumed) + (n + 1) = Len(consumed) + n + 1
    BY <1>1, <1>4
  <2>5. QED BY <2>2, <2>3, <2>4
<1>6. ASSUME HoldsQueue, NEW i \in 1..buffered
      PROVE  ring[(begin + i - 1) % Size] = produced[Len(consumed) + i]
  <2>1. ring[Slot(begin, i - 1)] = produced[Len(consumed) + (i - 1) + 1]
    BY <1>3, <1>6 DEF HoldsQueue
  <2>2. Len(consumed) + (i - 1) + 1 = Len(consumed) + i
    BY <1>1, <1>4
  <2>3. QED BY <1>3, <2>1, <2>2
<1>7. QED BY <1>2, <1>5, <1>6 DEF HoldsQueue, RingHoldsQueue

(* A value put in goes to the end of the queue that the ring holds.        *)
LEMMA InsertKeepsQueue ==
    ASSUME Control, HoldsQueue, NEW t \in Threads, Insert(t)
    PROVE  HoldsQueue'
<1> USE ConstantsAssumption DEF HoldsQueue
<1>1. /\ begin \in 0..(Size - 1) /\ end \in 0..(Size - 1)
      /\ buffered \in 0..(Size - 1)
      /\ ring \in [0..(Size - 1) -> Values]
      /\ produced \in Seq(Values) /\ consumed \in Seq(Values)
  BY DEF Control, TypeOK, TestStands, MayMove, Insert
<1>2. PICK v \in Values :
        /\ ring' = [ring EXCEPT ![end] = v]
        /\ produced' = Append(produced, v)
  BY DEF Insert
<1>3. /\ end' = (end + 1) % Size /\ buffered' = buffered + 1
      /\ begin' = begin /\ consumed' = consumed
  BY DEF Insert
<1>4. buffered' = Len(produced') - Len(consumed')
  BY <1>1, <1>2, <1>3
<1>5. end' = Slot(begin', buffered')
  <2>1. end' = Slot(end, 1)
    BY <1>1, <1>3, SlotIsRemainder
  <2>2. end = IF begin + buffered < Size THEN begin + buffered
              ELSE begin + buffered - Size
    BY DEF Slot
  <2>3. end' = IF end + 1 < Size THEN end + 1 ELSE end + 1 - Size
    BY <2>1 DEF Slot
  <2>4. CASE begin + buffered < Size
    BY <1>1, <1>3, <2>2, <2>3, <2>4 DEF Slot
  <2>5. CASE begin + buffered >= Size
    <3>1. end = begin + buffered - Size /\ end + 1 < Size
      BY <1>1, <2>2, <2>5
    <3>2. end' = begin + buffered + 1 - Size
      BY <1>1, <2>3, <3>1
    <3>3. begin' + buffered' = begin + buffered + 1
      BY <1>1, <1>3
    <3>4. ~(begin' + buffered' < Size)
      BY <1>1, <2>5, <3>3
    <3>5. Slot(begin', buffered') = begin' + buffered' - Size
      BY <3>4 DEF Slot
    <3>6. QED BY <1>1, <1>3, <3>2, <3>3, <3>5
  <2>6. QED BY <1>1, <2>4, <2>5
<1>6. ASSUME NEW n \in 0..(buffered' - 1)
      PROVE  ring'[Slot(begin', n)] = produced'[Len(consumed') + n + 1]
  <2>1. CASE n = buffered
    <3>1. Slot(begin', n) = end /\ ring'[end] = v
      BY <1>1, <1>2, <1>3, <2>1
    <3>2. Len(consumed') + n + 1 = Len(produced) + 1
      BY <1>1, <1>3, <2>1
    <3>3. produced'[Len(produced) + 1] = v
      BY <1>1, <1>2
    <3>4. QED BY <3>1, <3>2, <3>3
  <2>2. CASE n # buffered
    <3>1. n \in 0..(buffered - 1)
      BY <1>1, <1>3, <2>2
    <3>2. Slot(begin, n) # end /\ Slot(begin, n) \in 0..(Size - 1)
      BY <1>1, <3>1 DEF Slot
    <3>3. Len(consumed) + n + 1 \in 1..Len(produced)
      BY <1>1, <3>1
    <3>4. ring'[Slot(begin, n)] = ring[Slot(begin, n)]
      BY <1>1, <1>2, <3>2
    <3>5. produced'[Len(consumed) + n + 1] = produced[Len(consumed) + n + 1]
      BY <1>1, <1>2, <3>3
    <3>6. Slot(begin', n) = Slot(begin, n)
      BY <1>3 DEF Slot
    <3>7. QED BY <1>3, <3>1, <3>4, <3>5, <3>6
  <2>3. QED BY <2>1, <2>2
<1>7. QED BY <1>4, <1>5, <1>6

(* The value taken out is the first of the queue that the ring holds.      *)
LEMMA RemoveKeepsQueue ==
    ASSUME Control, HoldsQueue, NEW t \in Threads, Remove(t)
    PROVE  /\ HoldsQueue'
           /\ Len(consumed) < Len(produced)
           /\ consumed' = Append(consumed, produced[Len(consumed) + 1])
<1> USE ConstantsAssumption DEF HoldsQueue
<1>1. /\ begin \in 0..(Size - 1) /\ end \in 0..(Size - 1)
      /\ buffered \in 1..Size
      /\ produced \in Seq(Values) /\ consumed \in Seq(Values)
  BY DEF Control, TypeOK, TestStands, MayMove, Remove
<1>2. /\ consumed' = Append(consumed, ring[begin])
      /\ begin' = (begin + 1) % Size /\ buffered' = buffered - 1
      /\ ring' = ring /\ end' = end /\ produced' = produced
  BY DEF Remove
<1>3. Len(consumed') = Len(consumed) + 1
  BY <1>1, <1>2
<1>4. begin' = Slot(begin, 1)
  BY <1>1, <1>2, SlotIsRemainder
<1>5. ring[begin] = produced[Len(consumed) + 1]
  <2>1. 0 \in 0..(buffered - 1) /\ Slot(begin, 0) = begin
    BY <1>1 DEF Slot
  <2>2. ring[Slot(begin, 0)] = produced[Len(consumed) + 0 + 1]
    BY <2>1
  <2>3. QED BY <1>1, <2>1, <2>2
<1>6. buffered' = Len(produced') - Len(consumed')
  BY <1>1, <1>2, <1>3
<1>7. end' = Slot(begin', buffered')
  BY <1>1, <1>2, <1>4 DEF Slot
<1>8. ASSUME NEW n \in 0..(buffered' - 1)
      PROVE  ring'[Slot(begin', n)] = produced'[Len(consumed') + n + 1]
  <2>1. n + 1 \in 0..(buffered - 1)
    BY <1>1, <1>2
  <2>2. Slot(begin', n) = Slot(begin, n + 1)
    BY <1>1, <1>4, <2>1 DEF Slot
  <2>3. Len(consumed') + n + 1 = Len(consumed) + (n + 1) + 1
    BY <1>1, <1>3, <2>1
  <2>4. QED BY <1>2, <2>1, <2>2, <2>3
<1>9. QED BY <1>1, <1>2, <1>5, <1>6, <1>7, <1>8

(* Threads counted by where a function has them, and a truth value as a    *)
(* number.                                                                 *)
Count(f, threads, labels) == Cardinality({u \in threads : f[u] \in labels})

One(b) == IF b THEN 1 ELSE 0

Is(f, t, labels) == IF f[t] \in labels THEN 1 ELSE 0

(* When one thread moves, a count changes by that thread.                  *)
LEMMA CountMoves ==
    ASSUME NEW U, IsFiniteSet(U), NEW L, NEW f, NEW g, NEW t \in U,
           \A u \in U \ {t} : g[u] = f[u]
    PROVE  /\ Count(f, U, L) \in Nat /\ Count(g, U, L) \in Nat
           /\ Count(g, U, L) + Is(f, t, L)
                = Count(f, U, L) + Is(g, t, L)
<1> DEFINE R == {u \in U \ {t} : f[u] \in L}
           F == {u \in U : f[u] \in L}
           G == {u \in U : g[u] \in L}
<1>1. IsFiniteSet(R) /\ t \notin R
  BY FS_Subset
<1>2. Cardinality(R) \in Nat /\ Cardinality(R \union {t}) = Cardinality(R) + 1
  BY <1>1, FS_CardinalityType, FS_AddElement
<1>3. F = (IF f[t] \in L THEN R \union {t} ELSE R)
  OBVIOUS
<1>4. G = (IF g[t] \in L THEN R \union {t} ELSE R)
  OBVIOUS
<1> HIDE DEF R, F, G
<1>5. /\ Cardinality(F) = Cardinality(R) + Is(f, t, L)
      /\ Cardinality(G) = Cardinality(R) + Is(g, t, L)
  BY <1>2, <1>3, <1>4 DEF Is
<1>6. Is(f, t, L) \in Nat /\ Is(g, t, L) \in Nat
  BY DEF Is
<1>7. QED BY <1>2, <1>5, <1>6 DEF Count, F, G

(* ... and the counts of sets it is not in stay.                           *)
LEMMA CountStays ==
    ASSUME NEW U, IsFiniteSet(U), NEW L, NEW f, NEW g,
           \A u \in U : g[u] = f[u]
    PROVE  Count(f, U, L) \in Nat /\ Count(g, U, L) = Count(f, U, L)
<1>1. {u \in U : g[u] \in L} = {u \in U : f[u] \in L}
  OBVIOUS
<1>2. IsFiniteSet({u \in U : f[u] \in L})
  BY FS_Subset
<1>3. QED BY <1>1, <1>2, FS_CardinalityType DEF Count

Notifying == {"unlock", "notify"}
Awake == {"lock", "test", "move"}

(* The threads that may reach what the threads of own wait for.            *)
Way(f, others, own) == Count(f, others, Notifying) + Count(f, own, Awake)

(* Whether a thread is one of them.                                        *)
Helps(f, t, others, own) ==
    \/ t \in others /\ f[t] \in Notifying
    \/ t \in own /\ f[t] \in Awake

(* The two sides, both ways round.                                         *)
Sides(others, own) ==
    \/ others = Producers /\ own = Consumers
    \/ others = Consumers /\ own = Producers

(* When one thread moves, the threads on the way change by that thread.    *)
LEMMA WayMoves ==
    ASSUME NEW others, NEW own, Sides(others, own), NEW f, NEW g,
           NEW t \in Threads, \A u \in Threads \ {t} : g[u] = f[u]
    PROVE  /\ Way(f, others, own) \in Nat /\ Way(g, others, own) \in Nat
           /\ Way(g, others, own) + One(Helps(f, t, others, own))
                = Way(f, others, own) + One(Helps(g, t, others, own))
<1>1. /\ IsFiniteSet(others) /\ IsFiniteSet(own)
      /\ others \intersect own = {} /\ others \union own = Threads
  <2>1. /\ IsFiniteSet(Producers) /\ IsFiniteSet(Consumers)
    BY ConstantsAssumption, FS_Subset
  <2>2. QED BY <2>1, ConstantsAssumption DEF Sides, Threads
<1>2. CASE t \in others
  <2>1. \A u \in others \ {t} : g[u] = f[u]
    BY <1>1
  <2>2. \A u \in own : g[u] = f[u]
    BY <1>1, <1>2
  <2>3. /\ Count(f, others, Notifying) \in Nat
        /\ Count(g, others, Notifying) \in Nat
        /\ Count(g, others, Notifying) + Is(f, t, Notifying)
             = Count(f, others, Notifying) + Is(g, t, Notifying)
    BY <1>1, <1>2, <2>1, CountMoves
  <2>4. /\ Count(f, own, Awake) \in Nat
        /\ Count(g, own, Awake) = Count(f, own, Awake)
    BY <1>1, <2>2, CountStays
  <2>5. /\ Helps(f, t, others, own) <=> f[t] \in Notifying
        /\ Helps(g, t, others, own) <=> g[t] \in Notifying
    BY <1>1, <1>2 DEF Helps
  <2>6. QED BY <2>3, <2>4, <2>5 DEF Way, One, Is
<1>3. CASE t \in own
  <2>1. \A u \in own \ {t} : g[u] = f[u]
    BY <1>1
  <2>2. \A u \in others : g[u] = f[u]
    BY <1>1, <1>3
  <2>3. /\ Count(f, own, Awake) \in Nat
        /\ Count(g, own, Awake) \in Nat
        /\ Count(g, own, Awake) + Is(f, t, Awake)
             = Count(f, own, Awake) + Is(g, t, Awake)
    BY <1>1, <1>3, <2>1, CountMoves
  <2>4. /\ Count(f, others, Notifying) \in Nat
        /\ Count(g, others, Notifying) = Count(f, others, Notifying)
    BY <1>1, <2>2, CountStays
  <2>5. /\ Helps(f, t, others, own) <=> f[t] \in Awake
        /\ Helps(g, t, others, own) <=> g[t] \in Awake
    BY <1>1, <1>3 DEF Helps
  <2>6. QED BY <2>3, <2>4, <2>5 DEF Way, One, Is
<1>4. QED BY <1>1, <1>2, <1>3

(* While a thread of own sleeps, n things it could have are covered.       *)
Covered(f, others, own, n) ==
    (\E u \in own : f[u] = "wait") => n <= Way(f, others, own)

(* That is what no lost wakeup means for both sides.                       *)
LEMMA CoveredBothWays ==
    NoLostWakeup <=> /\ Covered(at, Producers, Consumers, buffered)
                     /\ Covered(at, Consumers, Producers, Size - buffered)
BY DEF NoLostWakeup, Covered, Way, Count, OnTheWay, In, Notifying, Awake,
       WaitingNotEmpty, WaitingNotFull

(* A thread that does not go to sleep keeps its sleepers covered when it   *)
(* joins or stays on the way for what it adds, and leaves it only for what *)
(* it takes.                                                               *)
LEMMA CoveredMoves ==
    ASSUME NEW others, NEW own, Sides(others, own), NEW f, NEW g,
           NEW t \in Threads, \A u \in Threads \ {t} : g[u] = f[u],
           NEW n \in Int, NEW m \in Int, Covered(f, others, own, n),
           g[t] # "wait" \/ t \in others,
           m + One(Helps(f, t, others, own))
             <= n + One(Helps(g, t, others, own))
    PROVE  Covered(g, others, own, m)
<1>1. others \intersect own = {} /\ others \union own = Threads
  BY ConstantsAssumption DEF Sides, Threads
<1>2. (\E u \in own : g[u] = "wait") => \E u \in own : f[u] = "wait"
  BY <1>1
<1>3. /\ Way(f, others, own) \in Nat /\ Way(g, others, own) \in Nat
      /\ Way(g, others, own) + One(Helps(f, t, others, own))
           = Way(f, others, own) + One(Helps(g, t, others, own))
  BY WayMoves
<1>4. /\ One(Helps(f, t, others, own)) \in Int
      /\ One(Helps(g, t, others, own)) \in Int
  BY DEF One
<1>5. QED BY <1>2, <1>3, <1>4 DEF Covered

(* Nothing there is for anybody is covered by anybody.                     *)
LEMMA NothingIsCovered ==
    ASSUME NEW others, NEW own, Sides(others, own), NEW f,
           NEW t \in Threads, NEW n \in Int, n <= 0
    PROVE  Covered(f, others, own, n)
<1>1. Way(f, others, own) \in Nat
  BY WayMoves
<1>2. QED BY <1>1 DEF Covered

(* No step loses a wakeup: what is put into the buffer or taken out of it  *)
(* comes with a notification, and a thread only sleeps when there is       *)
(* nothing for it.                                                         *)
LEMMA WakeupStep ==
    ASSUME Control, NoLostWakeup, [Next]_vars
    PROVE  NoLostWakeup'
<1>1. /\ Sides(Producers, Consumers) /\ Sides(Consumers, Producers)
      /\ Producers \intersect Consumers = {}
      /\ Threads = Producers \union Consumers
  BY ConstantsAssumption DEF Sides, Threads
<1>2. /\ buffered \in Int /\ Size \in Int /\ Size - buffered \in Int
      /\ \A t \in Threads : t \in DOMAIN at
  BY ConstantsAssumption DEF Control, TypeOK
<1>3. /\ Covered(at, Producers, Consumers, buffered)
      /\ Covered(at, Consumers, Producers, Size - buffered)
  BY CoveredBothWays
<1> DEFINE Both == /\ Covered(at', Producers, Consumers, buffered')
                   /\ Covered(at', Consumers, Producers, Size - buffered')
<1>4. Both => NoLostWakeup'
  BY DEF NoLostWakeup, Covered, Way, Count, OnTheWay, In, Notifying, Awake,
         WaitingNotEmpty, WaitingNotFull
<1> HIDE DEF Both
(* A thread t goes to label, and the buffer stays.                         *)
<1>5. ASSUME NEW t \in Threads, NEW label, Goto(t, label), label # "wait",
             UNCHANGED buffered,
             at[t] \in Notifying => label \in Notifying,
             at[t] \in Awake => label \in Awake
      PROVE  Both
  <2>1. at'[t] = label /\ \A u \in Threads \ {t} : at'[u] = at[u]
    BY <1>2, <1>5 DEF Goto
  <2>2. ASSUME NEW others, NEW own, Sides(others, own),
               NEW n \in Int, Covered(at, others, own, n)
        PROVE  Covered(at', others, own, n)
    <3>1. Helps(at, t, others, own) => Helps(at', t, others, own)
      BY <1>5, <2>1 DEF Helps
    <3>2. n + One(Helps(at, t, others, own))
            <= n + One(Helps(at', t, others, own))
      BY <3>1 DEF One
    <3>3. QED BY <1>5, <2>1, <2>2, <3>2, CoveredMoves
  <2>3. QED BY <1>1, <1>2, <1>3, <1>5, <2>2 DEF Both
<1>6. ASSUME NEW t \in Threads, Call(t)
      PROVE  Both
  BY <1>5, <1>6 DEF Call, buffer, Notifying, Awake
<1>7. ASSUME NEW t \in Threads, Lock(t)
      PROVE  Both
  BY <1>5, <1>7 DEF Lock, buffer, Notifying, Awake
<1>8. ASSUME NEW t \in Threads, WakeSpuriously(t)
      PROVE  Both
  BY <1>5, <1>8 DEF WakeSpuriously, buffer, Notifying, Awake
<1>9. ASSUME NEW t \in Threads, Unlock(t)
      PROVE  Both
  BY <1>5, <1>9 DEF Unlock, buffer, Notifying, Awake
<1>10. ASSUME NEW t \in Threads, Test(t)
       PROVE  Both
  <2>1. CASE MayMove(t) /\ Goto(t, "move")
    BY <1>5, <1>10, <2>1 DEF Test, buffer, Notifying, Awake
  <2>2. CASE ~MayMove(t) /\ Goto(t, "wait")
    <3>1. /\ at[t] = "test" /\ buffered' = buffered /\ at'[t] = "wait"
          /\ \A u \in Threads \ {t} : at'[u] = at[u]
      BY <1>2, <1>10, <2>2 DEF Test, Goto, buffer
    <3>2. CASE t \in Producers
      <4>1. Size - buffered' <= 0 /\ Size - buffered' \in Int
        BY <1>2, <2>2, <3>1, <3>2 DEF MayMove
      <4>2. Covered(at', Consumers, Producers, Size - buffered')
        BY <1>1, <4>1, NothingIsCovered
      <4>3. ~Helps(at, t, Producers, Consumers)
        BY <1>1, <3>1, <3>2 DEF Helps, Notifying
      <4>4. buffered' + One(Helps(at, t, Producers, Consumers))
              <= buffered + One(Helps(at', t, Producers, Consumers))
        BY <1>2, <3>1, <4>3 DEF One
      <4>5. Covered(at', Producers, Consumers, buffered')
        BY <1>1, <1>2, <1>3, <3>1, <3>2, <4>4, CoveredMoves
      <4>6. QED BY <4>2, <4>5 DEF Both
    <3>3. CASE t \in Consumers
      <4>1. buffered' <= 0 /\ buffered' \in Int
        BY <1>1, <1>2, <2>2, <3>1, <3>3 DEF MayMove
      <4>2. Covered(at', Producers, Consumers, buffered')
        BY <1>1, <4>1, NothingIsCovered
      <4>3. ~Helps(at, t, Consumers, Producers)
        BY <1>1, <3>1, <3>3 DEF Helps, Notifying
      <4>4. Size - buffered' + One(Helps(at, t, Consumers, Producers))
              <= Size - buffered + One(Helps(at', t, Consumers, Producers))
        BY <1>2, <3>1, <4>3 DEF One
      <4>5. Size - buffered' \in Int
        BY <1>2, <3>1
      <4>6. Covered(at', Consumers, Producers, Size - buffered')
        BY <1>1, <1>2, <1>3, <3>1, <3>3, <4>4, <4>5, CoveredMoves
      <4>7. QED BY <4>2, <4>6 DEF Both
    <3>4. QED BY <1>1, <3>2, <3>3
  <2>3. QED BY <1>10, <2>1, <2>2 DEF Test
<1>11. ASSUME NEW t \in Threads, Insert(t)
       PROVE  Both
  <2>1. /\ t \in Producers /\ t \notin Consumers /\ at[t] = "move"
        /\ buffered' = buffered + 1 /\ at'[t] = "unlock"
        /\ \A u \in Threads \ {t} : at'[u] = at[u]
    BY <1>1, <1>2, <1>11 DEF Insert, Goto
  <2>2. /\ ~Helps(at, t, Producers, Consumers)
        /\ Helps(at', t, Producers, Consumers)
    BY <2>1 DEF Helps, Notifying
  <2>3. /\ Helps(at, t, Consumers, Producers)
        /\ ~Helps(at', t, Consumers, Producers)
    BY <2>1 DEF Helps, Awake
  <2>4. /\ buffered' \in Int /\ Size - buffered' \in Int
        /\ buffered' + One(Helps(at, t, Producers, Consumers))
             <= buffered + One(Helps(at', t, Producers, Consumers))
        /\ Size - buffered' + One(Helps(at, t, Consumers, Producers))
             <= Size - buffered + One(Helps(at', t, Consumers, Producers))
    BY <1>2, <2>1, <2>2, <2>3 DEF One
  <2>5. at'[t] # "wait"
    BY <2>1
  <2>6. Covered(at', Producers, Consumers, buffered')
    BY <1>1, <1>2, <1>3, <2>1, <2>4, <2>5, CoveredMoves
  <2>7. Covered(at', Consumers, Producers, Size - buffered')
    BY <1>1, <1>2, <1>3, <2>1, <2>4, <2>5, CoveredMoves
  <2>8. QED BY <2>6, <2>7 DEF Both
<1>12. ASSUME NEW t \in Threads, Remove(t)
       PROVE  Both
  <2>1. /\ t \in Consumers /\ t \notin Producers /\ at[t] = "move"
        /\ buffered' = buffered - 1 /\ at'[t] = "unlock"
        /\ \A u \in Threads \ {t} : at'[u] = at[u]
    BY <1>1, <1>2, <1>12 DEF Remove, Goto
  <2>2. /\ ~Helps(at, t, Consumers, Producers)
        /\ Helps(at', t, Consumers, Producers)
    BY <2>1 DEF Helps, Notifying
  <2>3. /\ Helps(at, t, Producers, Consumers)
        /\ ~Helps(at', t, Producers, Consumers)
    BY <2>1 DEF Helps, Awake
  <2>4. /\ buffered' \in Int /\ Size - buffered' \in Int
        /\ buffered' + One(Helps(at, t, Producers, Consumers))
             <= buffered + One(Helps(at', t, Producers, Consumers))
        /\ Size - buffered' + One(Helps(at, t, Consumers, Producers))
             <= Size - buffered + One(Helps(at', t, Consumers, Producers))
    BY <1>2, <2>1, <2>2, <2>3 DEF One
  <2>5. at'[t] # "wait"
    BY <2>1
  <2>6. Covered(at', Producers, Consumers, buffered')
    BY <1>1, <1>2, <1>3, <2>1, <2>4, <2>5, CoveredMoves
  <2>7. Covered(at', Consumers, Producers, Size - buffered')
    BY <1>1, <1>2, <1>3, <2>1, <2>4, <2>5, CoveredMoves
  <2>8. QED BY <2>6, <2>7 DEF Both
<1>13. ASSUME NEW t \in Threads, NotifyOne(t)
       PROVE  Both
  <2>1. buffered' = buffered /\ at[t] = "notify"
    BY <1>13 DEF NotifyOne, buffer
  <2> DEFINE f == [at EXCEPT ![t] = "out"]
  <2>2. f[t] = "out" /\ \A u \in Threads \ {t} : f[u] = at[u]
    BY <1>2
  <2> HIDE DEF f
(* The side that is not notified.                                          *)
  <2>3. ASSUME NEW others, NEW own, Sides(others, own), t \in own,
               NEW n \in Int, Covered(at, others, own, n)
        PROVE  Covered(f, others, own, n)
    <3>1. ~Helps(at, t, others, own)
      BY <1>1, <2>1, <2>3 DEF Helps, Awake, Sides
    <3>2. n + One(Helps(at, t, others, own))
            <= n + One(Helps(f, t, others, own))
      BY <3>1 DEF One
    <3>3. QED BY <2>2, <2>3, <3>2, CoveredMoves
  <2>4. CASE Waiters(t) = {} /\ Goto(t, "out")
    <3>1. at' = f
      BY <2>4 DEF Goto, f
    <3>2. CASE t \in Producers
      <4>1. Covered(f, Consumers, Producers, Size - buffered)
        BY <1>1, <1>2, <1>3, <2>3, <3>2
      <4>2. \A u \in Consumers : f[u] # "wait"
        BY <1>1, <2>2, <2>4, <3>2 DEF Waiters, WaitingNotEmpty
      <4>3. Covered(f, Producers, Consumers, buffered)
        BY <4>2 DEF Covered
      <4>4. QED BY <2>1, <3>1, <4>1, <4>3 DEF Both
    <3>3. CASE t \in Consumers
      <4>1. Covered(f, Producers, Consumers, buffered)
        BY <1>1, <1>2, <1>3, <2>3, <3>3
      <4>2. \A u \in Producers : f[u] # "wait"
        BY <1>1, <2>2, <2>4, <3>3 DEF Waiters, WaitingNotFull
      <4>3. Covered(f, Consumers, Producers, Size - buffered)
        BY <4>2 DEF Covered
      <4>4. QED BY <2>1, <3>1, <4>1, <4>3 DEF Both
    <3>4. QED BY <1>1, <3>2, <3>3
  <2>5. ASSUME NEW u \in Waiters(t),
               at' = [at EXCEPT ![t] = "out", ![u] = "lock"]
        PROVE  Both
    <3>1. /\ u \in Threads /\ at[u] = "wait" /\ u # t
          /\ t \in Producers <=> u \in Consumers
          /\ t \in Consumers <=> u \in Producers
      BY <1>1, <2>1, <2>5 DEF Waiters, WaitingNotEmpty, WaitingNotFull
    <3>2. at'[u] = "lock" /\ \A v \in Threads \ {u} : at'[v] = f[v]
      BY <1>2, <2>5, <3>1 DEF f
    <3>3. f[u] = "wait"
      BY <2>2, <3>1
(* The waker leaves the way and the woken thread takes its place.          *)
    <3>4. ASSUME NEW others, NEW own, Sides(others, own),
                 t \in others, u \in own,
                 NEW n \in Int, Covered(at, others, own, n)
          PROVE  Covered(at', others, own, n)
      <4>1. t \notin own /\ u \notin others
        BY <1>1, <3>4 DEF Sides
      <4>2. /\ Helps(at, t, others, own) /\ ~Helps(f, t, others, own)
        BY <2>1, <2>2, <3>4, <4>1 DEF Helps, Notifying
      <4>3. ~Helps(f, u, others, own) /\ Helps(at', u, others, own)
        BY <3>2, <3>3, <3>4, <4>1 DEF Helps, Awake
      <4>4. /\ Way(f, others, own) + One(Helps(at, t, others, own))
                 = Way(at, others, own) + One(Helps(f, t, others, own))
            /\ Way(at, others, own) \in Nat /\ Way(f, others, own) \in Nat
        BY <2>2, <3>4, WayMoves
      <4>5. /\ Way(at', others, own) + One(Helps(f, u, others, own))
                 = Way(f, others, own) + One(Helps(at', u, others, own))
            /\ Way(at', others, own) \in Nat
        BY <3>1, <3>2, <3>4, WayMoves
      <4>6. Way(at', others, own) = Way(at, others, own)
        BY <4>2, <4>3, <4>4, <4>5 DEF One
      <4>7. n <= Way(at, others, own)
        BY <3>1, <3>4 DEF Covered
      <4>8. QED BY <4>6, <4>7 DEF Covered
    <3>5. ASSUME NEW others, NEW own, Sides(others, own),
                 t \in own, u \in others,
                 NEW n \in Int, Covered(at, others, own, n)
          PROVE  Covered(at', others, own, n)
      <4>1. Covered(f, others, own, n)
        BY <2>3, <3>5
      <4>2. u \notin own
        BY <1>1, <3>5 DEF Sides
      <4>3. ~Helps(f, u, others, own)
        BY <3>3, <3>5, <4>2 DEF Helps, Notifying
      <4>4. n + One(Helps(f, u, others, own))
              <= n + One(Helps(at', u, others, own))
        BY <4>3 DEF One
      <4>5. QED BY <3>1, <3>2, <3>5, <4>1, <4>4, CoveredMoves
    <3>6. QED BY <1>1, <1>2, <1>3, <2>1, <3>1, <3>4, <3>5 DEF Both
  <2>6. QED BY <1>13, <2>4, <2>5 DEF NotifyOne
<1>14. CASE UNCHANGED vars
  <2>1. at' = at /\ buffered' = buffered
    BY <1>14 DEF vars, buffer
  <2>2. QED BY <1>3, <1>4, <2>1 DEF Both
<1>15. QED
  BY <1>4, <1>6, <1>7, <1>8, <1>9, <1>10, <1>11, <1>12, <1>13, <1>14
     DEF Next, Step

-----------------------------------------------------------------------------
(* The inductive invariant.                                                *)
LEMMA Inductive ==
    Spec => []IInv
<1>1. Init => IInv
  <2> SUFFICES ASSUME Init
               PROVE  IInv
    OBVIOUS
  <2> USE ConstantsAssumption DEF Init
  <2>1. TypeOK /\ MutualExclusion /\ TestStands
    BY DEF TypeOK, MutualExclusion, TestStands, Threads
  <2>2. HoldsQueue
    BY DEF HoldsQueue, Slot
  <2>3. NoLostWakeup
    BY DEF NoLostWakeup, WaitingNotEmpty, WaitingNotFull, Threads
  <2>4. QED BY <2>1, <2>2, <2>3, HoldsQueueIsRing DEF IInv
<1>2. IInv /\ [Next]_vars => IInv'
  <2> SUFFICES ASSUME IInv, [Next]_vars
               PROVE  IInv'
    OBVIOUS
  <2>1. Control /\ HoldsQueue
    BY HoldsQueueIsRing DEF IInv, Control
  <2>2. Control'
    BY <2>1, ControlStep
  <2>3. HoldsQueue'
    <3>1. ASSUME NEW t \in Threads, Insert(t)
          PROVE  HoldsQueue'
      BY <2>1, <3>1, InsertKeepsQueue
    <3>2. ASSUME NEW t \in Threads, Remove(t)
          PROVE  HoldsQueue'
      BY <2>1, <3>2, RemoveKeepsQueue
    <3>3. CASE UNCHANGED <<buffer, history>>
      BY <2>1, <3>3 DEF HoldsQueue, Slot, buffer, history
    <3>4. QED
      BY <3>1, <3>2, <3>3
         DEF Next, Step, Call, Lock, Test, Unlock, NotifyOne, WakeSpuriously,
             vars
  <2>4. TypeOK' => (HoldsQueue' <=> RingHoldsQueue')
    BY HoldsQueueIsRing, PTL
  <2>5. NoLostWakeup'
    BY <2>1, WakeupStep DEF IInv
  <2>6. QED BY <2>2, <2>3, <2>4, <2>5 DEF IInv, Control
<1>3. QED BY <1>1, <1>2, PTL DEF Spec

(* Types and bounds: no index leaves the ring, and no more is buffered     *)
(* than it has room for.                                                   *)
THEOREM TypeCorrectness == Spec => []TypeOK
<1>1. IInv => TypeOK
  BY DEF IInv
<1>2. QED BY <1>1, Inductive, PTL

(* No wakeup is lost: while a consumer sleeps every element has a thread   *)
(* on its way to it or about to wake one, and while a producer sleeps      *)
(* every free slot has, although notify_one() comes after the unlock and   *)
(* wakes whichever thread (jobQueue.h:28-31 and 46-48).                    *)
THEOREM WakeupsAreNotLost == Spec => []NoLostWakeup
<1>1. IInv => NoLostWakeup
  BY DEF IInv
<1>2. QED BY <1>1, Inductive, PTL

(* The buffer is a queue: it implements CommandChannel, whose values come  *)
(* out in the order in which they went in, each once.                      *)
THEOREM BufferImplementsFifo == Spec => FifoSpec
<1>1. Init => Channel!Init
  BY DEF Init, Channel!Init
<1>2. IInv /\ [Next]_vars => [Channel!Next]_(Channel!vars)
  <2> SUFFICES ASSUME IInv, [Next]_vars
               PROVE  Channel!Next \/ UNCHANGED Channel!vars
    OBVIOUS
  <2> USE DEF Channel!vars
  <2>1. Control /\ HoldsQueue
    BY HoldsQueueIsRing DEF IInv, Control
  <2>2. ASSUME NEW t \in Threads, Insert(t)
        PROVE  Channel!Next
    BY <2>2 DEF Insert, Channel!Next, Channel!Receive
  <2>3. ASSUME NEW t \in Threads, Remove(t)
        PROVE  Channel!Next
    <3>1. produced' = produced
      BY <2>3 DEF Remove
    <3>2. QED
      BY <2>1, <2>3, <3>1, RemoveKeepsQueue DEF Channel!Next, Channel!Take
  <2>4. CASE UNCHANGED history
    BY <2>4 DEF history
  <2>5. QED
    BY <2>2, <2>3, <2>4
       DEF Next, Step, Call, Lock, Test, Unlock, NotifyOne, WakeSpuriously,
           vars
<1>3. QED
  BY <1>1, <1>2, Inductive, PTL DEF Spec, FifoSpec, Channel!Spec
=============================================================================
