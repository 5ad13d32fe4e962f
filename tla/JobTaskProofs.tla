--------------------------- MODULE JobTaskProofs ---------------------------
(***************************************************************************)
(* Proofs about JobTask, for datasets of any length, jobs of any number of *)
(* frames, any clock and any int wider than 100: every variable keeps its  *)
(* type, the object never dereferences the null plugin of a failed init(), *)
(* its periodic reports keep their distance, carry the newest results and  *)
(* an honest progress, an end report stands alone, and the class           *)
(* implements JobLife.                                                     *)
(***************************************************************************)
EXTENDS JobTask, SequenceTheorems, WellFoundedInduction, TLAPS

(* The list t is the list s with e at its end.                             *)
IsAppended(s, e, t) ==
    /\ Len(s) \in Nat
    /\ Len(t) = Len(s) + 1
    /\ t[Len(t)] = e
    /\ \A i \in 1..Len(s) : t[i] = s[i]
    /\ t \in Seq({t[i] : i \in DOMAIN t})

(* What appending a report does to the list of reports.                    *)
LEMMA AppendFacts ==
    ASSUME NEW s, s \in Seq({s[i] : i \in DOMAIN s}), NEW e
    PROVE  IsAppended(s, e, Append(s, e))
<1> DEFINE S == {s[i] : i \in DOMAIN s} \union {e}
           t == Append(s, e)
<1>1. s \in Seq(S) /\ e \in S
  <2> DEFINE R == {s[i] : i \in DOMAIN s}
  <2>1. R \subseteq S /\ e \in S
    OBVIOUS
  <2>2. s \in Seq(R)
    OBVIOUS
  <2> HIDE DEF R, S
  <2> QED BY <2>1, <2>2
<1> HIDE DEF S
<1>2. t \in Seq(S) /\ Len(s) \in Nat /\ Len(t) = Len(s) + 1
  BY <1>1, AppendProperties
<1>3. t[Len(t)] = e /\ \A i \in 1..Len(s) : t[i] = s[i]
  BY <1>1, <1>2, AppendProperties
<1>4. t \in Seq({t[i] : i \in DOMAIN t})
  <2> HIDE DEF t
  <2> QED BY <1>2
<1> QED BY <1>2, <1>3, <1>4 DEF IsAppended

(* The head of a next() that goes on to an element.                        *)
LEMMA PeriodicReportStep ==
    ASSUME IInv, PeriodicReport, pc = "ready", pc' # "ended",
           results' \in {results, Append(results, frameId)},
           results' = <<>> => results = <<>>
    PROVE  ReportMemory' /\ ReportSpacing' /\ EndReportStandsAlone'
<1> USE DEF IInv, ReportMemory, ReportSpacing, EndReportStandsAlone, Periodic
<1>1. CASE reports' = reports
  <2>1. lastAccess' = lastAccess \/ results = <<>>
    <3>1. CASE ReportDue /\ results # <<>>
      <4>1. reports' = Append(reports,
                              ReportCall(Progress, NewestResults, FALSE))
        BY <3>1 DEF PeriodicReport, ReportsAtHead
      <4>2. Len(reports') = Len(reports) + 1 /\ Len(reports) \in Nat
        BY <4>1, AppendFacts DEF IsAppended
      <4> QED BY <4>2, <1>1
    <3>2. CASE ~(ReportDue /\ results # <<>>)
      BY <3>2 DEF PeriodicReport
    <3> QED BY <3>1, <3>2
  <2>2. CASE results = <<>>
    <3>1. reports = <<>>
      BY <2>2
    <3> QED BY <3>1, <1>1
  <2>3. CASE results # <<>> /\ lastAccess' = lastAccess
    BY <2>3, <1>1
  <2> QED BY <2>1, <2>2, <2>3
<1>2. CASE reports' # reports
  <2> DEFINE r == ReportCall(Progress, NewestResults, FALSE)
  <2>1. ReportDue /\ results # <<>> /\ reports' = Append(reports, r)
          /\ lastAccess' = now
    BY <1>2 DEF PeriodicReport, ReportsAtHead
  <2>2. r.at = now /\ r.end = FALSE
    BY DEF ReportCall
  <2> HIDE DEF r
  <2>3. /\ Len(reports) \in Nat
        /\ Len(reports') = Len(reports) + 1
        /\ reports'[Len(reports')] = r
        /\ \A i \in 1..Len(reports) : reports'[i] = reports[i]
        /\ reports' \in Seq({reports'[i] : i \in DOMAIN reports'})
    <3>1. reports \in Seq({reports[i] : i \in DOMAIN reports})
      OBVIOUS
    <3>2. IsAppended(reports, r, reports')
      BY <2>1, <3>1, AppendFacts
    <3> QED BY <3>2 DEF IsAppended
  <2>4. \A i \in 1..Len(reports') : ~reports'[i].end
    <3> SUFFICES ASSUME NEW i \in 1..Len(reports')
                 PROVE  ~reports'[i].end
      OBVIOUS
    <3>1. CASE i = Len(reports')
      BY <3>1, <2>2, <2>3, Zenon
    <3>2. CASE i \in 1..Len(reports)
      BY <3>2, <2>3
    <3> QED BY <3>1, <3>2, <2>3
  <2>5. ReportMemory'
    <3>1. reports'[Len(reports')].at = lastAccess'
      BY <2>1, <2>2, <2>3
    <3>2. results' # <<>>
      BY <2>1
    <3> QED BY <3>1, <3>2, <2>3, <2>4
  <2>6. EndReportStandsAlone'
    BY <2>4
  <2>7. ReportSpacing'
    <3> SUFFICES ASSUME NEW i \in 1..Len(reports'),
                        Periodic(i)', Periodic(i + 1)'
                 PROVE  reports'[i + 1].at - reports'[i].at > ReportPeriod
      OBVIOUS
    <3>1. CASE i + 1 \in 1..Len(reports)
      <4>1. i \in 1..Len(reports)
        BY <3>1, <2>3
      <4>2. reports'[i] = reports[i] /\ reports'[i + 1] = reports[i + 1]
        BY <3>1, <4>1, <2>3
      <4>3. Periodic(i) /\ Periodic(i + 1)
        BY <3>1, <4>1
      <4>4. reports[i + 1].at - reports[i].at > ReportPeriod
        BY <4>1, <4>3
      <4> QED BY <4>2, <4>4
    <3>2. CASE i + 1 = Len(reports')
      <4>1. i = Len(reports) /\ i \in 1..Len(reports)
        BY <3>2, <2>3
      <4>2. reports'[i] = reports[i] /\ Periodic(i)
        BY <4>1, <2>3
      <4>3. reports'[i].at = lastAccess /\ reports'[i + 1].at = now
        BY <4>1, <4>2, <3>2, <2>2, <2>3
      <4> QED BY <4>3, <2>1 DEF ReportDue
    <3> QED BY <3>1, <3>2, <2>3
  <2> QED BY <2>5, <2>6, <2>7
<1> QED BY <1>1, <1>2

(* The invariant holds at first.                                           *)
LEMMA InitIInv == Init => IInv
<1> SUFFICES ASSUME Init
             PROVE  IInv
  OBVIOUS
<1> USE ConstantsAssumption DEF Init
<1>1. TypeOK
  <2>1. 0 \in 0..MaxFrames /\ 0 \in 0..MaxLength
    OBVIOUS
  <2>2. <<>> \in Seq(0..MaxFrames) /\ <<>> \in Seq(Report)
    OBVIOUS
  <2>3. QED BY <2>1, <2>2, Zenon DEF TypeOK
<1>2. NeverUsedUp /\ BuildOrder /\ ReportMemory
  BY DEF NeverUsedUp, BuildOrder, NoNullDereference, ReportMemory, Periodic
<1>3. ReportSpacing /\ EndReportStandsAlone /\ FramesCounted /\ ReportsMade
        /\ WindowIsNewest
  BY DEF ReportSpacing, EndReportStandsAlone, FramesCounted, ReportsMade,
       WindowIsNewest, Periodic
<1> QED BY <1>1, <1>2, <1>3 DEF IInv

(* A job is out of elements when its dataset is empty, and only then.      *)
LEMMA EmptyIsOver ==
    ASSUME NeverUsedUp
    PROVE  DatasetCode(pos, length) = NoElement <=> length = 0
BY DEF NeverUsedUp, DatasetCode, NoElement, DATASET_BEGIN, DATASET_MIDDLE,
       DATASET_END

(* The parts of the invariant that do not look at the reports.             *)
LEMMA StepNeverUsedUp == IInv /\ [Next]_vars => NeverUsedUp'
<1> SUFFICES ASSUME NeverUsedUp, BuildOrder, [Next]_vars
             PROVE  NeverUsedUp'
  BY DEF IInv
<1> USE DEF NeverUsedUp
<1>1. CASE UNCHANGED vars
  BY <1>1 DEF vars, built, run
<1>2. CASE ClockMoves
  BY <1>2 DEF ClockMoves, built, run
<1>3. CASE ParseDataset
  <2>1. length = 0 /\ UNCHANGED run
    BY <1>3 DEF BuildOrder, ParseDataset
  <2>2. length' \in Nat
    BY <1>3, ConstantsAssumption DEF ParseDataset
  <2> QED BY <2>1, <2>2 DEF run
<1>4. CASE GetModel \/ LoadPlugin \/ GetDataset \/ BuildEngine
  <2>1. UNCHANGED <<length, run>>
    BY <1>4 DEF GetModel, LoadPlugin, GetDataset, BuildEngine, built
  <2> QED BY <2>1 DEF run
<1>5. CASE NextDivides \/ NextEnds \/ NextFaults
  <2>1. UNCHANGED <<length, pos, frameId, results>>
    BY <1>5 DEF NextDivides, NextEnds, NextFaults, built, run
  <2> QED BY <2>1
<1>6. CASE NextFrame
  <2>1. UNCHANGED <<length, pos>> /\ length # 0
    BY <1>6, EmptyIsOver DEF NextFrame, built
  <2>2. frameId' \in Nat /\ results' \in Seq(Nat)
    BY <1>6 DEF NextFrame
  <2> QED BY <2>1, <2>2
<1> QED
  BY <1>1, <1>2, <1>3, <1>4, <1>5, <1>6 DEF Next, Construction, NextCall

(* Every step keeps the order in which a job is built and taken down.      *)
LEMMA StepBuildOrder == IInv /\ [Next]_vars => BuildOrder'
<1> SUFFICES ASSUME NeverUsedUp, BuildOrder, [Next]_vars
             PROVE  BuildOrder'
  BY DEF IInv
<1> USE DEF BuildOrder, NoNullDereference, built, Crash
<1>1. CASE UNCHANGED vars
  BY <1>1, Zenon DEF vars
<1>2. CASE ClockMoves
  BY <1>2, Zenon DEF ClockMoves
<1>3. CASE GetModel
  BY <1>3, Zenon DEF GetModel
<1>4. CASE LoadPlugin
  BY <1>4, Zenon DEF LoadPlugin
<1>5. CASE GetDataset
  BY <1>5, Zenon DEF GetDataset
<1>6. CASE ParseDataset
  BY <1>6, Zenon DEF ParseDataset
<1>7. CASE BuildEngine
  BY <1>7, Zenon DEF BuildEngine
<1>8. CASE NextDivides
  BY <1>8, Zenon DEF NextDivides
<1>9. CASE NextEnds
  BY <1>9, Zenon DEF NextEnds
<1>10. CASE NextFrame
  BY <1>10, Zenon DEF NextFrame
<1>11. CASE NextFaults
  <2>1. length # 0
    BY <1>11, EmptyIsOver DEF NextFaults
  <2>2. plugin /\ engine
    BY <1>11, <2>1, Zenon DEF NextFaults
  <2>3. pc' = "crashed" /\ fault' = "inference"
    BY <1>11, <2>2, Zenon DEF NextFaults
  <2> QED BY <2>3, Zenon
<1> QED
  BY <1>1, <1>2, <1>3, <1>4, <1>5, <1>6, <1>7, <1>8, <1>9, <1>10, <1>11
     DEF Next, Construction, NextCall

(* Without a result, reportEnd() overwrites the bracket it opened.         *)
LEMMA NoResultsNoArray ==
    ASSUME results = <<>>
    PROVE  AllResults = <<CLOSE>>
<1>1. 2 * Len(results) + 1 = 1
  OBVIOUS
<1> QED BY <1>1 DEF AllResults

(* The parts that do: only next() appends to the reports.                  *)
LEMMA StepReports ==
    IInv /\ [Next]_vars =>
        ReportMemory' /\ ReportSpacing' /\ EndReportStandsAlone'
<1> SUFFICES ASSUME IInv, [Next]_vars
             PROVE  ReportMemory' /\ ReportSpacing' /\ EndReportStandsAlone'
  OBVIOUS
<1> USE DEF IInv
<1>1. ASSUME pc' # "ended" => pc # "ended",
             UNCHANGED <<reports, results, lastAccess>>
      PROVE  ReportMemory' /\ ReportSpacing' /\ EndReportStandsAlone'
  BY <1>1 DEF ReportMemory, ReportSpacing, EndReportStandsAlone, Periodic
<1>2. CASE UNCHANGED vars
  BY <1>1, <1>2 DEF vars, run
<1>3. CASE ClockMoves
  BY <1>1, <1>3 DEF ClockMoves, run
<1>4. CASE Construction
  <2>1. pc # "ended" /\ UNCHANGED run
    BY <1>4 DEF Construction, GetModel, LoadPlugin, GetDataset, ParseDataset,
         BuildEngine
  <2> QED BY <2>1, <1>1 DEF run
<1>5. CASE NextDivides
  BY <1>1, <1>5 DEF NextDivides, run
<1>6. CASE NextEnds
  <2>1. length = 0 /\ pc = "ready"
    BY <1>6, EmptyIsOver DEF NextEnds
  <2>2. results = <<>> /\ frameId = 0 /\ reports = <<>>
    BY <2>1 DEF NeverUsedUp, ReportMemory
  <2> DEFINE r == ReportCall(100, AllResults, TRUE)
  <2>3. reports' = <<r>> /\ pc' = "ended"
    BY <1>6, <2>2 DEF NextEnds, ReportsAtHead
  <2>4. r.end /\ r.frames = 0 /\ r.payload = <<CLOSE>>
    <3>1. AllResults = <<CLOSE>>
      BY <2>2, NoResultsNoArray
    <3> QED BY <2>2, <3>1 DEF ReportCall
  <2> HIDE DEF r
  <2> QED
    BY <2>3, <2>4 DEF ReportMemory, ReportSpacing, EndReportStandsAlone,
         Periodic
<1>7. CASE NextFrame
  <2>1. /\ results' = Append(results, frameId) /\ PeriodicReport
        /\ pc = "ready" /\ pc' = "ready"
    BY <1>7 DEF NextFrame
  <2>2. results' # <<>>
    BY <2>1 DEF NeverUsedUp
  <2> QED BY <2>1, <2>2, PeriodicReportStep
<1>8. CASE NextFaults
  <2>1. results' = results /\ PeriodicReport /\ pc = "ready"
          /\ pc' = "crashed"
    BY <1>8 DEF NextFaults, Crash
  <2> QED BY <2>1, PeriodicReportStep
<1> QED
  BY <1>2, <1>3, <1>4, <1>5, <1>6, <1>7, <1>8 DEF Next, NextCall

-----------------------------------------------------------------------------
(* An even number, an odd one, and their halves.                           *)
LEMMA Halves ==
    ASSUME NEW i \in Nat
    PROVE  /\ i \div 2 \in Nat /\ i % 2 \in {0, 1}
           /\ i % 2 = i - 2 * (i \div 2)
           /\ i > 0 => (i - 1) % 2 = 1 - (i % 2)
           /\ i > 0 /\ i % 2 = 0 => (i - 1) \div 2 = i \div 2 - 1
           /\ i > 1 => (i - 2) % 2 = i % 2 /\ (i - 2) \div 2 = i \div 2 - 1
<1>1. i \div 2 \in Nat /\ i % 2 \in {0, 1}
  OBVIOUS
<1>2. i % 2 = i - 2 * (i \div 2)
  OBVIOUS
<1>3. i > 0 => (i - 1) % 2 = 1 - (i % 2)
  OBVIOUS
<1>4. i > 0 /\ i % 2 = 0 => (i - 1) \div 2 = i \div 2 - 1
  OBVIOUS
<1>5. i > 1 => (i - 2) % 2 = i % 2
  OBVIOUS
<1>6. i > 1 => (i - 2) \div 2 = i \div 2 - 1
  OBVIOUS
<1>7. QED BY <1>1, <1>2, <1>3, <1>4, <1>5, <1>6

(* What two elements before a sequence, and two around it, make of it.     *)
LEMMA PairBefore ==
    ASSUME NEW S, NEW a \in S, NEW b \in S, NEW s \in Seq(S)
    PROVE  /\ <<a, b>> \o s \in Seq(S)
           /\ Len(<<a, b>> \o s) = Len(s) + 2
           /\ (<<a, b>> \o s)[1] = a /\ (<<a, b>> \o s)[2] = b
           /\ \A i \in 1..Len(s) : (<<a, b>> \o s)[i + 2] = s[i]
OBVIOUS

(* An array's text, between its brackets.                                  *)
LEMMA Bracketed ==
    ASSUME NEW S, NEW a \in S, NEW b \in S, NEW s \in Seq(S)
    PROVE  /\ (<<a>> \o s) \o <<b>> \in Seq(S)
           /\ Len((<<a>> \o s) \o <<b>>) = Len(s) + 2
           /\ ((<<a>> \o s) \o <<b>>)[1] = a
           /\ ((<<a>> \o s) \o <<b>>)[Len(s) + 2] = b
           /\ \A i \in 1..Len(s) : ((<<a>> \o s) \o <<b>>)[i + 1] = s[i]
OBVIOUS

(* The text of the newest len of size results, without its brackets.       *)
Text(size, len) ==
    [i \in 1..(2 * len - 1) |->
        IF i % 2 = 1 THEN size - len + (i \div 2) ELSE COMMA]

(* The text of the newest results is a sequence of this length.            *)
LEMMA TextType ==
    ASSUME NEW size \in Nat, NEW len \in 1..size
    PROVE  /\ Text(size, len) \in Seq(Int)
           /\ Len(Text(size, len)) = 2 * len - 1
BY DEF Text, COMMA

(* The loop of report() puts one more result before it.                    *)
LEMMA TextGrows ==
    ASSUME NEW size \in Nat, NEW len \in 1..size, len > 1
    PROVE  <<size - len, COMMA>> \o Text(size, len - 1) = Text(size, len)
<1> DEFINE s == Text(size, len - 1)
           t == Text(size, len)
           u == <<size - len, COMMA>> \o s
<1>1. /\ s \in Seq(Int) /\ Len(s) = 2 * len - 3
      /\ t \in Seq(Int) /\ Len(t) = 2 * len - 1
  <2>1. len - 1 \in 1..size /\ 2 * (len - 1) - 1 = 2 * len - 3
    OBVIOUS
  <2>2. s \in Seq(Int) /\ Len(s) = 2 * (len - 1) - 1
    BY <2>1, TextType
  <2>3. t \in Seq(Int) /\ Len(t) = 2 * len - 1
    BY TextType
  <2> HIDE DEF s, t
  <2>4. QED BY <2>1, <2>2, <2>3
<1>2. \A i \in 1..(2 * len - 3) :
        s[i] = IF i % 2 = 1 THEN size - (len - 1) + (i \div 2) ELSE COMMA
  BY DEF Text
<1>3. \A i \in 1..(2 * len - 1) :
        t[i] = IF i % 2 = 1 THEN size - len + (i \div 2) ELSE COMMA
  BY DEF Text
<1>4. /\ u \in Seq(Int) /\ Len(u) = Len(s) + 2
      /\ u[1] = size - len /\ u[2] = COMMA
      /\ \A i \in 1..Len(s) : u[i + 2] = s[i]
  <2>1. size - len \in Int /\ COMMA \in Int
    BY DEF COMMA
  <2> HIDE DEF s
  <2>2. QED BY <1>1, <2>1, PairBefore
<1> HIDE DEF s, t, u
<1>5. ASSUME NEW i \in 1..Len(t)
      PROVE  u[i] = t[i]
  <2>1. CASE i = 1
    <3>1. t[1] = size - len + (1 \div 2) /\ 1 \div 2 = 0
      <4>1. 1 % 2 = 1 /\ 1 \div 2 = 0
        OBVIOUS
      <4>2. QED BY <1>1, <1>3, <4>1
    <3>2. QED BY <1>4, <2>1, <3>1
  <2>2. CASE i = 2
    <3>1. t[2] = COMMA
      <4>1. 2 % 2 = 0
        OBVIOUS
      <4>2. QED BY <1>1, <1>3, <4>1
    <3>2. QED BY <1>4, <2>2, <3>1
  <2>3. CASE i > 2
    <3>1. i - 2 \in 1..(2 * len - 3) /\ i \in Nat /\ i = (i - 2) + 2
      BY <1>1, <2>3
    <3>2. (i - 2) % 2 = i % 2 /\ (i - 2) \div 2 = i \div 2 - 1
            /\ i \div 2 \in Nat
      BY <2>3, <3>1, Halves
    <3>3. u[i] = s[i - 2]
      BY <1>1, <1>4, <3>1
    <3>4. s[i - 2] = IF i % 2 = 1 THEN size - (len - 1) + (i \div 2 - 1)
                     ELSE COMMA
      BY <1>2, <3>1, <3>2
    <3>5. t[i] = IF i % 2 = 1 THEN size - len + (i \div 2) ELSE COMMA
      BY <1>1, <1>3
    <3>6. QED BY <3>2, <3>3, <3>4, <3>5
  <2>4. QED BY <2>1, <2>2, <2>3, <1>1
<1>6. Len(u) = Len(t)
  BY <1>1, <1>4
<1>7. u = t
  BY <1>1, <1>4, <1>5, <1>6, SeqEqual
<1>8. QED BY <1>7 DEF u, t, s

(* What the loop builds from the back, for windows of every length.        *)
Loop(f) ==
    f = [len \in 1..WindowLength |->
            IF len > 1
            THEN <<results[Len(results) - len + 1], COMMA>> \o f[len - 1]
            ELSE <<results[Len(results)]>>]

(* What report() sends is what its loop, taken as an equation, computes.   *)
LEMMA NewestIsLoop ==
    NewestResults =
        (<<OPEN>> \o (CHOOSE f : Loop(f))[WindowLength]) \o <<CLOSE>>
BY DEF NewestResults, Loop

(* The order of the natural numbers as a set of pairs.                     *)
Below == {ss \in Nat \X Nat : ss[1] < ss[2]}

(* Every set of natural numbers has a least element.                       *)
LEMMA LeastElement ==
    ASSUME NEW T \in SUBSET Nat, T # {}
    PROVE  \E x \in T : \A y \in T : x <= y
<1>1. OpToRel(<, Nat) = Below
  BY Zenon DEF OpToRel, Below
<1>2. IsWellFoundedOn(Below, Nat)
  BY Zenon, <1>1, NatLessThanWellFounded
<1>3. PICK x \in T : \A y \in T : <<y, x>> \notin Below
  BY <1>2, WFMin
<1>4. ASSUME NEW y \in T, y < x
      PROVE  FALSE
  BY <1>3, <1>4 DEF Below
<1>5. QED BY <1>4

(* The text is a solution of the loop's equation, and the only one.        *)
LEMMA LoopIsText ==
    ASSUME NEW size \in Nat, size = Len(results), size # 0,
           \A j \in 1..size : results[j] = j - 1,
           WindowLength \in 1..size
    PROVE  (CHOOSE f : Loop(f))[WindowLength] = Text(size, WindowLength)
<1> DEFINE W == WindowLength
           text == [len \in 1..W |-> Text(size, len)]
           from == CHOOSE f : Loop(f)
<1>1. ASSUME NEW len \in 1..W
      PROVE  results[size - len + 1] = size - len
  <2>1. len \in 1..size
    OBVIOUS
  <2>2. size - len + 1 \in 1..size
    BY <2>1
  <2>3. QED BY <2>1, <2>2
<1>2. <<size - 1>> = Text(size, 1)
  <2>1. /\ Text(size, 1) \in Seq(Int) /\ Len(Text(size, 1)) = 1
    <3>1. 1 \in 1..size /\ 2 * 1 - 1 = 1
      OBVIOUS
    <3>2. Text(size, 1) \in Seq(Int) /\ Len(Text(size, 1)) = 2 * 1 - 1
      BY <3>1, TextType
    <3>3. QED BY <3>1, <3>2
  <2>2. Text(size, 1)[1] = size - 1
    <3>1. 1 % 2 = 1 /\ 1 \div 2 = 0 /\ 1 \in 1..(2 * 1 - 1)
      OBVIOUS
    <3>2. QED BY <3>1 DEF Text
  <2>3. QED BY <2>1, <2>2
<1>3. ASSUME NEW len \in 1..W
      PROVE  text[len] = IF len > 1
                         THEN <<results[size - len + 1], COMMA>>
                                  \o text[len - 1]
                         ELSE <<results[size]>>
  <2>1. CASE len > 1
    <3>1. text[len] = Text(size, len) /\ text[len - 1] = Text(size, len - 1)
      BY <2>1
    <3>2. <<size - len, COMMA>> \o Text(size, len - 1) = Text(size, len)
      BY <2>1, TextGrows
    <3>3. results[size - len + 1] = size - len
      BY <1>1
    <3>4. text[len] = <<size - len, COMMA>> \o text[len - 1]
      BY <3>1, <3>2
    <3>5. QED BY <2>1, <3>3, <3>4, Zenon
  <2>2. CASE len = 1
    <3>1. text[len] = Text(size, 1) /\ results[size] = size - 1
      BY <2>2
    <3>2. text[len] = <<results[size]>>
      BY <1>2, <3>1
    <3>3. ~(len > 1)
      BY <2>2
    <3>4. QED BY <3>2, <3>3, Zenon
  <2>3. len > 1 \/ len = 1
    OBVIOUS
  <2>4. QED BY <2>1, <2>2, <2>3, Zenon
<1>4. Loop(text)
  <2> DEFINE step(len) == IF len > 1
                          THEN <<results[size - len + 1], COMMA>>
                                   \o text[len - 1]
                          ELSE <<results[size]>>
  <2>1. text = [len \in 1..W |-> text[len]]
    OBVIOUS
  <2>2. \A len \in 1..W : text[len] = step(len)
    BY <1>3
  <2> HIDE DEF text
  <2>3. [len \in 1..W |-> text[len]] = [len \in 1..W |-> step(len)]
    BY <2>2
  <2> HIDE DEF step
  <2>4. text = [len \in 1..W |-> step(len)]
    BY <2>1, <2>3
  <2>5. QED BY <2>4 DEF Loop, step
<1>5. Loop(from)
  BY <1>4
<1> HIDE DEF from
<1>6. \A len \in 1..W :
        from[len] = IF len > 1
                    THEN <<results[size - len + 1], COMMA>> \o from[len - 1]
                    ELSE <<results[size]>>
  <2> DEFINE step(len) == IF len > 1
                          THEN <<results[size - len + 1], COMMA>>
                                   \o from[len - 1]
                          ELSE <<results[size]>>
  <2>1. from = [len \in 1..W |-> step(len)]
    BY <1>5 DEF Loop
  <2> HIDE DEF step
  <2>2. \A len \in 1..W : from[len] = step(len)
    BY <2>1
  <2>3. QED BY <2>2 DEF step
<1> DEFINE Wrong == {n \in 1..W : from[n] # text[n]}
<1>7. Wrong = {}
  <2>1. SUFFICES ASSUME Wrong # {}
                 PROVE  FALSE
    OBVIOUS
  <2>2. Wrong \subseteq Nat
    OBVIOUS
  <2> HIDE DEF Wrong
  <2>3. PICK n \in Wrong : \A m \in Wrong : n <= m
    BY <2>1, <2>2, LeastElement
  <2> USE DEF Wrong
  <2>4. n \in 1..W /\ from[n] # text[n]
    OBVIOUS
  <2>5. n > 1 => from[n - 1] = text[n - 1]
    <3>1. n > 1 => n - 1 \in 1..W /\ ~(n <= n - 1)
      BY <2>4
    <3>2. QED BY <2>3, <3>1
  <2> HIDE DEF Wrong, text
  <2>6. QED BY <1>3, <1>6, <2>4, <2>5
<1>8. from[W] = text[W]
  <2>1. W \in 1..W
    OBVIOUS
  <2> HIDE DEF text, W
  <2>2. QED BY <1>7, <2>1
<1>9. QED BY <1>8 DEF from

(* The window as the property names it.                                    *)
Window(n) ==
    LET k == IF n < ReportWindow THEN n ELSE ReportWindow
    IN JsonArray([j \in 1..k |-> n - k + j - 1])

(* report() sends the window of all frames there are.                      *)
LEMMA NewestIsWindow ==
    ASSUME results \in Seq(Nat), results # <<>>, frameId = Len(results),
           \A j \in 1..Len(results) : results[j] = j - 1
    PROVE  NewestResults = Window(frameId)
<1> DEFINE n == frameId
           k == WindowLength
           text == Text(n, k)
           sent == (<<OPEN>> \o text) \o <<CLOSE>>
           s == [j \in 1..k |-> n - k + j - 1]
<1>1. n \in Nat /\ n # 0 /\ k \in 1..n
  BY ConstantsAssumption, EmptySeq DEF WindowLength
<1>2. k = IF n < ReportWindow THEN n ELSE ReportWindow
  BY DEF WindowLength
<1>3. NewestResults = sent
  BY <1>1, NewestIsLoop, LoopIsText
<1>4. text \in Seq(Int) /\ Len(text) = 2 * k - 1
  BY <1>1, TextType
<1>5. /\ sent \in Seq(Int) /\ Len(sent) = 2 * k + 1
      /\ sent[1] = OPEN /\ sent[2 * k + 1] = CLOSE
      /\ \A i \in 1..(2 * k - 1) : sent[i + 1] = text[i]
  <2>1. OPEN \in Int /\ CLOSE \in Int
    BY DEF OPEN, CLOSE
  <2> HIDE DEF text, k, n
  <2>2. /\ sent \in Seq(Int) /\ Len(sent) = Len(text) + 2
        /\ sent[1] = OPEN /\ sent[Len(text) + 2] = CLOSE
        /\ \A i \in 1..Len(text) : sent[i + 1] = text[i]
    BY <1>4, <2>1, Bracketed
  <2> HIDE DEF sent
  <2>3. QED BY <1>1, <1>4, <2>2
<1>6. /\ s \in Seq(Int) /\ Len(s) = k /\ s # <<>>
      /\ \A j \in 1..k : s[j] = n - k + j - 1
  <2> HIDE DEF k, n
  <2>1. s \in [1..k -> Int]
    BY <1>1
  <2>2. s \in Seq(Int) /\ Len(s) = k
    BY <1>1, <2>1
  <2>3. \A j \in 1..k : s[j] = n - k + j - 1
    OBVIOUS
  <2> HIDE DEF s
  <2>4. QED BY <1>1, <2>2, <2>3
<1>7. JsonArray(s) =
        [i \in 1..(2 * k + 1) |->
            IF i = 1 THEN OPEN ELSE IF i = 2 * k + 1 THEN CLOSE
            ELSE IF i % 2 = 0 THEN s[i \div 2] ELSE COMMA]
  <2> HIDE DEF s
  <2>1. QED BY <1>6 DEF JsonArray
<1> DEFINE array == JsonArray(s)
<1>8. \A i \in 1..(2 * k - 1) :
        text[i] = IF i % 2 = 1 THEN n - k + (i \div 2) ELSE COMMA
  BY DEF Text
<1> HIDE DEF text, sent, s, k, n
<1>9. ASSUME NEW i \in 1..(2 * k + 1)
      PROVE  sent[i] = array[i]
  <2>1. CASE i = 1
    BY <1>5, <1>7, <2>1
  <2>2. CASE i = 2 * k + 1
    BY <1>1, <1>5, <1>7, <2>2
  <2>3. CASE i \notin {1, 2 * k + 1}
    <3>1. i \in Nat /\ i > 0 /\ i - 1 \in 1..(2 * k - 1) /\ i = (i - 1) + 1
      BY <1>1, <2>3
    <3>2. sent[i] = text[i - 1]
      BY <1>5, <3>1
    <3>3. array[i] = IF i % 2 = 0 THEN s[i \div 2] ELSE COMMA
      BY <1>7, <2>3
    <3>4. CASE i % 2 = 0
      <4>1. (i - 1) % 2 = 1 /\ (i - 1) \div 2 = i \div 2 - 1
              /\ i = 2 * (i \div 2) /\ i \div 2 \in Nat
        BY <3>1, <3>4, Halves
      <4>2. i \div 2 \in 1..k
        BY <1>1, <3>1, <4>1
      <4>3. text[i - 1] = n - k + (i \div 2 - 1)
        BY <1>8, <3>1, <4>1
      <4>4. s[i \div 2] = n - k + (i \div 2) - 1
        BY <1>6, <4>2
      <4>5. QED BY <1>1, <3>2, <3>3, <3>4, <4>1, <4>3, <4>4
    <3>5. CASE i % 2 = 1
      <4>1. (i - 1) % 2 = 0
        BY <3>1, <3>5, Halves
      <4>2. text[i - 1] = COMMA
        BY <1>8, <3>1, <4>1
      <4>3. QED BY <3>2, <3>3, <3>5, <4>2
    <3>6. QED BY <3>1, <3>4, <3>5, Halves
  <2>4. QED BY <2>1, <2>2, <2>3
<1>10. sent = [i \in 1..(2 * k + 1) |-> sent[i]]
  BY <1>5
<1>11. array = [i \in 1..(2 * k + 1) |-> array[i]]
  BY <1>7
<1>12. sent = array
  BY <1>9, <1>10, <1>11
<1>13. Window(n) = array
  BY <1>2 DEF Window, s
<1>14. QED BY <1>3, <1>12, <1>13 DEF n

-----------------------------------------------------------------------------
(* Arithmetic of ints.                                                     *)
LEMMA WrapKeepsWidth ==
    ASSUME NEW n \in Int
    PROVE  /\ Wrap(n) \in (-IntHalf)..(IntHalf - 1)
           /\ n \in Nat /\ n < IntHalf => Wrap(n) = n
<1> DEFINE m == 2 * IntHalf
           k == n + IntHalf
<1>1. m \in Nat \ {0} /\ k \in Int /\ IntHalf \in Nat
  BY ConstantsAssumption
<1>2. n \in Nat /\ n < IntHalf => k \in Nat /\ k < m
  BY <1>1
<1>3. Wrap(n) = (k % m) - IntHalf
  BY DEF Wrap
<1>4. n = k - IntHalf /\ m = 2 * IntHalf
  BY <1>1
<1> HIDE DEF m, k
<1>5. k % m \in 0..(m - 1)
  BY <1>1
<1>6. k \in Nat /\ k < m => k % m = k
  BY <1>1
<1>7. QED BY <1>1, <1>2, <1>3, <1>4, <1>5, <1>6

(* A quotient of natural numbers is no more than what was divided.         *)
LEMMA Division ==
    ASSUME NEW a \in Nat, NEW b \in Nat \ {0}
    PROVE  a \div b \in Nat /\ a \div b <= a
<1>1. a \div b \in Nat
  OBVIOUS
<1>2. a \div b <= a
  OBVIOUS
<1>3. QED BY <1>1, <1>2

(* A quotient of an int by a positive int is an int.                       *)
LEMMA QuotientKeepsWidth ==
    ASSUME NEW a \in (-IntHalf)..(IntHalf - 1), NEW b \in Nat \ {0}
    PROVE  Quotient(a, b) \in (-IntHalf)..(IntHalf - 1)
<1>1. IntHalf \in Nat /\ IntHalf > 100 /\ a \in Int
  BY ConstantsAssumption
<1>2. CASE a >= 0
  <2>1. a \in Nat /\ a < IntHalf /\ Quotient(a, b) = a \div b
    BY <1>1, <1>2 DEF Quotient
  <2>2. a \div b \in Nat /\ a \div b <= a
    BY <2>1, Division
  <2>3. QED BY <1>1, <2>1, <2>2
<1>3. CASE a < 0
  <2> DEFINE c == -a
  <2>1. c \in Nat /\ c <= IntHalf /\ Quotient(a, b) = -(c \div b)
    BY <1>1, <1>3 DEF Quotient
  <2>2. c # 0
    BY <1>1, <1>3
  <2> HIDE DEF c
  <2>3. c \div b \in Nat /\ c \div b <= c
    BY <2>1, Division
  <2>4. QED BY <1>1, <2>1, <2>3
<1>4. QED BY <1>1, <1>2, <1>3

(* A window is a sequence of results and of an array's marks.              *)
LEMMA WindowType ==
    ASSUME NEW n \in 1..MaxFrames
    PROVE  Window(n) \in Seq(COMMA..MaxFrames)
<1> DEFINE k == IF n < ReportWindow THEN n ELSE ReportWindow
           s == [j \in 1..k |-> n - k + j - 1]
<1>1. n \in Nat /\ k \in 1..n /\ n <= MaxFrames /\ MaxFrames \in Nat
  BY ConstantsAssumption
<1> HIDE DEF k
<1>2. /\ s \in [1..k -> 0..MaxFrames] /\ s \in Seq(0..MaxFrames)
      /\ Len(s) = k /\ s # <<>>
  <2>1. s \in [1..k -> 0..MaxFrames]
    BY <1>1
  <2> HIDE DEF s
  <2>2. QED BY <1>1, <2>1
<1> HIDE DEF s
<1>3. JsonArray(s) =
        [i \in 1..(2 * k + 1) |->
            IF i = 1 THEN OPEN ELSE IF i = 2 * k + 1 THEN CLOSE
            ELSE IF i % 2 = 0 THEN s[i \div 2] ELSE COMMA]
  BY <1>2 DEF JsonArray
<1>4. ASSUME NEW i \in 1..(2 * k + 1)
      PROVE  (IF i = 1 THEN OPEN ELSE IF i = 2 * k + 1 THEN CLOSE
              ELSE IF i % 2 = 0 THEN s[i \div 2] ELSE COMMA)
                  \in COMMA..MaxFrames
  <2>1. {OPEN, CLOSE, COMMA} \subseteq COMMA..MaxFrames
          /\ 0..MaxFrames \subseteq COMMA..MaxFrames
    BY <1>1 DEF OPEN, CLOSE, COMMA
  <2>2. i % 2 = 0 => i \div 2 \in 1..k
    <3>1. i \in Nat
      OBVIOUS
    <3>2. i \div 2 \in Nat /\ i % 2 = i - 2 * (i \div 2)
      BY <3>1, Halves
    <3>3. QED BY <1>1, <3>1, <3>2
  <2>3. i % 2 = 0 => s[i \div 2] \in 0..MaxFrames
    BY <1>2, <2>2
  <2>4. QED BY <2>1, <2>3
<1> DEFINE len == 2 * k + 1
<1>5. len \in Nat /\ JsonArray(s) \in [1..len -> COMMA..MaxFrames]
  BY <1>1, <1>3, <1>4
<1> HIDE DEF len
<1>6. JsonArray(s) \in Seq(COMMA..MaxFrames)
  BY <1>5, SeqDef, Zenon
<1>7. QED BY <1>6 DEF Window, s, k

(* The report the head of next() makes, when one is due.                   *)
LEMMA DueReport ==
    ASSUME IInv, results # <<>>
    PROVE  LET r == ReportCall(Progress, NewestResults, FALSE)
           IN /\ r \in Report /\ ~r.end /\ r.frames = frameId
              /\ frameId \in 1..MaxFrames
              /\ r.payload = Window(frameId)
              /\ r.progress = Quotient(Wrap(frameId * 100), length)
<1> USE DEF IInv
<1>1. frameId \in 1..MaxFrames /\ length \in Nat \ {0} /\ now \in Times
  <2>1. /\ results \in Seq(Nat)
        /\ frameId = Len(results) /\ frameId \in 0..MaxFrames
    BY DEF NeverUsedUp, FramesCounted, TypeOK
  <2>2. frameId # 0
    BY <2>1, EmptySeq
  <2>3. length \in Nat \ {0}
    BY <2>2 DEF NeverUsedUp
  <2>4. now \in Times
    BY DEF TypeOK
  <2>5. QED BY <2>1, <2>2, <2>3, <2>4, ConstantsAssumption
<1>2. NewestResults = Window(frameId)
  BY NewestIsWindow DEF NeverUsedUp, FramesCounted
<1>3. Window(frameId) \in Seq(COMMA..MaxFrames)
  BY <1>1, WindowType
<1>4. Progress \in (-IntHalf)..(IntHalf - 1)
  <2>1. frameId * 100 \in Int
    BY <1>1, ConstantsAssumption
  <2>2. Wrap(frameId * 100) \in (-IntHalf)..(IntHalf - 1)
    BY <2>1, WrapKeepsWidth
  <2>3. QED BY <1>1, <2>2, QuotientKeepsWidth DEF Progress
<1>5. frameId \in 0..MaxFrames
  BY <1>1, ConstantsAssumption
<1>6. ReportCall(Progress, NewestResults, FALSE) \in Report
  BY <1>1, <1>2, <1>3, <1>4, <1>5 DEF ReportCall, Report
<1>7. QED BY <1>1, <1>2, <1>6 DEF ReportCall, Progress

(* The head of next() appends no other report.                             *)
LEMMA HeadOfNext ==
    ASSUME IInv, reports' = ReportsAtHead, frameId' \in Nat,
           frameId' >= frameId, length' = length
    PROVE  ReportsMade' /\ WindowIsNewest' /\ reports' \in Seq(Report)
<1> USE DEF IInv
<1>1. reports \in Seq(Report) /\ frameId \in Nat
  BY DEF TypeOK, NeverUsedUp
<1> DEFINE Fine(r) ==
             /\ r.frames \in 1..frameId'
             /\ r.progress = Quotient(Wrap(r.frames * 100), length)
             /\ r.payload = Window(r.frames)
<1>2. ASSUME NEW i \in 1..Len(reports), ~reports[i].end
      PROVE  Fine(reports[i]) /\ reports[i].frames <= frameId
  <2>1. Periodic(i)
    BY <1>2 DEF Periodic
  <2>2. /\ reports[i].frames \in 1..frameId
        /\ reports[i].progress
               = Quotient(Wrap(reports[i].frames * 100), length)
    BY <2>1 DEF ReportsMade
  <2>3. reports[i].payload = Window(reports[i].frames)
    BY <2>1 DEF WindowIsNewest, Window
  <2>4. reports[i].frames \in 1..frameId' /\ reports[i].frames <= frameId
    BY <1>1, <2>2
  <2>5. QED BY <2>2, <2>3, <2>4
<1>3. \A i \in 1..Len(reports) : Periodic(i) /\ Periodic(i - 1) =>
        reports[i - 1].frames <= reports[i].frames
  BY DEF ReportsMade
<1>4. ASSUME reports' \in Seq(Report),
             \A i \in 1..Len(reports') : ~reports'[i].end => Fine(reports'[i]),
             \A i \in 1..Len(reports') : Periodic(i)' /\ Periodic(i - 1)' =>
                 reports'[i - 1].frames <= reports'[i].frames
      PROVE  ReportsMade' /\ WindowIsNewest' /\ reports' \in Seq(Report)
  BY <1>4 DEF ReportsMade, WindowIsNewest, Window, Periodic
<1> HIDE DEF Fine
<1>5. CASE reports' = reports
  BY <1>1, <1>2, <1>3, <1>4, <1>5 DEF Periodic
<1>6. CASE reports' # reports
  <2> DEFINE r == ReportCall(Progress, NewestResults, FALSE)
  <2>1. results # <<>> /\ reports' = Append(reports, r)
    BY <1>6 DEF ReportsAtHead
  <2>2. /\ r \in Report /\ ~r.end /\ r.frames = frameId
        /\ frameId \in 1..MaxFrames
        /\ r.payload = Window(frameId)
        /\ r.progress = Quotient(Wrap(frameId * 100), length)
    BY <2>1, DueReport
  <2> HIDE DEF r
  <2>3. Fine(r)
    BY <1>1, <2>2 DEF Fine
  <2>4. /\ reports' \in Seq(Report) /\ Len(reports') = Len(reports) + 1
        /\ Len(reports) \in Nat
        /\ \A i \in 1..Len(reports) : reports'[i] = reports[i]
        /\ reports'[Len(reports) + 1] = r
    BY <1>1, <2>1, <2>2, AppendProperties
  <2>5. ASSUME NEW i \in 1..Len(reports'), ~reports'[i].end
        PROVE  Fine(reports'[i])
    <3>1. CASE i \in 1..Len(reports)
      BY <1>2, <2>4, <2>5, <3>1
    <3>2. CASE i = Len(reports) + 1
      BY <2>3, <2>4, <3>2
    <3>3. QED BY <2>4, <3>1, <3>2
  <2>6. ASSUME NEW i \in 1..Len(reports'), Periodic(i)', Periodic(i - 1)'
        PROVE  reports'[i - 1].frames <= reports'[i].frames
    <3>1. i - 1 \in 1..Len(reports) /\ ~reports'[i - 1].end
      BY <2>4, <2>6 DEF Periodic
    <3>2. reports'[i - 1] = reports[i - 1] /\ Periodic(i - 1)
      BY <2>4, <3>1 DEF Periodic
    <3>3. CASE i \in 1..Len(reports)
      <4>1. reports'[i] = reports[i] /\ Periodic(i)
        BY <2>4, <2>6, <3>3 DEF Periodic
      <4>2. QED BY <1>3, <3>2, <3>3, <4>1
    <3>4. CASE i = Len(reports) + 1
      <4>1. reports[i - 1].frames <= frameId
        BY <1>2, <3>1, <3>2
      <4>2. QED BY <2>2, <2>4, <3>2, <3>4, <4>1
    <3>5. QED BY <2>4, <3>3, <3>4
  <2>7. QED BY <1>4, <2>4, <2>5, <2>6
<1>7. QED BY <1>5, <1>6

(* Every step keeps the results numbered, and the reports made from them.  *)
LEMMA StepContents ==
    IInv /\ [Next]_vars =>
        FramesCounted' /\ ReportsMade' /\ WindowIsNewest'
            /\ reports' \in Seq(Report)
<1> SUFFICES ASSUME IInv, [Next]_vars
             PROVE  /\ FramesCounted' /\ ReportsMade' /\ WindowIsNewest'
                    /\ reports' \in Seq(Report)
  OBVIOUS
<1> USE DEF IInv
<1>1. /\ reports \in Seq(Report) /\ results \in Seq(Nat)
      /\ frameId = Len(results) /\ frameId \in Nat
  BY DEF TypeOK, NeverUsedUp, FramesCounted
<1>2. CASE /\ UNCHANGED <<reports, results, frameId>>
           /\ length' = length \/ reports = <<>>
  BY <1>1, <1>2 DEF FramesCounted, ReportsMade, WindowIsNewest, Periodic
<1>3. CASE UNCHANGED vars \/ ClockMoves \/ GetModel \/ LoadPlugin \/ GetDataset
             \/ BuildEngine \/ NextDivides
  <2>1. UNCHANGED <<reports, results, frameId, length>>
    BY <1>3 DEF vars, ClockMoves, GetModel, LoadPlugin, GetDataset,
         BuildEngine, NextDivides, built, run
  <2>2. QED BY <1>2, <2>1
<1>4. CASE ParseDataset
  <2>1. pc = "dataset" /\ UNCHANGED run
    BY <1>4 DEF ParseDataset
  <2>2. reports = <<>>
    BY <2>1 DEF BuildOrder, NeverUsedUp, ReportMemory
  <2>3. QED BY <1>2, <2>1, <2>2 DEF run
<1>5. CASE NextEnds
  <2>1. length = 0 /\ pc = "ready" /\ UNCHANGED <<results, frameId>>
    BY <1>5, EmptyIsOver DEF NextEnds
  <2>2. results = <<>> /\ frameId = 0 /\ reports = <<>> /\ now \in Times
    BY <2>1 DEF NeverUsedUp, ReportMemory, TypeOK
  <2> DEFINE r == ReportCall(100, AllResults, TRUE)
  <2>3. reports' = <<r>>
    BY <1>5, <2>2 DEF NextEnds, ReportsAtHead
  <2>4. r.end /\ r \in Report
    <3>1. AllResults = <<CLOSE>>
      BY <2>2, NoResultsNoArray
    <3>2. CLOSE \in COMMA..MaxFrames
      BY ConstantsAssumption DEF CLOSE, COMMA
    <3>3. <<CLOSE>> \in Seq(COMMA..MaxFrames)
      BY <3>2
    <3>4. 100 \in (-IntHalf)..(IntHalf - 1) /\ 0 \in 0..MaxFrames
      BY ConstantsAssumption
    <3>5. r = [at |-> now, frames |-> 0, progress |-> 100,
               payload |-> <<CLOSE>>, end |-> TRUE]
      BY <2>2, <3>1 DEF ReportCall
    <3> HIDE DEF r
    <3>6. r.end
      BY <3>5
    <3>7. r \in Report
      BY <2>2, <3>3, <3>4, <3>5 DEF Report
    <3>8. QED BY <3>6, <3>7
  <2> HIDE DEF r
  <2>5. \A i \in 1..Len(reports') : ~Periodic(i)'
    BY <2>3, <2>4 DEF Periodic
  <2>6. reports' \in Seq(Report)
    BY <2>3, <2>4
  <2>7. QED
    BY <2>1, <2>5, <2>6 DEF FramesCounted, ReportsMade, WindowIsNewest
<1>6. CASE NextFaults
  <2>1. UNCHANGED <<results, frameId, length>> /\ reports' = ReportsAtHead
    BY <1>6 DEF NextFaults, PeriodicReport, built
  <2>2. QED BY <1>1, <2>1, HeadOfNext DEF FramesCounted
<1>7. CASE NextFrame
  <2>1. /\ results' = Append(results, frameId) /\ frameId' = frameId + 1
        /\ length' = length /\ reports' = ReportsAtHead
    BY <1>7 DEF NextFrame, PeriodicReport, built
  <2>2. FramesCounted'
    <3>1. /\ Len(results') = Len(results) + 1
          /\ \A j \in 1..Len(results) : results'[j] = results[j]
          /\ results'[Len(results) + 1] = frameId
      BY <1>1, <2>1, AppendProperties
    <3>2. QED BY <1>1, <2>1, <3>1 DEF FramesCounted
  <2>3. QED BY <1>1, <2>1, <2>2, HeadOfNext
<1>8. QED
  BY <1>3, <1>4, <1>5, <1>6, <1>7 DEF Next, Construction, NextCall

(* Every step keeps the types.                                             *)
LEMMA StepTypes ==
    IInv /\ [Next]_vars => TypeOK'
<1> SUFFICES ASSUME IInv, [Next]_vars
             PROVE  TypeOK'
  OBVIOUS
<1>1. TypeOK /\ reports' \in Seq(Report) /\ pos = 0 /\ results \in Seq(Nat)
  BY StepContents DEF IInv, NeverUsedUp
<1>2. results \in Seq(0..MaxFrames) /\ frameId \in 0..MaxFrames
        /\ length \in 0..MaxLength
  BY <1>1 DEF TypeOK
<1> USE DEF TypeOK, built, run, Crash
<1> DEFINE Flags == /\ initOk \in BOOLEAN /\ plugin \in BOOLEAN
                    /\ path \in BOOLEAN /\ engine \in BOOLEAN
                    /\ net \in BOOLEAN
<1>3. ASSUME UNCHANGED vars \/ ClockMoves
      PROVE  TypeOK'
  <2>1. /\ initOk' = initOk /\ plugin' = plugin /\ path' = path
        /\ engine' = engine /\ net' = net
    BY <1>3 DEF vars, ClockMoves
  <2>2. Flags'
    BY <1>1, <2>1, Zenon
  <2>3. /\ UNCHANGED <<pc, length, pos, code, frameId, results, lastAccess,
                       fault>>
        /\ now' \in Times
    BY <1>1, <1>3 DEF vars, ClockMoves
  <2> HIDE DEF Flags
  <2>4. Flags' => TypeOK'
    BY <1>1, <2>3 DEF Flags
  <2>5. QED BY <2>2, <2>4
<1>4. CASE Construction
  <2>1. CASE GetModel
    BY <1>1, <2>1, ZenonT(30) DEF GetModel
  <2>2. CASE LoadPlugin
    BY <1>1, <2>2, ZenonT(30) DEF LoadPlugin
  <2>3. CASE GetDataset
    BY <1>1, <2>3, Zenon DEF GetDataset
  <2>4. CASE ParseDataset
    BY <1>1, <2>4, Zenon DEF ParseDataset
  <2>5. CASE BuildEngine
    BY <1>1, <2>5, Zenon DEF BuildEngine, LoadModel
  <2>6. QED BY <1>4, <2>1, <2>2, <2>3, <2>4, <2>5 DEF Construction
<1>5. CASE NextCall
  <2>1. DatasetCode(pos, length)
          \in {NoElement, DATASET_BEGIN, DATASET_MIDDLE, DATASET_END}
    BY DEF DatasetCode
  <2>2. PeriodicReport => lastAccess' \in Times \cup {0}
    BY <1>1 DEF PeriodicReport
  <2>3. CASE NextDivides
    BY <1>1, <2>3 DEF NextDivides
  <2>4. CASE NextEnds
    BY <1>1, <2>4 DEF NextEnds
  <2>5. CASE NextFrame
    <3>1. frameId' \in 0..MaxFrames /\ results' \in Seq(0..MaxFrames)
      BY <1>2, <2>5, ConstantsAssumption DEF NextFrame
    <3>2. QED BY <1>1, <2>1, <2>2, <2>5, <3>1 DEF NextFrame
  <2>6. CASE NextFaults
    BY <1>1, <2>1, <2>2, <2>6 DEF NextFaults
  <2>7. QED BY <1>5, <2>3, <2>4, <2>5, <2>6 DEF NextCall
<1>6. QED BY <1>3, <1>4, <1>5 DEF Next

(* Every step preserves the invariant.                                     *)
LEMMA StepIInv == IInv /\ [Next]_vars => IInv'
BY StepTypes, StepNeverUsedUp, StepBuildOrder, StepReports, StepContents
   DEF IInv

(* The inductive invariant of the class.                                   *)
THEOREM InductiveInvariance == Spec => []IInv
BY InitIInv, StepIInv, PTL DEF Spec

(* NoNullDereference of the run MCJobTask: whichever call of init() fails, *)
(* next() never works on the null plugin or the null engine.               *)
THEOREM FailedInitIsHarmless == Spec => []NoNullDereference
<1>1. IInv => NoNullDereference
  BY DEF IInv, BuildOrder
<1> QED BY <1>1, InductiveInvariance, PTL

(* ReportSpacing: two periodic reports are more than the period apart on   *)
(* the clock, however it is set.                                           *)
THEOREM ReportsKeepDistance == Spec => []ReportSpacing
<1>1. IInv => ReportSpacing
  BY DEF IInv
<1> QED BY <1>1, InductiveInvariance, PTL

(* EndReportStandsAlone: an end report is the only one of its job, and     *)
(* comes without a frame.                                                  *)
THEOREM EndReportsAreEmpty == Spec => []EndReportStandsAlone
<1>1. IInv => EndReportStandsAlone
  BY DEF IInv
<1> QED BY <1>1, InductiveInvariance, PTL

(* TypeOK: every variable has the type of its C++ member, and what is sent *)
(* as a progress is always an int.                                         *)
THEOREM TypeCorrectness == Spec => []TypeOK
<1>1. IInv => TypeOK
  BY DEF IInv
<1> QED BY <1>1, InductiveInvariance, PTL

(* WindowIsNewest: report()'s loop sends the newest results there are,     *)
(* oldest first and at most as many as its window, as a JSON array.        *)
THEOREM ReportsSendNewest == Spec => []WindowIsNewest
<1>1. IInv => WindowIsNewest
  BY DEF IInv
<1> QED BY <1>1, InductiveInvariance, PTL

(* ProgressIsHonest: until the product overflows, the progress is 100 or   *)
(* more exactly when all elements are processed, and never falls.          *)
THEOREM HonestProgress == Spec => []ProgressIsHonest
<1>1. IInv => ProgressIsHonest
  <2> SUFFICES ASSUME IInv, NEW i \in 1..Len(reports), Periodic(i),
                      reports[i].frames * 100 < IntHalf
               PROVE  /\ reports[i].progress >= 100 <=>
                             reports[i].frames >= length
                      /\ Periodic(i - 1) =>
                             reports[i - 1].progress <= reports[i].progress
    BY DEF ProgressIsHonest
  <2> USE DEF IInv
  <2>1. length \in Nat \ {0} /\ frameId \in Nat /\ IntHalf \in Nat
    <3>1. frameId # 0
      BY DEF ReportsMade, NeverUsedUp
    <3>2. QED BY <3>1, ConstantsAssumption DEF NeverUsedUp
  <2>2. ASSUME NEW j \in 1..Len(reports), Periodic(j),
               reports[j].frames * 100 < IntHalf
        PROVE  /\ reports[j].frames \in Nat
               /\ reports[j].progress = (reports[j].frames * 100) \div length
    <3> DEFINE f == reports[j].frames
    <3>1. f \in 1..frameId /\ reports[j].progress
                                = Quotient(Wrap(f * 100), length)
      BY <2>2 DEF ReportsMade
    <3>2. f * 100 < IntHalf
      BY <2>2
    <3> HIDE DEF f
    <3>3. f \in Nat /\ f * 100 \in Nat
      BY <2>1, <3>1
    <3>4. Wrap(f * 100) = f * 100
      BY <3>2, <3>3, WrapKeepsWidth
    <3>5. Quotient(f * 100, length) = (f * 100) \div length
      BY <3>3 DEF Quotient
    <3>6. QED BY <3>1, <3>3, <3>4, <3>5 DEF f
  <2> DEFINE f == reports[i].frames
             g == reports[i - 1].frames
  <2>3. f \in Nat /\ reports[i].progress = (f * 100) \div length
    BY <2>2
  <2>4. reports[i].progress >= 100 <=> f >= length
    <3> HIDE DEF f
    <3>1. (f * 100) \div length >= 100 <=> f >= length
      BY <2>1, <2>3
    <3>2. QED BY <2>3, <3>1
  <2>5. ASSUME Periodic(i - 1)
        PROVE  reports[i - 1].progress <= reports[i].progress
    <3>1. i - 1 \in 1..Len(reports) /\ g <= f
      BY <2>5 DEF Periodic, ReportsMade
    <3>2. g \in Nat
      BY <2>1, <2>5, <3>1 DEF ReportsMade
    <3>3. g * 100 < IntHalf
      <4>1. f * 100 < IntHalf
        OBVIOUS
      <4> HIDE DEF f, g
      <4>2. QED BY <2>1, <2>3, <3>1, <3>2, <4>1
    <3>4. reports[i - 1].progress = (g * 100) \div length
      BY <2>2, <2>5, <3>1, <3>3
    <3> HIDE DEF f, g
    <3>5. (g * 100) \div length <= (f * 100) \div length
      <4> DEFINE a == g * 100
                 b == f * 100
      <4>1. a \in Nat /\ b \in Nat /\ a <= b
        BY <2>3, <3>1, <3>2
      <4> HIDE DEF a, b
      <4>2. a \div length <= b \div length
        BY <2>1, <4>1
      <4>3. QED BY <4>2 DEF a, b
    <3>6. QED BY <2>3, <3>4, <3>5
  <2>6. QED BY <2>4, <2>5
<1> QED BY <1>1, InductiveInvariance, PTL

-----------------------------------------------------------------------------
(* The job seen as its owner sees it starts with no object.                *)
LEMMA InitLife == Init => Contract!Init
BY DEF Init, Contract!Init, Life

(* Every step of the class is a step of the contract, or changes nothing   *)
(* the owner can see.                                                      *)
LEMMA StepLife == IInv /\ [Next]_vars => [Contract!Next]_Life
<1> SUFFICES ASSUME IInv, [Next]_vars
             PROVE  [Contract!Next]_Life
  OBVIOUS
<1> USE DEF IInv
<1>1. ASSUME UNCHANGED <<pc, length>>
      PROVE  UNCHANGED Life
  BY <1>1 DEF Life
<1>2. CASE UNCHANGED vars
  BY <1>1, <1>2 DEF vars, built
<1>3. CASE ClockMoves
  BY <1>1, <1>3 DEF ClockMoves, built
<1>4. CASE Construction
  <2>1. Life = "none"
    BY <1>4 DEF Construction, GetModel, LoadPlugin, GetDataset, ParseDataset,
         BuildEngine, Life
  <2>2. pc' \in {"plugin", "path", "dataset", "engine", "ready", "crashed"}
    BY <1>4 DEF Construction, GetModel, LoadPlugin, GetDataset, ParseDataset,
         BuildEngine, Crash
  <2>3. length' \in Nat
    BY StepNeverUsedUp DEF NeverUsedUp
  <2>4. Life' \in {"none", "empty", "frames", "crashed"}
    BY <2>2, <2>3 DEF Life
  <2> QED BY <2>1, <2>4 DEF Contract!Next, Contract!Construct
<1>5. CASE NextDivides
  <2>1. Life = "empty" /\ Life' = "crashed"
    BY <1>5 DEF NextDivides, DividesByZero, Crash, Life, built
  <2> QED BY <2>1 DEF Contract!Next, Contract!NextCall,
            Contract!NextWithoutData
<1>6. CASE NextEnds
  <2>1. length = 0 /\ pc = "ready" /\ pc' = "ended"
    BY <1>6, EmptyIsOver DEF NextEnds
  <2>2. Life = "empty" /\ Life' = "ended"
    BY <2>1 DEF Life
  <2> QED BY <2>2 DEF Contract!Next, Contract!NextCall,
            Contract!NextWithoutData
<1>7. CASE NextFrame \/ NextFaults
  <2>1. pc = "ready" /\ length # 0 /\ length' = length
    BY <1>7, EmptyIsOver DEF NextFrame, NextFaults, built
  <2>2. pc' \in {"ready", "crashed"}
    BY <1>7, Zenon DEF NextFrame, NextFaults, Crash
  <2>3. Life = "frames" /\ Life' \in {"frames", "crashed"}
    BY <2>1, <2>2 DEF Life
  <2> QED BY <2>3 DEF Contract!Next, Contract!NextCall, Contract!NextWithData
<1> QED BY <1>2, <1>3, <1>4, <1>5, <1>6, <1>7 DEF Next, NextCall

(* LifeSpec: the class implements the contract that task_thread, as        *)
(* CommandPath models it, relies on.                                       *)
THEOREM ClassImplementsLife == Spec => LifeSpec
<1> QED
  BY InitLife, StepLife, InductiveInvariance, PTL
     DEF Spec, LifeSpec, Contract!Spec
=============================================================================
