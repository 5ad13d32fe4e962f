------------------------------ MODULE JobTask ------------------------------
(***************************************************************************)
(* One JobTask object (workProcess/jobTask.cpp) from its construction to   *)
(* the result of its last next(), with the DatasetMgr, the plugin and the  *)
(* engine it owns, the RPCs it makes and the wall clock it reads.          *)
(*                                                                         *)
(* A result string of the plugin is the number of the frame it came from,  *)
(* and json_result the sequence of these numbers and the array's marks.    *)
(* The server, the plugin, OpenCV and MXNet answer or fail as they like.   *)
(***************************************************************************)
EXTENDS Integers, Sequences

CONSTANTS
    MaxLength,          \* bound: elements of a dataset
    MaxFrames,          \* bound: inferences of the job
    MaxTime,            \* bound: what the wall clock shows, in seconds
    ReportPeriod,       \* the 30 seconds of next()
    ReportWindow,       \* the 20 results of report()
    IntHalf,            \* an int holds -IntHalf .. IntHalf - 1
    DivisionByZero      \* what the build makes of n / 0, see below

(* Dividing an int by 0 is undefined: the instruction traps, unless the    *)
(* compiler moves the division below the early return that makes its value *)
(* unused.                                                                 *)
ASSUME ConstantsAssumption ==
    /\ MaxLength \in Nat
    /\ MaxFrames \in Nat
    /\ MaxTime \in Nat
    /\ ReportPeriod \in Nat
    /\ ReportWindow \in Nat \ {0}
    /\ IntHalf \in Nat /\ IntHalf > 100
    /\ DivisionByZero \subseteq {"traps", "skipped"}
    /\ DivisionByZero # {}

(* The wall clock: long past the first seconds of 1970, and otherwise free *)
(* to be set forwards and back.                                            *)
Times == (ReportPeriod + 1)..MaxTime

VARIABLES
    pc,             \* step of init(), or ready, ended, crashed
    initOk,         \* init_ok
    plugin,         \* pre_post_ is not null
    path,           \* dataset_path is not empty
    engine,         \* engine_ is not null
    net,            \* the engine's netHandle_ is not null
    length,         \* dataset_mgr_.length()
    pos,            \* dataset_mgr_.pos_
    code,           \* the last result of dataset_mgr_.next()
    frameId,        \* frame_id_
    results,        \* alg_result_
    lastAccess,     \* last_access_time_
    now,            \* the wall clock
    reports,        \* history: the ReportTask calls made
    fault           \* history: what took the process down

(* What init() builds, and what next() works on.                           *)
built == <<initOk, plugin, path, engine, net, length>>
run == <<pos, code, frameId, results, lastAccess, reports>>
vars == <<pc, built, run, now, fault>>

DATASET_BEGIN == 0
DATASET_MIDDLE == 1
DATASET_END == 2
NoElement == -1

Init ==
    /\ pc = "model"
    /\ initOk = FALSE
    /\ plugin = FALSE
    /\ path = FALSE
    /\ engine = FALSE
    /\ net = FALSE
    /\ length = 0
    /\ pos = 0
    /\ code = NoElement
    /\ frameId = 0
    /\ results = <<>>
    /\ lastAccess = 0
    /\ now \in Times
    /\ reports = <<>>
    /\ fault = "none"

Crash(reason) ==
    /\ pc' = "crashed"
    /\ fault' = reason

ClockMoves ==
    /\ pc \notin {"ended", "crashed"}
    /\ \E t \in Times \ {now} : now' = t
    /\ UNCHANGED <<pc, built, run, fault>>

-----------------------------------------------------------------------------
(* init(), one action per call that can fail.                              *)

(* GetTaskAimodel: a failed RPC makes init() return -1.                    *)
GetModel ==
    /\ pc = "model"
    /\ pc' \in {"plugin", "ready"}
    /\ UNCHANGED <<built, run, now, fault>>

(* A variant of init() that reads the dataset before it loads the plugin.  *)
DatasetBeforePlugin ==
    /\ pc = "plugin"
    /\ \/ plugin' = TRUE /\ pc' = "path" /\ UNCHANGED length
       \/ plugin' = FALSE /\ pc' = "ready" /\ length' \in 0..MaxLength
    /\ UNCHANGED <<initOk, path, engine, net, run, now, fault>>

(* Plugin::loadPlugin, of ./libplugin.so whatever path the server named:   *)
(* dlopen or dlsym may fail, and then init() returns -1.  Otherwise the    *)
(* plugin's own createAlgHandle() and initModel() run, and may fault.      *)
LoadPlugin ==
    /\ pc = "plugin"
    /\ \/ plugin' = TRUE /\ pc' = "path" /\ UNCHANGED fault
       \/ plugin' = FALSE /\ pc' = "ready" /\ UNCHANGED fault
       \/ Crash("plugin code") /\ UNCHANGED plugin
    /\ UNCHANGED <<initOk, path, engine, net, length, run, now>>

(* GetTaskDataset: a failed RPC leaves the path empty, and its result is   *)
(* not looked at.                                                          *)
GetDataset ==
    /\ pc = "path"
    /\ path' \in BOOLEAN
    /\ pc' = "dataset"
    /\ UNCHANGED <<initOk, plugin, engine, net, length, run, now, fault>>

(* DatasetMgr::parse: without a path, or without a readable file of the    *)
(* right form there, it throws out of the thread.                          *)
ParseDataset ==
    /\ pc = "dataset"
    /\ \/ /\ path
          /\ length' \in 0..MaxLength
          /\ pc' = "engine"
          /\ UNCHANGED fault
       \/ /\ Crash("parse")
          /\ UNCHANGED length
    /\ UNCHANGED <<initOk, plugin, path, engine, net, run, now>>

(* MxnetEngin::loadModel: netHandle_ stays null when a file is missing or  *)
(* MXPredCreate refuses the model.                                         *)
LoadModel == net' \in BOOLEAN

(* EngineFactory::buildEngine: never null, and loadModel()'s result is     *)
(* dropped.  Loading may also fault, inside MXNet or on input        *)
(* dimensions the plugin did not supply.                                   *)
BuildEngine ==
    /\ pc = "engine"
    /\ \/ /\ engine' = TRUE
          /\ LoadModel
          /\ initOk' = TRUE
          /\ pc' = "ready"
          /\ UNCHANGED fault
       \/ Crash("model loading") /\ UNCHANGED <<engine, net, initOk>>
    /\ UNCHANGED <<plugin, path, length, run, now>>

-----------------------------------------------------------------------------
(* DatasetMgr::next: the code it returns at position p of n elements; the  *)
(* position is not moved.                                                  *)
DatasetCode(p, n) ==
    IF p >= n THEN NoElement
    ELSE IF p = 0 THEN DATASET_BEGIN
    ELSE IF p = n - 1 THEN DATASET_END
    ELSE DATASET_MIDDLE

(* A variant with a product wider than an int.                             *)
WrapWide(n) == n

(* int arithmetic: a product wraps around, a quotient rounds to zero.      *)
Wrap(n) == ((n + IntHalf) % (2 * IntHalf)) - IntHalf

Quotient(a, b) == IF a >= 0 THEN a \div b ELSE -((-a) \div b)

(* A variant that counts the frame about to be processed as done.          *)
ProgressWithCurrent == Quotient(Wrap((frameId + 1) * 100), length)

Progress == Quotient(Wrap(frameId * 100), length)

(* report()'s loop over the newest min(20, size) results.                  *)
WindowLength ==
    IF Len(results) < ReportWindow THEN Len(results) ELSE ReportWindow

OPEN == -1
CLOSE == -2
COMMA == -3

(* The array that json_result is to be, for given results.                 *)
JsonArray(s) ==
    LET n == IF s = <<>> THEN 2 ELSE 2 * Len(s) + 1
    IN [i \in 1..n |-> IF i = 1 THEN OPEN ELSE IF i = n THEN CLOSE
                       ELSE IF i % 2 = 0 THEN s[i \div 2] ELSE COMMA]

(* A variant that sends the head of the vector.                            *)
OldestResults == JsonArray(SubSeq(results, 1, WindowLength))

NewestResults ==
    LET size == Len(results)
        from[len \in 1..WindowLength] ==
            IF len > 1
            THEN <<results[size - len + 1], COMMA>> \o from[len - 1]
            ELSE <<results[size]>>
    IN <<OPEN>> \o from[WindowLength] \o <<CLOSE>>

(* reportEnd(): a comma behind each result, then the last character is     *)
(* overwritten, whichever it is.                                           *)
AllResults ==
    LET n == 2 * Len(results) + 1
        text == [i \in 1..n |->
                    IF i = 1 THEN OPEN
                    ELSE IF i % 2 = 0 THEN results[i \div 2] ELSE COMMA]
    IN [text EXCEPT ![n] = CLOSE]

ReportCall(progress, payload, end) ==
    [at |-> now, frames |-> frameId, progress |-> progress,
     payload |-> payload, end |-> end]

ReportDue == now - lastAccess > ReportPeriod

(* The ReportTask calls after the head of next(): report() is called when  *)
(* the period is over, and does nothing without a result.                  *)
ReportsAtHead ==
    IF ReportDue /\ results # <<>>
    THEN Append(reports, ReportCall(Progress, NewestResults, FALSE))
    ELSE reports

(* A variant of the head that forgets to remember the time.                *)
PeriodicReportNoReset ==
    /\ lastAccess' = lastAccess
    /\ reports' = ReportsAtHead

(* The head of next(); the time is taken as reported even when there was   *)
(* nothing to report.                                                      *)
PeriodicReport ==
    /\ lastAccess' = IF ReportDue THEN now ELSE lastAccess
    /\ reports' = ReportsAtHead

(* The division in report(), when the dataset has no element.              *)
DividesByZero == ReportDue /\ length = 0

NextDivides ==
    /\ pc = "ready"
    /\ DividesByZero
    /\ "traps" \in DivisionByZero
    /\ Crash("division by zero")
    /\ UNCHANGED <<built, run, now>>

NextSurvivesReport == DividesByZero => "skipped" \in DivisionByZero

(* next() finds no element: reportEnd() sends everything, as progress 100, *)
(* and next() returns -1.                                                  *)
NextEnds ==
    /\ pc = "ready"
    /\ NextSurvivesReport
    /\ DatasetCode(pos, length) = NoElement
    /\ code' = NoElement
    /\ lastAccess' = IF ReportDue THEN now ELSE lastAccess
    /\ reports' = Append(ReportsAtHead, ReportCall(100, AllResults, TRUE))
    /\ pc' = "ended"
    /\ UNCHANGED <<built, pos, frameId, results, now, fault>>

(* A variant of the dataset that moves on to its next element.             *)
NextFrameMoves ==
    /\ pc = "ready"
    /\ NextSurvivesReport
    /\ DatasetCode(pos, length) # NoElement
    /\ plugin /\ engine /\ net
    /\ frameId < MaxFrames
    /\ PeriodicReport
    /\ pos' = pos + 1
    /\ code' = DatasetCode(pos, length)
    /\ results' = Append(results, frameId)
    /\ frameId' = frameId + 1
    /\ UNCHANGED <<pc, built, now, fault>>

(* next() runs plugin and engine on the element, and returns 0.            *)
NextFrame ==
    /\ pc = "ready"
    /\ NextSurvivesReport
    /\ DatasetCode(pos, length) # NoElement
    /\ plugin /\ engine /\ net
    /\ frameId < MaxFrames
    /\ PeriodicReport
    /\ code' = DatasetCode(pos, length)
    /\ results' = Append(results, frameId)
    /\ frameId' = frameId + 1
    /\ UNCHANGED <<pc, built, pos, now, fault>>

(* next() dies on the element: on a null pointer, or inside the plugin,    *)
(* OpenCV or MXNet.                                                        *)
NextFaults ==
    /\ pc = "ready"
    /\ NextSurvivesReport
    /\ DatasetCode(pos, length) # NoElement
    /\ PeriodicReport
    /\ code' = DatasetCode(pos, length)
    /\ Crash(IF ~plugin THEN "null plugin"
             ELSE IF ~engine THEN "null engine" ELSE "inference")
    /\ UNCHANGED <<built, pos, frameId, results, now>>

-----------------------------------------------------------------------------
Construction ==
    GetModel \/ LoadPlugin \/ GetDataset \/ ParseDataset \/ BuildEngine

NextCall == NextDivides \/ NextEnds \/ NextFrame \/ NextFaults

Next == ClockMoves \/ Construction \/ NextCall

Spec == Init /\ [][Next]_vars
-----------------------------------------------------------------------------
(* Properties.                                                             *)

(* What a ReportTask call may carry.                                       *)
Report ==
    [at : Times, frames : 0..MaxFrames,
     progress : (-IntHalf)..(IntHalf - 1),
     payload : Seq(COMMA..MaxFrames), end : BOOLEAN]

(* Every variable has the type of its C++ member, and every progress sent  *)
(* fits an int (jobTask.h, dataset_mgr.h).                                 *)
TypeOK ==
    /\ pc \in {"model", "plugin", "path", "dataset", "engine", "ready",
                "ended", "crashed"}
    /\ initOk \in BOOLEAN
    /\ plugin \in BOOLEAN
    /\ path \in BOOLEAN
    /\ engine \in BOOLEAN
    /\ net \in BOOLEAN
    /\ length \in 0..MaxLength
    /\ pos \in 0..MaxLength
    /\ code \in {NoElement, DATASET_BEGIN, DATASET_MIDDLE, DATASET_END}
    /\ frameId \in 0..MaxFrames
    /\ results \in Seq(0..MaxFrames)
    /\ lastAccess \in Times \cup {0}
    /\ now \in Times
    /\ reports \in Seq(Report)
    /\ fault \in {"none", "plugin code", "parse", "model loading",
                   "division by zero", "null plugin", "null engine",
                   "inference"}

(* Although nobody reads init_ok, next() never dereferences the null       *)
(* plugin or engine of a failed init(): what fails before the dataset is   *)
(* parsed leaves no element to work on (the order of the steps of init(),  *)
(* jobTask.cpp:19-75, against next(), jobTask.cpp:90-99).                  *)
NoNullDereference == fault \notin {"null plugin", "null engine"}

Periodic(i) == i \in 1..Len(reports) /\ ~reports[i].end

(* Two periodic reports are always more than the period apart on the       *)
(* clock, also when the clock was set back between them (the rate limit of *)
(* jobTask.cpp:79-85).                                                     *)
ReportSpacing ==
    \A i \in 1..Len(reports) :
        Periodic(i) /\ Periodic(i + 1) =>
            reports[i + 1].at - reports[i].at > ReportPeriod

(* A job that reports its end has processed no frame and reported nothing  *)
(* else: the 100 percent of reportEnd() always comes with a single closing *)
(* bracket, which is no array (jobTask.cpp:91-94 and 135-141, because the  *)
(* dataset never runs out).                                                *)
EndReportStandsAlone ==
    \A i \in 1..Len(reports) :
        reports[i].end =>
            Len(reports) = 1 /\ reports[i].frames = 0
                /\ reports[i].payload = <<CLOSE>>

(* A periodic report carries a JSON array of exactly the newest results,   *)
(* oldest first, at most as many as the window (jobTask.cpp:113-128).      *)
WindowIsNewest ==
    \A i \in 1..Len(reports) :
        Periodic(i) =>
            LET n == reports[i].frames
                k == IF n < ReportWindow THEN n ELSE ReportWindow
            IN reports[i].payload
                   = JsonArray([j \in 1..k |-> n - k + j - 1])

(* As long as the product with 100 fits an int, the progress sent reaches  *)
(* 100 exactly when as many frames were processed as the dataset has       *)
(* elements, and never falls between two reports (jobTask.cpp:111).        *)
ProgressIsHonest ==
    \A i \in 1..Len(reports) :
        Periodic(i) /\ reports[i].frames * 100 < IntHalf =>
            /\ reports[i].progress >= 100 <=> reports[i].frames >= length
            /\ Periodic(i - 1) =>
                   reports[i - 1].progress <= reports[i].progress

(* What makes these properties inductive: which step of init()             *)
(* leaves what behind (BuildOrder), that a dataset is never used up, and   *)
(* that the time remembered is that of the last periodic report.           *)
NeverUsedUp ==
    /\ length \in Nat
    /\ pos = 0
    /\ frameId \in Nat /\ results \in Seq(Nat)
    /\ length = 0 => frameId = 0 /\ results = <<>>

BuildOrder ==
    /\ pc \in {"model", "plugin", "path", "dataset"} => length = 0
    /\ pc \in {"path", "dataset", "engine"} => plugin
    /\ pc = "ready" /\ length # 0 => plugin /\ engine
    /\ NoNullDereference

ReportMemory ==
    /\ reports \in Seq({reports[i] : i \in DOMAIN reports})
    /\ Periodic(Len(reports)) => reports[Len(reports)].at = lastAccess
    /\ pc # "ended" => \A i \in 1..Len(reports) : ~reports[i].end
    /\ pc # "ended" /\ results = <<>> => reports = <<>>

(* And what makes the reports' contents so: the results are the numbers of *)
(* the frames processed, and each report was made from those there were.   *)
FramesCounted ==
    /\ frameId = Len(results)
    /\ \A j \in 1..Len(results) : results[j] = j - 1

ReportsMade ==
    \A i \in 1..Len(reports) : Periodic(i) =>
        /\ reports[i].frames \in 1..frameId
        /\ reports[i].progress
               = Quotient(Wrap(reports[i].frames * 100), length)
        /\ Periodic(i - 1) => reports[i - 1].frames <= reports[i].frames

IInv ==
    /\ TypeOK /\ NeverUsedUp /\ BuildOrder /\ ReportMemory
    /\ ReportSpacing /\ EndReportStandsAlone
    /\ FramesCounted /\ ReportsMade /\ WindowIsNewest

(* The state of the object as its owner sees it.                           *)
Life ==
    IF pc \in {"ended", "crashed"} THEN pc
    ELSE IF pc # "ready" THEN "none"
    ELSE IF length = 0 THEN "empty" ELSE "frames"

Contract == INSTANCE JobLife WITH life <- Life

(* The class implements the contract the worker's task_thread relies on:   *)
(* a job without data ends or crashes at its first next(), and a job with  *)
(* data never ends.                                                        *)
LifeSpec == Contract!Spec

-----------------------------------------------------------------------------
(* What the repository says of the class, and the code does not do.        *)

(* The comment at dataset_mgr.h:25, 0:begin 1:middle 2:end: the next() of  *)
(* a dataset with several elements that completes its length says end.     *)
LastElementIsEnd ==
    length > 1 /\ frameId = length => code = DATASET_END
=============================================================================
