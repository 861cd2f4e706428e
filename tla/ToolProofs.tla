------------------------------ MODULE ToolProofs ------------------------------
(***************************************************************************)
(* The two drivers beside the review workflow: the relay (Relay) and the   *)
(* review controller (ReviewController); for any number of processes that  *)
(* run, die and are started again, batches, cycles and contents.           *)
(***************************************************************************)
EXTENDS MCTools, SequenceTheorems, TLAPS

(***************************************************************************)
(* The lease of a run: rows within their bounds.                           *)
(***************************************************************************)
Bounded(run) == run \in Row /\ run.cycle <= run.maxCycles

RowsBounded == Bounded(relayRun) /\ \A p \in RelayProcess : Bounded(relayer[p].run)

LogTyped ==
  /\ lastEvent \in RelayEvent \cup {NoEvent}
  /\ accepted \subseteq RelayBatch
  /\ decisions \subseteq RelayBatch \X Decision
  /\ lostAccept \in BOOLEAN

LEMMA StatusBounded ==
  ASSUME NEW run, Bounded(run), NEW status \in RelayStatus
  PROVE  Bounded([run EXCEPT !.status = status])
BY DEF Bounded, Row

LEMMA FiledBounded ==
  ASSUME NEW run, Bounded(run)
  PROVE  Bounded(FiledAsStopped(run))
BY StatusBounded DEF FiledAsStopped, RelayStatus

LEMMA PendingBounded ==
  ASSUME NEW run, Bounded(run)
  PROVE  Bounded(PendingConsumed(run))
BY DEF Bounded, Row, PendingConsumed

LEMMA CycleBounded ==
  ASSUME NEW run, Bounded(run), run.cycle < run.maxCycles
  PROVE  Bounded([run EXCEPT !.cycle = @ + 1])
<1>1. /\ run.cycle \in Nat /\ 1 <= run.cycle /\ run.maxCycles \in 1..MaxCap /\ MaxCap \in Nat
      /\ run.maxCycles \in Nat
  BY RelayAssumption DEF Bounded, Row
<1>2. run.cycle + 1 \in 1..MaxCap /\ run.cycle + 1 <= run.maxCycles
  BY <1>1
<1> QED
  BY <1>1, <1>2 DEF Bounded, Row

LEMMA AdvanceBounded ==
  ASSUME NEW run, Bounded(run), run.batch < TotalBatches
  PROVE  Bounded([run EXCEPT !.batch = @ + 1, !.cycle = 1])
<1>1. run.batch + 1 \in RelayBatch
  BY RelayAssumption DEF Bounded, Row, RelayBatch
<1>2. 1 \in 1..MaxCap /\ 1 <= run.maxCycles
  BY RelayAssumption DEF Bounded, Row
<1> QED
  BY <1>1, <1>2 DEF Bounded, Row

LEMMA NewRunBounded == Bounded(NewRun)
BY RelayAssumption DEF Bounded, NewRun, Row, RelayBatch, RelayStatus

LEMMA DecisionBounded ==
  ASSUME NEW run, Bounded(run), NEW decision \in Decision,
         decision = "continue" => run.maxCycles < MaxCap
  PROVE  Bounded(DecisionApplied(decision, run))
<1>1. CASE decision = "continue"
  <2>1. /\ run.cycle \in Nat /\ 1 <= run.cycle /\ run.maxCycles \in Nat /\ MaxCap \in Nat
        /\ run.cycle <= run.maxCycles /\ run.maxCycles < MaxCap
    BY <1>1, RelayAssumption DEF Bounded, Row
  <2>2. run.cycle + 1 \in 1..MaxCap /\ run.maxCycles + 1 \in 1..MaxCap
        /\ run.cycle + 1 <= run.maxCycles + 1
    BY <2>1
  <2>3. DecisionApplied(decision, run) =
          [run EXCEPT !.status = "ACTIVE", !.cycle = @ + 1, !.maxCycles = @ + 1]
    BY <1>1 DEF DecisionApplied
  <2> QED
    BY <2>2, <2>3 DEF Bounded, Row, RelayStatus
<1>2. CASE decision # "continue"
  BY <1>2 DEF Bounded, Row, DecisionApplied, Decision, RelayStatus
<1> QED
  BY <1>1, <1>2

(***************************************************************************)
(* How one process moves: the others stay where they are.                  *)
(***************************************************************************)
RelayMoves(p, pc, run) ==
  /\ relayer' \in [RelayProcess -> Relayer]
  /\ relayer'[p].pc = pc /\ relayer'[p].run = run
  /\ \A q \in RelayProcess \ {p} : relayer'[q] = relayer[q]

LEMMA GoesMoves ==
  ASSUME RelayTypeOK, NEW p \in RelayProcess, NEW pc \in RelayPCs, Goes(p, pc)
  PROVE  RelayMoves(p, pc, RunOf(p))
BY DEF RelayTypeOK, Goes, RelayMoves, RunOf, Relayer

LEMMA GoesWithMoves ==
  ASSUME RelayTypeOK, NEW p \in RelayProcess, NEW pc \in RelayPCs, NEW run \in Row,
         GoesWith(p, pc, run)
  PROVE  RelayMoves(p, pc, run)
BY DEF RelayTypeOK, GoesWith, RelayMoves, Relayer

LEMMA ExitsMoves ==
  ASSUME RelayTypeOK, NEW p \in RelayProcess, Exits(p)
  PROVE  RelayMoves(p, "GONE", NewRun)
<1>1. Ended \in Relayer /\ Ended.pc = "GONE" /\ Ended.run = NewRun
  BY NewRunBounded DEF Ended, Fresh, Relayer, RelayPCs, Command, Decision, Role, Bounded
<1> QED
  BY <1>1 DEF RelayTypeOK, Exits, RelayMoves

LEMMA CallsMoves ==
  ASSUME RelayTypeOK, NEW p \in RelayProcess, NEW role \in Role, Calls(p, role)
  PROVE  RelayMoves(p, "SEND", RunOf(p))
BY DEF RelayTypeOK, Calls, RelayMoves, RunOf, Relayer, RelayPCs

(***************************************************************************)
(* The lease.  A worker holds it; the lease never names a process that has *)
(* not started; and a process about to claim found none, or a dead holder, *)
(* which stays dead.                                                       *)
(***************************************************************************)
LeaseKept ==
  /\ SoleRelayWorker
  /\ workerPid # NoWorker => relayer[workerPid].pc # "NEW"
  /\ \A p \in RelayProcess : RelayAt(p, "CLAIMING") /\ relayer[p].holder # NoWorker =>
       relayer[relayer[p].holder].pc = "GONE"

RelayInv == RelayTypeOK /\ RowsBounded /\ LeaseKept

(* What every step of a process that has the lease looks like.             *)
WorkerMoves(p) ==
  /\ Working(p) /\ UNCHANGED workerPid
  /\ Bounded(relayRun') /\ LogTyped'
  /\ pauseIntent' \in {"NONE", "NEXT_BOUNDARY", "BATCH_END"}
  /\ \E pc \in RelayPCs \ {"NEW", "READ", "CLAIMING"}, run \in Row :
       Bounded(run) /\ RelayMoves(p, pc, run)

LEMMA WorkerMovesKeeps ==
  ASSUME RelayInv, NEW p \in RelayProcess, WorkerMoves(p)
  PROVE  RelayInv'
<1>1. PICK pc \in RelayPCs \ {"NEW", "READ", "CLAIMING"}, run \in Row :
        Bounded(run) /\ RelayMoves(p, pc, run)
  BY DEF WorkerMoves
<1>2. RelayTypeOK'
  BY <1>1 DEF RelayInv, RelayTypeOK, WorkerMoves, LogTyped, RelayMoves, Bounded
<1>3. RowsBounded'
  BY <1>1 DEF RelayInv, RowsBounded, WorkerMoves, RelayMoves
<1>4. SoleRelayWorker'
  <2> SUFFICES ASSUME NEW q \in RelayProcess, Working(q)' PROVE workerPid' = q
    BY DEF SoleRelayWorker
  <2>1. Working(q)
    BY <1>1 DEF WorkerMoves, Working, RelayMoves
  <2> QED
    BY <2>1 DEF RelayInv, LeaseKept, SoleRelayWorker, WorkerMoves
<1>5. workerPid' # NoWorker => relayer'[workerPid'].pc # "NEW"
  BY <1>1 DEF RelayInv, RelayTypeOK, LeaseKept, WorkerMoves, RelayMoves
<1>6. ASSUME NEW q \in RelayProcess, RelayAt(q, "CLAIMING")', relayer'[q].holder # NoWorker
      PROVE  relayer'[relayer'[q].holder].pc = "GONE"
  <2>1. q # p /\ relayer'[q] = relayer[q] /\ RelayAt(q, "CLAIMING")
    BY <1>1, <1>6 DEF RelayMoves, RelayAt
  <2>2. relayer[q].holder \in RelayProcess /\ relayer[relayer[q].holder].pc = "GONE"
    BY <1>6, <2>1 DEF RelayInv, RelayTypeOK, Relayer, LeaseKept
  <2>3. relayer[q].holder # p
    BY <2>2 DEF WorkerMoves, Working
  <2> QED
    BY <1>1, <2>1, <2>2, <2>3 DEF RelayMoves
<1> QED
  BY <1>2, <1>3, <1>4, <1>5, <1>6 DEF RelayInv, LeaseKept

LEMMA CopiesBounded ==
  ASSUME RelayInv, NEW p \in RelayProcess
  PROVE  /\ Bounded(RunOf(p)) /\ RunOf(p) \in Row /\ relayer[p] \in Relayer
         /\ Bounded(relayRun) /\ relayRun \in Row
         /\ pauseIntent \in {"NONE", "NEXT_BOUNDARY", "BATCH_END"} /\ LogTyped
BY DEF RelayInv, RelayTypeOK, RowsBounded, RunOf, Bounded, LogTyped

LEMMA UpdatesKeeps ==
  ASSUME RelayInv, NEW p \in RelayProcess, Working(p), UNCHANGED workerPid, LogTyped',
         pauseIntent' \in {"NONE", "NEXT_BOUNDARY", "BATCH_END"},
         NEW pc \in RelayPCs \ {"NEW", "READ", "CLAIMING"}, NEW run, Bounded(run),
         GoesWith(p, pc, run), relayRun' = run \/ UNCHANGED relayRun
  PROVE  RelayInv'
<1>1. RelayMoves(p, pc, run)
  BY GoesWithMoves DEF RelayInv, Bounded
<1> QED
  BY <1>1, CopiesBounded, WorkerMovesKeeps DEF WorkerMoves, Bounded

LEMMA GoesKeeps ==
  ASSUME RelayInv, NEW p \in RelayProcess, Working(p), UNCHANGED workerPid, LogTyped',
         pauseIntent' \in {"NONE", "NEXT_BOUNDARY", "BATCH_END"},
         NEW pc \in RelayPCs \ {"NEW", "READ", "CLAIMING"}, Goes(p, pc), Bounded(relayRun')
  PROVE  RelayInv'
<1>1. RelayMoves(p, pc, RunOf(p))
  BY GoesMoves DEF RelayInv
<1> QED
  BY <1>1, CopiesBounded, WorkerMovesKeeps DEF WorkerMoves

LEMMA CallsKeeps ==
  ASSUME RelayInv, NEW p \in RelayProcess, Working(p), NEW role \in Role, Calls(p, role),
         UNCHANGED relayRun, NoLease, NoLog
  PROVE  RelayInv'
<1>1. RelayMoves(p, "SEND", RunOf(p))
  BY CallsMoves DEF RelayInv
<1> QED
  BY <1>1, CopiesBounded, WorkerMovesKeeps
     DEF WorkerMoves, NoLease, NoLog, LogTyped, RelayPCs

LEMMA PausesKeeps ==
  ASSUME RelayInv, NEW p \in RelayProcess, Working(p), UNCHANGED workerPid, NoLog,
         pauseIntent' \in {"NONE", "NEXT_BOUNDARY", "BATCH_END"},
         NEW status \in RelayStatus, Pauses(p, RunOf(p), status)
  PROVE  RelayInv'
<1>1. Bounded([RunOf(p) EXCEPT !.status = status])
  BY CopiesBounded, StatusBounded
<1>2. LogTyped'
  BY CopiesBounded DEF NoLog, LogTyped
<1> QED
  BY <1>1, <1>2, UpdatesKeeps DEF Pauses, Updates, RelayPCs

(***************************************************************************)
(* The steps.                                                              *)
(***************************************************************************)
LEMMA PassesOn ==
  ASSUME RelayInv, NEW p \in RelayProcess,
         \/ NothingToDecide(p) \/ FindsComplete(p) \/ ProceedsToNext(p) \/ GoesOnAfterBatch(p)
  PROVE  RelayInv'
<1>1. LogTyped' /\ Bounded(relayRun') /\ UNCHANGED workerPid
      /\ pauseIntent' \in {"NONE", "NEXT_BOUNDARY", "BATCH_END"}
  BY CopiesBounded DEF NothingToDecide, FindsComplete, ProceedsToNext, GoesOnAfterBatch, NoLease,
     NoLog, LogTyped
<1>2. Working(p)
  BY DEF NothingToDecide, FindsComplete, ProceedsToNext, GoesOnAfterBatch, Replied, Steps, RelayAt,
     Working
<1>3. \E pc \in {"REREAD", "RELEASE", "ADVANCE", "BOUNDARY"} : Goes(p, pc)
  BY DEF NothingToDecide, FindsComplete, ProceedsToNext, GoesOnAfterBatch, AfterStep
<1> QED
  BY <1>1, <1>2, <1>3, GoesKeeps DEF RelayPCs

LEMMA OpensCalls ==
  ASSUME RelayInv, NEW p \in RelayProcess,
         OpensBatch(p) \/ ResendsPrompt(p) \/ ForwardsToReviewer(p)
  PROVE  RelayInv'
<1>1. Working(p) /\ UNCHANGED relayRun /\ NoLease /\ NoLog
  BY DEF OpensBatch, ResendsPrompt, ForwardsToReviewer, Replied, Steps, RelayAt, Working
<1>2. \E role \in Role : Calls(p, role)
  <2>1. CASE ResendsPrompt(p)
    <3>1. lastEvent \in RelayEvent
      BY <2>1, CopiesBounded DEF ResendsPrompt, BatchUnopened, LogTyped
    <3>2. lastEvent.role \in Role
      BY <3>1 DEF RelayEvent
    <3> QED
      BY <2>1, <3>2 DEF ResendsPrompt
  <2> QED
    BY <2>1 DEF OpensBatch, ForwardsToReviewer, Role
<1> QED
  BY <1>1, <1>2, CallsKeeps

LEMMA PausesAndStops ==
  ASSUME RelayInv, NEW p \in RelayProcess,
         \/ CallGivenUp(p) \/ StopsOnSignal(p) \/ StopsOnIntent(p) \/ PausesUnclear(p)
         \/ CompletesPlan(p) \/ PausesAtCap(p)
  PROVE  RelayInv'
<1>1. Working(p) /\ UNCHANGED workerPid /\ NoLog
      /\ pauseIntent' \in {"NONE", "NEXT_BOUNDARY", "BATCH_END"}
  BY CopiesBounded DEF CallGivenUp, StopsOnSignal, StopsOnIntent, PausesUnclear, CompletesPlan,
     PausesAtCap, Replied, Steps, RelayAt, Working, NoLease
<1>2. \E status \in RelayStatus : Pauses(p, RunOf(p), status)
  BY DEF CallGivenUp, StopsOnSignal, StopsOnIntent, PausesUnclear, CompletesPlan, PausesAtCap,
     RelayStatus
<1> QED
  BY <1>1, <1>2, PausesKeeps

LEMMA RelayAdvances ==
  ASSUME RelayInv, NEW p \in RelayProcess,
         \/ ClosesAccepted(p) \/ AdvancesLast(p) \/ AdvancesBatch(p) \/ StopsAtBatchEnd(p)
  PROVE  RelayInv'
<1>1. /\ Working(p) /\ UNCHANGED workerPid /\ LogTyped'
      /\ pauseIntent' \in {"NONE", "NEXT_BOUNDARY", "BATCH_END"}
  BY CopiesBounded DEF ClosesAccepted, AdvancesLast, AdvancesBatch, StopsAtBatchEnd, Replied, Steps,
     RelayAt, Working, NoLease, NoLog, LogTyped
<1>2. \E pc \in {"ADVANCE", "ADVANCED", "REREAD", "RELEASE"}, run \in Row :
        Bounded(run) /\ GoesWith(p, pc, run) /\ (relayRun' = run \/ UNCHANGED relayRun)
  <2>1. CASE ClosesAccepted(p)
    BY <2>1, CopiesBounded, PendingBounded DEF ClosesAccepted, Bounded
  <2>2. CASE AdvancesLast(p) \/ StopsAtBatchEnd(p)
    <3>1. \A status \in RelayStatus : Bounded([RunOf(p) EXCEPT !.status = status])
      BY CopiesBounded, StatusBounded
    <3> QED
      BY <2>2, <3>1 DEF AdvancesLast, StopsAtBatchEnd, RelayStatus, Bounded
  <2>3. CASE AdvancesBatch(p)
    BY <2>3, CopiesBounded, AdvanceBounded DEF AdvancesBatch, Updates, Bounded
  <2> QED
    BY <2>1, <2>2, <2>3
<1> QED
  BY <1>1, <1>2, UpdatesKeeps DEF RelayPCs

LEMMA Prompts ==
  ASSUME RelayInv, NEW p \in RelayProcess, SendsPrompt(p)
  PROVE  RelayInv'
<1>1. relayer[p].role \in Role /\ RunOf(p).batch \in RelayBatch
  BY CopiesBounded DEF Relayer, Row
<1>2. LogTyped'
  BY <1>1, CopiesBounded DEF SendsPrompt, LogTyped, RelayEvent
<1>3. Bounded(relayRun')
  BY CopiesBounded DEF SendsPrompt, MayWriteCopy
<1> QED
  BY <1>2, <1>3, CopiesBounded, GoesKeeps DEF SendsPrompt, NoLease, RelayAt, Working, RelayPCs

LEMMA RelayReplies ==
  ASSUME RelayInv, NEW p \in RelayProcess, NEW verdict \in Verdict, RecordsResponse(p, verdict)
  PROVE  RelayInv'
<1>1. relayer[p].role \in Role /\ RunOf(p).batch \in RelayBatch
  BY CopiesBounded DEF Relayer, Row
<1>2. LogTyped'
  BY <1>1, CopiesBounded DEF RecordsResponse, LogTyped, RelayEvent
<1> QED
  BY <1>2, CopiesBounded, UpdatesKeeps
     DEF RecordsResponse, Updates, AfterStep, NoLease, RelayAt, Working, RelayPCs

LEMMA Retries ==
  ASSUME RelayInv, NEW p \in RelayProcess, CallRetried(p)
  PROVE  RelayInv'
<1>1. PICK read \in {relayRun, RunOf(p)} : Updates(p, "BOUNDARY", [read EXCEPT !.status = "ACTIVE"])
  BY DEF CallRetried
<1>2. Bounded([read EXCEPT !.status = "ACTIVE"])
  BY CopiesBounded, StatusBounded DEF RelayStatus
<1>3. LogTyped'
  BY CopiesBounded DEF CallRetried, NoLog, LogTyped
<1> QED
  BY <1>1, <1>2, <1>3, CopiesBounded, UpdatesKeeps
     DEF CallRetried, Updates, NoLease, RelayAt, Working, RelayPCs

(* Steps that replace more of the process's record than its pc and copy.   *)
LEMMA RecordKeeps ==
  ASSUME RelayInv, NEW p \in RelayProcess, Working(p), NoLease, LogTyped', Bounded(relayRun'),
         NEW record \in Relayer, Bounded(record.run),
         record.pc \in RelayPCs \ {"NEW", "READ", "CLAIMING"},
         relayer' = [relayer EXCEPT ![p] = record]
  PROVE  RelayInv'
<1>1. RelayMoves(p, record.pc, record.run)
  BY DEF RelayInv, RelayTypeOK, RelayMoves
<1>2. record.run \in Row
  BY DEF Bounded
<1> QED
  BY <1>1, <1>2, CopiesBounded, WorkerMovesKeeps DEF WorkerMoves, NoLease

LEMMA Decided ==
  ASSUME RelayInv, NEW p \in RelayProcess, Decides(p)
  PROVE  RelayInv'
<1> DEFINE run == DecisionApplied(relayer[p].command, RunOf(p))
           record == [relayer[p] EXCEPT !.run = run, !.direct = TRUE, !.role = "IMPLEMENTER",
                        !.pc = IF relayer[p].command = "proceed" THEN "ADVANCE" ELSE "SEND"]
<1>1. Bounded(run) /\ run \in Row
  BY CopiesBounded, DecisionBounded DEF Decides, Bounded
<1>2. record \in Relayer /\ record.run = run /\ record.pc \in {"ADVANCE", "SEND"}
  <2> HIDE DEF run
  <2> QED
    BY <1>1, CopiesBounded DEF Relayer, Role, RelayPCs
<1>3. RunOf(p).batch \in RelayBatch /\ relayer[p].command \in Decision
  BY CopiesBounded DEF Decides, Row
<1>4. LogTyped'
  BY <1>3, CopiesBounded DEF Decides, LogTyped
<1>5. relayer' = [relayer EXCEPT ![p] = record] /\ relayRun' = run
  BY DEF Decides
<1>6. Working(p) /\ NoLease
  BY DEF Decides, RelayAt, Working
<1> HIDE DEF run, record
<1> QED
  BY <1>1, <1>2, <1>4, <1>5, <1>6, RecordKeeps DEF RelayPCs

LEMMA Reconsidered ==
  ASSUME RelayInv, NEW p \in RelayProcess, ReconsidersReply(p)
  PROVE  RelayInv'
<1> DEFINE run == [RunOf(p) EXCEPT !.status = "ACTIVE"]
           record == [relayer[p] EXCEPT !.run = run, !.direct = TRUE, !.role = "REVIEWER",
                        !.pc = IF lastEvent.verdict \in Advancing \cup {"FIX"}
                               THEN "REREAD" ELSE "SEND"]
<1>1. Bounded(run) /\ run \in Row
  BY CopiesBounded, StatusBounded DEF RelayStatus, Bounded
<1>2. record \in Relayer /\ record.run = run /\ record.pc \in {"REREAD", "SEND"}
  <2> HIDE DEF run
  <2> QED
    BY <1>1, CopiesBounded DEF Relayer, Role, RelayPCs
<1>3. relayer' = [relayer EXCEPT ![p] = record] /\ relayRun' = run
  BY DEF ReconsidersReply
<1>4. Working(p) /\ NoLease /\ LogTyped'
  BY CopiesBounded DEF ReconsidersReply, RelayAt, Working, NoLog, LogTyped
<1> HIDE DEF run, record
<1> QED
  BY <1>1, <1>2, <1>3, <1>4, RecordKeeps DEF RelayPCs

LEMMA Entered ==
  ASSUME RelayInv, NEW p \in RelayProcess, EntersLoop(p)
  PROVE  RelayInv'
<1>1. Working(p) /\ NoLease /\ LogTyped'
  BY CopiesBounded DEF EntersLoop, RelayAt, Working, NoLog, LogTyped
<1>2. CASE RelayAt(p, "REREAD")
  <2> DEFINE run == [relayRun EXCEPT !.status = "ACTIVE"]
             record == [relayer[p] EXCEPT !.pc = "BOUNDARY", !.run = run, !.direct = FALSE]
  <2>1. Bounded(run) /\ run \in Row
    BY CopiesBounded, StatusBounded DEF RelayStatus, Bounded
  <2>2. record \in Relayer /\ record.run = run /\ record.pc = "BOUNDARY"
    <3> HIDE DEF run
    <3> QED
      BY <2>1, CopiesBounded DEF Relayer, RelayPCs
  <2>3. relayRun' = run /\ relayer' = [relayer EXCEPT ![p] = record]
    BY <1>2 DEF EntersLoop, RelayAt
  <2> HIDE DEF run, record
  <2> QED
    BY <1>1, <2>1, <2>2, <2>3, RecordKeeps DEF RelayPCs
<1>3. CASE ~RelayAt(p, "REREAD")
  <2>1. Bounded([RunOf(p) EXCEPT !.status = "ACTIVE"])
    BY CopiesBounded, StatusBounded DEF RelayStatus
  <2> QED
    BY <1>1, <1>3, <2>1, CopiesBounded, UpdatesKeeps
       DEF EntersLoop, Updates, NoLease, RelayPCs
<1> QED
  BY <1>2, <1>3

LEMMA FixOpened ==
  ASSUME RelayInv, NEW p \in RelayProcess, OpensFixCycle(p)
  PROVE  RelayInv'
<1> DEFINE run == [RunOf(p) EXCEPT !.cycle = @ + 1]
           record == [relayer[p] EXCEPT !.pc = "SEND", !.role = "IMPLEMENTER", !.run = run]
<1>1. Bounded(run) /\ run \in Row
  BY CopiesBounded, CycleBounded DEF OpensFixCycle, Bounded
<1>2. record \in Relayer /\ record.run = run /\ record.pc = "SEND"
  <2> HIDE DEF run
  <2> QED
    BY <1>1, CopiesBounded DEF Relayer, Role, RelayPCs
<1>3. relayer' = [relayer EXCEPT ![p] = record] /\ relayRun' = run
  BY DEF OpensFixCycle
<1>4. Working(p) /\ NoLease /\ LogTyped'
  BY CopiesBounded DEF OpensFixCycle, Replied, Steps, RelayAt, Working, NoLog, LogTyped
<1> HIDE DEF run, record
<1> QED
  BY <1>1, <1>2, <1>3, <1>4, RecordKeeps DEF RelayPCs

(***************************************************************************)
(* The steps around the lease.                                             *)
(***************************************************************************)
(* A process that starts or looks for the holder, and one that ends: no    *)
(* worker is added and the lease, if it changes, is given back.            *)
LEMMA LeaseSteps ==
  ASSUME RelayInv, NEW p \in RelayProcess, ~RelayAt(p, "GONE"), ~RelayAt(p, "NEW") \/ workerPid # p,
         NEW pc \in RelayPCs \ {"NEW"}, NEW run, Bounded(run), RelayMoves(p, pc, run),
         pc \in {"READ", "CLAIMING", "GONE"},
         pc = "CLAIMING" /\ relayer'[p].holder # NoWorker =>
           relayer[relayer'[p].holder].pc = "GONE",
         workerPid' = workerPid \/ (workerPid = p /\ workerPid' = NoWorker),
         UNCHANGED pauseIntent, LogTyped', Bounded(relayRun')
  PROVE  RelayInv'
<1>1. RelayTypeOK'
  BY CopiesBounded DEF RelayInv, RelayTypeOK, LogTyped, RelayMoves, Bounded
<1>2. RowsBounded'
  BY DEF RelayInv, RowsBounded, RelayMoves
<1>3. SoleRelayWorker'
  <2> SUFFICES ASSUME NEW q \in RelayProcess, Working(q)' PROVE workerPid' = q
    BY DEF SoleRelayWorker
  <2>1. q # p /\ Working(q)
    BY DEF RelayMoves, Working
  <2> QED
    BY <2>1 DEF RelayInv, LeaseKept, SoleRelayWorker
<1>4. workerPid' # NoWorker => relayer'[workerPid'].pc # "NEW"
  BY DEF RelayInv, RelayTypeOK, LeaseKept, RelayMoves
<1>5. ASSUME NEW q \in RelayProcess, RelayAt(q, "CLAIMING")', relayer'[q].holder # NoWorker
      PROVE  relayer'[relayer'[q].holder].pc = "GONE"
  <2>1. relayer[relayer'[q].holder].pc = "GONE"
    BY <1>5 DEF RelayInv, LeaseKept, RelayMoves, RelayAt
  <2>2. relayer'[q].holder \in RelayProcess \ {p}
    BY <1>1, <1>5, <2>1 DEF RelayTypeOK, Relayer, RelayAt
  <2> QED
    BY <2>1, <2>2 DEF RelayMoves
<1> QED
  BY <1>1, <1>2, <1>3, <1>4, <1>5 DEF RelayInv, LeaseKept

LEMMA RelayReads ==
  ASSUME RelayInv, NEW p \in RelayProcess, NEW command \in Command, ResumeReads(p, command)
  PROVE  RelayInv'
<1> DEFINE record == [Fresh EXCEPT !.pc = "READ", !.command = command, !.run = relayRun]
<1>1. record \in Relayer /\ record.pc = "READ" /\ record.run = relayRun
  BY CopiesBounded DEF Fresh, Relayer, RelayPCs, Role
<1>2. RelayMoves(p, "READ", relayRun)
  BY <1>1 DEF ResumeReads, RelayInv, RelayTypeOK, RelayMoves
<1>3. RelayAt(p, "NEW") /\ workerPid # p
  BY RelayAssumption DEF ResumeReads, RelayInv, LeaseKept, RelayAt
<1> QED
  BY <1>2, <1>3, CopiesBounded, LeaseSteps
     DEF ResumeReads, NoLease, NoLog, LogTyped, RelayAt, RelayPCs

LEMMA LooksForHolder ==
  ASSUME RelayInv, NEW p \in RelayProcess, ReadsHolder(p)
  PROVE  RelayInv'
<1>1. RelayMoves(p, "CLAIMING", RunOf(p)) /\ relayer'[p].holder = workerPid
  BY DEF ReadsHolder, RelayInv, RelayTypeOK, RelayMoves, RunOf, Relayer, RelayPCs
<1>2. workerPid # NoWorker => relayer[workerPid].pc = "GONE"
  BY DEF ReadsHolder, HolderAway, RelayAlive, RelayInv, RelayTypeOK, LeaseKept
<1> QED
  BY <1>1, <1>2, CopiesBounded, LeaseSteps
     DEF ReadsHolder, NoLease, NoLog, LogTyped, RelayAt, RelayPCs

LEMMA RelayEnds ==
  ASSUME RelayInv, NEW p \in RelayProcess,
         ClaimRefused(p) \/ LeavesClaimed(p) \/ ReleasesRun(p) \/ RelayDies(p)
  PROVE  RelayInv'
<1>1. RelayMoves(p, "GONE", NewRun)
  BY ExitsMoves DEF ClaimRefused, LeavesClaimed, ReleasesRun, RelayDies, RelayInv
<1>2. Bounded(relayRun') /\ LogTyped'
  BY CopiesBounded, FiledBounded DEF ClaimRefused, LeavesClaimed, ReleasesRun, RelayDies, NoLog,
     LogTyped
<1>3. ~RelayAt(p, "GONE") /\ ~RelayAt(p, "NEW")
  BY DEF ClaimRefused, LeavesClaimed, ReleasesRun, RelayDies, RelayAt, RelayAlive
<1>4. /\ workerPid' = workerPid \/ (workerPid = p /\ workerPid' = NoWorker)
      /\ UNCHANGED pauseIntent
  BY DEF ClaimRefused, LeavesClaimed, ReleasesRun, RelayDies, NoLease
<1> QED
  BY <1>1, <1>2, <1>3, <1>4, NewRunBounded, LeaseSteps DEF RelayPCs

(* The claim: the holder that was read is pinned, and it was dead.         *)
LEMMA RelayClaims ==
  ASSUME RelayInv, NEW p \in RelayProcess, ClaimsRun(p)
  PROVE  RelayInv'
<1>1. /\ RelayMoves(p, "CLAIMED", RunOf(p)) /\ relayer[p].pc = "CLAIMING"
      /\ workerPid' = p /\ workerPid = relayer[p].holder
  <2>1. relayer[p] \in Relayer /\ relayer \in [RelayProcess -> Relayer]
    BY DEF RelayInv, RelayTypeOK
  <2>2. PICK record : record = [relayer[p] EXCEPT !.pc = "CLAIMED", !.holder = NoWorker]
    OBVIOUS
  <2>3. record \in Relayer /\ record.pc = "CLAIMED" /\ record.run = relayer[p].run
    BY <2>1, <2>2 DEF Relayer, RelayPCs
  <2>4. relayer' = [relayer EXCEPT ![p] = record]
    BY <2>2 DEF ClaimsRun
  <2> QED
    BY <2>1, <2>3, <2>4 DEF ClaimsRun, HolderPinned, RelayMoves, RunOf, RelayAt
<1>2. \A q \in RelayProcess : ~Working(q)
  <2> SUFFICES ASSUME NEW q \in RelayProcess, Working(q) PROVE FALSE
    OBVIOUS
  <2>1. q = relayer[p].holder /\ q # NoWorker
    BY <1>1, RelayAssumption DEF RelayInv, LeaseKept, SoleRelayWorker
  <2>2. relayer[q].pc = "GONE"
    BY <1>1, <2>1 DEF RelayInv, LeaseKept, RelayAt
  <2> QED
    BY <2>2 DEF Working
<1>3. LogTyped' /\ Bounded(relayRun') /\ pauseIntent' = "NONE"
  BY CopiesBounded DEF ClaimsRun, NoLog, LogTyped
<1>4. RelayTypeOK'
  BY <1>1, <1>3 DEF RelayTypeOK, LogTyped, RelayMoves, Bounded
<1>5. RowsBounded'
  BY <1>1, <1>3, CopiesBounded DEF RelayInv, RowsBounded, RelayMoves
<1>6. SoleRelayWorker'
  BY <1>1, <1>2 DEF SoleRelayWorker, Working, RelayMoves
<1>7. ASSUME NEW q \in RelayProcess, RelayAt(q, "CLAIMING")', relayer'[q].holder # NoWorker
      PROVE  relayer'[relayer'[q].holder].pc = "GONE"
  <2>1. q # p /\ relayer'[q] = relayer[q]
    BY <1>1, <1>7 DEF RelayMoves, RelayAt
  <2>2. relayer[q].holder \in RelayProcess /\ relayer[relayer[q].holder].pc = "GONE"
    BY <1>7, <2>1 DEF RelayInv, RelayTypeOK, Relayer, LeaseKept, RelayAt
  <2> QED
    BY <1>1, <2>1, <2>2 DEF RelayMoves
<1>8. workerPid' # NoWorker => relayer'[workerPid'].pc # "NEW"
  BY <1>1 DEF RelayMoves
<1> QED
  BY <1>4, <1>5, <1>6, <1>7, <1>8 DEF RelayInv, LeaseKept

LEMMA PauseSteps ==
  ASSUME RelayInv,
         PauseClearsLease \/ \E i \in {"NEXT_BOUNDARY", "BATCH_END"} : PauseRequested(i)
  PROVE  RelayInv'
<1>1. /\ UNCHANGED <<relayRun, relayer>> /\ NoLog
      /\ workerPid' = workerPid \/ (workerPid' = NoWorker /\ \A q \in RelayProcess : ~Working(q))
      /\ pauseIntent' \in {"NONE", "NEXT_BOUNDARY", "BATCH_END"}
  BY DEF PauseClearsLease, PauseRequested, RelayInv, RelayTypeOK, LeaseKept, SoleRelayWorker,
     Working, RelayAlive
<1> QED
  BY <1>1 DEF RelayInv, RelayTypeOK, RowsBounded, Bounded, LeaseKept, SoleRelayWorker, Working,
     RelayAt, NoLog

LEMMA RelayStep ==
  ASSUME RelayInv, [RelayNext]_relayVars
  PROVE  RelayInv'
<1>1. CASE UNCHANGED relayVars
  BY <1>1 DEF relayVars, RelayInv, RelayTypeOK, RowsBounded, Bounded, LeaseKept, SoleRelayWorker,
     Working, RelayAt
<1>2. ASSUME NEW p \in RelayProcess, RelayProcessStep(p) PROVE RelayInv'
  BY <1>2, PassesOn, OpensCalls, PausesAndStops, RelayAdvances, Prompts, RelayReplies, Retries, Decided,
     Reconsidered, Entered, FixOpened, RelayReads, LooksForHolder, RelayEnds, RelayClaims
     DEF RelayProcessStep
<1> QED
  BY <1>1, <1>2, PauseSteps DEF RelayNext

LEMMA RelayStarts == RelayInit => RelayInv
<1> SUFFICES ASSUME RelayInit PROVE RelayInv
  OBVIOUS
<1>1. Fresh \in Relayer /\ Fresh.pc = "NEW" /\ Fresh.run = NewRun
  BY NewRunBounded DEF Fresh, Relayer, RelayPCs, Command, Decision, Role, Bounded
<1> DEFINE first == [Fresh EXCEPT !.pc = "READ", !.command = "run"]
<1>2. first \in Relayer /\ first.pc = "READ" /\ first.run = NewRun
  BY <1>1 DEF Relayer, RelayPCs, Command
<1> HIDE DEF first
<1>3. /\ relayer \in [RelayProcess -> Relayer]
      /\ \A p \in RelayProcess : relayer[p].pc \in {"NEW", "READ"} /\ relayer[p].run = NewRun
  BY <1>1, <1>2 DEF RelayInit, first
<1>4. RelayTypeOK
  BY <1>3, NewRunBounded DEF RelayInit, RelayTypeOK, Bounded
<1>5. RowsBounded
  BY <1>3, NewRunBounded DEF RelayInit, RowsBounded
<1>6. LeaseKept
  BY <1>3 DEF RelayInit, LeaseKept, SoleRelayWorker, Working, RelayAt
<1> QED
  BY <1>4, <1>5, <1>6 DEF RelayInv

(* The row of a run, every copy of it and the log keep their types, and no *)
(* cycle is opened past the cap the operator granted.                      *)
THEOREM RelayTyped == RelaySpec => [](RelayTypeOK /\ RowsBounded)
<1>1. RelayInv => RelayTypeOK /\ RowsBounded
  BY DEF RelayInv
<1> QED
  BY RelayStarts, RelayStep, <1>1, PTL DEF RelaySpec

(* For any number of processes that read the row, find the holder dead,    *)
(* claim, work, die and are started again in any order, at most one works  *)
(* a run, and the lease names it (claimRelayWorker, relay.ts).             *)
THEOREM OneWorkerPerRelay == RelaySpec => []SoleRelayWorker
<1>1. RelayInv => SoleRelayWorker
  BY DEF RelayInv, LeaseKept
<1> QED
  BY RelayStarts, RelayStep, <1>1, PTL DEF RelaySpec

(***************************************************************************)
(* The grounds of an advance.  What every step knows of the log, the row   *)
(* and a copy of it; an accept whose process died before it sent the       *)
(* prompt is left out throughout.                                          *)
(***************************************************************************)
LoopPCs == {"BOUNDARY", "SEND", "CALLING", "ADVANCE", "ADVANCED"}

WaitPCs == {"READ", "CLAIMING", "CLAIMED"}

PausedStatus == {"PAUSED_CYCLE_CAP", "PAUSED_UNCLEAR_VERDICT"}

(* Every batch before this one was left on grounds.                        *)
Reached(batch) == \A b \in RelayBatch : b < batch => Grounded(b)

RowGrounded(row) ==
  /\ Reached(row.batch)
  /\ row.status = "COMPLETE" => Grounded(row.batch)

LogGrounded ==
  lastEvent # NoEvent =>
    /\ Reached(lastEvent.batch)
    /\ lastEvent.verdict \in Advancing => Grounded(lastEvent.batch)

(* A worker's copy is of the batch the row is at, and the row's flag is    *)
(* consumed in the copy first; a copy read before the lease may be old,    *)
(* but a flagged one is not paused.                                        *)
CopyHeld(state, row) ==
  /\ Reached(state.run.batch)
  /\ state.pc \in LoopPCs =>
       /\ state.run.status = "ACTIVE" /\ state.run.batch = row.batch
       /\ state.run.advanceAfterResponse <=> row.advanceAfterResponse /\ state.pc # "ADVANCE"
  /\ state.pc = "ADVANCE" => Grounded(state.run.batch)
  /\ state.pc \in {"SEND", "CALLING"} /\ state.run.advanceAfterResponse =>
       state.role = "IMPLEMENTER"
  /\ state.pc \in WaitPCs =>
       /\ state.run.advanceAfterResponse => state.run.status \notin PausedStatus
       /\ state.command = "run" => state.run = NewRun

(* A flagged row was accepted as it stands, and the last exchange is the   *)
(* implementer's, or the accept is about to send it.                       *)
FlagKept ==
  relayRun.advanceAfterResponse =>
    /\ <<relayRun.batch, "accept">> \in decisions /\ relayRun.status \notin PausedStatus
    /\ \/ /\ lastEvent # NoEvent
          /\ lastEvent.role = "IMPLEMENTER" /\ lastEvent.batch = relayRun.batch
       \/ \E p \in RelayProcess : AcceptUnsent(p)

Grounds ==
  /\ RowGrounded(relayRun) /\ LogGrounded /\ FlagKept
  /\ \A p \in RelayProcess : CopyHeld(relayer[p], relayRun)

GroundInv == RelayInv /\ (lostAccept \/ Grounds)

LEMMA WorkerAlone ==
  ASSUME RelayInv, NEW p \in RelayProcess, Working(p)
  PROVE  \A q \in RelayProcess \ {p} : ~Working(q)
BY DEF RelayInv, LeaseKept, SoleRelayWorker

(* Grounds are never taken back.                                           *)
LEMMA GroundsGrow ==
  ASSUME accepted \subseteq accepted', decisions \subseteq decisions'
  PROVE  /\ \A b : Grounded(b) => Grounded(b)'
         /\ \A n : Reached(n) => Reached(n)'
BY DEF Grounded, Reached

LEMMA StayingCopy ==
  ASSUME accepted \subseteq accepted', decisions \subseteq decisions',
         NEW state, NEW row, NEW next, CopyHeld(state, row),
         \/ state.pc \notin LoopPCs
         \/ next.batch = row.batch /\ next.advanceAfterResponse = row.advanceAfterResponse
  PROVE  CopyHeld(state, next)'
<1>1. /\ Reached(state.run.batch)'
      /\ Grounded(state.run.batch) => Grounded(state.run.batch)'
  BY GroundsGrow DEF CopyHeld
<1> QED
  BY <1>1 DEF CopyHeld, Grounded, Reached

(* A step that leaves the log alone and does not lose an accept.           *)
LEMMA GroundsKept ==
  ASSUME RelayInv, Grounds, NEW p \in RelayProcess, NEW state, NoLog, ~AcceptUnsent(p),
         relayer' = [relayer EXCEPT ![p] = state],
         \/ Working(p)
         \/ /\ relayRun'.batch = relayRun.batch
            /\ relayRun'.advanceAfterResponse = relayRun.advanceAfterResponse,
         RowGrounded(relayRun'), CopyHeld(state, relayRun'),
         relayRun'.advanceAfterResponse =>
           /\ relayRun.advanceAfterResponse /\ relayRun'.batch = relayRun.batch
           /\ relayRun'.status \notin PausedStatus
  PROVE  Grounds'
<1>1. relayer'[p] = state /\ \A q \in RelayProcess \ {p} : relayer'[q] = relayer[q]
  BY DEF RelayInv, RelayTypeOK
<1>2. /\ \A b : Grounded(b)' = Grounded(b)
      /\ accepted \subseteq accepted' /\ decisions \subseteq decisions'
  BY DEF NoLog, Grounded
<1>3. RowGrounded(relayRun)' /\ LogGrounded'
  BY <1>2 DEF Grounds, RowGrounded, LogGrounded, Reached, NoLog
<1>4. ASSUME NEW q \in RelayProcess PROVE CopyHeld(relayer[q], relayRun)'
  <2>1. CASE q = p
    BY <1>1, <1>2, <2>1 DEF CopyHeld, Reached
  <2>2. CASE q # p
    <3>1. CopyHeld(relayer[q], relayRun) /\ relayer'[q] = relayer[q]
      BY <1>1, <2>2 DEF Grounds
    <3>2. \/ relayer[q].pc \notin LoopPCs
          \/ /\ relayRun'.batch = relayRun.batch
             /\ relayRun'.advanceAfterResponse = relayRun.advanceAfterResponse
      BY <2>2, WorkerAlone DEF Working, LoopPCs
    <3> QED
      BY <1>2, <3>1, <3>2 DEF CopyHeld, Reached
  <2> QED
    BY <2>1, <2>2
<1>5. FlagKept'
  <2> SUFFICES ASSUME relayRun'.advanceAfterResponse
               PROVE  /\ <<relayRun'.batch, "accept">> \in decisions'
                      /\ relayRun'.status \notin PausedStatus
                      /\ \/ /\ lastEvent' # NoEvent /\ lastEvent'.role = "IMPLEMENTER"
                            /\ lastEvent'.batch = relayRun'.batch
                         \/ \E q \in RelayProcess : AcceptUnsent(q)'
    BY DEF FlagKept
  <2>1. /\ <<relayRun.batch, "accept">> \in decisions
        /\ \/ /\ lastEvent # NoEvent /\ lastEvent.role = "IMPLEMENTER"
              /\ lastEvent.batch = relayRun.batch
           \/ \E q \in RelayProcess : AcceptUnsent(q)
    BY DEF Grounds, FlagKept
  <2>2. \A q \in RelayProcess : AcceptUnsent(q) => AcceptUnsent(q)'
    BY <1>1 DEF AcceptUnsent, RelayAt
  <2> QED
    BY <2>1, <2>2 DEF NoLog
<1> QED
  BY <1>3, <1>4, <1>5 DEF Grounds

(* What a copy of a worker in the loop knows.                              *)
LEMMA LoopFacts ==
  ASSUME RelayInv, Grounds, NEW p \in RelayProcess, relayer[p].pc \in LoopPCs
  PROVE  /\ Working(p) /\ Reached(RunOf(p).batch) /\ RunOf(p).status = "ACTIVE"
         /\ RunOf(p).batch = relayRun.batch /\ RunOf(p) \in Row /\ relayRun \in Row
         /\ RunOf(p).advanceAfterResponse <=>
              relayRun.advanceAfterResponse /\ relayer[p].pc # "ADVANCE"
         /\ relayer[p].pc = "ADVANCE" => Grounded(RunOf(p).batch)
BY CopiesBounded DEF Grounds, CopyHeld, Working, LoopPCs, RunOf

(* At the boundary: a reply that answers this batch advances it on         *)
(* grounds, and is the implementer's when an accept is pending.            *)
LEMMA ReplyFacts ==
  ASSUME RelayInv, Grounds, NEW p \in RelayProcess, RelayAt(p, "BOUNDARY")
  PROVE  /\ RunOf(p).advanceAfterResponse => ~BatchUnopened(p) /\ lastEvent.role = "IMPLEMENTER"
         /\ ~BatchUnopened(p) /\ lastEvent.verdict \in Advancing => Grounded(RunOf(p).batch)
<1>1. /\ Working(p) /\ RunOf(p).batch = relayRun.batch /\ RunOf(p).batch \in RelayBatch
      /\ RunOf(p).advanceAfterResponse <=> relayRun.advanceAfterResponse
  BY LoopFacts DEF RelayAt, LoopPCs, Row
<1>2. \A q \in RelayProcess : ~AcceptUnsent(q)
  BY <1>1, WorkerAlone DEF AcceptUnsent, RelayAt, Working
<1>3. RunOf(p).batch \in Nat
  BY <1>1, RelayAssumption DEF RelayBatch
<1>4. ASSUME RunOf(p).advanceAfterResponse
      PROVE  ~BatchUnopened(p) /\ lastEvent.role = "IMPLEMENTER"
  <2>1. /\ lastEvent # NoEvent /\ lastEvent.role = "IMPLEMENTER"
        /\ lastEvent.batch = RunOf(p).batch
    BY <1>1, <1>2, <1>4 DEF Grounds, FlagKept
  <2> QED
    BY <1>3, <2>1 DEF BatchUnopened
<1>5. ASSUME ~BatchUnopened(p), lastEvent.verdict \in Advancing
      PROVE  Grounded(RunOf(p).batch)
  <2>1. lastEvent # NoEvent /\ ~(lastEvent.batch < RunOf(p).batch)
    BY <1>5 DEF BatchUnopened
  <2>2. lastEvent.batch \in RelayBatch /\ lastEvent.batch \in Nat
    BY <2>1, RelayAssumption DEF RelayInv, RelayTypeOK, RelayEvent, RelayBatch
  <2>3. Reached(lastEvent.batch) /\ Grounded(lastEvent.batch)
    BY <1>5, <2>1 DEF Grounds, LogGrounded
  <2>4. RunOf(p).batch < lastEvent.batch \/ RunOf(p).batch = lastEvent.batch
    BY <1>3, <2>1, <2>2
  <2> QED
    BY <1>1, <2>3, <2>4 DEF Reached
<1> QED
  BY <1>4, <1>5

(***************************************************************************)
(* A worker in the loop.                                                   *)
(***************************************************************************)
(* Its copy is written, with another status.                               *)
LEMMA WritesStatus ==
  ASSUME RelayInv, Grounds, NEW p \in RelayProcess, relayer[p].pc \in LoopPCs,
         ~AcceptUnsent(p), NoLog, NEW pc \in {"BOUNDARY", "RELEASE", "REREAD"},
         NEW status \in RelayStatus, Updates(p, pc, [RunOf(p) EXCEPT !.status = status]),
         pc = "BOUNDARY" => status = "ACTIVE" /\ relayer[p].pc # "ADVANCE",
         status = "COMPLETE" => Grounded(RunOf(p).batch),
         status \in PausedStatus => ~RunOf(p).advanceAfterResponse
  PROVE  Grounds'
<1>1. PICK run : /\ run = [RunOf(p) EXCEPT !.status = status]
                 /\ run.status = status /\ run.batch = RunOf(p).batch
                 /\ run.advanceAfterResponse = RunOf(p).advanceAfterResponse
  BY LoopFacts DEF Row
<1>2. PICK state : state = [relayer[p] EXCEPT !.pc = pc, !.run = run]
  OBVIOUS
<1>3. relayRun' = run /\ relayer' = [relayer EXCEPT ![p] = state]
  BY <1>1, <1>2 DEF Updates, GoesWith
<1>4. state.pc = pc /\ state.run = run
  BY <1>2, CopiesBounded DEF Relayer
<1>5. RowGrounded(run)
  BY <1>1, LoopFacts DEF RowGrounded
<1>6. CopyHeld(state, run)
  BY <1>1, <1>4, LoopFacts DEF CopyHeld, LoopPCs, WaitPCs
<1>7. run.advanceAfterResponse =>
        relayRun.advanceAfterResponse /\ run.batch = relayRun.batch /\ run.status \notin PausedStatus
  BY <1>1, LoopFacts
<1> QED
  BY <1>3, <1>5, <1>6, <1>7, LoopFacts, GroundsKept

(* A step that leaves the row alone as well.                               *)
LEMMA RowStays ==
  ASSUME RelayInv, Grounds, NEW p \in RelayProcess, NEW state, NoLog, ~AcceptUnsent(p),
         UNCHANGED relayRun, relayer' = [relayer EXCEPT ![p] = state], CopyHeld(state, relayRun)
  PROVE  Grounds'
BY GroundsKept DEF Grounds, FlagKept

LEMMA CallsGrounded ==
  ASSUME RelayInv, Grounds, NEW p \in RelayProcess, RelayAt(p, "BOUNDARY"), NEW role \in Role,
         Calls(p, role), UNCHANGED relayRun, NoLog,
         RunOf(p).advanceAfterResponse => role = "IMPLEMENTER"
  PROVE  Grounds'
<1>1. PICK state : state = [relayer[p] EXCEPT !.pc = "SEND", !.role = role]
  OBVIOUS
<1>2. relayer' = [relayer EXCEPT ![p] = state]
  BY <1>1 DEF Calls
<1>3. state.pc = "SEND" /\ state.run = RunOf(p) /\ state.role = role
  BY <1>1, CopiesBounded DEF Relayer, RunOf
<1>4. CopyHeld(state, relayRun)
  BY <1>3, LoopFacts DEF CopyHeld, RelayAt, LoopPCs, WaitPCs
<1> QED
  BY <1>2, <1>4, RowStays DEF AcceptUnsent, RelayAt

LEMMA CallsOpened ==
  ASSUME RelayInv, Grounds, NEW p \in RelayProcess,
         OpensBatch(p) \/ ResendsPrompt(p) \/ ForwardsToReviewer(p)
  PROVE  Grounds'
<1>1. RelayAt(p, "BOUNDARY") /\ UNCHANGED relayRun /\ NoLog
  BY DEF OpensBatch, ResendsPrompt, ForwardsToReviewer, Replied, Steps
<1>2. CASE OpensBatch(p)
  <2>1. ~RunOf(p).advanceAfterResponse
    BY <1>1, <1>2, ReplyFacts DEF OpensBatch
  <2> QED
    BY <1>1, <1>2, <2>1, CallsGrounded DEF OpensBatch, Role
<1>3. CASE ResendsPrompt(p)
  <2>1. lastEvent \in RelayEvent /\ Calls(p, lastEvent.role)
    BY <1>3, CopiesBounded DEF ResendsPrompt, BatchUnopened, LogTyped
  <2>2. PICK role \in Role : role = lastEvent.role
    BY <2>1 DEF RelayEvent
  <2>3. RunOf(p).advanceAfterResponse => role = "IMPLEMENTER"
    BY <1>1, <2>2, ReplyFacts
  <2> QED
    BY <1>1, <2>1, <2>2, <2>3, CallsGrounded
<1>4. CASE ForwardsToReviewer(p)
  BY <1>1, <1>4, CallsGrounded DEF ForwardsToReviewer, Role
<1> QED
  BY <1>2, <1>3, <1>4

(* It goes on with its copy as it is.                                      *)
LEMMA GoesGrounded ==
  ASSUME RelayInv, Grounds, NEW p \in RelayProcess, NEW pc \in {"REREAD", "RELEASE", "BOUNDARY", "ADVANCE"},
         Goes(p, pc), UNCHANGED relayRun, NoLog, ~AcceptUnsent(p),
         pc = "BOUNDARY" => RelayAt(p, "ADVANCED"),
         pc = "ADVANCE" => /\ RelayAt(p, "BOUNDARY") /\ ~RunOf(p).advanceAfterResponse
                           /\ Grounded(RunOf(p).batch)
  PROVE  Grounds'
<1>1. PICK state : state = [relayer[p] EXCEPT !.pc = pc]
  OBVIOUS
<1>2. relayer' = [relayer EXCEPT ![p] = state]
  BY <1>1 DEF Goes
<1>3. state.pc = pc /\ state.run = RunOf(p)
  BY <1>1, CopiesBounded DEF Relayer, RunOf
<1>4. Reached(RunOf(p).batch)
  BY DEF Grounds, CopyHeld, RunOf
<1>5. CopyHeld(state, relayRun)
  <2>1. CASE pc \in {"REREAD", "RELEASE"}
    BY <1>3, <1>4, <2>1 DEF CopyHeld, LoopPCs, WaitPCs
  <2>2. CASE pc \in {"BOUNDARY", "ADVANCE"}
    BY <1>3, <1>4, <2>2, LoopFacts DEF CopyHeld, RelayAt, LoopPCs, WaitPCs
  <2> QED
    BY <2>1, <2>2
<1> QED
  BY <1>2, <1>5, RowStays

LEMMA PassesOnGrounds ==
  ASSUME RelayInv, Grounds, NEW p \in RelayProcess,
         \/ NothingToDecide(p) \/ FindsComplete(p) \/ ProceedsToNext(p) \/ GoesOnAfterBatch(p)
  PROVE  Grounds'
<1>1. UNCHANGED relayRun /\ NoLog /\ ~AcceptUnsent(p)
  BY DEF NothingToDecide, FindsComplete, ProceedsToNext, GoesOnAfterBatch, Replied, Steps,
     AcceptUnsent, RelayAt
<1>2. CASE NothingToDecide(p) \/ FindsComplete(p)
  BY <1>1, <1>2, GoesGrounded DEF NothingToDecide, FindsComplete
<1>3. CASE GoesOnAfterBatch(p)
  <2>1. PICK pc \in {"REREAD", "BOUNDARY"} : Goes(p, pc)
    BY <1>3 DEF GoesOnAfterBatch, AfterStep
  <2> QED
    BY <1>1, <1>3, <2>1, GoesGrounded DEF GoesOnAfterBatch
<1>4. CASE ProceedsToNext(p)
  <2>1. /\ RelayAt(p, "BOUNDARY") /\ ~BatchUnopened(p) /\ lastEvent.role = "REVIEWER"
        /\ lastEvent.verdict \in Advancing /\ Goes(p, "ADVANCE")
    BY <1>4 DEF ProceedsToNext, Replied, Steps, Advancing
  <2>2. ~RunOf(p).advanceAfterResponse /\ Grounded(RunOf(p).batch)
    BY <2>1, ReplyFacts
  <2> QED
    BY <1>1, <2>1, <2>2, GoesGrounded
<1> QED
  BY <1>2, <1>3, <1>4

(* The flag is consumed in the copy; it was an accept of this batch.       *)
LEMMA ClosesGrounded ==
  ASSUME RelayInv, Grounds, NEW p \in RelayProcess, ClosesAccepted(p)
  PROVE  Grounds'
<1>1. RelayAt(p, "BOUNDARY") /\ RunOf(p).advanceAfterResponse
  BY DEF ClosesAccepted, Replied, Steps
<1>2. PICK run : run = PendingConsumed(RunOf(p))
  OBVIOUS
<1>3. run.status = RunOf(p).status /\ run.batch = RunOf(p).batch /\ run.advanceAfterResponse = FALSE
  BY <1>2, CopiesBounded DEF PendingConsumed, Row
<1>4. PICK state : state = [relayer[p] EXCEPT !.pc = "ADVANCE", !.run = run]
  OBVIOUS
<1>5. relayer' = [relayer EXCEPT ![p] = state]
  BY <1>2, <1>4 DEF ClosesAccepted, GoesWith
<1>6. state.pc = "ADVANCE" /\ state.run = run
  BY <1>4, CopiesBounded DEF Relayer
<1>7. relayRun.advanceAfterResponse /\ RunOf(p).batch = relayRun.batch
      /\ Reached(RunOf(p).batch) /\ RunOf(p).status = "ACTIVE"
  BY <1>1, LoopFacts DEF RelayAt, LoopPCs
<1>8. Grounded(RunOf(p).batch)
  BY <1>7 DEF Grounds, FlagKept, Grounded
<1>9. CopyHeld(state, relayRun)
  BY <1>3, <1>6, <1>7, <1>8 DEF CopyHeld, LoopPCs, WaitPCs
<1> QED
  BY <1>1, <1>5, <1>9, RowStays DEF ClosesAccepted, AcceptUnsent, RelayAt

LEMMA StatusWritten ==
  ASSUME RelayInv, Grounds, NEW p \in RelayProcess,
         \/ CallGivenUp(p) \/ StopsOnSignal(p) \/ StopsOnIntent(p) \/ PausesUnclear(p)
         \/ CompletesPlan(p) \/ PausesAtCap(p) \/ AdvancesLast(p) \/ StopsAtBatchEnd(p)
  PROVE  Grounds'
<1>1. CASE CallGivenUp(p) \/ StopsOnSignal(p) \/ StopsOnIntent(p)
  <2>1. /\ relayer[p].pc \in LoopPCs /\ ~AcceptUnsent(p) /\ NoLog
        /\ Updates(p, "RELEASE", [RunOf(p) EXCEPT !.status = "STOPPED"])
    BY <1>1 DEF CallGivenUp, StopsOnSignal, StopsOnIntent, Pauses, RelayAt, LoopPCs, AcceptUnsent
  <2> QED
    BY <2>1, WritesStatus DEF RelayStatus, PausedStatus
<1>2. CASE PausesUnclear(p) \/ CompletesPlan(p) \/ PausesAtCap(p)
  <2>1. /\ RelayAt(p, "BOUNDARY") /\ ~BatchUnopened(p) /\ lastEvent.role = "REVIEWER" /\ NoLog
    BY <1>2 DEF PausesUnclear, CompletesPlan, PausesAtCap, Replied, Steps
  <2>2. PICK status \in {"PAUSED_UNCLEAR_VERDICT", "COMPLETE", "PAUSED_CYCLE_CAP"} :
          /\ Updates(p, "RELEASE", [RunOf(p) EXCEPT !.status = status])
          /\ status = "COMPLETE" => lastEvent.verdict \in Advancing
    BY <1>2 DEF PausesUnclear, CompletesPlan, PausesAtCap, Pauses, Advancing
  <2>3. /\ ~RunOf(p).advanceAfterResponse
        /\ lastEvent.verdict \in Advancing => Grounded(RunOf(p).batch)
    BY <2>1, ReplyFacts
  <2> QED
    BY <2>1, <2>2, <2>3, WritesStatus DEF RelayStatus, RelayAt, LoopPCs, AcceptUnsent
<1>3. CASE AdvancesLast(p)
  <2>1. PICK pc \in {"RELEASE", "REREAD"} :
          Updates(p, pc, [RunOf(p) EXCEPT !.status = "COMPLETE"])
    BY <1>3 DEF AdvancesLast, Updates
  <2>2. relayer[p].pc = "ADVANCE" /\ relayer[p].pc \in LoopPCs /\ ~AcceptUnsent(p) /\ NoLog
    BY <1>3 DEF AdvancesLast, RelayAt, LoopPCs, AcceptUnsent
  <2>3. Grounded(RunOf(p).batch)
    BY <2>2, LoopFacts
  <2> QED
    BY <2>1, <2>2, <2>3, WritesStatus DEF RelayStatus, PausedStatus
<1>4. CASE StopsAtBatchEnd(p)
  <2>1. PICK pc \in {"RELEASE", "REREAD"} :
          Updates(p, pc, [RunOf(p) EXCEPT !.status = "STOPPED"])
    BY <1>4 DEF StopsAtBatchEnd, Updates
  <2>2. relayer[p].pc \in LoopPCs /\ ~AcceptUnsent(p) /\ NoLog
    BY <1>4 DEF StopsAtBatchEnd, RelayAt, LoopPCs, AcceptUnsent
  <2> QED
    BY <2>1, <2>2, WritesStatus DEF RelayStatus, PausedStatus
<1> QED
  BY <1>1, <1>2, <1>3, <1>4

(* A row and a copy of it that is active and unflagged, or as the row is.  *)
LEMMA WritesRow ==
  ASSUME RelayInv, Grounds, NEW p \in RelayProcess, NEW state, NEW run, Working(p), NoLog,
         ~AcceptUnsent(p), relayRun' = run, relayer' = [relayer EXCEPT ![p] = state],
         state.run = run, run.status = "ACTIVE", Reached(run.batch),
         state.pc \in {"BOUNDARY", "SEND", "REREAD", "ADVANCED"},
         \/ run.advanceAfterResponse = FALSE
         \/ /\ state.pc = "BOUNDARY" /\ run.batch = relayRun.batch
            /\ relayRun.advanceAfterResponse
  PROVE  Grounds'
<1>1. RowGrounded(run)
  BY DEF RowGrounded
<1>2. CopyHeld(state, run)
  BY DEF CopyHeld, LoopPCs, WaitPCs
<1> QED
  BY <1>1, <1>2, GroundsKept DEF PausedStatus

LEMMA RowReread ==
  ASSUME RelayInv, Grounds, NEW p \in RelayProcess, NEW state, Working(p), NoLog,
         ~AcceptUnsent(p), relayRun' = [relayRun EXCEPT !.status = "ACTIVE"],
         relayer' = [relayer EXCEPT ![p] = state], state.run = relayRun', state.pc = "BOUNDARY"
  PROVE  Grounds'
<1>1. PICK run : run = [relayRun EXCEPT !.status = "ACTIVE"]
  OBVIOUS
<1>2. /\ run.status = "ACTIVE" /\ run.batch = relayRun.batch
      /\ run.advanceAfterResponse = relayRun.advanceAfterResponse
      /\ run.advanceAfterResponse \in BOOLEAN
  BY <1>1, CopiesBounded DEF Row
<1>3. Reached(run.batch)
  BY <1>2 DEF Grounds, RowGrounded
<1> QED
  BY <1>1, <1>2, <1>3, WritesRow

LEMMA StartIsReached == Reached(StartBatch) /\ NewRun.batch = StartBatch
BY RelayAssumption DEF Reached, RelayBatch, NewRun

LEMMA EnteredOnGrounds ==
  ASSUME RelayInv, Grounds, NEW p \in RelayProcess, EntersLoop(p)
  PROVE  Grounds'
<1>1. Working(p) /\ NoLog /\ ~AcceptUnsent(p)
  BY DEF EntersLoop, RelayAt, Working, AcceptUnsent
<1>2. CASE RelayAt(p, "REREAD")
  <2>1. PICK run : run = [relayRun EXCEPT !.status = "ACTIVE"]
    OBVIOUS
  <2>2. PICK state : state = [relayer[p] EXCEPT !.pc = "BOUNDARY", !.run = run, !.direct = FALSE]
    OBVIOUS
  <2>3. relayRun' = [relayRun EXCEPT !.status = "ACTIVE"] /\ relayRun' = run
        /\ relayer' = [relayer EXCEPT ![p] = state]
    BY <1>2, <2>1, <2>2 DEF EntersLoop, RelayAt
  <2>4. state.run = run /\ state.pc = "BOUNDARY"
    BY <2>2, CopiesBounded DEF Relayer
  <2> QED
    BY <1>1, <2>3, <2>4, RowReread
<1>3. CASE ~RelayAt(p, "REREAD")
  <2>1. RelayAt(p, "CLAIMED") /\ relayer[p].command = "run"
        /\ Updates(p, "BOUNDARY", [RunOf(p) EXCEPT !.status = "ACTIVE"])
    BY <1>3 DEF EntersLoop
  <2>2. RunOf(p) = NewRun
    BY <2>1 DEF Grounds, CopyHeld, WaitPCs, RelayAt, RunOf
  <2>3. PICK run : run = [RunOf(p) EXCEPT !.status = "ACTIVE"]
    OBVIOUS
  <2>4. run.status = "ACTIVE" /\ run.batch = StartBatch /\ run.advanceAfterResponse = FALSE
    BY <2>2, <2>3 DEF NewRun
  <2>5. PICK state : state = [relayer[p] EXCEPT !.pc = "BOUNDARY", !.run = run]
    OBVIOUS
  <2>6. relayRun' = run /\ relayer' = [relayer EXCEPT ![p] = state]
    BY <2>1, <2>3, <2>5 DEF Updates, GoesWith
  <2>7. state.run = run /\ state.pc = "BOUNDARY"
    BY <2>5, CopiesBounded DEF Relayer
  <2> QED
    BY <1>1, <2>4, <2>6, <2>7, StartIsReached, WritesRow
<1> QED
  BY <1>2, <1>3

LEMMA RetriedOnGrounds ==
  ASSUME RelayInv, Grounds, NEW p \in RelayProcess, CallRetried(p)
  PROVE  Grounds'
<1>1. Working(p) /\ NoLog /\ ~AcceptUnsent(p) /\ relayer[p].pc \in LoopPCs
      /\ relayer[p].pc # "ADVANCE"
  BY DEF CallRetried, RelayAt, Working, AcceptUnsent, LoopPCs
<1>2. PICK read \in {relayRun, RunOf(p)} : Updates(p, "BOUNDARY", [read EXCEPT !.status = "ACTIVE"])
  BY DEF CallRetried
<1>3. CASE read = relayRun
  <2>1. PICK run : run = [relayRun EXCEPT !.status = "ACTIVE"]
    OBVIOUS
  <2>2. PICK state : state = [relayer[p] EXCEPT !.pc = "BOUNDARY", !.run = run]
    OBVIOUS
  <2>3. relayRun' = [relayRun EXCEPT !.status = "ACTIVE"] /\ relayRun' = run
        /\ relayer' = [relayer EXCEPT ![p] = state]
    BY <1>2, <1>3, <2>1, <2>2 DEF Updates, GoesWith
  <2>4. state.run = run /\ state.pc = "BOUNDARY"
    BY <2>2, CopiesBounded DEF Relayer
  <2> QED
    BY <1>1, <2>3, <2>4, RowReread
<1>4. CASE read = RunOf(p)
  BY <1>1, <1>2, <1>4, WritesStatus DEF RelayStatus, PausedStatus
<1> QED
  BY <1>2, <1>3, <1>4

LEMMA CycleOnGrounds ==
  ASSUME RelayInv, Grounds, NEW p \in RelayProcess, OpensFixCycle(p)
  PROVE  Grounds'
<1>1. /\ RelayAt(p, "BOUNDARY") /\ ~BatchUnopened(p) /\ lastEvent.role = "REVIEWER" /\ NoLog
      /\ Working(p) /\ ~AcceptUnsent(p)
  BY DEF OpensFixCycle, Replied, Steps, RelayAt, Working, AcceptUnsent
<1>2. ~RunOf(p).advanceAfterResponse
  BY <1>1, ReplyFacts
<1>3. PICK run : run = [RunOf(p) EXCEPT !.cycle = @ + 1]
  OBVIOUS
<1>4. run.status = RunOf(p).status /\ run.batch = RunOf(p).batch /\ run.advanceAfterResponse = FALSE
  BY <1>2, <1>3, CopiesBounded DEF Row
<1>5. PICK state : state = [relayer[p] EXCEPT !.pc = "SEND", !.role = "IMPLEMENTER", !.run = run]
  OBVIOUS
<1>6. relayRun' = run /\ relayer' = [relayer EXCEPT ![p] = state]
  BY <1>3, <1>5 DEF OpensFixCycle
<1>7. state.run = run /\ state.pc = "SEND"
  BY <1>5, CopiesBounded DEF Relayer
<1>8. run.status = "ACTIVE" /\ Reached(run.batch)
  BY <1>1, <1>4, LoopFacts DEF RelayAt, LoopPCs
<1> QED
  BY <1>1, <1>4, <1>6, <1>7, <1>8, WritesRow

(* The batch that is left was left on grounds.                             *)
LEMMA AdvancedOnGrounds ==
  ASSUME RelayInv, Grounds, NEW p \in RelayProcess, AdvancesBatch(p)
  PROVE  Grounds'
<1>1. /\ relayer[p].pc = "ADVANCE" /\ relayer[p].pc \in LoopPCs /\ NoLog /\ Working(p)
      /\ ~AcceptUnsent(p)
  BY DEF AdvancesBatch, RelayAt, Working, AcceptUnsent, LoopPCs
<1>2. PICK run : run = [RunOf(p) EXCEPT !.batch = @ + 1, !.cycle = 1]
  OBVIOUS
<1>3. /\ run.status = RunOf(p).status /\ run.batch = RunOf(p).batch + 1
      /\ run.advanceAfterResponse = RunOf(p).advanceAfterResponse
  BY <1>2, CopiesBounded DEF Row
<1>4. PICK state : state = [relayer[p] EXCEPT !.pc = "ADVANCED", !.run = run]
  OBVIOUS
<1>5. relayRun' = run /\ relayer' = [relayer EXCEPT ![p] = state]
  BY <1>2, <1>4 DEF AdvancesBatch, Updates, GoesWith
<1>6. state.run = run /\ state.pc = "ADVANCED"
  BY <1>4, CopiesBounded DEF Relayer
<1>7. /\ Reached(RunOf(p).batch) /\ Grounded(RunOf(p).batch) /\ RunOf(p).batch \in RelayBatch
      /\ RunOf(p).status = "ACTIVE"
      /\ RunOf(p).advanceAfterResponse \in BOOLEAN /\ ~RunOf(p).advanceAfterResponse
  BY <1>1, LoopFacts DEF Row
<1>8. Reached(run.batch)
  <2>1. RunOf(p).batch \in Nat /\ RelayBatch \subseteq Nat
    BY <1>7, RelayAssumption DEF RelayBatch
  <2>2. \A b \in RelayBatch : b < run.batch => b < RunOf(p).batch \/ b = RunOf(p).batch
    BY <1>3, <2>1
  <2> QED
    BY <1>7, <2>2 DEF Reached
<1> QED
  BY <1>1, <1>3, <1>5, <1>6, <1>7, <1>8, WritesRow

LEMMA ReconsideredOnGrounds ==
  ASSUME RelayInv, Grounds, NEW p \in RelayProcess, ReconsidersReply(p)
  PROVE  Grounds'
<1>1. /\ relayer[p].pc = "CLAIMED" /\ NoLog /\ Working(p) /\ ~AcceptUnsent(p)
      /\ RunOf(p).status = "PAUSED_UNCLEAR_VERDICT"
  BY DEF ReconsidersReply, RelayAt, Working, AcceptUnsent
<1>2. PICK run : run = [RunOf(p) EXCEPT !.status = "ACTIVE"]
  OBVIOUS
<1>3. /\ run.status = "ACTIVE" /\ run.batch = RunOf(p).batch
      /\ run.advanceAfterResponse = RunOf(p).advanceAfterResponse
      /\ run.advanceAfterResponse \in BOOLEAN
  BY <1>2, CopiesBounded DEF Row
<1>4. ~RunOf(p).advanceAfterResponse /\ Reached(RunOf(p).batch)
  BY <1>1 DEF Grounds, CopyHeld, WaitPCs, PausedStatus, RunOf
<1>5. PICK next \in {"REREAD", "SEND"} :
        next = IF lastEvent.verdict \in Advancing \cup {"FIX"} THEN "REREAD" ELSE "SEND"
  OBVIOUS
<1>6. PICK state : state = [relayer[p] EXCEPT !.run = run, !.direct = TRUE, !.role = "REVIEWER",
                              !.pc = next]
  OBVIOUS
<1>7. relayRun' = run /\ relayer' = [relayer EXCEPT ![p] = state]
  BY <1>2, <1>5, <1>6 DEF ReconsidersReply
<1>8. state.run = run /\ state.pc = next
  BY <1>6, CopiesBounded DEF Relayer
<1> QED
  BY <1>1, <1>3, <1>4, <1>5, <1>7, <1>8, WritesRow

(***************************************************************************)
(* Before and after the loop.                                              *)
(***************************************************************************)
LEMMA ReadOnGrounds ==
  ASSUME RelayInv, Grounds, NEW p \in RelayProcess, NEW c \in Command \ {"run"}, ResumeReads(p, c)
  PROVE  Grounds'
<1>1. PICK state : state = [Fresh EXCEPT !.pc = "READ", !.command = c, !.run = relayRun]
  OBVIOUS
<1>2. relayer' = [relayer EXCEPT ![p] = state] /\ UNCHANGED relayRun /\ NoLog /\ ~AcceptUnsent(p)
  BY <1>1 DEF ResumeReads, AcceptUnsent, RelayAt
<1>3. state.pc = "READ" /\ state.command = c /\ state.run = relayRun
  BY <1>1 DEF Fresh
<1>4. CopyHeld(state, relayRun)
  BY <1>3 DEF CopyHeld, LoopPCs, Grounds, RowGrounded, FlagKept
<1> QED
  BY <1>2, <1>4, RowStays

LEMMA ClaimedOnGrounds ==
  ASSUME RelayInv, Grounds, NEW p \in RelayProcess, ReadsHolder(p) \/ ClaimsRun(p)
  PROVE  Grounds'
<1>1. PICK pc \in {"CLAIMING", "CLAIMED"} :
        /\ \E holder : relayer' = [relayer EXCEPT ![p].pc = pc, ![p].holder = holder]
        /\ relayer[p].pc \in WaitPCs
  BY DEF ReadsHolder, ClaimsRun, RelayAt, WaitPCs
<1>2. PICK holder : relayer' = [relayer EXCEPT ![p].pc = pc, ![p].holder = holder]
  BY <1>1
<1>3. PICK state : state = [relayer[p] EXCEPT !.pc = pc, !.holder = holder]
  OBVIOUS
<1>4. relayer' = [relayer EXCEPT ![p] = state]
  BY <1>2, <1>3
<1>5. state.pc = pc /\ state.run = relayer[p].run /\ state.command = relayer[p].command
  BY <1>3, CopiesBounded DEF Relayer
<1>6. CopyHeld(relayer[p], relayRun)
  BY DEF Grounds
<1>7. CopyHeld(state, relayRun)
  BY <1>1, <1>5, <1>6 DEF CopyHeld, LoopPCs, WaitPCs
<1>8. UNCHANGED relayRun /\ NoLog /\ ~AcceptUnsent(p)
  BY DEF ReadsHolder, ClaimsRun, AcceptUnsent, RelayAt
<1> QED
  BY <1>4, <1>7, <1>8, RowStays

LEMMA EndedOnGrounds ==
  ASSUME RelayInv, Grounds, NEW p \in RelayProcess, ~lostAccept',
         ClaimRefused(p) \/ LeavesClaimed(p) \/ ReleasesRun(p) \/ RelayDies(p)
  PROVE  Grounds'
<1>1. /\ Exits(p) /\ NoLog /\ ~AcceptUnsent(p)
      /\ UNCHANGED relayRun \/ relayRun' = FiledAsStopped(relayRun)
  BY CopiesBounded DEF ClaimRefused, LeavesClaimed, ReleasesRun, RelayDies, NoLog, AcceptUnsent,
     RelayAt, LogTyped
<1>2. PICK state : state = Ended
  OBVIOUS
<1>3. relayer' = [relayer EXCEPT ![p] = state] /\ state.pc = "GONE" /\ state.run = NewRun
  BY <1>1, <1>2 DEF Exits, Ended, Fresh
<1>4. \A row : CopyHeld(state, row)
  BY <1>3, StartIsReached DEF CopyHeld, LoopPCs, WaitPCs
<1>5. CASE UNCHANGED relayRun
  BY <1>1, <1>3, <1>4, <1>5, RowStays
<1>6. CASE relayRun' = FiledAsStopped(relayRun) /\ relayRun' # relayRun
  <2>1. PICK run : run = [relayRun EXCEPT !.status = "STOPPED"]
    OBVIOUS
  <2>2. relayRun' = run
    BY <1>6, <2>1 DEF FiledAsStopped
  <2>3. /\ run.status = "STOPPED" /\ run.batch = relayRun.batch
        /\ run.advanceAfterResponse = relayRun.advanceAfterResponse
    BY <2>1, CopiesBounded DEF Row
  <2>4. RowGrounded(run)
    BY <2>3 DEF Grounds, RowGrounded
  <2> QED
    BY <1>1, <1>3, <1>4, <2>2, <2>3, <2>4, GroundsKept DEF PausedStatus
<1> QED
  BY <1>1, <1>5, <1>6

(***************************************************************************)
(* Steps that log.                                                         *)
(***************************************************************************)
LEMMA LoggedOnGrounds ==
  ASSUME RelayInv, Grounds, NEW p \in RelayProcess, NEW state, Working(p),
         accepted \subseteq accepted', decisions \subseteq decisions',
         relayer' = [relayer EXCEPT ![p] = state],
         RowGrounded(relayRun)', LogGrounded', FlagKept', CopyHeld(state, relayRun)'
  PROVE  Grounds'
<1>1. relayer'[p] = state /\ \A q \in RelayProcess \ {p} : relayer'[q] = relayer[q]
  BY DEF RelayInv, RelayTypeOK
<1>2. ASSUME NEW q \in RelayProcess PROVE CopyHeld(relayer[q], relayRun)'
  <2>1. CASE q = p
    BY <1>1, <2>1
  <2>2. CASE q # p
    <3>1. PICK copy, row, next : copy = relayer[q] /\ row = relayRun /\ next = relayRun'
      OBVIOUS
    <3>2. relayer'[q] = relayer[q] /\ CopyHeld(relayer[q], relayRun)
      BY <1>1, <2>2 DEF Grounds
    <3>3. copy.pc \notin LoopPCs
      BY <2>2, <3>1, WorkerAlone DEF Working, LoopPCs
    <3>4. CopyHeld(copy, next)'
      BY <3>1, <3>2, <3>3, StayingCopy
    <3> QED
      BY <3>1, <3>2, <3>4
  <2> QED
    BY <2>1, <2>2
<1> QED
  BY <1>2 DEF Grounds

LEMMA DecidedOnGrounds ==
  ASSUME RelayInv, Grounds, NEW p \in RelayProcess, Decides(p)
  PROVE  Grounds'
<1>1. /\ relayer[p].pc = "CLAIMED" /\ RunOf(p).status = "PAUSED_CYCLE_CAP" /\ Working(p)
      /\ relayer[p].command \in Decision
      /\ decisions' = decisions \cup {<<RunOf(p).batch, relayer[p].command>>}
      /\ UNCHANGED <<lastEvent, accepted, lostAccept>>
  BY DEF Decides, RelayAt, Working
<1>2. PICK run : run = DecisionApplied(relayer[p].command, RunOf(p))
  OBVIOUS
<1>3. RunOf(p).advanceAfterResponse = FALSE /\ Reached(RunOf(p).batch)
  <2>1. RunOf(p).advanceAfterResponse \in BOOLEAN
    BY CopiesBounded DEF Row
  <2> QED
    BY <1>1, <2>1 DEF Grounds, CopyHeld, WaitPCs, PausedStatus, RunOf
<1>4. /\ run.status = "ACTIVE" /\ run.batch = RunOf(p).batch
      /\ run.advanceAfterResponse = (relayer[p].command = "accept")
  <2>1. CASE relayer[p].command = "continue"
    <3>1. run = [RunOf(p) EXCEPT !.status = "ACTIVE", !.cycle = @ + 1, !.maxCycles = @ + 1]
      BY <1>2, <2>1 DEF DecisionApplied
    <3> QED
      BY <1>3, <2>1, <3>1, CopiesBounded DEF Row
  <2>2. CASE relayer[p].command = "accept"
    <3>1. run = [RunOf(p) EXCEPT !.status = "ACTIVE", !.advanceAfterResponse = TRUE]
      BY <1>2, <2>2 DEF DecisionApplied
    <3> QED
      BY <2>2, <3>1, CopiesBounded DEF Row
  <2>3. CASE relayer[p].command = "proceed"
    <3>1. run = [RunOf(p) EXCEPT !.status = "ACTIVE"]
      BY <1>2, <2>3 DEF DecisionApplied
    <3> QED
      BY <1>3, <2>3, <3>1, CopiesBounded DEF Row
  <2> QED
    BY <1>1, <2>1, <2>2, <2>3 DEF Decision
<1>5. PICK next \in {"ADVANCE", "SEND"} :
        next = IF relayer[p].command = "proceed" THEN "ADVANCE" ELSE "SEND"
  OBVIOUS
<1>6. PICK state : state = [relayer[p] EXCEPT !.run = run, !.direct = TRUE, !.role = "IMPLEMENTER",
                              !.pc = next]
  OBVIOUS
<1>7. relayRun' = run /\ relayer' = [relayer EXCEPT ![p] = state]
  BY <1>2, <1>5, <1>6 DEF Decides
<1>8. /\ state.run = run /\ state.pc = next /\ state.role = "IMPLEMENTER" /\ state.direct = TRUE
      /\ state.command = relayer[p].command
  BY <1>6, CopiesBounded DEF Relayer
<1>9. /\ \A n : Reached(n) => Reached(n)'
      /\ \A b : Grounded(b) => Grounded(b)'
      /\ accepted \subseteq accepted' /\ decisions \subseteq decisions'
  BY <1>1, GroundsGrow
<1>10. RowGrounded(relayRun)'
  BY <1>3, <1>4, <1>7, <1>9 DEF RowGrounded, Reached
<1>11. LogGrounded'
  <2>1. LogGrounded /\ UNCHANGED lastEvent
    BY <1>1 DEF Grounds
  <2> QED
    BY <2>1, <1>9 DEF LogGrounded, Reached, Grounded
<1>12. FlagKept'
  <2> SUFFICES ASSUME run.advanceAfterResponse
               PROVE  /\ <<run.batch, "accept">> \in decisions' /\ run.status \notin PausedStatus
                      /\ AcceptUnsent(p)'
    BY <1>7 DEF FlagKept
  <2>1. relayer[p].command = "accept"
    BY <1>4
  <2>2. relayer'[p] = state
    BY <1>7 DEF RelayInv, RelayTypeOK
  <2>3. AcceptUnsent(p)'
    BY <1>5, <1>8, <2>1, <2>2 DEF AcceptUnsent, RelayAt
  <2> QED
    BY <1>1, <1>4, <2>1, <2>3 DEF PausedStatus
<1>13. CopyHeld(state, relayRun)'
  <2>1. Reached(run.batch)'
    BY <1>3, <1>4, <1>9 DEF Reached
  <2>2. next = "ADVANCE" => relayer[p].command = "proceed" /\ Grounded(run.batch)'
    BY <1>1, <1>4, <1>5 DEF Grounded
  <2>3. next = "ADVANCE" => run.advanceAfterResponse = FALSE
    BY <1>4, <2>2
  <2> QED
    BY <1>4, <1>5, <1>7, <1>8, <2>1, <2>2, <2>3 DEF CopyHeld, LoopPCs, WaitPCs, Reached, Grounded
<1> QED
  BY <1>1, <1>7, <1>9, <1>10, <1>11, <1>12, <1>13, LoggedOnGrounds

LEMMA EventLogged ==
  ASSUME NEW event, NEW role \in Role, NEW batch \in RelayBatch, NEW verdict \in Verdict,
         \/ event = [kind |-> "RESPONSE", role |-> role, batch |-> batch, verdict |-> verdict]
         \/ /\ event = [kind |-> "PROMPT", role |-> role, batch |-> batch, verdict |-> verdict]
            /\ verdict = "UNCLEAR"
  PROVE  event # NoEvent
<1>1. event \in RelayEvent
  BY DEF RelayEvent
<1> QED
  BY <1>1, NoEventAssumption

LEMMA PromptedOnGrounds ==
  ASSUME RelayInv, Grounds, NEW p \in RelayProcess, SendsPrompt(p)
  PROVE  Grounds'
<1>1. /\ relayer[p].pc = "SEND" /\ relayer[p].pc \in LoopPCs /\ Working(p)
      /\ UNCHANGED <<accepted, decisions, lostAccept>>
      /\ lastEvent' = [kind |-> "PROMPT", role |-> relayer[p].role, batch |-> RunOf(p).batch,
                       verdict |-> "UNCLEAR"]
  BY DEF SendsPrompt, RelayAt, Working, LoopPCs
<1>2. /\ Reached(RunOf(p).batch) /\ RunOf(p).status = "ACTIVE"
      /\ RunOf(p).batch = relayRun.batch
      /\ RunOf(p).advanceAfterResponse <=> relayRun.advanceAfterResponse
  BY <1>1, LoopFacts
<1>3. RunOf(p).advanceAfterResponse => relayer[p].role = "IMPLEMENTER"
  BY <1>1 DEF Grounds, CopyHeld, RunOf
<1>4. PICK row : row = relayRun' /\ (row = relayRun \/ row = RunOf(p))
  BY DEF SendsPrompt, MayWriteCopy
<1>5. /\ row.batch = relayRun.batch
      /\ row.advanceAfterResponse <=> relayRun.advanceAfterResponse
      /\ RowGrounded(row)
      /\ row.advanceAfterResponse => row.status \notin PausedStatus
  BY <1>2, <1>4 DEF Grounds, RowGrounded, FlagKept, PausedStatus
<1>6. PICK state : state = [relayer[p] EXCEPT !.pc = "CALLING"]
  OBVIOUS
<1>7. relayer' = [relayer EXCEPT ![p] = state]
  BY <1>6 DEF SendsPrompt, Goes
<1>8. state.pc = "CALLING" /\ state.run = RunOf(p) /\ state.role = relayer[p].role
  BY <1>6, CopiesBounded DEF Relayer, RunOf
<1>9. /\ \A b : Grounded(b)' <=> Grounded(b)
      /\ \A n : Reached(n)' <=> Reached(n)
  BY <1>1 DEF Grounded, Reached
<1>10. RowGrounded(relayRun)'
  BY <1>4, <1>5, <1>9 DEF RowGrounded, Reached, Grounded
<1>11. LogGrounded'
  <2>1. /\ lastEvent'.batch = RunOf(p).batch /\ lastEvent'.verdict \notin Advancing
    BY <1>1 DEF Advancing
  <2> QED
    BY <1>2, <1>9, <2>1 DEF LogGrounded, Reached
<1>12. FlagKept'
  <2>1. lastEvent'.batch = RunOf(p).batch /\ lastEvent'.role = relayer[p].role
    BY <1>1
  <2>2. PICK event, role, batch :
          event = lastEvent' /\ role = relayer[p].role /\ batch = RunOf(p).batch
    OBVIOUS
  <2>3. role \in Role /\ batch \in RelayBatch
    BY <2>2, CopiesBounded DEF Relayer, Row
  <2>4. lastEvent' # NoEvent
    BY <1>1, <2>2, <2>3, EventLogged DEF Verdict
  <2> QED
    BY <1>1, <1>2, <1>3, <1>4, <1>5, <2>1, <2>4 DEF FlagKept, Grounds
<1>13. CopyHeld(state, relayRun)'
  BY <1>2, <1>3, <1>4, <1>5, <1>8, <1>9 DEF CopyHeld, LoopPCs, WaitPCs, Reached
<1> QED
  BY <1>1, <1>7, <1>10, <1>11, <1>12, <1>13, LoggedOnGrounds

LEMMA RepliedOnGrounds ==
  ASSUME RelayInv, Grounds, NEW p \in RelayProcess, NEW verdict \in Verdict,
         RecordsResponse(p, verdict)
  PROVE  Grounds'
<1>1. /\ relayer[p].pc = "CALLING" /\ relayer[p].pc \in LoopPCs /\ Working(p)
      /\ UNCHANGED <<decisions, lostAccept>> /\ relayRun' = RunOf(p)
      /\ lastEvent' = [kind |-> "RESPONSE", role |-> relayer[p].role, batch |-> RunOf(p).batch,
                       verdict |-> verdict]
      /\ accepted' = IF verdict \in Advancing THEN accepted \cup {RunOf(p).batch} ELSE accepted
  BY DEF RecordsResponse, RelayAt, Working, LoopPCs, Updates
<1>2. /\ Reached(RunOf(p).batch) /\ RunOf(p).status = "ACTIVE"
      /\ RunOf(p).batch = relayRun.batch
      /\ RunOf(p).advanceAfterResponse <=> relayRun.advanceAfterResponse
  BY <1>1, LoopFacts
<1>3. RunOf(p).advanceAfterResponse => relayer[p].role = "IMPLEMENTER"
  BY <1>1 DEF Grounds, CopyHeld, RunOf
<1>4. PICK next \in {"REREAD", "BOUNDARY"} : next = AfterStep(p)
  BY DEF AfterStep
<1>5. PICK state, run : run = RunOf(p) /\ state = [relayer[p] EXCEPT !.pc = next, !.run = run]
  OBVIOUS
<1>6. relayer' = [relayer EXCEPT ![p] = state]
  BY <1>4, <1>5 DEF RecordsResponse, Updates, GoesWith
<1>7. state.pc = next /\ state.run = run
  BY <1>5, CopiesBounded DEF Relayer
<1>8. /\ \A b : Grounded(b) => Grounded(b)'
      /\ \A n : Reached(n) => Reached(n)'
      /\ accepted \subseteq accepted' /\ decisions \subseteq decisions'
  BY <1>1, GroundsGrow
<1>9. RowGrounded(relayRun)'
  BY <1>1, <1>2, <1>8 DEF RowGrounded, Reached
<1>10. LogGrounded'
  <2>1. /\ lastEvent'.batch = run.batch /\ lastEvent'.verdict = verdict
        /\ Reached(run.batch)'
    BY <1>1, <1>2, <1>5, <1>8
  <2>2. verdict \in Advancing => Grounded(run.batch)'
    BY <1>1, <1>5 DEF Grounded
  <2> QED
    BY <2>1, <2>2 DEF LogGrounded, Reached, Grounded
<1>11. FlagKept'
  <2>1. lastEvent'.batch = RunOf(p).batch /\ lastEvent'.role = relayer[p].role
    BY <1>1
  <2>2. PICK event, role, batch :
          event = lastEvent' /\ role = relayer[p].role /\ batch = RunOf(p).batch
    OBVIOUS
  <2>3. role \in Role /\ batch \in RelayBatch
    BY <2>2, CopiesBounded DEF Relayer, Row
  <2>4. lastEvent' # NoEvent
    BY <1>1, <2>2, <2>3, EventLogged
  <2> QED
    BY <1>1, <1>2, <1>3, <2>1, <2>4 DEF FlagKept, Grounds, PausedStatus
<1>12. CopyHeld(state, relayRun)'
  BY <1>1, <1>2, <1>5, <1>7, <1>8 DEF CopyHeld, LoopPCs, WaitPCs, Reached
<1> QED
  BY <1>1, <1>6, <1>8, <1>9, <1>10, <1>11, <1>12, LoggedOnGrounds

LEMMA GroundsStep ==
  ASSUME GroundInv, [RelayNext]_relayVars
  PROVE  GroundInv'
<1>1. RelayInv /\ RelayInv'
  BY RelayStep DEF GroundInv
<1>2. SUFFICES ASSUME ~lostAccept' PROVE Grounds'
  BY <1>1 DEF GroundInv
<1>3. lostAccept => lostAccept'
  BY DEF RelayNext, relayVars, RelayProcessStep, NoLog, ResumeReads, ReadsHolder, ClaimsRun,
     ClaimRefused, LeavesClaimed, Decides, ReconsidersReply, NothingToDecide, EntersLoop,
     FindsComplete, SendsPrompt, RecordsResponse, CallRetried, CallGivenUp, StopsOnSignal,
     StopsOnIntent, OpensBatch, ResendsPrompt, ForwardsToReviewer, ClosesAccepted, PausesUnclear,
     CompletesPlan, ProceedsToNext, PausesAtCap, OpensFixCycle, AdvancesLast, AdvancesBatch,
     StopsAtBatchEnd, GoesOnAfterBatch, ReleasesRun, RelayDies, PauseRequested, PauseClearsLease
<1>4. Grounds
  BY <1>2, <1>3 DEF GroundInv
<1>5. CASE UNCHANGED <<relayRun, relayer>> /\ NoLog
  BY <1>4, <1>5 DEF Grounds, RowGrounded, LogGrounded, FlagKept, CopyHeld, Reached, Grounded, NoLog,
     AcceptUnsent, RelayAt
<1>6. ASSUME NEW p \in RelayProcess, RelayProcessStep(p) PROVE Grounds'
  BY <1>1, <1>2, <1>4, <1>6, CallsOpened, PassesOnGrounds, ClosesGrounded, StatusWritten,
     EnteredOnGrounds, RetriedOnGrounds, CycleOnGrounds, AdvancedOnGrounds, ReconsideredOnGrounds,
     ReadOnGrounds, ClaimedOnGrounds, EndedOnGrounds, DecidedOnGrounds, PromptedOnGrounds,
     RepliedOnGrounds
     DEF RelayProcessStep
<1> QED
  BY <1>5, <1>6 DEF RelayNext, relayVars, NoLog, PauseRequested, PauseClearsLease

LEMMA GroundsStart == RelayInit => GroundInv
<1> SUFFICES ASSUME RelayInit PROVE Grounds
  BY RelayStarts DEF GroundInv
<1>1. /\ relayRun.batch = StartBatch /\ relayRun.status = "ACTIVE"
      /\ relayRun.advanceAfterResponse = FALSE /\ relayRun = NewRun
  BY DEF RelayInit, NewRun
<1> DEFINE first == [Fresh EXCEPT !.pc = "READ", !.command = "run"]
<1>2. first.pc = "READ" /\ first.run = NewRun /\ Fresh.pc = "NEW" /\ Fresh.run = NewRun
  BY DEF Fresh
<1> HIDE DEF first
<1>3. \A p \in RelayProcess : relayer[p].pc \in {"NEW", "READ"} /\ relayer[p].run = NewRun
  BY <1>2 DEF RelayInit, first
<1> QED
  BY <1>1, <1>3, StartIsReached
     DEF RelayInit, Grounds, RowGrounded, LogGrounded, FlagKept, CopyHeld, LoopPCs, WaitPCs

(* For any number of processes, batches and cycles: a batch is left only   *)
(* on an advancing verdict with findings on it, or on the operator's       *)
(* accept or proceed of it, whatever crashes, retries and takeovers come   *)
(* between, unless an accept died before its prompt (advanceBatch and      *)
(* runRelayResume, relay.ts).                                              *)
THEOREM AdvancesHaveGrounds == RelaySpec => []AdvancesOnGrounds
<1>1. ASSUME GroundInv PROVE AdvancesOnGrounds
  BY <1>1 DEF GroundInv, Grounds, RowGrounded, Reached, AdvancesOnGrounds, BatchLeft
<1> QED
  BY GroundsStart, GroundsStep, <1>1, PTL DEF RelaySpec

(***************************************************************************)
(* The review controller.                                                  *)
(***************************************************************************)
(* A process that took the lock and has not given it back.                 *)
HoldingPCs == {"WRITE", "COMPARE", "WORK", "AGENT", "REPAIR", "COMMIT", "COMMITTED", "PUSHED", "RELEASE"}

ActingPCs == {"WORK", "AGENT", "REPAIR", "COMMIT", "COMMITTED", "PUSHED"}

Holds(p) == control[p].pc \in HoldingPCs

(* The lock file is its holder's.  A process that has not begun, or is     *)
(* about to unlink, made none; one that was inspected and found dead stays *)
(* dead, so that an unlink which takes another's lock is seen in breach.   *)
LockHeld ==
  /\ \A p \in Controller : Holds(p) => lock # NoLock /\ lock.maker = p
  /\ lock # NoLock => control[lock.maker].pc \notin {"NEW", "UNLINK"}
  /\ \A p \in Controller :
       control[p].inspected # NoLock => control[control[p].inspected].pc = "GONE"

(* Who acts has the state file as it is.                                   *)
FlowAt(pc, own, file) ==
  /\ pc \in ActingPCs => own = file
  /\ pc = "REPAIR" => file.invocation = "NONE"
  /\ pc \in {"AGENT", "REPAIR"} => file.phase \in AgentPhases
  /\ pc = "PUSHED" => file.phase = "CLOSE_BATCH"

FlowHeld == \A p \in Controller : FlowAt(control[p].pc, control[p].flow, flow)

(* What a batch was closed with is in the history.                         *)
Closed(file) ==
  file.phase \in {"CLOSE_BATCH", "ADVANCE_BATCH"} =>
    file.commit \in 1..Len(commits) /\ commits[file.commit] = file.approved.content

(* Between the comparison of the snapshot and the reading of HEAD.         *)
CommitAt(pc, file) ==
  /\ pc = "COMMIT" => Here = file.approved
  /\ pc = "COMMITTED" => commits[HeadIndex] = file.approved.content

CommitHeld == Closed(flow) /\ \A p \in Controller : CommitAt(control[p].pc, flow)

(* The attempts of a call are counted while it is made.                    *)
Counted(state) ==
  /\ state.pc \notin {"AGENT", "REPAIR"} => state.attempt = 0
  /\ state.pc = "REPAIR" => state.attempt <= RepairLimit

Attempts == \A p \in Controller : Counted(control[p])

ControllerInv ==
  /\ ControllerTypeOK /\ Attempts
  /\ LockIntact => LockHeld /\ FlowHeld
  /\ breach = {} => CommitHeld

(***************************************************************************)
(* How a process goes on.                                                  *)
(***************************************************************************)
LEMMA MovesTo ==
  ASSUME ControllerTypeOK, NEW p \in Controller, NEW pc \in ControlPCs, Moves(p, pc)
  PROVE  \E state \in Control :
           /\ control' = [control EXCEPT ![p] = state]
           /\ state.pc = pc /\ state.inspected = control[p].inspected
           /\ state.flow = control[p].flow /\ state.attempt = control[p].attempt
<1>1. control[p] \in Control
  BY DEF ControllerTypeOK
<1>2. PICK state : state = [control[p] EXCEPT !.pc = pc]
  OBVIOUS
<1>3. control' = [control EXCEPT ![p] = state]
  BY <1>2 DEF Moves
<1>4. /\ state \in Control /\ state.pc = pc /\ state.inspected = control[p].inspected
      /\ state.flow = control[p].flow /\ state.attempt = control[p].attempt
  BY <1>1, <1>2 DEF Control
<1> QED
  BY <1>3, <1>4

LEMMA NewTyped == NewFlow \in Flow /\ NewControl \in Control
<1>1. NewFlow \in Flow
  BY ControllerAssumption DEF NewFlow, Flow, Phases, AgentPhases
<1> QED
  BY <1>1, ControllerAssumption DEF NewControl, Control, ControlPCs

LEMMA FinishesTo ==
  ASSUME ControllerTypeOK, NEW p \in Controller, Finishes(p)
  PROVE  \E state \in Control :
           /\ control' = [control EXCEPT ![p] = state]
           /\ state.pc = "RELEASE" /\ state.inspected = NoLock /\ state.attempt = 0
<1>1. control[p] \in Control
  BY DEF ControllerTypeOK
<1>2. PICK state : state = [NewControl EXCEPT !.pc = "RELEASE", !.reconcile = control[p].reconcile]
  OBVIOUS
<1>3. control' = [control EXCEPT ![p] = state]
  BY <1>2 DEF Finishes
<1>4. state \in Control /\ state.pc = "RELEASE" /\ state.inspected = NoLock /\ state.attempt = 0
  BY <1>1, <1>2, NewTyped DEF Control, ControlPCs, NewControl
<1> QED
  BY <1>3, <1>4

LEMMA FreshAt ==
  ASSUME NEW pc \in ControlPCs
  PROVE  \E state \in Control :
           /\ state = [NewControl EXCEPT !.pc = pc]
           /\ state.pc = pc /\ state.inspected = NoLock /\ state.attempt = 0
<1>1. PICK state : state = [NewControl EXCEPT !.pc = pc]
  OBVIOUS
<1>2. state \in Control /\ state.pc = pc /\ state.inspected = NoLock /\ state.attempt = 0
  BY <1>1, NewTyped DEF Control, NewControl
<1> QED
  BY <1>1, <1>2

(* Only one process holds the lock.                                        *)
LEMMA HoldsAlone ==
  ASSUME LockHeld, NEW p \in Controller, Holds(p)
  PROVE  \A q \in Controller \ {p} : ~Holds(q)
BY DEF LockHeld

LEMMA HereTyped ==
  ASSUME ControllerTypeOK
  PROVE  /\ Here \in Snapshot /\ HeadIndex \in 1..MaxCommits
         /\ Here.head = HeadIndex /\ Here.content = tree
BY DEF ControllerTypeOK, Here, Snapshot, HeadIndex

(***************************************************************************)
(* The four parts of the invariant, over one step of a process.            *)
(***************************************************************************)
LEMMA TypesKept ==
  ASSUME ControllerTypeOK, Attempts, NEW p \in Controller, NEW state \in Control,
         control' = [control EXCEPT ![p] = state], Counted(state),
         flow' \in Flow, automation' = automation,
         lock' \in [maker: Controller, written: BOOLEAN] \cup {NoLock},
         commits' \in Seq(Content), Len(commits') \in 1..MaxCommits,
         tree' = tree, remoteRef' \in 0..MaxCommits,
         breach' \subseteq {"LIVE_LOCK_REMOVED", "COMMIT_RACED"}
  PROVE  ControllerTypeOK' /\ Attempts'
<1>1. ControllerTypeOK'
  BY DEF ControllerTypeOK
<1>2. Attempts'
  <2> SUFFICES ASSUME NEW q \in Controller PROVE Counted(control'[q])
    BY DEF Attempts, Counted
  <2> QED
    BY DEF Attempts, ControllerTypeOK
<1> QED
  BY <1>1, <1>2

(* A holder goes on, with its lock.                                        *)
LEMMA HolderGoesOn ==
  ASSUME LockHeld, ControllerTypeOK, NEW p \in Controller, Holds(p), NEW state \in Control,
         control' = [control EXCEPT ![p] = state], state.pc \in HoldingPCs,
         state.inspected \in {control[p].inspected, NoLock},
         lock' # NoLock, lock'.maker = lock.maker
  PROVE  LockHeld'
<1>1. control'[p] = state /\ \A q \in Controller \ {p} : control'[q] = control[q]
  BY DEF ControllerTypeOK
<1>2. control[p].pc # "GONE" /\ state.pc \notin {"NEW", "UNLINK"} /\ lock.maker = p
  BY DEF Holds, HoldingPCs, LockHeld
<1>3. \A q \in Controller : Holds(q)' => lock'.maker = q
  BY <1>1, <1>2 DEF Holds, LockHeld
<1>4. ASSUME NEW q \in Controller, control'[q].inspected # NoLock
      PROVE  control'[control'[q].inspected].pc = "GONE"
  <2>1. control'[q].inspected = control[q].inspected
    BY <1>1, <1>4
  <2>2. control[q].inspected \in Controller /\ control[control[q].inspected].pc = "GONE"
    BY <1>4, <2>1 DEF LockHeld, ControllerTypeOK, Control
  <2> QED
    BY <1>1, <1>2, <2>1, <2>2
<1> QED
  BY <1>1, <1>2, <1>3, <1>4 DEF LockHeld

(* A process that holds no lock before or after.                           *)
LEMMA OutsiderMoves ==
  ASSUME LockHeld, ControllerTypeOK, NEW p \in Controller, NEW state \in Control,
         control' = [control EXCEPT ![p] = state], state.pc \notin HoldingPCs,
         control[p].pc # "GONE",
         state.pc \in {"NEW", "UNLINK"} => control[p].pc \in {"NEW", "UNLINK"},
         state.inspected # NoLock =>
           \/ state.inspected = control[p].inspected
           \/ control[state.inspected].pc = "GONE",
         \/ lock' = lock
         \/ lock' = NoLock /\ \A q \in Controller \ {p} : ~Holds(q)
  PROVE  LockHeld'
<1>1. control'[p] = state /\ \A q \in Controller \ {p} : control'[q] = control[q]
  BY DEF ControllerTypeOK
<1>2. \A q \in Controller : Holds(q)' => lock' # NoLock /\ lock'.maker = q
  BY <1>1 DEF Holds, LockHeld
<1>3. ASSUME lock' # NoLock PROVE control'[lock'.maker].pc \notin {"NEW", "UNLINK"}
  BY <1>1, <1>3 DEF LockHeld
<1>4. ASSUME NEW q \in Controller, control'[q].inspected # NoLock
      PROVE  control'[control'[q].inspected].pc = "GONE"
  <2>1. control'[q].inspected \in Controller
    BY <1>1, <1>4 DEF ControllerTypeOK, Control
  <2>2. control[control'[q].inspected].pc = "GONE"
    BY <1>1, <1>4 DEF LockHeld
  <2> QED
    BY <1>1, <2>1, <2>2
<1> QED
  BY <1>2, <1>3, <1>4 DEF LockHeld

(* The state file changes only under the hand of a lock holder.            *)
LEMMA FlowKept ==
  ASSUME LockHeld, FlowHeld, ControllerTypeOK, NEW p \in Controller, NEW state,
         control' = [control EXCEPT ![p] = state],
         flow' = flow \/ Holds(p),
         FlowAt(state.pc, state.flow, flow')
  PROVE  FlowHeld'
<1>1. control'[p] = state /\ \A q \in Controller \ {p} : control'[q] = control[q]
  BY DEF ControllerTypeOK
<1> SUFFICES ASSUME NEW q \in Controller, q # p
             PROVE  FlowAt(control'[q].pc, control'[q].flow, flow')
  BY <1>1 DEF FlowHeld, FlowAt
<1>2. CASE flow' = flow
  BY <1>1, <1>2 DEF FlowHeld
<1>3. CASE Holds(p)
  BY <1>1, <1>3, HoldsAlone DEF Holds, HoldingPCs, FlowAt, ActingPCs
<1> QED
  BY <1>2, <1>3

(* The same of what was committed, while the repository stays.             *)
LEMMA CommitKept ==
  ASSUME LockHeld, CommitHeld, ControllerTypeOK, NEW p \in Controller, NEW state,
         control' = [control EXCEPT ![p] = state],
         commits' = commits, tree' = tree,
         flow' = flow \/ Holds(p),
         Closed(flow'), CommitAt(state.pc, flow')
  PROVE  CommitHeld'
<1>1. control'[p] = state /\ \A q \in Controller \ {p} : control'[q] = control[q]
  BY DEF ControllerTypeOK
<1>2. Closed(flow)'
  BY DEF Closed
<1>3. Here' = Here /\ HeadIndex' = HeadIndex
  BY DEF Here, HeadIndex
<1>4. \A q \in Controller : CommitAt(control'[q].pc, flow')
  <2> SUFFICES ASSUME NEW q \in Controller, q # p PROVE CommitAt(control'[q].pc, flow')
    BY <1>1
  <2>1. CASE flow' = flow
    BY <1>1, <2>1 DEF CommitHeld
  <2>2. CASE Holds(p)
    BY <1>1, <2>2, HoldsAlone DEF Holds, HoldingPCs, CommitAt
  <2> QED
    BY <2>1, <2>2
<1> QED
  BY <1>2, <1>3, <1>4 DEF CommitHeld, CommitAt

LEMMA StepKeeps ==
  ASSUME ControllerInv, LockIntact, NEW p \in Controller, NEW state \in Control,
         control' = [control EXCEPT ![p] = state], Counted(state),
         flow' \in Flow, flow' = flow \/ Holds(p),
         FlowAt(state.pc, state.flow, flow'),
         lock' \in [maker: Controller, written: BOOLEAN] \cup {NoLock},
         breach' \in {breach, breach \cup {"LIVE_LOCK_REMOVED"}},
         UNCHANGED <<automation, commits, tree>>, remoteRef' \in 0..MaxCommits,
         breach' = breach => LockHeld',
         breach = {} => Closed(flow') /\ CommitAt(state.pc, flow')
  PROVE  ControllerInv'
<1>1. ControllerTypeOK /\ Attempts /\ LockHeld /\ FlowHeld /\ (breach = {} => CommitHeld)
  BY DEF ControllerInv
<1>2. /\ commits' \in Seq(Content) /\ Len(commits') \in 1..MaxCommits
      /\ breach' \subseteq {"LIVE_LOCK_REMOVED", "COMMIT_RACED"}
  BY <1>1 DEF ControllerTypeOK
<1>3. ControllerTypeOK' /\ Attempts'
  BY <1>1, <1>2, TypesKept
<1>4. FlowHeld'
  BY <1>1, FlowKept
<1>5. (LockIntact' => breach' = breach) /\ (breach' = {} => breach = {})
  BY DEF LockIntact
<1>6. ASSUME breach = {} PROVE CommitHeld'
  BY <1>1, <1>6, CommitKept
<1> QED
  BY <1>3, <1>4, <1>5, <1>6 DEF ControllerInv

(* A process that only goes on, its lock and the files as they are.        *)
LEMMA ControlKeeps ==
  ASSUME ControllerInv, LockIntact, NEW p \in Controller, NEW state \in Control,
         control' = [control EXCEPT ![p] = state], Counted(state), OnlyControl,
         FlowAt(state.pc, state.flow, flow), breach = {} => CommitAt(state.pc, flow),
         LockHeld'
  PROVE  ControllerInv'
<1>1. /\ flow' = flow /\ flow \in Flow /\ breach' = breach
      /\ lock' \in [maker: Controller, written: BOOLEAN] \cup {NoLock}
      /\ UNCHANGED <<automation, commits, tree>> /\ remoteRef' \in 0..MaxCommits
      /\ breach = {} => Closed(flow)
  BY DEF OnlyControl, Repository, ControllerInv, ControllerTypeOK, CommitHeld
<1>2. /\ flow' \in Flow /\ (flow' = flow \/ Holds(p))
      /\ breach' \in {breach, breach \cup {"LIVE_LOCK_REMOVED"}}
      /\ FlowAt(state.pc, state.flow, flow')
      /\ breach = {} => Closed(flow') /\ CommitAt(state.pc, flow')
  BY <1>1
<1> QED
  BY <1>1, <1>2, StepKeeps

(***************************************************************************)
(* Steps that leave the files alone.                                       *)
(***************************************************************************)
LEMMA OutsiderStep ==
  ASSUME ControllerInv, LockIntact, NEW p \in Controller,
         Starts(p) \/ ReconcileStarts(p) \/ ReadsFlow(p) \/ GivesUp(p) \/ ControllerDies(p)
  PROVE  ControllerInv'
<1>1. ControllerTypeOK /\ Attempts /\ LockHeld /\ control[p] \in Control /\ flow \in Flow
  BY DEF ControllerInv, ControllerTypeOK
<1>2. ASSUME NEW state \in Control, control' = [control EXCEPT ![p] = state], OnlyControl,
             Counted(state), state.pc \in {"READ", "UNLINK", "OPEN", "GONE"},
             control[p].pc # "GONE", state.pc = "UNLINK" => control[p].pc = "NEW",
             \/ state.inspected \in {NoLock, control[p].inspected}
             \/ control[state.inspected].pc = "GONE"
      PROVE  ControllerInv'
  <2>1. lock' = lock /\ state.pc \notin HoldingPCs
    BY <1>2 DEF OnlyControl, HoldingPCs
  <2>2. LockHeld'
    BY <1>1, <1>2, <2>1, OutsiderMoves
  <2>3. FlowAt(state.pc, state.flow, flow) /\ CommitAt(state.pc, flow)
    BY <1>2 DEF FlowAt, CommitAt, ActingPCs
  <2> QED
    BY <1>2, <2>2, <2>3, ControlKeeps
<1>3. CASE Starts(p)
  <2>1. PICK state \in Control :
          /\ control' = [control EXCEPT ![p] = state] /\ state.pc = "READ"
          /\ state.inspected = control[p].inspected /\ state.attempt = control[p].attempt
    BY <1>1, <1>3, MovesTo DEF Starts, ControlPCs
  <2> QED
    BY <1>1, <1>2, <1>3, <2>1 DEF Starts, ControlAt, Attempts, Counted
<1>4. CASE ReconcileStarts(p)
  <2> DEFINE seen == IF lock # NoLock /\ lock.written THEN lock.maker ELSE NoLock
             pc == IF lock = NoLock THEN "READ" ELSE "UNLINK"
  <2>1. /\ control' = [control EXCEPT ![p] = [@ EXCEPT !.reconcile = TRUE, !.inspected = seen, !.pc = pc]]
        /\ ControlAt(p, "NEW") /\ OnlyControl
    BY <1>4 DEF ReconcileStarts
  <2>2. /\ seen \in Controller \cup {NoLock} /\ pc \in {"READ", "UNLINK"}
        /\ seen = NoLock \/ control[seen].pc = "GONE"
    BY <1>1, <1>4
       DEF ReconcileStarts, LockRemovable, LockStale, ControllerAlive, LockHeld, ControllerTypeOK
  <2> HIDE DEF seen, pc
  <2>3. PICK state \in Control :
          /\ control' = [control EXCEPT ![p] = state] /\ state.pc = pc
          /\ state.inspected = seen /\ state.attempt = control[p].attempt
    <3>1. PICK state : state = [control[p] EXCEPT !.reconcile = TRUE, !.inspected = seen, !.pc = pc]
      OBVIOUS
    <3>2. control' = [control EXCEPT ![p] = state]
      BY <2>1, <3>1
    <3>3. /\ state \in Control /\ state.pc = pc /\ state.inspected = seen
          /\ state.attempt = control[p].attempt
      BY <1>1, <2>2, <3>1 DEF Control, ControlPCs
    <3> QED
      BY <3>2, <3>3
  <2>4. Counted(state)
    BY <1>1, <2>1, <2>2, <2>3 DEF Attempts, Counted, ControlAt
  <2> QED
    BY <1>2, <2>1, <2>2, <2>3, <2>4 DEF ControlAt
<1>5. CASE ReadsFlow(p)
  <2>1. PICK state \in Control :
          /\ control' = [control EXCEPT ![p] = state] /\ state.pc = "OPEN"
          /\ state.inspected = control[p].inspected /\ state.attempt = control[p].attempt
    <3>1. PICK state : state = [control[p] EXCEPT !.pc = "OPEN", !.flow = flow]
      OBVIOUS
    <3>2. control' = [control EXCEPT ![p] = state]
      BY <1>5, <3>1 DEF ReadsFlow
    <3>3. /\ state \in Control /\ state.pc = "OPEN" /\ state.inspected = control[p].inspected
          /\ state.attempt = control[p].attempt
      BY <1>1, <3>1 DEF Control, ControlPCs
    <3> QED
      BY <3>2, <3>3
  <2> QED
    BY <1>1, <1>2, <1>5, <2>1 DEF ReadsFlow, ControlAt, Attempts, Counted
<1>6. CASE GivesUp(p) \/ ControllerDies(p)
  <2>1. PICK state \in Control :
          /\ state = [NewControl EXCEPT !.pc = "GONE"]
          /\ state.pc = "GONE" /\ state.inspected = NoLock /\ state.attempt = 0
    BY FreshAt DEF ControlPCs
  <2>2. /\ control' = [control EXCEPT ![p] = state] /\ OnlyControl /\ control[p].pc # "GONE"
    BY <1>6, <2>1 DEF GivesUp, ControllerDies, ControllerAlive, ControlAt, Leaves
  <2> QED
    BY <1>2, <2>1, <2>2 DEF Counted
<1> QED
  BY <1>3, <1>4, <1>5, <1>6

LEMMA HolderStep ==
  ASSUME ControllerInv, LockIntact, NEW p \in Controller,
         Acquires(p) \/ Throws(p) \/ FindsNothing(p) \/ ChecksSnapshot(p)
  PROVE  ControllerInv'
<1>1. /\ ControllerTypeOK /\ Attempts /\ LockHeld /\ FlowHeld /\ control[p] \in Control
      /\ flow \in Flow
  BY DEF ControllerInv, ControllerTypeOK
<1>2. Holds(p)
  BY DEF Acquires, Throws, FindsNothing, ChecksSnapshot, InPhase, Running, ControlAt, Holds, HoldingPCs
<1>3. ASSUME NEW state \in Control, control' = [control EXCEPT ![p] = state], OnlyControl,
             Counted(state), state.pc \in HoldingPCs,
             state.inspected \in {control[p].inspected, NoLock},
             FlowAt(state.pc, state.flow, flow), breach = {} => CommitAt(state.pc, flow)
      PROVE  ControllerInv'
  <2>1. lock' = lock /\ lock # NoLock
    BY <1>1, <1>2, <1>3 DEF OnlyControl, LockHeld
  <2>2. LockHeld'
    BY <1>1, <1>2, <1>3, <2>1, HolderGoesOn
  <2> QED
    BY <1>3, <2>2, ControlKeeps
<1>4. CASE Acquires(p)
  <2>1. PICK state \in Control :
          /\ control' = [control EXCEPT ![p] = state] /\ state.pc = "WORK"
          /\ state.inspected = control[p].inspected /\ state.attempt = control[p].attempt
          /\ state.flow = control[p].flow
    BY <1>1, <1>4, MovesTo DEF Acquires, ControlPCs
  <2>2. OnlyControl /\ control[p].flow = flow /\ control[p].pc = "COMPARE"
    BY <1>4 DEF Acquires, ControlAt, FlowOf
  <2>3. Counted(state)
    BY <1>1, <2>1, <2>2 DEF Attempts, Counted
  <2>4. FlowAt(state.pc, state.flow, flow) /\ CommitAt(state.pc, flow)
    BY <2>1, <2>2 DEF FlowAt, CommitAt
  <2> QED
    BY <1>3, <2>1, <2>2, <2>3, <2>4 DEF HoldingPCs
<1>5. CASE Throws(p) \/ FindsNothing(p)
  <2>1. PICK state \in Control :
          /\ control' = [control EXCEPT ![p] = state]
          /\ state.pc = "RELEASE" /\ state.inspected = NoLock /\ state.attempt = 0
    BY <1>1, <1>5, FinishesTo DEF Throws, FindsNothing
  <2>2. OnlyControl
    BY <1>5 DEF Throws, FindsNothing
  <2>3. Counted(state) /\ FlowAt(state.pc, state.flow, flow) /\ CommitAt(state.pc, flow)
    BY <2>1 DEF Counted, FlowAt, CommitAt, ActingPCs
  <2> QED
    BY <1>3, <2>1, <2>2, <2>3 DEF HoldingPCs
<1>6. CASE ChecksSnapshot(p)
  <2>1. PICK state \in Control :
          /\ control' = [control EXCEPT ![p] = state] /\ state.pc = "COMMIT"
          /\ state.inspected = control[p].inspected /\ state.attempt = control[p].attempt
          /\ state.flow = control[p].flow
    BY <1>1, <1>6, MovesTo DEF ChecksSnapshot, ControlPCs
  <2>2. OnlyControl /\ control[p].pc = "WORK" /\ Here = control[p].flow.approved
    BY <1>6 DEF ChecksSnapshot, InPhase, Running, ControlAt, FlowOf
  <2>3. control[p].flow = flow
    BY <1>1, <2>2 DEF FlowHeld, FlowAt, ActingPCs
  <2>4. Counted(state)
    BY <1>1, <2>1, <2>2 DEF Attempts, Counted
  <2>5. FlowAt(state.pc, state.flow, flow) /\ CommitAt(state.pc, flow)
    BY <2>1, <2>2, <2>3 DEF FlowAt, CommitAt
  <2> QED
    BY <1>3, <2>1, <2>2, <2>4, <2>5 DEF HoldingPCs
<1> QED
  BY <1>4, <1>5, <1>6

(***************************************************************************)
(* Steps that take, write or give back the lock.                           *)
(***************************************************************************)
LEMMA LockStep ==
  ASSUME ControllerInv, LockIntact, NEW p \in Controller,
         \/ RemovesStaleLock(p) \/ OpensLock(p) \/ WritesLock(p) \/ FlowChanged(p)
         \/ ReleasesLock(p)
  PROVE  ControllerInv'
<1>1. /\ ControllerTypeOK /\ Attempts /\ LockHeld /\ FlowHeld /\ control[p] \in Control
      /\ flow \in Flow /\ remoteRef \in 0..MaxCommits
      /\ lock \in [maker: Controller, written: BOOLEAN] \cup {NoLock}
      /\ breach = {} => CommitHeld
  BY DEF ControllerInv, ControllerTypeOK
<1>2. flow' = flow /\ UNCHANGED <<automation, commits, tree, remoteRef>>
  BY DEF RemovesStaleLock, OpensLock, WritesLock, FlowChanged, ReleasesLock, Repository
<1>3. ASSUME NEW state \in Control, control' = [control EXCEPT ![p] = state],
             Counted(state), state.pc \notin ActingPCs,
             lock' \in [maker: Controller, written: BOOLEAN] \cup {NoLock},
             breach' \in {breach, breach \cup {"LIVE_LOCK_REMOVED"}},
             breach' = breach => LockHeld'
      PROVE  ControllerInv'
  <2>1. FlowAt(state.pc, state.flow, flow') /\ CommitAt(state.pc, flow')
    BY <1>3 DEF FlowAt, CommitAt, ActingPCs
  <2>2. (breach = {} => Closed(flow')) /\ flow' \in Flow /\ remoteRef' \in 0..MaxCommits
    BY <1>1, <1>2 DEF CommitHeld
  <2> QED
    BY <1>2, <1>3, <2>1, <2>2, StepKeeps
<1>4. CASE RemovesStaleLock(p)
  <2>1. PICK state \in Control :
          /\ control' = [control EXCEPT ![p] = state] /\ state.pc = "READ"
          /\ state.inspected = control[p].inspected /\ state.attempt = control[p].attempt
    BY <1>1, <1>4, MovesTo DEF RemovesStaleLock, ControlPCs
  <2>2. /\ control[p].pc = "UNLINK" /\ lock # NoLock /\ lock' = NoLock
        /\ breach' \in {breach, breach \cup {"LIVE_LOCK_REMOVED"}}
        /\ breach' = breach =>
             \/ lock.maker \in {p, control[p].inspected} \/ ~ControllerAlive(lock.maker)
    BY <1>4 DEF RemovesStaleLock, Unlinks, ControlAt, LockIntact
  <2>3. Counted(state) /\ state.pc \notin ActingPCs /\ state.pc \notin HoldingPCs
    BY <1>1, <2>1, <2>2 DEF Attempts, Counted, ActingPCs, HoldingPCs
  <2>4. ASSUME breach' = breach PROVE LockHeld'
    <3>1. ~Holds(lock.maker)
      <4>1. lock.maker \in Controller /\ lock.maker # NoLock
        BY <1>1, <2>2, NoControllerAssumption
      <4>2. control[lock.maker].pc \notin {"NEW", "UNLINK"}
        BY <1>1, <2>2 DEF LockHeld
      <4>3. lock.maker = control[p].inspected => control[lock.maker].pc = "GONE"
        BY <1>1, <4>1 DEF LockHeld
      <4> QED
        BY <2>2, <2>4, <4>1, <4>2, <4>3 DEF Holds, HoldingPCs, ControllerAlive
    <3>2. \A q \in Controller : ~Holds(q)
      BY <1>1, <3>1 DEF LockHeld
    <3> QED
      BY <1>1, <2>1, <2>2, <2>3, <3>2, OutsiderMoves
  <2> QED
    BY <1>3, <2>1, <2>2, <2>3, <2>4
<1>5. CASE OpensLock(p)
  <2>1. PICK state \in Control :
          /\ control' = [control EXCEPT ![p] = state] /\ state.pc = "WRITE"
          /\ state.inspected = control[p].inspected /\ state.attempt = control[p].attempt
    BY <1>1, <1>5, MovesTo DEF OpensLock, ControlPCs
  <2>2. /\ control[p].pc = "OPEN" /\ lock = NoLock /\ lock' = [maker |-> p, written |-> FALSE]
        /\ breach' = breach
    BY <1>5 DEF OpensLock, ControlAt
  <2>3. Counted(state) /\ state.pc \notin ActingPCs
    BY <1>1, <2>1, <2>2 DEF Attempts, Counted, ActingPCs
  <2>4. /\ lock' \in [maker: Controller, written: BOOLEAN] /\ lock'.maker = p
        /\ lock' # NoLock
    <3>1. lock' \in [maker: Controller, written: BOOLEAN] /\ lock'.maker = p
      BY <2>2
    <3> QED
      BY <3>1, NoControllerAssumption
  <2>5. LockHeld'
    <3>1. control'[p] = state /\ \A q \in Controller \ {p} : control'[q] = control[q]
      BY <1>1, <2>1 DEF ControllerTypeOK
    <3>2. \A q \in Controller \ {p} : ~Holds(q)'
      BY <1>1, <2>2, <3>1 DEF LockHeld, Holds
    <3>3. ASSUME NEW q \in Controller, control'[q].inspected # NoLock
          PROVE  control'[control'[q].inspected].pc = "GONE"
      <4>1. control'[q].inspected = control[q].inspected
        BY <2>1, <3>1
      <4>2. control[q].inspected \in Controller /\ control[control[q].inspected].pc = "GONE"
        BY <1>1, <3>3, <4>1 DEF LockHeld, ControllerTypeOK, Control
      <4> QED
        BY <2>2, <3>1, <4>1, <4>2
    <3> QED
      BY <2>1, <2>4, <3>1, <3>2, <3>3 DEF LockHeld
  <2> QED
    BY <1>3, <2>1, <2>2, <2>3, <2>4, <2>5
<1>6. CASE WritesLock(p)
  <2>1. PICK state \in Control :
          /\ control' = [control EXCEPT ![p] = state] /\ state.pc = "COMPARE"
          /\ state.inspected = control[p].inspected /\ state.attempt = control[p].attempt
    BY <1>1, <1>6, MovesTo DEF WritesLock, ControlPCs
  <2>2. control[p].pc = "WRITE" /\ breach' = breach /\ Holds(p)
    BY <1>6 DEF WritesLock, ControlAt, Holds, HoldingPCs
  <2>3. lock # NoLock /\ lock.maker = p /\ lock' = [lock EXCEPT !.written = TRUE]
    BY <1>1, <1>6, <2>2 DEF WritesLock, LockHeld
  <2>4. /\ lock' \in [maker: Controller, written: BOOLEAN] /\ lock' # NoLock
        /\ lock'.maker = lock.maker
    BY <1>1, <2>3, NoControllerAssumption
  <2>5. Counted(state) /\ state.pc \notin ActingPCs /\ state.pc \in HoldingPCs
    BY <1>1, <2>1, <2>2 DEF Attempts, Counted, ActingPCs, HoldingPCs
  <2>6. LockHeld'
    BY <1>1, <2>1, <2>2, <2>4, <2>5, HolderGoesOn
  <2> QED
    BY <1>3, <2>1, <2>2, <2>4, <2>5, <2>6
<1>7. CASE FlowChanged(p) \/ ReleasesLock(p)
  <2>1. /\ control[p].pc \in {"COMPARE", "RELEASE"} /\ lock' = NoLock /\ Holds(p)
        /\ breach' \in {breach, breach \cup {"LIVE_LOCK_REMOVED"}}
    BY <1>7 DEF FlowChanged, ReleasesLock, Unlinks, ControlAt, Holds, HoldingPCs
  <2>2. PICK pc \in {"READ", "GONE"} : control' = [control EXCEPT ![p] = [NewControl EXCEPT !.pc = pc]]
    BY <1>7 DEF FlowChanged, ReleasesLock, Leaves
  <2>3. PICK state \in Control :
          /\ state = [NewControl EXCEPT !.pc = pc]
          /\ state.pc = pc /\ state.inspected = NoLock /\ state.attempt = 0
    BY FreshAt DEF ControlPCs
  <2>4. Counted(state) /\ state.pc \notin ActingPCs /\ state.pc \notin HoldingPCs
    BY <2>3 DEF Counted, ActingPCs, HoldingPCs
  <2>5. LockHeld'
    BY <1>1, <2>1, <2>2, <2>3, <2>4, HoldsAlone, OutsiderMoves
  <2> QED
    BY <1>3, <2>1, <2>2, <2>3, <2>4, <2>5
<1> QED
  BY <1>4, <1>5, <1>6, <1>7

(***************************************************************************)
(* The state file.                                                         *)
(***************************************************************************)
LEMMA SettledTyped ==
  ASSUME NEW state \in Flow
  PROVE  /\ Settled(state) \in Flow /\ Settled(state).phase = state.phase
         /\ Settled(state).commit = state.commit /\ Settled(state).approved = state.approved
         /\ Settled(state).invocation = "NONE"
BY DEF Settled, Flow

LEMMA EntersTyped ==
  ASSUME NEW state \in Flow, NEW phase \in Phases
  PROVE  /\ Enters(state, phase) \in Flow /\ Enters(state, phase).phase = phase
         /\ Enters(state, phase).commit = state.commit
         /\ Enters(state, phase).approved = state.approved
BY DEF Enters, Flow

LEMMA StopsInTyped ==
  ASSUME NEW state \in Flow, NEW phase \in Phases
  PROVE  StopsIn(state, phase) \in Flow /\ StopsIn(state, phase).phase = phase
BY DEF StopsIn, Flow

LEMMA ReasonTyped ==
  ASSUME NEW state \in Flow, NEW reason \in {"NONE", "AUTOMATION", "STOP"}
  PROVE  /\ [state EXCEPT !.stopReason = reason] \in Flow
         /\ [state EXCEPT !.stopReason = reason].phase = state.phase
         /\ [state EXCEPT !.stopReason = reason].commit = state.commit
         /\ [state EXCEPT !.stopReason = reason].approved = state.approved
BY DEF Flow

(* A save ends the protected section.                                      *)
LEMMA SaveKeeps ==
  ASSUME ControllerInv, LockIntact, NEW p \in Controller, control[p].pc \in ActingPCs,
         NEW next \in Flow, Saves(p, next), breach = {} => Closed(next)
  PROVE  ControllerInv'
<1>1. ControllerTypeOK /\ LockHeld /\ Holds(p)
  BY DEF ControllerInv, ActingPCs, Holds, HoldingPCs
<1>2. PICK state \in Control :
        /\ control' = [control EXCEPT ![p] = state]
        /\ state.pc = "RELEASE" /\ state.inspected = NoLock /\ state.attempt = 0
  BY <1>1, FinishesTo DEF Saves
<1>3. /\ flow' = next /\ lock' = lock /\ breach' = breach
      /\ UNCHANGED <<automation, commits, tree, remoteRef>>
  BY DEF Saves, Repository
<1>4. /\ Counted(state) /\ FlowAt(state.pc, state.flow, flow') /\ CommitAt(state.pc, flow')
      /\ state.pc \in HoldingPCs
  BY <1>2 DEF Counted, FlowAt, CommitAt, ActingPCs, HoldingPCs
<1>5. /\ lock' \in [maker: Controller, written: BOOLEAN] \cup {NoLock}
      /\ remoteRef' \in 0..MaxCommits /\ lock' # NoLock
  BY <1>1, <1>3 DEF ControllerTypeOK, LockHeld
<1>6. LockHeld'
  BY <1>1, <1>2, <1>3, <1>4, <1>5, HolderGoesOn
<1> QED
  BY <1>1, <1>2, <1>3, <1>4, <1>5, <1>6, StepKeeps

(* A phase before the commit, or after the batch, claims nothing.          *)
LEMMA OpenPhase ==
  ASSUME NEW next, next.phase \notin {"CLOSE_BATCH", "ADVANCE_BATCH"}
  PROVE  Closed(next)
BY DEF Closed

LEMMA SameClosed ==
  ASSUME NEW state, NEW next, Closed(state),
         next.phase \in {"CLOSE_BATCH", "ADVANCE_BATCH"} =>
           state.phase \in {"CLOSE_BATCH", "ADVANCE_BATCH"},
         next.commit = state.commit, next.approved = state.approved
  PROVE  Closed(next)
BY DEF Closed

(* What a process in the protected section knows.                          *)
LEMMA ActingFacts ==
  ASSUME ControllerInv, LockIntact, NEW p \in Controller, control[p].pc \in ActingPCs
  PROVE  /\ FlowOf(p) = flow /\ flow \in Flow /\ FlowOf(p) \in Flow
         /\ control[p].pc = "REPAIR" => flow.invocation = "NONE"
         /\ control[p].pc \in {"AGENT", "REPAIR"} => flow.phase \in AgentPhases
         /\ control[p].pc = "PUSHED" => flow.phase = "CLOSE_BATCH"
         /\ breach = {} => Closed(flow) /\ CommitAt(control[p].pc, flow)
BY DEF ControllerInv, FlowHeld, FlowAt, FlowOf, CommitHeld, ControllerTypeOK

LEMMA AgentSaveStep ==
  ASSUME ControllerInv, LockIntact, NEW p \in Controller,
         \/ AgentFails(p) \/ Restores(p) \/ RejectsChanges(p) \/ AcceptsArtifact(p)
  PROVE  ControllerInv'
<1>1. control[p].pc = "AGENT" /\ control[p].pc \in ActingPCs /\ ControllerTypeOK
  BY DEF AgentFails, Restores, RejectsChanges, AcceptsArtifact, Untampered, ControlAt, ActingPCs,
     ControllerInv
<1>2. FlowOf(p) \in Flow /\ FlowOf(p).phase \in AgentPhases
  BY <1>1, ActingFacts
<1> DEFINE settled == Settled(FlowOf(p))
<1>3. settled \in Flow /\ settled.phase \in AgentPhases
  BY <1>2, SettledTyped
<1> HIDE DEF settled
<1>4. ASSUME NEW next \in Flow, Saves(p, next), next.phase \notin {"CLOSE_BATCH", "ADVANCE_BATCH"}
      PROVE  ControllerInv'
  BY <1>1, <1>4, OpenPhase, SaveKeeps
<1>5. \A phase \in {"BLOCKED", "HUMAN_DECISION_REQUIRED"} :
        /\ StopsIn(Settled(FlowOf(p)), phase) \in Flow
        /\ StopsIn(Settled(FlowOf(p)), phase).phase = phase
  BY <1>3, StopsInTyped DEF Phases, settled
<1>6. CASE AgentFails(p)
  BY <1>4, <1>6, <1>5 DEF AgentFails
<1>7. CASE Restores(p)
  <2>1. /\ [settled EXCEPT !.stopReason = "STOP"] \in Flow
        /\ [settled EXCEPT !.stopReason = "STOP"].phase = settled.phase
    BY <1>3, ReasonTyped
  <2>2. Saves(p, [settled EXCEPT !.stopReason = "STOP"])
    BY <1>7 DEF Restores, settled
  <2> QED
    BY <1>3, <1>4, <2>1, <2>2 DEF AgentPhases
<1>8. CASE RejectsChanges(p)
  BY <1>4, <1>8, <1>5 DEF RejectsChanges
<1>9. CASE AcceptsArtifact(p)
  <2>1. PICK next \in Verdicts(settled) : Saves(p, next)
    BY <1>9 DEF AcceptsArtifact, settled
  <2>2. /\ Enters(settled, "READY_TO_COMMIT") \in Flow
        /\ Enters(settled, "READY_TO_COMMIT").phase = "READY_TO_COMMIT"
    BY <1>3, EntersTyped DEF Phases
  <2>3. Approves(settled) \in Flow /\ Approves(settled).phase = "READY_TO_COMMIT"
    BY <1>1, <2>2, HereTyped DEF Approves, Flow
  <2>4. /\ \A phase \in {"REVIEW_INITIAL", "FIX_BLOCKING_FINDINGS", "REVIEW_FINAL"} :
             Enters(settled, phase) \in Flow /\ Enters(settled, phase).phase = phase
        /\ \A phase \in {"BLOCKED", "HUMAN_DECISION_REQUIRED"} :
             StopsIn(settled, phase) \in Flow /\ StopsIn(settled, phase).phase = phase
    BY <1>3, EntersTyped, StopsInTyped DEF Phases, AgentPhases
  <2>5. next \in {Approves(settled), Enters(settled, "REVIEW_INITIAL"),
                  Enters(settled, "FIX_BLOCKING_FINDINGS"), Enters(settled, "REVIEW_FINAL"),
                  StopsIn(settled, "BLOCKED"), StopsIn(settled, "HUMAN_DECISION_REQUIRED")}
    BY <1>3, <2>1 DEF Verdicts, AgentPhases
  <2>6. next \in Flow /\ next.phase \notin {"CLOSE_BATCH", "ADVANCE_BATCH"}
    BY <2>3, <2>4, <2>5
  <2> QED
    BY <1>4, <2>1, <2>6
<1> QED
  BY <1>6, <1>7, <1>8, <1>9

LEMMA ClosesTyped ==
  ASSUME NEW state \in Flow, NEW commit \in 1..MaxCommits
  PROVE  /\ Closes(state, commit) \in Flow /\ Closes(state, commit).phase = "CLOSE_BATCH"
         /\ Closes(state, commit).commit = commit
         /\ Closes(state, commit).approved = state.approved
<1>1. /\ Enters(state, "CLOSE_BATCH") \in Flow
      /\ Enters(state, "CLOSE_BATCH").phase = "CLOSE_BATCH"
      /\ Enters(state, "CLOSE_BATCH").approved = state.approved
  BY EntersTyped DEF Phases
<1> QED
  BY <1>1, ControllerAssumption DEF Closes, Flow

LEMMA NextBatchTyped ==
  ASSUME NEW state \in Flow, state.activeBatch < LastBatch
  PROVE  NextBatch(state) \in Flow /\ NextBatch(state).phase = "IMPLEMENT"
<1>1. state.activeBatch + 1 \in 1..LastBatch
  BY ControllerAssumption DEF Flow
<1> QED
  BY <1>1, ControllerAssumption DEF NextBatch, NewFlow, Flow, Phases, AgentPhases

(* The commit that was verified is the reviewed content.                   *)
LEMMA ApprovedCloses ==
  ASSUME ControllerTypeOK, ApprovedCommitted(flow.approved), flow \in Flow
  PROVE  Closes(flow, HeadIndex) \in Flow /\ Closed(Closes(flow, HeadIndex))
<1>1. HeadIndex \in 1..MaxCommits /\ HeadIndex = Len(commits)
  BY HereTyped DEF HeadIndex
<1>2. commits[HeadIndex] = flow.approved.content
  BY DEF ApprovedCommitted, Clean
<1> QED
  BY <1>1, <1>2, ClosesTyped DEF Closed

LEMMA WorkSaveStep ==
  ASSUME ControllerInv, LockIntact, NEW p \in Controller,
         \/ Escalates(p) \/ StopsAtLimit(p) \/ VerifiesCommit(p) \/ VerifiesPush(p) \/ Advances(p)
         \/ Reconciles(p)
  PROVE  ControllerInv'
<1>1. control[p].pc = "WORK" /\ control[p].pc \in ActingPCs /\ ControllerTypeOK
  BY DEF Escalates, StopsAtLimit, VerifiesCommit, VerifiesPush, Advances, Reconciles, Closing,
     InPhase, Running, ControlAt, ActingPCs, ControllerInv
<1>2. FlowOf(p) = flow /\ flow \in Flow /\ (breach = {} => Closed(flow))
  BY <1>1, ActingFacts
<1>3. ASSUME NEW next \in Flow, Saves(p, next), breach = {} => Closed(next) PROVE ControllerInv'
  BY <1>1, <1>3, SaveKeeps
<1>4. ASSUME NEW reason \in {"NONE", "AUTOMATION", "STOP"},
             Saves(p, [flow EXCEPT !.stopReason = reason])
      PROVE  ControllerInv'
  <2>1. PICK next : next = [flow EXCEPT !.stopReason = reason]
    OBVIOUS
  <2>2. /\ next \in Flow /\ next.phase = flow.phase /\ next.commit = flow.commit
        /\ next.approved = flow.approved
    BY <1>2, <2>1, ReasonTyped
  <2>3. breach = {} => Closed(next)
    BY <1>2, <2>2, SameClosed
  <2> QED
    BY <1>3, <1>4, <2>1, <2>2, <2>3
<1>5. ASSUME flow.phase = "CLOSE_BATCH", Saves(p, Enters(flow, "ADVANCE_BATCH"))
      PROVE  ControllerInv'
  <2>1. PICK next : next = Enters(flow, "ADVANCE_BATCH")
    OBVIOUS
  <2>2. /\ next \in Flow /\ next.commit = flow.commit /\ next.approved = flow.approved
    BY <1>2, <2>1, EntersTyped DEF Phases
  <2>3. breach = {} => Closed(next)
    BY <1>2, <1>5, <2>2, SameClosed
  <2> QED
    BY <1>3, <1>5, <2>1, <2>2, <2>3
<1>6. ASSUME ApprovedCommitted(flow.approved), Saves(p, Closes(flow, HeadIndex))
      PROVE  ControllerInv'
  BY <1>1, <1>2, <1>3, <1>6, ApprovedCloses
<1>7. ASSUME NEW state \in Flow, NEW phase \in {"HUMAN_DECISION_REQUIRED", "DONE"},
             Saves(p, StopsIn(state, phase))
      PROVE  ControllerInv'
  <2>1. StopsIn(state, phase) \in Flow /\ StopsIn(state, phase).phase = phase
    BY StopsInTyped DEF Phases
  <2>2. Closed(StopsIn(state, phase))
    BY <2>1, OpenPhase
  <2> QED
    BY <1>3, <1>7, <2>1, <2>2
<1>8. CASE Escalates(p)
  BY <1>2, <1>7, <1>8, SettledTyped DEF Escalates
<1>9. CASE StopsAtLimit(p)
  BY <1>2, <1>4, <1>9 DEF StopsAtLimit
<1>10. CASE VerifiesCommit(p)
  BY <1>2, <1>4, <1>6, <1>10 DEF VerifiesCommit
<1>11. CASE VerifiesPush(p)
  BY <1>2, <1>4, <1>5, <1>11 DEF VerifiesPush, Closing, InPhase
<1>12. CASE Advances(p)
  <2>1. ASSUME flow.activeBatch < LastBatch, Saves(p, NextBatch(flow)) PROVE ControllerInv'
    BY <1>2, <1>3, <2>1, NextBatchTyped, OpenPhase
  <2> QED
    BY <1>2, <1>4, <1>7, <1>12, <2>1 DEF Advances
<1>13. CASE Reconciles(p)
  <2>1. ASSUME Finishes(p), OnlyControl PROVE ControllerInv'
    <3>1. Saves(p, flow)
      BY <2>1 DEF Saves, OnlyControl
    <3> QED
      BY <1>2, <1>3, <3>1
  <2> QED
    BY <1>2, <1>5, <1>6, <1>13, <2>1 DEF Reconciles
<1> QED
  BY <1>8, <1>9, <1>10, <1>11, <1>12, <1>13

LEMMA CommitSaveStep ==
  ASSUME ControllerInv, LockIntact, NEW p \in Controller, ClosesCommitted(p) \/ ChecksPushed(p)
  PROVE  ControllerInv'
<1>1. control[p].pc \in ActingPCs /\ ControllerTypeOK
  BY DEF ClosesCommitted, ChecksPushed, ControlAt, ActingPCs, ControllerInv
<1>2. /\ FlowOf(p) = flow /\ flow \in Flow
      /\ breach = {} => Closed(flow) /\ CommitAt(control[p].pc, flow)
  BY <1>1, ActingFacts
<1>3. CASE ClosesCommitted(p)
  <2>1. HeadIndex \in 1..MaxCommits /\ HeadIndex = Len(commits)
    BY <1>1, HereTyped DEF HeadIndex
  <2>2. breach = {} => commits[HeadIndex] = flow.approved.content
    BY <1>2, <1>3 DEF ClosesCommitted, ControlAt, CommitAt
  <2>3. Closes(flow, HeadIndex) \in Flow /\ (breach = {} => Closed(Closes(flow, HeadIndex)))
    BY <1>2, <2>1, <2>2, ClosesTyped DEF Closed
  <2> QED
    BY <1>1, <1>2, <1>3, <2>3, SaveKeeps DEF ClosesCommitted
<1>4. CASE ChecksPushed(p)
  <2>1. flow.phase = "CLOSE_BATCH"
    BY <1>1, <1>4, ActingFacts DEF ChecksPushed, ControlAt
  <2>2. /\ Enters(flow, "ADVANCE_BATCH") \in Flow
        /\ Enters(flow, "ADVANCE_BATCH").commit = flow.commit
        /\ Enters(flow, "ADVANCE_BATCH").approved = flow.approved
    BY <1>2, EntersTyped DEF Phases
  <2>3. breach = {} => Closed(Enters(flow, "ADVANCE_BATCH"))
    BY <1>2, <2>1, <2>2, SameClosed
  <2> QED
    BY <1>1, <1>2, <1>4, <2>2, <2>3, SaveKeeps DEF ChecksPushed
<1> QED
  BY <1>3, <1>4

(* The call of an agent is recorded, and settled for a repair.             *)
LEMMA InvocationStep ==
  ASSUME ControllerInv, LockIntact, NEW p \in Controller, Invokes(p) \/ InvalidOutput(p)
  PROVE  ControllerInv'
<1>1. /\ control[p].pc \in {"WORK", "AGENT", "REPAIR"} /\ control[p].pc \in ActingPCs
      /\ ControllerTypeOK /\ Attempts /\ LockHeld /\ Holds(p) /\ control[p] \in Control
  BY DEF Invokes, InvalidOutput, Untampered, Running, ControlAt, ActingPCs, ControllerInv,
     Holds, HoldingPCs, ControllerTypeOK
<1>2. /\ FlowOf(p) = flow /\ flow \in Flow /\ (breach = {} => Closed(flow))
  BY <1>1, ActingFacts
<1>3. ASSUME NEW state \in Control, control' = [control EXCEPT ![p] = state],
             NEW next \in Flow, flow' = next, state.flow = next,
             state.pc \in {"AGENT", "REPAIR"}, Counted(state),
             state.inspected = control[p].inspected,
             state.pc = "REPAIR" => next.invocation = "NONE", next.phase \in AgentPhases,
             UNCHANGED <<automation, lock, Repository, breach>>
      PROVE  ControllerInv'
  <2>1. /\ lock' = lock /\ breach' = breach /\ UNCHANGED <<automation, commits, tree>>
        /\ lock' \in [maker: Controller, written: BOOLEAN] \cup {NoLock}
        /\ remoteRef' \in 0..MaxCommits /\ lock' # NoLock
    BY <1>1, <1>3 DEF ControllerTypeOK, LockHeld, Repository
  <2>2. FlowAt(state.pc, state.flow, flow') /\ CommitAt(state.pc, flow') /\ state.pc \in HoldingPCs
    BY <1>3 DEF FlowAt, CommitAt, HoldingPCs
  <2>3. LockHeld'
    BY <1>1, <1>3, <2>1, <2>2, HolderGoesOn
  <2>4. Closed(flow')
    BY <1>3, OpenPhase DEF AgentPhases
  <2> QED
    BY <1>1, <1>3, <2>1, <2>2, <2>3, <2>4, StepKeeps
<1>4. CASE Invokes(p)
  <2>1. PICK next : next = [flow EXCEPT !.invocation = "IN_PROGRESS", !.invoker = p, !.stopReason = "NONE"]
    OBVIOUS
  <2>2. next \in Flow /\ next.phase = flow.phase
    BY <1>2, <2>1 DEF Flow
  <2>3. flow.phase \in AgentPhases
    BY <1>1, <1>2, <1>4, ActingFacts DEF Invokes, ControlAt
  <2>4. PICK state : state = [control[p] EXCEPT !.pc = "AGENT", !.flow = next, !.before = Here,
                                                !.attempt = control[p].attempt + 1]
    OBVIOUS
  <2>5. control[p].attempt + 1 \in 0..(RepairLimit + 1)
    <3>1. control[p].attempt \in 0..RepairLimit
      <4>1. control[p].attempt \in Nat /\ RepairLimit \in Nat
        BY <1>1, ControllerAssumption DEF Control
      <4>2. Counted(control[p]) /\ control[p].pc # "AGENT"
        BY <1>1, <1>4 DEF Attempts, Invokes, Running, ControlAt
      <4> QED
        BY <1>1, <4>1, <4>2 DEF Counted
    <3> QED
      BY <3>1, ControllerAssumption
  <2>6. /\ state \in Control /\ state.pc = "AGENT" /\ state.flow = next
        /\ state.inspected = control[p].inspected
    BY <1>1, <2>2, <2>4, <2>5, HereTyped DEF Control, ControlPCs
  <2>7. control' = [control EXCEPT ![p] = state] /\ flow' = next
    <3>1. next = [FlowOf(p) EXCEPT !.invocation = "IN_PROGRESS", !.invoker = p, !.stopReason = "NONE"]
      BY <1>2, <2>1
    <3>2. flow' = next
      BY <1>4, <3>1 DEF Invokes
    <3>3. control' = [control EXCEPT ![p] =
            [control[p] EXCEPT !.pc = "AGENT", !.flow = next, !.before = Here,
                               !.attempt = control[p].attempt + 1]]
      BY <1>4, <3>2 DEF Invokes
    <3> QED
      BY <2>4, <3>2, <3>3
  <2> QED
    BY <1>3, <1>4, <2>2, <2>3, <2>6, <2>7 DEF Invokes, Counted
<1>5. CASE InvalidOutput(p)
  <2>1. control[p].pc = "AGENT" /\ flow.phase \in AgentPhases
    BY <1>1, <1>2, <1>5, ActingFacts DEF InvalidOutput, Untampered, ControlAt
  <2>2. PICK next : next = Settled(flow)
    OBVIOUS
  <2>3. next \in Flow /\ next.phase = flow.phase /\ next.invocation = "NONE"
    BY <1>2, <2>2, SettledTyped
  <2>4. CASE RepairsExhausted(p)
    <3>1. /\ StopsIn(next, "HUMAN_DECISION_REQUIRED") \in Flow
          /\ StopsIn(next, "HUMAN_DECISION_REQUIRED").phase = "HUMAN_DECISION_REQUIRED"
      BY <2>3, StopsInTyped DEF Phases
    <3>2. Closed(StopsIn(next, "HUMAN_DECISION_REQUIRED"))
      BY <3>1, OpenPhase
    <3>3. Saves(p, StopsIn(next, "HUMAN_DECISION_REQUIRED"))
      BY <1>2, <1>5, <2>2, <2>4 DEF InvalidOutput
    <3> QED
      BY <1>1, <3>1, <3>2, <3>3, SaveKeeps
  <2>5. CASE ~RepairsExhausted(p)
    <3>1. PICK state : state = [control[p] EXCEPT !.pc = "REPAIR", !.flow = next]
      OBVIOUS
    <3>2. /\ state \in Control /\ state.pc = "REPAIR" /\ state.flow = next
          /\ state.inspected = control[p].inspected /\ state.attempt = control[p].attempt
      BY <1>1, <2>3, <3>1 DEF Control, ControlPCs
    <3>3. /\ flow' = next /\ UNCHANGED <<automation, lock, Repository, breach>>
          /\ control' = [control EXCEPT ![p].pc = "REPAIR", ![p].flow = flow']
      BY <1>2, <1>5, <2>2, <2>5 DEF InvalidOutput
    <3>4. control' = [control EXCEPT ![p] = state]
      BY <3>1, <3>3
    <3>5. Counted(state)
      BY <1>1, <2>5, <3>2, ControllerAssumption DEF RepairsExhausted, Counted, Control
    <3> QED
      BY <1>3, <2>1, <2>3, <3>2, <3>3, <3>4, <3>5
  <2> QED
    BY <2>4, <2>5
<1> QED
  BY <1>4, <1>5

(***************************************************************************)
(* The repository.                                                         *)
(***************************************************************************)
LEMMA CommitsSnapshotStep ==
  ASSUME ControllerInv, LockIntact, NEW p \in Controller, CommitsSnapshot(p)
  PROVE  ControllerInv'
<1>1. /\ ControllerTypeOK /\ Attempts /\ LockHeld /\ FlowHeld /\ control[p] \in Control
      /\ breach = {} => CommitHeld
  BY DEF ControllerInv, ControllerTypeOK
<1>2. /\ control[p].pc = "COMMIT" /\ Len(commits) < MaxCommits /\ commits' = Append(commits, tree)
      /\ UNCHANGED <<flow, automation, lock, tree, remoteRef, breach>> /\ Holds(p)
  BY DEF CommitsSnapshot, ControlAt, HeadIndex, Holds, HoldingPCs
<1>3. PICK state \in Control :
        /\ control' = [control EXCEPT ![p] = state] /\ state.pc = "COMMITTED"
        /\ state.inspected = control[p].inspected /\ state.attempt = control[p].attempt
        /\ state.flow = control[p].flow
  BY <1>1, MovesTo DEF CommitsSnapshot, ControlPCs
<1>4. /\ commits' \in Seq(Content) /\ Len(commits') = Len(commits) + 1
      /\ commits'[Len(commits')] = tree
      /\ \A i \in 1..Len(commits) : commits'[i] = commits[i]
      /\ Len(commits) \in Nat
  BY <1>1, <1>2 DEF ControllerTypeOK
<1>5. /\ Counted(state) /\ state.pc \in HoldingPCs
      /\ FlowAt(state.pc, state.flow, flow)
  BY <1>1, <1>2, <1>3 DEF Attempts, Counted, HoldingPCs, FlowHeld, FlowAt, ActingPCs
<1>6. ControllerTypeOK' /\ Attempts'
  <2>1. Len(commits') \in 1..MaxCommits
    BY <1>2, <1>4, ControllerAssumption
  <2>2. /\ flow' \in Flow /\ remoteRef' \in 0..MaxCommits
        /\ lock' \in [maker: Controller, written: BOOLEAN] \cup {NoLock}
        /\ breach' \subseteq {"LIVE_LOCK_REMOVED", "COMMIT_RACED"}
    BY <1>1, <1>2 DEF ControllerTypeOK
  <2> QED
    BY <1>1, <1>2, <1>3, <1>4, <1>5, <2>1, <2>2, TypesKept
<1>7. LockHeld'
  <2>1. lock' # NoLock /\ lock'.maker = lock.maker
    BY <1>1, <1>2 DEF LockHeld
  <2> QED
    BY <1>1, <1>2, <1>3, <1>5, <2>1, HolderGoesOn
<1>8. FlowHeld'
  BY <1>1, <1>2, <1>3, <1>5, FlowKept
<1>9. ASSUME breach = {} PROVE CommitHeld'
  <2>1. CommitAt("COMMIT", flow) /\ Closed(flow)
    BY <1>1, <1>2, <1>9 DEF CommitHeld
  <2>2. tree = flow.approved.content
    <3>1. Here = flow.approved
      BY <2>1 DEF CommitAt
    <3> QED
      BY <3>1 DEF Here
  <2>3. Closed(flow)'
    BY <1>2, <1>4, <2>1 DEF Closed
  <2>4. ASSUME NEW q \in Controller PROVE CommitAt(control[q].pc, flow)'
    <3>1. CASE q = p
      BY <1>1, <1>2, <1>3, <1>4, <2>2, <3>1 DEF CommitAt, ControllerTypeOK, HeadIndex
    <3>2. CASE q # p
      <4>1. ~Holds(q) /\ control'[q] = control[q]
        BY <1>1, <1>2, <1>3, <3>2, HoldsAlone DEF ControllerTypeOK
      <4> QED
        BY <4>1 DEF CommitAt, Holds, HoldingPCs
    <3> QED
      BY <3>1, <3>2
  <2> QED
    BY <2>3, <2>4 DEF CommitHeld
<1> QED
  BY <1>2, <1>6, <1>7, <1>8, <1>9 DEF ControllerInv

LEMMA PushStep ==
  ASSUME ControllerInv, LockIntact, NEW p \in Controller, PushesBranch(p)
  PROVE  ControllerInv'
<1>1. /\ ControllerTypeOK /\ Attempts /\ LockHeld /\ control[p] \in Control
  BY DEF ControllerInv, ControllerTypeOK
<1>2. /\ control[p].pc = "WORK" /\ control[p].pc \in ActingPCs /\ Holds(p)
      /\ FlowOf(p).phase = "CLOSE_BATCH" /\ remoteRef' = HeadIndex
      /\ UNCHANGED <<flow, automation, lock, commits, tree, breach>>
  BY DEF PushesBranch, Closing, InPhase, Running, ControlAt, ActingPCs, Holds, HoldingPCs
<1>3. /\ control[p].flow = flow /\ flow.phase = "CLOSE_BATCH" /\ flow \in Flow
      /\ breach = {} => Closed(flow)
  BY <1>2, ActingFacts DEF FlowOf
<1>4. PICK state \in Control :
        /\ control' = [control EXCEPT ![p] = state] /\ state.pc = "PUSHED"
        /\ state.inspected = control[p].inspected /\ state.attempt = control[p].attempt
        /\ state.flow = control[p].flow
  BY <1>1, MovesTo DEF PushesBranch, ControlPCs
<1>5. /\ Counted(state) /\ state.pc \in HoldingPCs
      /\ FlowAt(state.pc, state.flow, flow) /\ CommitAt(state.pc, flow)
  BY <1>1, <1>2, <1>3, <1>4 DEF Attempts, Counted, HoldingPCs, FlowAt, CommitAt
<1>6. /\ remoteRef' \in 0..MaxCommits
      /\ lock' \in [maker: Controller, written: BOOLEAN] \cup {NoLock}
  BY <1>1, <1>2, HereTyped, ControllerAssumption DEF ControllerTypeOK
<1>7. LockHeld'
  <2>1. lock' # NoLock /\ lock'.maker = lock.maker
    BY <1>1, <1>2 DEF LockHeld
  <2> QED
    BY <1>1, <1>2, <1>4, <1>5, <2>1, HolderGoesOn
<1> QED
  BY <1>2, <1>3, <1>4, <1>5, <1>6, <1>7, StepKeeps

(* The developer edits, commits and pushes; what he changes between the    *)
(* comparison of the snapshot and the reading of HEAD is a breach.         *)
LEMMA DeveloperStep ==
  ASSUME ControllerInv, LockIntact,
         (\E c \in Content : TreeEdited(c)) \/ DeveloperCommits \/ DeveloperPushes
  PROVE  ControllerInv'
<1>1. /\ ControllerTypeOK /\ Attempts /\ LockHeld /\ FlowHeld
      /\ breach = {} => CommitHeld
  BY DEF ControllerInv
<1>2. UNCHANGED <<flow, automation, lock, control>>
  BY DEF TreeEdited, DeveloperCommits, DeveloperPushes
<1>3. LockHeld' /\ FlowHeld' /\ Attempts'
  BY <1>1, <1>2 DEF LockHeld, FlowHeld, Attempts, Holds, FlowAt, Counted
<1>4. ASSUME NEW c \in Content, TreeEdited(c) PROVE ControllerInv'
  <2>1. /\ tree' = c /\ UNCHANGED <<commits, remoteRef>>
        /\ breach' \in {breach, breach \cup {"COMMIT_RACED"}}
        /\ breach' = {} => breach = {} /\ \A p \in Controller : control[p].pc # "COMMIT"
    BY <1>4 DEF TreeEdited, Races
  <2>2. ControllerTypeOK'
    BY <1>1, <1>2, <2>1 DEF ControllerTypeOK
  <2>3. ASSUME breach' = {} PROVE CommitHeld'
    BY <1>1, <1>2, <2>1, <2>3 DEF CommitHeld, Closed, CommitAt, HeadIndex
  <2> QED
    BY <1>3, <2>2, <2>3 DEF ControllerInv
<1>5. ASSUME DeveloperCommits PROVE ControllerInv'
  <2>1. /\ commits' = Append(commits, tree) /\ Len(commits) < MaxCommits
        /\ UNCHANGED <<tree, remoteRef>>
        /\ breach' \in {breach, breach \cup {"COMMIT_RACED"}}
        /\ breach' = {} =>
             breach = {} /\ \A p \in Controller : control[p].pc \notin {"COMMIT", "COMMITTED"}
    BY <1>5 DEF DeveloperCommits, Races, HeadIndex
  <2>2. /\ commits' \in Seq(Content) /\ Len(commits') = Len(commits) + 1
        /\ \A i \in 1..Len(commits) : commits'[i] = commits[i]
        /\ Len(commits) \in 1..MaxCommits
    BY <1>1, <2>1 DEF ControllerTypeOK
  <2>3. Len(commits') \in 1..MaxCommits
    BY <2>1, <2>2, ControllerAssumption
  <2>4. ControllerTypeOK'
    BY <1>1, <1>2, <2>1, <2>2, <2>3 DEF ControllerTypeOK
  <2>5. ASSUME breach' = {} PROVE CommitHeld'
    <3>1. Closed(flow)'
      BY <1>1, <1>2, <2>1, <2>2, <2>5 DEF CommitHeld, Closed
    <3>2. \A p \in Controller : CommitAt(control[p].pc, flow)'
      BY <1>2, <2>1, <2>5 DEF CommitAt
    <3> QED
      BY <3>1, <3>2 DEF CommitHeld
  <2> QED
    BY <1>3, <2>4, <2>5 DEF ControllerInv
<1>6. ASSUME DeveloperPushes PROVE ControllerInv'
  <2>1. remoteRef' \in 0..MaxCommits /\ UNCHANGED <<commits, tree, breach>>
    BY <1>1, <1>6, HereTyped, ControllerAssumption DEF DeveloperPushes
  <2>2. ControllerTypeOK'
    BY <1>1, <1>2, <2>1 DEF ControllerTypeOK
  <2>3. ASSUME breach = {} PROVE CommitHeld'
    BY <1>1, <1>2, <2>1, <2>3 DEF CommitHeld, Closed, CommitAt, HeadIndex, Here
  <2> QED
    BY <1>3, <2>1, <2>2, <2>3 DEF ControllerInv
<1> QED
  BY <1>4, <1>5, <1>6

LEMMA ControllerStepKeeps ==
  ASSUME ControllerInv, [ControllerNext]_controllerVars
  PROVE  ControllerInv'
<1>1. ASSUME LockIntact, NEW p \in Controller, ControllerStep(p) PROVE ControllerInv'
  BY <1>1, OutsiderStep, HolderStep, LockStep, AgentSaveStep, WorkSaveStep, CommitSaveStep,
     InvocationStep, CommitsSnapshotStep, PushStep DEF ControllerStep
<1>2. CASE UNCHANGED controllerVars
  BY <1>2 DEF controllerVars, Repository, ControllerInv, ControllerTypeOK, Attempts, Counted, LockIntact,
     LockHeld, Holds, FlowHeld, FlowAt, CommitHeld, Closed, CommitAt, Here, HeadIndex
<1> QED
  BY <1>1, <1>2, DeveloperStep DEF ControllerNext

(* What becomes of a recorded invocation when the state file changes.      *)
LEMMA Unrecorded ==
  ASSUME NEW state
  PROVE  /\ Settled(state).invocation = "NONE" \/ state \notin Flow
         /\ \A phase : /\ state \in Flow => Enters(state, phase).invocation = state.invocation
                       /\ state \in Flow => Enters(state, phase).invoker = state.invoker
                       /\ state \in Flow => StopsIn(state, phase).invocation = state.invocation
                       /\ state \in Flow => StopsIn(state, phase).invoker = state.invoker
BY DEF Settled, Enters, StopsIn, Flow

LEMMA RecordKept ==
  ASSUME ControllerInv, LockIntact, NEW p \in Controller, ControllerStep(p), flow' # flow
  PROVE  \/ flow.invocation # "IN_PROGRESS" \/ flow'.invocation # "IN_PROGRESS"
         \/ flow'.invoker = flow.invoker
<1>1. CASE Invokes(p)
  <2>1. control[p].pc \in {"WORK", "REPAIR"} /\ control[p].pc \in ActingPCs
    BY <1>1 DEF Invokes, Running, ControlAt, ActingPCs
  <2>2. FlowOf(p) = flow /\ (control[p].pc = "REPAIR" => flow.invocation = "NONE")
    BY <2>1, ActingFacts
  <2> QED
    BY <1>1, <2>2 DEF Invokes, Running, ControlAt, Uncertain
<1>2. CASE \/ Escalates(p) \/ AgentFails(p) \/ Restores(p) \/ RejectsChanges(p) \/ InvalidOutput(p)
           \/ AcceptsArtifact(p)
  <2>1. control[p].pc \in ActingPCs /\ ControllerTypeOK
    BY <1>2 DEF Escalates, AgentFails, Restores, RejectsChanges, InvalidOutput, AcceptsArtifact,
       Untampered, ControlAt, ActingPCs, ControllerInv
  <2>2. PICK settled \in Flow : settled = Settled(FlowOf(p)) /\ settled.invocation = "NONE"
    BY <2>1, ActingFacts, SettledTyped
  <2>3. \A phase : /\ Enters(settled, phase).invocation = "NONE"
                  /\ StopsIn(settled, phase).invocation = "NONE"
    BY <2>2, Unrecorded
  <2>4. \/ flow' \in Verdicts(settled) /\ AcceptsArtifact(p)
        \/ \E phase : flow' = StopsIn(settled, phase)
        \/ flow' = [settled EXCEPT !.stopReason = "STOP"]
        \/ flow' = settled
    BY <1>2, <2>2 DEF Escalates, AgentFails, Restores, RejectsChanges, InvalidOutput, AcceptsArtifact,
       Saves
  <2>5. CASE flow' \in Verdicts(settled) /\ AcceptsArtifact(p)
    <3>1. settled.phase \in AgentPhases
      BY <2>1, <2>2, <2>5, ActingFacts, SettledTyped DEF AcceptsArtifact, Untampered, ControlAt
    <3>2. Enters(settled, "READY_TO_COMMIT") \in Flow
      BY <2>2, EntersTyped DEF Phases
    <3>3. Approves(settled).invocation = "NONE"
      BY <2>3, <3>2 DEF Approves, Flow
    <3> QED
      BY <2>3, <2>5, <3>1, <3>3 DEF Verdicts, AgentPhases
  <2>6. [settled EXCEPT !.stopReason = "STOP"].invocation = "NONE"
    BY <2>2 DEF Flow
  <2> QED
    BY <2>2, <2>3, <2>4, <2>5, <2>6
<1>3. CASE \/ StopsAtLimit(p) \/ VerifiesCommit(p) \/ VerifiesPush(p) \/ Advances(p)
           \/ ClosesCommitted(p) \/ ChecksPushed(p) \/ Reconciles(p)
  <2>1. control[p].pc \in ActingPCs
    BY <1>3 DEF StopsAtLimit, VerifiesCommit, VerifiesPush, Advances, ClosesCommitted, ChecksPushed,
       Reconciles, Closing, InPhase, Running, ControlAt, ActingPCs
  <2>2. FlowOf(p) = flow /\ flow \in Flow
    BY <2>1, ActingFacts
  <2>3. \/ \E reason : flow' = [flow EXCEPT !.stopReason = reason]
        \/ \E commit : flow' = Closes(flow, commit)
        \/ \E phase : flow' = Enters(flow, phase) \/ flow' = StopsIn(flow, phase)
        \/ flow' = NextBatch(flow)
    BY <1>3, <2>2 DEF StopsAtLimit, VerifiesCommit, VerifiesPush, Advances, ClosesCommitted,
       ChecksPushed, Reconciles, Saves, OnlyControl
  <2>4. \A reason : [flow EXCEPT !.stopReason = reason].invoker = flow.invoker
    BY <2>2 DEF Flow
  <2>5. \A commit : Closes(flow, commit).invoker = flow.invoker
    BY <2>2 DEF Closes, Enters, Flow
  <2>6. NextBatch(flow).invocation = "NONE"
    BY DEF NextBatch, NewFlow
  <2>7. \A phase : /\ Enters(flow, phase).invoker = flow.invoker
                  /\ StopsIn(flow, phase).invoker = flow.invoker
    BY <2>2, Unrecorded
  <2> QED
    BY <2>3, <2>4, <2>5, <2>6, <2>7
<1>4. CASE CommitsSnapshot(p) \/ PushesBranch(p)
  BY <1>4 DEF CommitsSnapshot, PushesBranch
<1>5. CASE \/ RemovesStaleLock(p) \/ OpensLock(p) \/ WritesLock(p) \/ FlowChanged(p)
           \/ ReleasesLock(p)
  BY <1>5 DEF RemovesStaleLock, OpensLock, WritesLock, FlowChanged, ReleasesLock
<1>6. CASE \/ Starts(p) \/ ReconcileStarts(p) \/ ReadsFlow(p) \/ Acquires(p) \/ GivesUp(p)
           \/ Throws(p) \/ ControllerDies(p) \/ FindsNothing(p) \/ ChecksSnapshot(p)
  BY <1>6 DEF Starts, ReconcileStarts, ReadsFlow, Acquires, GivesUp, Throws, ControllerDies,
     FindsNothing, ChecksSnapshot, OnlyControl
<1> QED
  BY <1>1, <1>2, <1>3, <1>4, <1>5, <1>6 DEF ControllerStep

LEMMA ControllerStarts ==
  ASSUME ControllerInit
  PROVE  ControllerInv
<1>1. ControllerTypeOK
  <2>1. flow \in Flow /\ automation \in Automation /\ control \in [Controller -> Control]
    BY NewTyped DEF ControllerInit
  <2>2. commits \in Seq(Content) /\ Len(commits) = 1 /\ tree \in Content
    BY ControllerAssumption DEF ControllerInit
  <2>3. Len(commits) \in 1..MaxCommits /\ remoteRef \in 0..MaxCommits
    BY <2>2, ControllerAssumption DEF ControllerInit
  <2> QED
    BY <2>1, <2>2, <2>3 DEF ControllerInit, ControllerTypeOK
<1>2. Attempts /\ LockHeld /\ FlowHeld
  BY DEF ControllerInit, Attempts, Counted, LockHeld, Holds, HoldingPCs, FlowHeld, FlowAt, ActingPCs,
     NewControl
<1>3. CommitHeld
  BY DEF ControllerInit, CommitHeld, Closed, CommitAt, NewFlow, NewControl
<1> QED
  BY <1>1, <1>2, <1>3 DEF ControllerInv

LEMMA ControllerInvariance == ControllerSpec => []ControllerInv
<1> QED
  BY ControllerStarts, ControllerStepKeeps, PTL DEF ControllerSpec

(* The state file, the lock, the repository and the processes keep their   *)
(* types: rounds, commits and the attempts of a call within their limits.  *)
THEOREM ControllerTyped == ControllerSpec => []ControllerTypeOK
<1>1. ControllerInv => ControllerTypeOK
  BY DEF ControllerInv
<1> QED
  BY ControllerInvariance, <1>1, PTL

(* However many controllers run, die and reconcile, two of them never act  *)
(* at once while no live lock was unlinked: the lock file is its holder's, *)
(* and an inspected lock that was stale belongs to one that stays dead.    *)
THEOREM OneControllerActs == ControllerSpec => []SoleController
<1>1. ControllerInv => SoleController
  BY DEF ControllerInv, SoleController, LockHeld, Holds, HoldingPCs, Acting
<1> QED
  BY ControllerInvariance, <1>1, PTL

(* A batch is closed with the content its approving review saw, for any    *)
(* number of edits, manual commits, deaths and reconciliations outside the *)
(* time between the comparison and the reading of HEAD.                    *)
THEOREM ClosedAsReviewed == ControllerSpec => []ReviewedContentCommitted
<1>1. ControllerInv => ReviewedContentCommitted
  BY DEF ControllerInv, ReviewedContentCommitted, CommitHeld, Closed
<1> QED
  BY ControllerInvariance, <1>1, PTL

(* An invocation left IN_PROGRESS by a dead controller is never recorded   *)
(* anew: who invokes holds the lock and has the state file as it is, which *)
(* names no invocation then.                                               *)
THEOREM LeftInvocationIsEscalated == ControllerSpec => UncertainNeverRepeated
<1> DEFINE Kept == flow.invocation = "IN_PROGRESS" /\ ~ControllerAlive(flow.invoker)
                   /\ flow'.invocation = "IN_PROGRESS"
                   => flow'.invoker = flow.invoker \/ ~LockIntact
<1>1. ASSUME ControllerInv, [ControllerNext]_controllerVars PROVE [Kept]_controllerVars
  <2>1. CASE flow' = flow
    BY <2>1
  <2>2. CASE flow' # flow
    BY <1>1, <2>2, RecordKept DEF ControllerNext, controllerVars, TreeEdited, DeveloperCommits,
       DeveloperPushes
  <2> QED
    BY <2>1, <2>2
<1> QED
  BY ControllerInvariance, <1>1, PTL DEF ControllerSpec, UncertainNeverRepeated

(***************************************************************************)
(* The drivers as they are checked together.                               *)
(***************************************************************************)
(* Whichever driver is picked, what happens is a behaviour of both models, *)
(* since the other stutters; all that is proved above is thereby true of   *)
(* the specification that is checked.                                      *)
THEOREM DriversAreBehaviours == ToolsSpec => RelaySpec /\ ControllerSpec
<1>1. ToolsInit => RelayInit /\ ControllerInit
  BY DEF ToolsInit
<1>2. ASSUME [RelayRuns \/ ControllerRuns]_toolVars
      PROVE  [RelayNext]_relayVars /\ [ControllerNext]_controllerVars
  BY <1>2 DEF RelayRuns, ControllerRuns, toolVars
<1> QED
  BY <1>1, <1>2, PTL DEF ToolsSpec, RelaySpec, ControllerSpec

(* The driver that is picked keeps its types.                              *)
THEOREM ToolsTyped == ToolsSpec => []ToolsTypeOK
<1>1. RelayTypeOK /\ ControllerTypeOK => ToolsTypeOK
  BY DEF ToolsTypeOK
<1> QED
  BY DriversAreBehaviours, RelayTyped, ControllerTyped, <1>1, PTL
=============================================================================
