-------------------------------- MODULE Relay --------------------------------
(***************************************************************************)
(* The relay (packages/cli/src/commands/relay.ts): one process at a time   *)
(* carries a plan's batches between an implementer and a reviewer.  Its    *)
(* state is a row per run, an append-only event log and a lease that is    *)
(* the pid of the process at work; what to do next is read off the last    *)
(* logged exchange.                                                        *)
(*                                                                         *)
(* Processes read the row, check the lease and take it in separate         *)
(* statements, work on the copy of the row they read, and may die at any   *)
(* point.  Conversations, prompts and notes are left out; a retry may be   *)
(* attempted any number of times.  Every start has a pid of its own, so    *)
(* the number of pids bounds the starts of a behaviour.                    *)
(***************************************************************************)
EXTENDS Naturals

CONSTANTS
  TotalBatches,   \* batches of the plan
  StartBatch,
  ReviewFrom,     \* batches from here on open at the reviewer
  CycleCap,       \* --max-cycles
  MaxCap,         \* bound: the cap after all cycles the operator granted
  RelayProcess,   \* pids
  NoWorker, NoEvent

ASSUME RelayAssumption ==
  /\ TotalBatches \in Nat /\ StartBatch \in 1..TotalBatches
  /\ ReviewFrom \in Nat
  /\ CycleCap \in Nat \ {0} /\ MaxCap \in Nat /\ CycleCap <= MaxCap
  /\ NoWorker \notin RelayProcess

VARIABLES
  relayRun,       \* the relay_runs row, but for the lease and the pause intent
  workerPid,      \* worker_pid
  pauseIntent,    \* pause_intent
  lastEvent,      \* the last PROMPT or RESPONSE of the log
  accepted,       \* batches with an advancing verdict that carries findings
  decisions,      \* the OPERATOR DECISION events
  lostAccept,     \* history: a process died between its accept and the prompt
  relayer         \* what each process is doing, and the row as it holds it

relayVars == <<relayRun, workerPid, pauseIntent, lastEvent, accepted, decisions,
               lostAccept, relayer>>

RelayBatch == StartBatch..TotalBatches

RelayStatus ==
  {"ACTIVE", "PAUSED_CYCLE_CAP", "PAUSED_UNCLEAR_VERDICT", "STOPPED", "COMPLETE"}

Row == [batch: RelayBatch, cycle: 1..MaxCap, maxCycles: 1..MaxCap, status: RelayStatus,
        advanceAfterResponse: BOOLEAN]

Role == {"IMPLEMENTER", "REVIEWER"}

Advancing == {"PROCEED", "COMPLETE"}

(* What a reply routes to: UNCLEAR has no single verdict, THIN advances    *)
(* with less than the floor of findings.                                   *)
Verdict == Advancing \cup {"FIX", "THIN", "UNCLEAR"}

RelayEvent ==
  [kind: {"PROMPT"}, role: Role, batch: RelayBatch, verdict: {"UNCLEAR"}]
  \cup [kind: {"RESPONSE"}, role: Role, batch: RelayBatch, verdict: Verdict]

ASSUME NoEventAssumption == NoEvent \notin RelayEvent

Decision == {"continue", "accept", "proceed"}

(* relay run works the row it inserted; relay resume acts on a pause first.*)
Command == {"run", "resume"} \cup Decision

RelayPCs == {"NEW", "GONE", "READ", "CLAIMING", "CLAIMED", "REREAD", "BOUNDARY", "SEND",
             "CALLING", "ADVANCE", "ADVANCED", "RELEASE"}

(* direct: the step is the operator's decision or re-ask, outside the loop.*)
Relayer == [pc: RelayPCs, command: Command, run: Row, holder: RelayProcess \cup {NoWorker},
            role: Role, direct: BOOLEAN]

RelayTypeOK ==
  /\ relayRun \in Row
  /\ workerPid \in RelayProcess \cup {NoWorker}
  /\ pauseIntent \in {"NONE", "NEXT_BOUNDARY", "BATCH_END"}
  /\ lastEvent \in RelayEvent \cup {NoEvent}
  /\ accepted \subseteq RelayBatch
  /\ decisions \subseteq RelayBatch \X Decision
  /\ lostAccept \in BOOLEAN
  /\ relayer \in [RelayProcess -> Relayer]

NewRun == [batch |-> StartBatch, cycle |-> 1, maxCycles |-> CycleCap, status |-> "ACTIVE",
           advanceAfterResponse |-> FALSE]

Fresh == [pc |-> "NEW", command |-> "resume", run |-> NewRun, holder |-> NoWorker,
          role |-> "IMPLEMENTER", direct |-> FALSE]

Ended == [Fresh EXCEPT !.pc = "GONE"]

(* relay run inserted the row and goes on in the foreground, or left the   *)
(* work to a detached resume.                                              *)
RelayInit ==
  /\ relayRun = NewRun
  /\ workerPid = NoWorker /\ pauseIntent = "NONE"
  /\ lastEvent = NoEvent /\ accepted = {} /\ decisions = {}
  /\ lostAccept = FALSE
  /\ relayer = [p \in RelayProcess |-> Fresh]
     \/ \E runner \in RelayProcess :
          relayer = [p \in RelayProcess |->
            IF p = runner THEN [Fresh EXCEPT !.pc = "READ", !.command = "run"] ELSE Fresh]

RelayAlive(p) == relayer[p].pc \notin {"NEW", "GONE"}

RunOf(p) == relayer[p].run

RelayAt(p, pc) == relayer[p].pc = pc

Goes(p, pc) == relayer' = [relayer EXCEPT ![p].pc = pc]

GoesWith(p, pc, run) == relayer' = [relayer EXCEPT ![p].pc = pc, ![p].run = run]

Exits(p) == relayer' = [relayer EXCEPT ![p] = Ended]

(* updateRun: the whole copy is written, then the process goes on with it. *)
Updates(p, pc, run) == relayRun' = run /\ GoesWith(p, pc, run)

(* callRole is next: its first write is the prompt.                        *)
Calls(p, role) == relayer' = [relayer EXCEPT ![p].pc = "SEND", ![p].role = role]

NoLease == UNCHANGED <<workerPid, pauseIntent>>
NoLog == UNCHANGED <<lastEvent, accepted, decisions, lostAccept>>

(***************************************************************************)
(* Starting: the row is read, then the lease, then it is claimed.          *)
(***************************************************************************)
ResumeReads(p, command) ==
  /\ RelayAt(p, "NEW") /\ relayRun.status # "COMPLETE"
  /\ relayer' = [relayer EXCEPT ![p] =
       [Fresh EXCEPT !.pc = "READ", !.command = command, !.run = relayRun]]
  /\ UNCHANGED relayRun /\ NoLease /\ NoLog

(* A dead holder is no holder.                                             *)
HolderAway == workerPid \notin {q \in RelayProcess : RelayAlive(q)}

ReadsHolder(p) ==
  /\ RelayAt(p, "READ") /\ HolderAway
  /\ relayer' = [relayer EXCEPT ![p].pc = "CLAIMING", ![p].holder = workerPid]
  /\ UNCHANGED relayRun /\ NoLease /\ NoLog

(* Seeded fault: the update does not pin the holder that was read.         *)
UnpinnedHolder(p) == TRUE

(* The update pins the holder that was read.                               *)
HolderPinned(p) == workerPid = relayer[p].holder

ClaimsRun(p) ==
  /\ RelayAt(p, "CLAIMING") /\ HolderPinned(p)
  /\ workerPid' = p /\ pauseIntent' = "NONE"
  /\ relayer' = [relayer EXCEPT ![p].pc = "CLAIMED", ![p].holder = NoWorker]
  /\ UNCHANGED relayRun /\ NoLog

(* An exit handler that finds the run ACTIVE files it as stopped.          *)
FiledAsStopped(run) == IF run.status = "ACTIVE" THEN [run EXCEPT !.status = "STOPPED"] ELSE run

(* relay run has its exit handler before it has the lease.                 *)
ClaimRefused(p) ==
  /\ \/ RelayAt(p, "READ") /\ ~HolderAway
     \/ RelayAt(p, "CLAIMING") /\ ~HolderPinned(p)
  /\ relayRun' = IF relayer[p].command = "run" THEN FiledAsStopped(relayRun) ELSE relayRun
  /\ Exits(p)
  /\ NoLease /\ NoLog

(* With --background, or without the decision a cycle-cap pause needs,     *)
(* the process leaves with the lease it just took.                         *)
LeavesClaimed(p) ==
  /\ RelayAt(p, "CLAIMED") /\ relayer[p].command # "run"
  /\ Exits(p)
  /\ UNCHANGED relayRun /\ NoLease /\ NoLog

(***************************************************************************)
(* What resume does before the loop.                                       *)
(***************************************************************************)
(* The decision is logged and consumes the pause in one transaction.       *)
DecisionApplied(decision, run) ==
  CASE decision = "continue" ->
         [run EXCEPT !.status = "ACTIVE", !.cycle = @ + 1, !.maxCycles = @ + 1]
    [] decision = "accept" ->
         [run EXCEPT !.status = "ACTIVE", !.advanceAfterResponse = TRUE]
    [] decision = "proceed" -> [run EXCEPT !.status = "ACTIVE"]

Decides(p) ==
  /\ RelayAt(p, "CLAIMED")
  /\ RunOf(p).status = "PAUSED_CYCLE_CAP" /\ relayer[p].command \in Decision
  /\ relayer[p].command = "continue" => RunOf(p).maxCycles < MaxCap
  /\ decisions' = decisions \cup {<<RunOf(p).batch, relayer[p].command>>}
  /\ LET run == DecisionApplied(relayer[p].command, RunOf(p)) IN
       /\ relayRun' = run
       /\ relayer' = [relayer EXCEPT ![p] =
            [@ EXCEPT !.run = run, !.direct = TRUE, !.role = "IMPLEMENTER",
                      !.pc = IF relayer[p].command = "proceed" THEN "ADVANCE" ELSE "SEND"]]
  /\ UNCHANGED <<lastEvent, accepted, lostAccept>> /\ NoLease

(* An unclear reply that is still the last word is routed as it stands     *)
(* when it can be, and its review prompt sent again when it cannot.        *)
ReconsidersReply(p) ==
  /\ RelayAt(p, "CLAIMED")
  /\ RunOf(p).status = "PAUSED_UNCLEAR_VERDICT" /\ relayer[p].command # "run"
  /\ lastEvent # NoEvent /\ lastEvent.kind = "RESPONSE"
  /\ LET run == [RunOf(p) EXCEPT !.status = "ACTIVE"] IN
       /\ relayRun' = run
       /\ relayer' = [relayer EXCEPT ![p] =
            [@ EXCEPT !.run = run, !.direct = TRUE, !.role = "REVIEWER",
                      !.pc = IF lastEvent.verdict \in Advancing \cup {"FIX"}
                             THEN "REREAD" ELSE "SEND"]]
  /\ NoLease /\ NoLog

NothingToDecide(p) ==
  /\ RelayAt(p, "CLAIMED") /\ relayer[p].command # "run"
  /\ \/ RunOf(p).status \in {"ACTIVE", "STOPPED"}
     \/ /\ RunOf(p).status = "PAUSED_UNCLEAR_VERDICT"
        /\ lastEvent # NoEvent => lastEvent.kind = "PROMPT"
  /\ Goes(p, "REREAD")
  /\ UNCHANGED relayRun /\ NoLease /\ NoLog

(* The loop starts from the row as it is now, relay run from its own copy. *)
EntersLoop(p) ==
  \/ /\ RelayAt(p, "REREAD") /\ relayRun.status # "COMPLETE"
     /\ relayRun' = [relayRun EXCEPT !.status = "ACTIVE"]
     /\ relayer' = [relayer EXCEPT ![p].pc = "BOUNDARY", ![p].run = relayRun',
                                   ![p].direct = FALSE]
     /\ NoLease /\ NoLog
  \/ /\ RelayAt(p, "CLAIMED") /\ relayer[p].command = "run"
     /\ Updates(p, "BOUNDARY", [RunOf(p) EXCEPT !.status = "ACTIVE"])
     /\ NoLease /\ NoLog

FindsComplete(p) ==
  /\ RelayAt(p, "REREAD") /\ relayRun.status = "COMPLETE"
  /\ Goes(p, "RELEASE")
  /\ UNCHANGED relayRun /\ NoLease /\ NoLog

(***************************************************************************)
(* A call.                                                                 *)
(***************************************************************************)
(* A conversation that was interrupted, or is another adapter's, is        *)
(* cleared first, which writes the whole copy.                             *)
MayWriteCopy(p) == UNCHANGED relayRun \/ relayRun' = RunOf(p)

SendsPrompt(p) ==
  /\ RelayAt(p, "SEND") /\ MayWriteCopy(p)
  /\ lastEvent' = [kind |-> "PROMPT", role |-> relayer[p].role, batch |-> RunOf(p).batch,
                   verdict |-> "UNCLEAR"]
  /\ Goes(p, "CALLING")
  /\ UNCHANGED <<accepted, decisions, lostAccept>> /\ NoLease

AfterStep(p) == IF relayer[p].direct THEN "REREAD" ELSE "BOUNDARY"

RecordsResponse(p, verdict) ==
  /\ RelayAt(p, "CALLING")
  /\ relayer[p].role = "IMPLEMENTER" => verdict = "UNCLEAR"
  /\ lastEvent' = [kind |-> "RESPONSE", role |-> relayer[p].role, batch |-> RunOf(p).batch,
                   verdict |-> verdict]
  /\ accepted' = IF verdict \in Advancing THEN accepted \cup {RunOf(p).batch} ELSE accepted
  /\ Updates(p, AfterStep(p), RunOf(p))
  /\ UNCHANGED <<decisions, lostAccept>> /\ NoLease

(* The loop tries a failed call again, from the row as it is now, until    *)
(* its attempts are used up; a call outside the loop is not retried.  A    *)
(* refused resume clears the conversation, and with it writes the copy.    *)
CallRetried(p) ==
  /\ RelayAt(p, "CALLING") /\ ~relayer[p].direct
  /\ \E read \in {relayRun, RunOf(p)} :
       Updates(p, "BOUNDARY", [read EXCEPT !.status = "ACTIVE"])
  /\ NoLease /\ NoLog

Pauses(p, run, status) == Updates(p, "RELEASE", [run EXCEPT !.status = status])

CallGivenUp(p) ==
  /\ RelayAt(p, "CALLING")
  /\ Pauses(p, RunOf(p), "STOPPED")
  /\ NoLease /\ NoLog

(***************************************************************************)
(* The boundary between two calls.                                         *)
(***************************************************************************)
StopsOnSignal(p) ==
  /\ RelayAt(p, "BOUNDARY")
  /\ Pauses(p, RunOf(p), "STOPPED")
  /\ NoLease /\ NoLog

StopsOnIntent(p) ==
  /\ RelayAt(p, "BOUNDARY") /\ pauseIntent = "NEXT_BOUNDARY"
  /\ pauseIntent' = "NONE"
  /\ Pauses(p, RunOf(p), "STOPPED")
  /\ UNCHANGED workerPid /\ NoLog

(* Past the two stops, the last exchange decides.                          *)
Steps(p) == RelayAt(p, "BOUNDARY") /\ pauseIntent # "NEXT_BOUNDARY"

(* Seeded fault: a batch is unopened only while the log is empty.          *)
UnopenedAtStart(p) == lastEvent = NoEvent

BatchUnopened(p) == lastEvent # NoEvent => lastEvent.batch < RunOf(p).batch

OpensBatch(p) ==
  /\ Steps(p) /\ BatchUnopened(p)
  /\ Calls(p, IF RunOf(p).batch >= ReviewFrom THEN "REVIEWER" ELSE "IMPLEMENTER")
  /\ UNCHANGED relayRun /\ NoLease /\ NoLog

ResendsPrompt(p) ==
  /\ Steps(p) /\ ~BatchUnopened(p) /\ lastEvent.kind = "PROMPT"
  /\ Calls(p, lastEvent.role)
  /\ UNCHANGED relayRun /\ NoLease /\ NoLog

Replied(p, role) ==
  /\ Steps(p) /\ ~BatchUnopened(p)
  /\ lastEvent.kind = "RESPONSE" /\ lastEvent.role = role

ForwardsToReviewer(p) ==
  /\ Replied(p, "IMPLEMENTER") /\ ~RunOf(p).advanceAfterResponse
  /\ Calls(p, "REVIEWER")
  /\ UNCHANGED relayRun /\ NoLease /\ NoLog

PendingConsumed(run) == [run EXCEPT !.advanceAfterResponse = FALSE]

ClosesAccepted(p) ==
  /\ Replied(p, "IMPLEMENTER") /\ RunOf(p).advanceAfterResponse
  /\ GoesWith(p, "ADVANCE", PendingConsumed(RunOf(p)))
  /\ UNCHANGED relayRun /\ NoLease /\ NoLog

PausesUnclear(p) ==
  /\ Replied(p, "REVIEWER") /\ lastEvent.verdict \in {"UNCLEAR", "THIN"}
  /\ Pauses(p, RunOf(p), "PAUSED_UNCLEAR_VERDICT")
  /\ NoLease /\ NoLog

CompletesPlan(p) ==
  /\ Replied(p, "REVIEWER") /\ lastEvent.verdict = "COMPLETE"
  /\ Pauses(p, RunOf(p), "COMPLETE")
  /\ NoLease /\ NoLog

ProceedsToNext(p) ==
  /\ Replied(p, "REVIEWER") /\ lastEvent.verdict = "PROCEED"
  /\ Goes(p, "ADVANCE")
  /\ UNCHANGED relayRun /\ NoLease /\ NoLog

PausesAtCap(p) ==
  /\ Replied(p, "REVIEWER") /\ lastEvent.verdict = "FIX"
  /\ RunOf(p).cycle >= RunOf(p).maxCycles
  /\ Pauses(p, RunOf(p), "PAUSED_CYCLE_CAP")
  /\ NoLease /\ NoLog

(* The cycle is counted before its prompt is sent.                         *)
OpensFixCycle(p) ==
  /\ Replied(p, "REVIEWER") /\ lastEvent.verdict = "FIX"
  /\ RunOf(p).cycle < RunOf(p).maxCycles
  /\ LET run == [RunOf(p) EXCEPT !.cycle = @ + 1] IN
       /\ relayRun' = run
       /\ relayer' = [relayer EXCEPT ![p].pc = "SEND", ![p].role = "IMPLEMENTER", ![p].run = run]
  /\ NoLease /\ NoLog

(***************************************************************************)
(* advanceBatch: the row first, then the pause at the end of a batch.      *)
(***************************************************************************)
AdvancesLast(p) ==
  /\ RelayAt(p, "ADVANCE") /\ RunOf(p).batch >= TotalBatches
  /\ relayRun' = [RunOf(p) EXCEPT !.status = "COMPLETE"]
  /\ GoesWith(p, IF relayer[p].direct THEN "REREAD" ELSE "RELEASE", relayRun')
  /\ NoLease /\ NoLog

AdvancesBatch(p) ==
  /\ RelayAt(p, "ADVANCE") /\ RunOf(p).batch < TotalBatches
  /\ Updates(p, "ADVANCED", [RunOf(p) EXCEPT !.batch = @ + 1, !.cycle = 1])
  /\ NoLease /\ NoLog

StopsAtBatchEnd(p) ==
  /\ RelayAt(p, "ADVANCED") /\ pauseIntent = "BATCH_END"
  /\ pauseIntent' = "NONE"
  /\ relayRun' = [RunOf(p) EXCEPT !.status = "STOPPED"]
  /\ GoesWith(p, IF relayer[p].direct THEN "REREAD" ELSE "RELEASE", relayRun')
  /\ UNCHANGED workerPid /\ NoLog

GoesOnAfterBatch(p) ==
  /\ RelayAt(p, "ADVANCED") /\ pauseIntent # "BATCH_END"
  /\ Goes(p, AfterStep(p))
  /\ UNCHANGED relayRun /\ NoLease /\ NoLog

(***************************************************************************)
(* Ending.                                                                 *)
(***************************************************************************)
ReleasesRun(p) ==
  /\ RelayAt(p, "RELEASE")
  /\ workerPid' = IF workerPid = p THEN NoWorker ELSE workerPid
  /\ Exits(p)
  /\ UNCHANGED <<relayRun, pauseIntent>> /\ NoLog

AcceptUnsent(p) ==
  /\ RelayAt(p, "SEND") /\ relayer[p].direct
  /\ relayer[p].command = "accept" /\ relayer[p].role = "IMPLEMENTER"

(* SIGKILL leaves nothing behind; any other death files the run, once the  *)
(* exit handler is there.                                                  *)
HandlesExit(p) == relayer[p].command = "run" \/ relayer[p].pc \notin {"READ", "CLAIMING"}

RelayDies(p) ==
  /\ RelayAlive(p)
  /\ UNCHANGED relayRun \/ (HandlesExit(p) /\ relayRun' = FiledAsStopped(relayRun))
  /\ lostAccept' = (lostAccept \/ AcceptUnsent(p))
  /\ Exits(p)
  /\ UNCHANGED <<lastEvent, accepted, decisions>> /\ NoLease

(* relay pause: the intent for a live holder, the lease of a dead one.     *)
PauseRequested(intent) ==
  /\ workerPid # NoWorker /\ RelayAlive(workerPid)
  /\ pauseIntent' = intent
  /\ UNCHANGED <<relayRun, workerPid, relayer>> /\ NoLog

PauseClearsLease ==
  /\ workerPid # NoWorker /\ ~RelayAlive(workerPid)
  /\ workerPid' = NoWorker
  /\ UNCHANGED <<relayRun, pauseIntent, relayer>> /\ NoLog

(***************************************************************************)
(* The specification.                                                      *)
(***************************************************************************)
RelayProcessStep(p) ==
  \/ \E c \in Command \ {"run"} : ResumeReads(p, c)
  \/ ReadsHolder(p) \/ ClaimsRun(p) \/ ClaimRefused(p) \/ LeavesClaimed(p)
  \/ Decides(p) \/ ReconsidersReply(p) \/ NothingToDecide(p)
  \/ EntersLoop(p) \/ FindsComplete(p)
  \/ SendsPrompt(p) \/ (\E v \in Verdict : RecordsResponse(p, v))
  \/ CallRetried(p) \/ CallGivenUp(p)
  \/ StopsOnSignal(p) \/ StopsOnIntent(p)
  \/ OpensBatch(p) \/ ResendsPrompt(p) \/ ForwardsToReviewer(p) \/ ClosesAccepted(p)
  \/ PausesUnclear(p) \/ CompletesPlan(p) \/ ProceedsToNext(p)
  \/ PausesAtCap(p) \/ OpensFixCycle(p)
  \/ AdvancesLast(p) \/ AdvancesBatch(p) \/ StopsAtBatchEnd(p) \/ GoesOnAfterBatch(p)
  \/ ReleasesRun(p) \/ RelayDies(p)

RelayNext ==
  \/ \E p \in RelayProcess : RelayProcessStep(p)
  \/ \E i \in {"NEXT_BOUNDARY", "BATCH_END"} : PauseRequested(i)
  \/ PauseClearsLease

RelaySpec == RelayInit /\ [][RelayNext]_relayVars

(***************************************************************************)
(* Properties.                                                             *)
(***************************************************************************)
Working(p) == relayer[p].pc \notin {"NEW", "GONE", "READ", "CLAIMING"}

(* claimRelayWorker: two live processes never work one run, whatever the   *)
(* order in which they read the row, find the holder dead, claim, die and  *)
(* start again; and the lease names the one that does.                     *)
SoleRelayWorker == \A p \in RelayProcess : Working(p) => workerPid = p

BatchLeft(b) == b < relayRun.batch \/ (b = relayRun.batch /\ relayRun.status = "COMPLETE")

Grounded(b) == b \in accepted \/ <<b, "accept">> \in decisions \/ <<b, "proceed">> \in decisions

(* Advancing is the irreversible act of the relay: a batch is left only on *)
(* a reviewer's advancing verdict with findings on that batch, or on the   *)
(* operator's accept or proceed of that batch, through crashes, retries,   *)
(* takeovers and decisions applied to a stale copy of the row.  The one    *)
(* way around it is an accept whose process died before it sent the prompt.*)
AdvancesOnGrounds == \A b \in RelayBatch : BatchLeft(b) => Grounded(b) \/ lostAccept

=============================================================================
