----------------------------- MODULE RunnerStages -----------------------------
(* The stages one batch passes under the autonomous runner: runBatch of    *)
(* review-workflow-runner/service.ts over the phases the command line      *)
(* gives it.  WorkflowRunner shows that one worker runs at a time; here    *)
(* that worker may die, be paused or be stopped anywhere, and its          *)
(* successor finds its way by the state of the batch, the evidence and the *)
(* counters of the runner row.                                             *)
EXTENDS Naturals, FiniteSets

CONSTANTS
  MaxReviews,       \* code reviews of a batch, before grants
  MaxPasses,       \* correction passes, before grants
  MaxAttempts,     \* runs of one verification command
  Checks,          \* number of verification commands of the plan
  MaxGrants        \* bound: fix_again decisions that resume the batch

ASSUME StagesAssumption ==
  /\ {MaxReviews, MaxPasses, MaxAttempts, Checks} \subseteq Nat \ {0}
  /\ MaxGrants \in Nat

VARIABLES
  batchState,  \* persisted state, and where a blocked batch resumes
  evidence,    \* what events, records, reviews and audits prove
  counters,    \* of the runner row
  runRow,      \* status of the workflow
  worker       \* of the process that holds the lease

stageVars == <<batchState, evidence, counters, runRow, worker>>

WorkStates ==
  {"APPROVED_FOR_IMPLEMENTATION", "IMPLEMENTING", "AWAITING_COMMIT", "IMPLEMENTATION_COMPLETE",
   "NEEDS_REVISION", "VERIFYING", "APPROVED_FOR_MERGE"}

StoredBatch == [at: WorkStates \cup {"BLOCKED"}, resumes: WorkStates]

Evidence ==
  [reviews: 0..(MaxReviews + MaxGrants),      \* CODE_REVIEW_STARTED
   ready: 0..(1 + MaxPasses + MaxGrants),    \* IMPLEMENTATION_READY
   grants: 0..MaxGrants,                     \* BATCH_RESUMED with a grant
   disposed: BOOLEAN,                        \* the last blockers have dispositions
   approved: BOOLEAN,                        \* an approved code review
   accepted: SUBSET (1..Checks),             \* attested verification commands
   audit: {"NONE", "APPROVED", "NEEDS_REVISION"}]

Counters ==
  [rounds: 0..(MaxReviews + MaxGrants), passes: 0..(MaxPasses + MaxGrants),
   attempts: [1..Checks -> 0..MaxAttempts], audits: {0, 1}]

RowRecord ==
  [status: {"RUNNING", "PAUSE_REQUESTED", "PAUSED", "STOPPED", "FINISHED"},
   reason: {"NONE", "FAILED", "REFUSED", "BLOCKED", "REVIEW_LIMIT", "VERIFICATION_LIMIT",
            "AUDIT_LIMIT"}]

Stages ==
  {"ENTER", "IMPLEMENT", "REVIEW_LOOP", "REVIEW", "JUDGE", "CORRECT", "VERIFY_LOOP", "VERIFY",
   "AUDIT_ONCE", "AUDIT", "GATE", "PUSH"}

(* ran: the command of this attempt has been executed.                     *)
Worker ==
  [pc: Stages \cup {"NONE"}, inPhase: BOOLEAN, round: 0..(MaxReviews + MaxGrants + 1),
   check: 1..Checks, attempt: 0..(MaxAttempts + 1), ran: BOOLEAN, pass: BOOLEAN]

StagesTypeOK ==
  /\ batchState \in StoredBatch
  /\ evidence \in Evidence
  /\ counters \in Counters
  /\ runRow \in RowRecord
  /\ worker \in Worker

NoWorkerHere ==
  [pc |-> "NONE", inPhase |-> FALSE, round |-> 0, check |-> 1, attempt |-> 0, ran |-> FALSE,
   pass |-> FALSE]

StagesInit ==
  /\ batchState = [at |-> "APPROVED_FOR_IMPLEMENTATION", resumes |-> "IMPLEMENTING"]
  /\ evidence = [reviews |-> 0, ready |-> 0, grants |-> 0, disposed |-> TRUE, approved |-> FALSE,
                 accepted |-> {}, audit |-> "NONE"]
  /\ counters = [rounds |-> 0, passes |-> 0, attempts |-> [c \in 1..Checks |-> 0], audits |-> 0]
  /\ runRow = [status |-> "RUNNING", reason |-> "NONE"]
  /\ worker = NoWorkerHere

RoundLimit == MaxReviews + evidence.grants
PassLimit == MaxPasses + evidence.grants

(***************************************************************************)
(* The worker between its phases.                                          *)
(***************************************************************************)
AtStage(pc) == worker.pc = pc /\ ~worker.inPhase

InStage(pc) == worker.pc = pc /\ worker.inPhase

GoesTo(pc) == worker' = [worker EXCEPT !.pc = pc, !.inPhase = FALSE]

batchVars == <<batchState, evidence>>

StopsWith(reason) ==
  /\ runRow' = [status |-> "STOPPED", reason |-> reason]
  /\ worker' = NoWorkerHere

StageBegins ==
  /\ worker.pc = "NONE" /\ runRow.status = "RUNNING"
  /\ worker' = [NoWorkerHere EXCEPT !.pc = "ENTER"]
  /\ UNCHANGED <<batchVars, counters, runRow>>

(* A worker may die at any time; a second signal kills it too.             *)
WorkerDies ==
  /\ worker.pc # "NONE" /\ worker' = NoWorkerHere
  /\ UNCHANGED <<batchVars, counters, runRow>>

(* resumeStage: the state of the batch names the stage.                    *)
ResumeStage(state) ==
  CASE state \in {"APPROVED_FOR_IMPLEMENTATION", "IMPLEMENTING", "AWAITING_COMMIT"} -> "IMPLEMENT"
    [] state \in {"IMPLEMENTATION_COMPLETE", "NEEDS_REVISION"} -> "REVIEW_LOOP"
    [] state = "VERIFYING" -> "VERIFY_LOOP"
    [] state = "APPROVED_FOR_MERGE" -> "PUSH"

(* syncPacing: the events are the authority on rounds and passes.          *)
Synced ==
  [counters EXCEPT !.rounds = evidence.reviews,
                   !.passes = IF evidence.ready = 0 THEN 0 ELSE evidence.ready - 1]

EntersStage ==
  /\ AtStage("ENTER") /\ batchState.at # "BLOCKED"
  /\ GoesTo(ResumeStage(batchState.at))
  /\ UNCHANGED <<batchVars, counters, runRow>>

FindsBlocked ==
  /\ AtStage("ENTER") /\ batchState.at = "BLOCKED"
  /\ StopsWith("BLOCKED")
  /\ UNCHANGED <<batchVars, counters>>

(* The stages whose next step is a phase of their own.                     *)
Boundaries == {"IMPLEMENT", "REVIEW", "CORRECT", "VERIFY", "AUDIT", "GATE", "PUSH"}

PhaseBegins ==
  /\ \E pc \in Boundaries : AtStage(pc)
  /\ runRow.status = "RUNNING"
  /\ worker' = [worker EXCEPT !.inPhase = TRUE, !.ran = FALSE]
  /\ UNCHANGED <<batchVars, counters, runRow>>

(* A pause is noticed only here, after the counter of the phase was        *)
(* raised.                                                                 *)
PausesAtBoundary ==
  /\ \E pc \in Boundaries : AtStage(pc)
  /\ runRow.status = "PAUSE_REQUESTED"
  /\ runRow' = [runRow EXCEPT !.status = "PAUSED"] /\ worker' = NoWorkerHere
  /\ UNCHANGED <<batchVars, counters>>

(* Budgets of time, tokens, cost and progress, the repository invariants   *)
(* around a phase, and an agent whose outcome is unknown.                  *)
BudgetStops ==
  /\ worker.pc # "NONE" /\ ~worker.inPhase
  /\ StopsWith("FAILED") /\ UNCHANGED <<batchVars, counters>>

(* An agent, a command or a service failed, or a receipt is in the way.    *)
PhaseFails ==
  /\ worker.inPhase
  /\ StopsWith("FAILED") /\ UNCHANGED <<batchVars, counters>>

(* SAFE_BLOCKED_RESUME_STATES, for the states an agent works in.           *)
ContinuityBreaks ==
  /\ \E pc \in {"IMPLEMENT", "CORRECT", "REVIEW"} : InStage(pc)
  /\ batchState.at \in {"IMPLEMENTING", "IMPLEMENTATION_COMPLETE", "NEEDS_REVISION"}
  /\ batchState' = [at |-> "BLOCKED", resumes |-> batchState.at]
  /\ StopsWith("FAILED") /\ UNCHANGED <<evidence, counters>>

(***************************************************************************)
(* Implementation and correction.                                          *)
(***************************************************************************)
MovesTo(state) == batchState' = [batchState EXCEPT !.at = state]

Implementing == InStage("IMPLEMENT") \/ InStage("CORRECT")

(* start, or resume for a correction pass.                                 *)
StartsImplementing ==
  /\ \/ InStage("IMPLEMENT") /\ batchState.at = "APPROVED_FOR_IMPLEMENTATION"
     \/ InStage("CORRECT") /\ batchState.at = "NEEDS_REVISION" /\ evidence.ready < 1 + PassLimit
  /\ MovesTo("IMPLEMENTING")
  /\ UNCHANGED <<evidence, counters, runRow, worker>>

WorkReady ==
  /\ Implementing /\ batchState.at = "IMPLEMENTING" /\ evidence.ready < 1 + MaxPasses
  /\ MovesTo("AWAITING_COMMIT")
  /\ evidence' = [evidence EXCEPT !.ready = @ + 1]
  /\ UNCHANGED <<counters, runRow, worker>>

WorkCompletes ==
  /\ Implementing /\ batchState.at = "AWAITING_COMMIT"
  /\ MovesTo("IMPLEMENTATION_COMPLETE")
  /\ IF worker.pc = "IMPLEMENT" THEN GoesTo("REVIEW_LOOP") ELSE UNCHANGED worker
  /\ UNCHANGED <<evidence, counters, runRow>>

(* The implementer's dispositions end a correction pass.                   *)
DispositionsSubmitted ==
  /\ InStage("CORRECT") /\ batchState.at = "IMPLEMENTATION_COMPLETE"
  /\ evidence' = [evidence EXCEPT !.disposed = TRUE]
  /\ GoesTo("REVIEW_LOOP")
  /\ UNCHANGED <<batchState, counters, runRow>>

(***************************************************************************)
(* Code review.  worker.round is 0 until the loop is entered.              *)
(***************************************************************************)
NextRound == (IF worker.round = 0 THEN Synced.rounds ELSE worker.round) + 1

EntersRound ==
  /\ AtStage("REVIEW_LOOP") /\ NextRound <= RoundLimit
  /\ counters' = [(IF worker.round = 0 THEN Synced ELSE counters) EXCEPT !.rounds = NextRound]
  /\ worker' = [worker EXCEPT !.pc = "REVIEW", !.round = NextRound]
  /\ UNCHANGED <<batchVars, runRow>>

(* What the review service asks of a batch before it invokes.              *)
Reviewable ==
  /\ batchState.at = "IMPLEMENTATION_COMPLETE"
  /\ evidence.reviews < RoundLimit
  /\ evidence.disposed

ReviewRefused ==
  /\ InStage("REVIEW") /\ ~Reviewable
  /\ StopsWith("REFUSED") /\ UNCHANGED <<batchVars, counters>>

RoundApproves ==
  /\ InStage("REVIEW") /\ Reviewable
  /\ MovesTo("VERIFYING")
  /\ evidence' = [evidence EXCEPT !.reviews = @ + 1, !.approved = TRUE]
  /\ GoesTo("VERIFY_LOOP")
  /\ UNCHANGED <<counters, runRow>>

(* correctionAvailable: without it the decision blocks the batch as well.  *)
CorrectionAvailable ==
  evidence.reviews + 1 < RoundLimit /\ evidence.ready < 1 + PassLimit

RoundRejects ==
  /\ InStage("REVIEW") /\ Reviewable
  /\ batchState' = IF CorrectionAvailable THEN [batchState EXCEPT !.at = "NEEDS_REVISION"]
                   ELSE [at |-> "BLOCKED", resumes |-> "NEEDS_REVISION"]
  /\ evidence' = [evidence EXCEPT !.reviews = @ + 1, !.disposed = FALSE]
  /\ GoesTo("JUDGE")
  /\ UNCHANGED <<counters, runRow>>

EntersPass ==
  /\ AtStage("JUDGE") /\ counters.passes < PassLimit /\ worker.round < RoundLimit
  /\ counters' = [counters EXCEPT !.passes = @ + 1]
  /\ GoesTo("CORRECT")
  /\ UNCHANGED <<batchVars, runRow>>

(* The loop and the judgement after a rejection end at their limits; the  *)
(* review service, which blocks the batch in time, leaves the first to the *)
(* second.                                                                 *)
LimitReached ==
  \/ AtStage("REVIEW_LOOP") /\ NextRound > RoundLimit
  \/ AtStage("JUDGE") /\ ~(counters.passes < PassLimit /\ worker.round < RoundLimit)

RoundsExhausted ==
  /\ LimitReached
  /\ counters' = IF worker.round = 0 THEN Synced ELSE counters
  /\ StopsWith("REVIEW_LIMIT")
  /\ UNCHANGED batchVars

(***************************************************************************)
(* Verification.  worker.attempt is 0 until a command's loop is entered.   *)
(***************************************************************************)
NextAttempt ==
  (IF worker.attempt = 0 THEN counters.attempts[worker.check] ELSE worker.attempt) + 1

EntersAttempt ==
  /\ AtStage("VERIFY_LOOP") /\ NextAttempt <= MaxAttempts
  /\ counters' = [counters EXCEPT !.attempts[worker.check] = NextAttempt]
  /\ worker' = [worker EXCEPT !.pc = "VERIFY", !.attempt = NextAttempt]
  /\ UNCHANGED <<batchVars, runRow>>

AttemptsExhausted ==
  /\ AtStage("VERIFY_LOOP") /\ NextAttempt > MaxAttempts
  /\ StopsWith("VERIFICATION_LIMIT") /\ UNCHANGED <<batchVars, counters>>

(* Seeded fault: every restart runs the command again.                     *)
NeverVerified(check) == FALSE

(* An accepted record is not made twice.                                   *)
AlreadyVerified(check) == check \in evidence.accepted

(* After a command: the next one, or the audit.                            *)
Verified ==
  worker' = IF worker.check < Checks
            THEN [worker EXCEPT !.pc = "VERIFY_LOOP", !.inPhase = FALSE, !.check = @ + 1,
                                !.attempt = 0]
            ELSE [worker EXCEPT !.pc = "AUDIT_ONCE", !.inPhase = FALSE]

FindsVerified ==
  /\ InStage("VERIFY") /\ AlreadyVerified(worker.check)
  /\ Verified
  /\ UNCHANGED <<batchVars, counters, runRow>>

(* executeVerification asks for an approved code review.                   *)
RunsCommand ==
  /\ InStage("VERIFY") /\ ~AlreadyVerified(worker.check) /\ ~worker.ran
  /\ batchState.at = "VERIFYING" /\ evidence.approved
  /\ \E pass \in BOOLEAN : worker' = [worker EXCEPT !.ran = TRUE, !.pass = pass]
  /\ UNCHANGED <<batchVars, counters, runRow>>

(* The reviewer assesses what succeeded, and attests it.                   *)
Attests ==
  /\ InStage("VERIFY") /\ worker.ran /\ worker.pass
  /\ evidence' = [evidence EXCEPT !.accepted = @ \cup {worker.check}]
  /\ Verified
  /\ UNCHANGED <<batchState, counters, runRow>>

NotAccepted ==
  /\ InStage("VERIFY") /\ worker.ran
  /\ GoesTo("VERIFY_LOOP")
  /\ UNCHANGED <<batchVars, counters, runRow>>

(***************************************************************************)
(* Audit, gate and push.                                                   *)
(***************************************************************************)
CountsAudit ==
  /\ AtStage("AUDIT_ONCE") /\ counters.audits = 0
  /\ counters' = [counters EXCEPT !.audits = @ + 1]
  /\ GoesTo("AUDIT")
  /\ UNCHANGED <<batchVars, runRow>>

AuditsExhausted ==
  /\ AtStage("AUDIT_ONCE") /\ counters.audits = 1
  /\ StopsWith("AUDIT_LIMIT") /\ UNCHANGED <<batchVars, counters>>

(* A persisted verdict rules; a fresh rejection blocks the batch.          *)
Verdicts ==
  IF evidence.audit # "NONE" THEN {evidence.audit}
  ELSE IF batchState.at = "VERIFYING" /\ evidence.approved THEN {"APPROVED", "NEEDS_REVISION"}
  ELSE {}

Audits ==
  /\ InStage("AUDIT")
  /\ \E verdict \in Verdicts :
       /\ evidence' = [evidence EXCEPT !.audit = verdict]
       /\ batchState' = IF verdict \in {"APPROVED", evidence.audit} THEN batchState
                        ELSE [at |-> "BLOCKED", resumes |-> "VERIFYING"]
       /\ IF verdict = "APPROVED" THEN GoesTo("GATE") /\ UNCHANGED runRow ELSE StopsWith("FAILED")
  /\ UNCHANGED counters

GatePasses ==
  /\ InStage("GATE") /\ batchState.at = "VERIFYING"
  /\ evidence.approved /\ evidence.audit = "APPROVED" /\ evidence.accepted = 1..Checks
  /\ MovesTo("APPROVED_FOR_MERGE") /\ GoesTo("PUSH")
  /\ UNCHANGED <<evidence, counters, runRow>>

BranchPushed ==
  /\ InStage("PUSH")
  /\ runRow' = [runRow EXCEPT !.status = "FINISHED"] /\ worker' = NoWorkerHere
  /\ UNCHANGED <<batchVars, counters>>

(***************************************************************************)
(* The operator.  What decide records and the next worker consumes is one  *)
(* step here: WorkflowRunner shows it is applied once.                     *)
(***************************************************************************)
PauseRequested ==
  /\ runRow.status = "RUNNING"
  /\ runRow' = [runRow EXCEPT !.status = IF worker.pc = "NONE" THEN "PAUSED" ELSE "PAUSE_REQUESTED"]
  /\ UNCHANGED <<batchVars, counters, worker>>

(* A pause of a worker that died meanwhile is settled by the command.      *)
PauseSettled ==
  /\ runRow.status = "PAUSE_REQUESTED" /\ worker.pc = "NONE"
  /\ runRow' = [runRow EXCEPT !.status = "PAUSED"]
  /\ UNCHANGED <<batchVars, counters, worker>>

Resumed ==
  /\ runRow.status = "PAUSED"
  /\ runRow' = [runRow EXCEPT !.status = "RUNNING"]
  /\ UNCHANGED <<batchVars, counters, worker>>

RunsAgain == runRow' = [status |-> "RUNNING", reason |-> "NONE"]

(* fix_again: a blocked batch resumes, with one more round and pass.       *)
FixAgainDecided ==
  /\ runRow.status = "STOPPED"
  /\ \/ batchState.at # "BLOCKED" /\ UNCHANGED batchVars
     \/ /\ batchState.at = "BLOCKED" /\ evidence.grants < MaxGrants
        /\ MovesTo(batchState.resumes)
        /\ evidence' = [evidence EXCEPT !.grants = @ + 1]
  /\ RunsAgain
  /\ UNCHANGED <<counters, worker>>

(* accept_risk: out of a blocked batch, then past its rejected review.     *)
RiskAccepted ==
  /\ runRow.status = "STOPPED"
  /\ LET state == IF batchState.at = "BLOCKED" THEN batchState.resumes ELSE batchState.at IN
       /\ state \in {"NEEDS_REVISION", "IMPLEMENTATION_COMPLETE"}
       /\ MovesTo("VERIFYING")
  /\ RunsAgain
  /\ UNCHANGED <<evidence, counters, worker>>

(***************************************************************************)
(* The specification.                                                      *)
(***************************************************************************)
ReviewStep ==
  \/ EntersRound \/ RoundsExhausted \/ ReviewRefused \/ RoundApproves \/ RoundRejects
  \/ EntersPass
  \/ StartsImplementing \/ WorkReady \/ WorkCompletes \/ DispositionsSubmitted

GateStep ==
  \/ EntersAttempt \/ AttemptsExhausted \/ FindsVerified \/ RunsCommand \/ Attests \/ NotAccepted
  \/ CountsAudit \/ AuditsExhausted \/ Audits \/ GatePasses \/ BranchPushed

StagesNext ==
  \/ StageBegins \/ WorkerDies \/ EntersStage \/ FindsBlocked \/ PhaseBegins \/ PausesAtBoundary
  \/ BudgetStops \/ PhaseFails \/ ContinuityBreaks
  \/ ReviewStep \/ GateStep
  \/ PauseRequested \/ PauseSettled \/ Resumed \/ FixAgainDecided \/ RiskAccepted

StagesSpec == StagesInit /\ [][StagesNext]_stageVars

(***************************************************************************)
(* Properties.                                                             *)
(***************************************************************************)
(* Completed implementations, verifications and audits are never made      *)
(* again (autonomous-runner document, Recovery), whatever dies, pauses,    *)
(* stops and resumes: an attested command is not executed, an audited or   *)
(* verifying batch not reviewed, a complete one not implemented again      *)
(* before a review rejected it.                                            *)
CompletedNeverRepeated ==
  [][/\ worker'.ran /\ ~worker.ran => worker.check \notin evidence.accepted
     /\ evidence.audit # "NONE" => evidence'.audit = evidence.audit
     /\ evidence.approved => evidence'.reviews = evidence.reviews
     /\ evidence'.ready # evidence.ready => evidence.ready <= evidence.reviews]_stageVars

(* The document on pauses: every counter stays as it was, and the workflow *)
(* goes on from the next unfinished action.  So the single final audit is  *)
(* used up by an audit only.                                               *)
AuditLimitMeansAudit ==
  runRow.reason = "AUDIT_LIMIT" => evidence.audit # "NONE"

(* The document on limits: fix_again resumes a blocked batch and extends   *)
(* the contract by one round and one pass.  So a granted pass is used      *)
(* before the next review is refused.                                      *)
GrantReachesCorrection ==
  runRow.reason = "REFUSED" /\ batchState.at = "NEEDS_REVISION" => evidence.grants = 0

=============================================================================
