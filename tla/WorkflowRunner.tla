--------------------------- MODULE WorkflowRunner ---------------------------
(***************************************************************************)
(* The autonomous runner (packages/core/src/review-workflow-runner): one   *)
(* durable row per workflow, and the processes that share it.  A worker    *)
(* acquires the row's lease, works through the batches phase by phase and  *)
(* renews the lease by heartbeats; commands of a human pause, resume,      *)
(* cancel and decide; observers write off a worker that has gone silent.   *)
(*                                                                         *)
(* Every method of the store is one SQL statement, and what a handler has  *)
(* read may be stale when it writes: each read that a later write depends  *)
(* on is a step of its own.  A worker id is never used twice.              *)
(*                                                                         *)
(* The outcome of a phase is chosen freely, which covers limits, budgets,  *)
(* repository invariants and drift; the columns that only report (phase,   *)
(* checkpoint, stop reason, notification) are left out.                    *)
(***************************************************************************)
EXTENDS Integers

CONSTANTS
  Process,      \* operating-system processes, workers and command lines alike
  Batches,      \* number of batches, frozen at refinement
  NoWorker,     \* worker_id IS NULL
  Launcher,     \* worker_id of a resume that is launching a worker
  Gone,         \* a worker id whose process has died
  MaxCrashes    \* bound: crashes in a behaviour

ASSUME RunnerAssumption ==
  /\ Batches \in Nat \ {0}
  /\ NoWorker \notin Process /\ Launcher \notin Process /\ Gone \notin Process
  /\ NoWorker # Launcher /\ NoWorker # Gone /\ Launcher # Gone
  /\ MaxCrashes \in Nat

VARIABLES
  row,          \* the row of review_workflow_runner_state
  proc,         \* what each process is doing
  lost,         \* an agent's outcome was lost, and no human has decided since
  outrun,       \* a worker has lost its lease while it was working
  crashes

runnerVars == <<row, proc, lost, outrun, crashes>>

Statuses == {"RUNNING", "PAUSE_REQUESTED", "PAUSED_BY_USER", "HUMAN_DECISION_REQUIRED",
             "CANCELLED", "READY_FOR_HUMAN_VERIFICATION"}

\* ACCEPT_RISK_AND_CONTINUE moves the row as FIX_AGAIN does.
Decisions == {"FIX_AGAIN", "CANCEL_WORKFLOW"}

NoDecision == "NONE"

\* active_invocation: by whom it was recorded, and its stage.
Invocation == [by: Process \cup {Gone}, stage: {"PREPARING", "AGENT_RUNNING"}]

NoInvocation == [by |-> NoWorker, stage |-> "NONE"]

Row ==
  [status: Statuses,
   worker: Process \cup {NoWorker, Launcher, Gone},
   leased: BOOLEAN,                          \* lease_expires_at is in the future
   beaten: BOOLEAN,                          \* last_heartbeat_at is set
   invocation: Invocation \cup {NoInvocation},
   decision: Decisions \cup {NoDecision},    \* counters.pendingDecision
   done: 0..Batches,                         \* counters.completedOrdinals
   scope: 1..Batches]                        \* max_batches

\* Between acquiring and releasing the lease; the others belong to commands.
WorkingPCs == {"LEASED", "CONSUMING", "APPLYING", "RECONCILING", "BOUNDARY", "PHASE",
               "PREPARING", "INVOKING", "SETTLED", "COMPLETING", "PAUSING", "STOPPING"}

CommandPCs == {"LAUNCHING", "CHECKED", "REVERTING", "SETTLING", "CLAIMING", "CANCELLING",
               "DECIDING", "STALLING"}

PCs == WorkingPCs \cup CommandPCs \cup {"IDLE", "RELEASING"}

ProcState ==
  [pc: PCs,
   batch: 0..Batches + 1,   \* the batch in hand; 0 between batches, Batches + 1 for completion
   decision: Decisions \cup {NoDecision},
   done: 0..Batches,        \* counters as read, written back with the decision
   resumed: BOOLEAN]        \* the worker was launched by a resume in this process

RunnerTypeOK ==
  /\ row \in Row
  /\ proc \in [Process -> ProcState]
  /\ lost \in BOOLEAN
  /\ outrun \in BOOLEAN
  /\ crashes \in 0..MaxCrashes

Idle == [pc |-> "IDLE", batch |-> 0, decision |-> NoDecision, done |-> 0, resumed |-> FALSE]

RunnerInit ==
  /\ \E scope \in 1..Batches :
       row = [status |-> "RUNNING", worker |-> NoWorker, leased |-> FALSE, beaten |-> FALSE,
              invocation |-> NoInvocation, decision |-> NoDecision, done |-> 0,
              scope |-> scope]
  /\ proc = [p \in Process |-> Idle]
  /\ lost = FALSE
  /\ outrun = FALSE
  /\ crashes = 0

At(p, pc) == proc[p].pc = pc

Goto(p, pc) == proc' = [proc EXCEPT ![p].pc = pc]

Return(p) == proc' = [proc EXCEPT ![p] = Idle]

Working(p) == proc[p].pc \in WorkingPCs

\* What a step of a handler leaves alone, unless it says otherwise.
Quietly == UNCHANGED <<lost, outrun, crashes>>

Within(scope) == row.done < scope

(***************************************************************************)
(* The worker: run and runLeased.                                          *)
(***************************************************************************)

FaultyRequestedScope(requested) == requested

\* What --max-batches asks for; 0 stands for the flag left out.
RequestedScope(requested) == IF requested = 0 THEN row.scope ELSE requested

\* run-resume behind the batch-scope gate, which may rewrite the scope first; then run
\* returns at once unless the workflow is running or waits for a decision.
RunResume(p, requested) ==
  LET scope == RequestedScope(requested)
      resumed == At(p, "LAUNCHING")
  IN
  /\ At(p, "IDLE") \/ resumed
  /\ row' = [row EXCEPT !.scope = scope]
  /\ CASE ~Within(scope) /\ requested = 0 /\ resumed -> Goto(p, "REVERTING")
       [] Within(scope) /\ row.status \in {"RUNNING", "HUMAN_DECISION_REQUIRED"} ->
            proc' = [proc EXCEPT ![p] = [Idle EXCEPT !.pc = "CHECKED", !.resumed = resumed]]
       [] OTHER -> Return(p)
  /\ Quietly

LeaseFree == row.worker \in {NoWorker, Launcher} \/ ~row.leased

AcquireLease(p) ==
  /\ At(p, "CHECKED")
  /\ IF row.status \in {"RUNNING", "HUMAN_DECISION_REQUIRED"} /\ LeaseFree
       THEN /\ row' = [row EXCEPT !.worker = p, !.leased = TRUE]
            /\ proc' = [proc EXCEPT ![p].pc = "LEASED", ![p].resumed = FALSE]
       ELSE /\ IF proc[p].resumed THEN Goto(p, "REVERTING") ELSE Return(p)
            /\ UNCHANGED row
  /\ Quietly

\* The first read under the lease: a stopped workflow needs a decision to go on.
ReadDecision(p) ==
  /\ At(p, "LEASED")
  /\ CASE row.status # "HUMAN_DECISION_REQUIRED" -> Goto(p, "RECONCILING")
       [] row.status = "HUMAN_DECISION_REQUIRED" /\ row.decision = NoDecision ->
            Goto(p, "RELEASING")
       [] OTHER ->
            proc' = [proc EXCEPT ![p].pc = "CONSUMING", ![p].decision = row.decision,
                                 ![p].done = row.done]
  /\ UNCHANGED row
  /\ Quietly

Forget(p, pc) ==
  proc' = [proc EXCEPT ![p].pc = pc, ![p].decision = NoDecision, ![p].done = 0]

\* The counters are written back as they were read, without the decision.
Consumed(p) == [row EXCEPT !.decision = NoDecision, !.done = proc[p].done]

ConsumeCancel(p) ==
  /\ At(p, "CONSUMING") /\ proc[p].decision = "CANCEL_WORKFLOW"
  /\ row' = [Consumed(p) EXCEPT !.status = "CANCELLED"]
  /\ Forget(p, "RELEASING")
  /\ Quietly

\* A decision made on another commit is dropped, and the status left as it is.
ConsumeStale(p) ==
  /\ At(p, "CONSUMING") /\ proc[p].decision # "CANCEL_WORKFLOW"
  /\ row' = Consumed(p)
  /\ Forget(p, IF row.status \in {"CANCELLED", "HUMAN_DECISION_REQUIRED"}
                 THEN "RELEASING" ELSE "APPLYING")
  /\ Quietly

ConsumeDecision(p) ==
  /\ At(p, "CONSUMING") /\ proc[p].decision # "CANCEL_WORKFLOW"
  /\ row' = [Consumed(p) EXCEPT !.status = "RUNNING", !.invocation = NoInvocation]
  /\ Forget(p, "APPLYING")
  /\ lost' = FALSE
  /\ UNCHANGED <<outrun, crashes>>

\* The decision is applied to the batches, outside any phase.
ApplyDecision(p) ==
  /\ At(p, "APPLYING")
  /\ Goto(p, "RECONCILING") \/ Goto(p, "STOPPING")
  /\ UNCHANGED row
  /\ Quietly

FaultyReconcileInvocation(p) ==
  /\ At(p, "RECONCILING")
  /\ row' = [row EXCEPT !.invocation = NoInvocation]
  /\ Goto(p, "BOUNDARY") \/ Goto(p, "STOPPING")
  /\ Quietly

\* What a dead worker left in flight: an agent that never started is forgotten, one that
\* ran stops the workflow.  A repository that has drifted stops it as well.
ReconcileInvocation(p) ==
  /\ At(p, "RECONCILING")
  /\ IF row.invocation.stage = "AGENT_RUNNING"
       THEN Goto(p, "STOPPING") /\ UNCHANGED row
       ELSE /\ row' = [row EXCEPT !.invocation = NoInvocation]
            /\ Goto(p, "BOUNDARY") \/ Goto(p, "STOPPING")
  /\ Quietly

Completing == Batches + 1

\* Between batches: the next batch within the scope, or completion after the last one.
NextBatch(p) ==
  /\ At(p, "BOUNDARY") /\ proc[p].batch = 0
  /\ row.done = Batches \/ Within(row.scope)
  /\ proc' = [proc EXCEPT ![p].batch = row.done + 1]
  /\ UNCHANGED row
  /\ Quietly

RequestedPause == [row EXCEPT !.status = IF row.status = "RUNNING" THEN "PAUSE_REQUESTED" ELSE @]

ScopeReached(p) ==
  /\ At(p, "BOUNDARY") /\ proc[p].batch = 0
  /\ row.done # Batches /\ ~Within(row.scope)
  /\ row' = RequestedPause
  /\ Goto(p, "PAUSING")
  /\ Quietly

\* withPhase; refinement is the phase before the first batch.
BeginPhase(p) ==
  /\ At(p, "BOUNDARY") /\ (proc[p].batch # 0 \/ row.done = 0)
  /\ IF row.status = "PAUSE_REQUESTED"
       THEN Goto(p, "PAUSING") /\ UNCHANGED row
       ELSE Goto(p, "PHASE") /\ row' = [row EXCEPT !.beaten = TRUE]
  /\ Quietly

\* A limit, a budget, a blocked batch or a violated invariant between two phases.
LimitReached(p) ==
  /\ At(p, "BOUNDARY")
  /\ Goto(p, "STOPPING")
  /\ UNCHANGED row
  /\ Quietly

FinishBatch(p) ==
  /\ At(p, "BOUNDARY") /\ proc[p].batch \in 1..Batches
  /\ row' = [row EXCEPT !.done = IF proc[p].batch > @ THEN proc[p].batch ELSE @]
  /\ proc' = [proc EXCEPT ![p].batch = 0]
  /\ Quietly

InPhase(p) == proc[p].pc \in {"PHASE", "INVOKING", "SETTLED"}

\* The timer of a phase: it extends the lease of whoever holds the row by now.
Heartbeat(p) ==
  /\ InPhase(p)
  /\ row' = [row EXCEPT !.leased = TRUE, !.beaten = TRUE]
  /\ UNCHANGED proc
  /\ Quietly

\* The observer of the role invocation: recorded before anything external exists, promoted
\* before the agent is started (if the record is still this one), cleared when its outcome
\* is durable, whosever record it is by then.
StartInvocation(p) ==
  /\ At(p, "PHASE")
  /\ row' = [row EXCEPT !.invocation = [by |-> p, stage |-> "PREPARING"]]
  /\ Goto(p, "PREPARING")
  /\ Quietly

RefuseInvocation(p) ==
  /\ At(p, "PREPARING")
  /\ row' = [row EXCEPT !.invocation = NoInvocation]
  /\ Goto(p, "STOPPING")
  /\ Quietly

SpawnAgent(p) ==
  /\ At(p, "PREPARING")
  /\ row' = [row EXCEPT !.invocation =
               IF @.by = p THEN [by |-> p, stage |-> "AGENT_RUNNING"] ELSE @]
  /\ Goto(p, "INVOKING")
  /\ Quietly

AgentReturns(p) ==
  /\ At(p, "INVOKING")
  /\ row' = [row EXCEPT !.invocation = NoInvocation]
  /\ Goto(p, "SETTLED")
  /\ Quietly

\* The response, or the audit of a failure, could not be made durable: the record stays.
AgentUnsettled(p) ==
  /\ At(p, "INVOKING")
  /\ Goto(p, "STOPPING")
  /\ lost' = TRUE
  /\ UNCHANGED <<row, outrun, crashes>>

EndPhase(p) ==
  /\ proc[p].pc \in {"PHASE", "SETTLED"}
  /\ \/ Goto(p, "STOPPING")
     \/ Goto(p, IF proc[p].batch = Completing THEN "COMPLETING" ELSE "BOUNDARY")
  /\ UNCHANGED row
  /\ Quietly

FaultyComplete(p) ==
  /\ At(p, "COMPLETING")
  /\ row' = IF row.status = "RUNNING"
              THEN [row EXCEPT !.status = "READY_FOR_HUMAN_VERIFICATION"] ELSE row
  /\ Goto(p, "RELEASING")
  /\ Quietly

\* READY is written only over RUNNING; a pause that came first is settled instead.
Complete(p) ==
  /\ At(p, "COMPLETING")
  /\ CASE row.status = "RUNNING" ->
            /\ row' = [row EXCEPT !.status = "READY_FOR_HUMAN_VERIFICATION"]
            /\ Goto(p, "RELEASING")
       [] row.status = "PAUSE_REQUESTED" -> Goto(p, "PAUSING") /\ UNCHANGED row
       [] OTHER -> Goto(p, "RELEASING") /\ UNCHANGED row
  /\ Quietly

SettledPause == [row EXCEPT !.status = IF row.status = "PAUSE_REQUESTED" THEN "PAUSED_BY_USER" ELSE @]

SettlePause(p) ==
  /\ At(p, "PAUSING")
  /\ row' = SettledPause
  /\ Goto(p, "RELEASING")
  /\ Quietly

\* stop writes its status over whatever is there.
Stop(p) ==
  /\ At(p, "STOPPING")
  /\ row' = [row EXCEPT !.status = "HUMAN_DECISION_REQUIRED"]
  /\ Goto(p, "RELEASING")
  /\ Quietly

FaultyReleaseLease(p) ==
  /\ At(p, "RELEASING")
  /\ row' = [row EXCEPT !.worker = NoWorker, !.leased = FALSE]
  /\ Return(p)
  /\ Quietly

ReleaseLease(p) ==
  /\ At(p, "RELEASING")
  /\ row' = IF row.worker = p THEN [row EXCEPT !.worker = NoWorker, !.leased = FALSE] ELSE row
  /\ Return(p)
  /\ Quietly

(***************************************************************************)
(* The commands.                                                           *)
(***************************************************************************)

\* pause, and the interrupt signal of a worker, which stops after the request.
PauseCommand(p) ==
  /\ At(p, "IDLE") /\ row.status = "RUNNING"
  /\ row' = RequestedPause
  /\ Goto(p, "SETTLING")
  /\ Quietly

InterruptSignal(p) ==
  /\ Working(p) /\ row.status = "RUNNING"
  /\ row' = RequestedPause
  /\ UNCHANGED proc
  /\ Quietly

SettleDeadPause == IF row.leased THEN row ELSE SettledPause

SettleCommand(p) ==
  /\ At(p, "SETTLING")
  /\ row' = SettleDeadPause
  /\ Return(p)
  /\ Quietly

\* resume: the scope gate, then a pause whose worker died is settled, then the claim.
ResumeCommand(p, requested) ==
  LET scope == RequestedScope(requested) IN
  /\ At(p, "IDLE")
  /\ IF Within(scope)
       THEN row' = [SettleDeadPause EXCEPT !.scope = scope] /\ Goto(p, "CLAIMING")
       ELSE row' = [row EXCEPT !.scope = scope] /\ UNCHANGED proc
  /\ Quietly

ClaimResume(p) ==
  /\ At(p, "CLAIMING")
  /\ IF row.status = "PAUSED_BY_USER" \/ (row.status = "RUNNING" /\ ~row.leased)
       THEN /\ row' = [row EXCEPT !.status = "RUNNING", !.worker = Launcher, !.leased = TRUE]
            /\ Goto(p, "LAUNCHING")
       ELSE Return(p) /\ UNCHANGED row
  /\ Quietly

\* The worker is spawned as a process of its own, or launching it fails.
Launched(p) ==
  /\ At(p, "LAUNCHING")
  /\ Return(p) \/ Goto(p, "REVERTING")
  /\ UNCHANGED row
  /\ Quietly

RevertResume(p) ==
  /\ At(p, "REVERTING")
  /\ row' = IF row.status = "RUNNING" /\ (row.worker = Launcher \/ ~row.leased)
              THEN [row EXCEPT !.status = "PAUSED_BY_USER", !.worker = NoWorker, !.leased = FALSE]
              ELSE row
  /\ Return(p)
  /\ Quietly

\* cancel checks for a live worker first and writes without looking again.
CancelCommand(p) ==
  /\ At(p, "IDLE")
  /\ row.status \notin {"CANCELLED", "READY_FOR_HUMAN_VERIFICATION"} /\ ~row.leased
  /\ Goto(p, "CANCELLING")
  /\ UNCHANGED row
  /\ Quietly

HoldsRow(p) == Working(p) /\ row.worker = p

WriteCancelled(p) ==
  /\ At(p, "CANCELLING")
  /\ row' = [row EXCEPT !.status = "CANCELLED", !.worker = NoWorker, !.leased = FALSE]
  /\ Return(p)
  /\ outrun' = (outrun \/ \E q \in Process : HoldsRow(q))
  /\ UNCHANGED <<lost, crashes>>

\* decide reads the row, records the decision, and writes the counters back.
DecideCommand(p, action) ==
  /\ At(p, "IDLE")
  /\ row.status = "HUMAN_DECISION_REQUIRED" /\ row.decision = NoDecision
  /\ proc' = [proc EXCEPT ![p].pc = "DECIDING", ![p].decision = action, ![p].done = row.done]
  /\ UNCHANGED row
  /\ Quietly

WriteDecision(p) ==
  /\ At(p, "DECIDING")
  /\ row' = [row EXCEPT !.decision = proc[p].decision, !.done = proc[p].done]
  /\ Return(p)
  /\ Quietly

\* status and watch: a worker whose heartbeat and lease have both run out is written off.
ReconcileStalled(p) ==
  /\ At(p, "IDLE")
  /\ row.status = "RUNNING" /\ row.beaten /\ ~row.leased
  /\ Goto(p, "STALLING")
  /\ UNCHANGED row
  /\ Quietly

StopStalled(p) ==
  /\ At(p, "STALLING")
  /\ row' = [row EXCEPT !.status = "HUMAN_DECISION_REQUIRED"]
  /\ Return(p)
  /\ Quietly

(***************************************************************************)
(* The environment.                                                        *)
(***************************************************************************)

\* Nothing in the program prevents it: a worker may be suspended, or block its own timer.
LeaseExpires ==
  /\ row.leased
  /\ row' = [row EXCEPT !.leased = FALSE]
  /\ outrun' = (outrun \/ \E p \in Process : HoldsRow(p))
  /\ UNCHANGED <<proc, lost, crashes>>

Crash(p) ==
  /\ ~At(p, "IDLE") /\ crashes < MaxCrashes
  /\ row' = [row EXCEPT !.worker = IF @ = p THEN Gone ELSE @,
                        !.invocation.by = IF @ = p THEN Gone ELSE @]
  /\ Return(p)
  /\ lost' = (lost \/ At(p, "INVOKING"))
  /\ crashes' = crashes + 1
  /\ UNCHANGED outrun

WorkerStep(p) ==
  \/ AcquireLease(p) \/ ReadDecision(p)
  \/ ConsumeCancel(p) \/ ConsumeStale(p) \/ ConsumeDecision(p) \/ ApplyDecision(p)
  \/ ReconcileInvocation(p)
  \/ NextBatch(p) \/ ScopeReached(p) \/ BeginPhase(p) \/ LimitReached(p) \/ FinishBatch(p)
  \/ StartInvocation(p) \/ RefuseInvocation(p) \/ SpawnAgent(p) \/ AgentReturns(p) \/ AgentUnsettled(p)
  \/ EndPhase(p) \/ Complete(p) \/ SettlePause(p) \/ Stop(p) \/ ReleaseLease(p)

Requests == 0..Batches

CommandStep(p) ==
  \/ \E requested \in Requests : RunResume(p, requested) \/ ResumeCommand(p, requested)
  \/ PauseCommand(p) \/ InterruptSignal(p) \/ SettleCommand(p)
  \/ ClaimResume(p) \/ Launched(p) \/ RevertResume(p)
  \/ CancelCommand(p) \/ WriteCancelled(p)
  \/ \E action \in Decisions : DecideCommand(p, action)
  \/ WriteDecision(p) \/ ReconcileStalled(p) \/ StopStalled(p)

RunnerNext ==
  \/ \E p \in Process : WorkerStep(p) \/ CommandStep(p) \/ Heartbeat(p) \/ Crash(p)
  \/ LeaseExpires

RunnerSpec == RunnerInit /\ [][RunnerNext]_runnerVars

\* A worker's own steps are taken, and agents return: adapters kill them at their timeout.
FairRunnerSpec == RunnerSpec /\ \A p \in Process : WF_runnerVars(WorkerStep(p))

(***************************************************************************)
(*                               Properties                                *)
(***************************************************************************)
(* At most one worker works on a workflow, and the row names it under a    *)
(* live lease, until a lease runs out under a live worker or a             *)
(* cancellation that read too early lands on one.                          *)
SoleWorker ==
  ~outrun => \A p \in Process : Working(p) =>
    /\ row.worker = p /\ row.leased
    /\ \A q \in Process : Working(q) => q = p

(* A requested pause is settled, stopped or cancelled: no worker runs on   *)
(* past it and no completion or resume overwrites it.                      *)
PauseIsKept ==
  [][~outrun /\ row.status = "PAUSE_REQUESTED" =>
       row'.status \notin {"RUNNING", "READY_FOR_HUMAN_VERIFICATION"}]_runnerVars

(* A stopped workflow goes on only through a human decision, which is      *)
(* consumed by going on.                                                   *)
StoppedUntilDecided ==
  [][~outrun /\ row.status = "HUMAN_DECISION_REQUIRED"
       /\ row'.status \notin {"HUMAN_DECISION_REQUIRED", "CANCELLED"} =>
       row.decision # NoDecision /\ row'.decision = NoDecision]_runnerVars

(* An agent whose outcome was lost, with its worker or on its way to the   *)
(* database, is followed by no other one before a human has decided.       *)
UnknownNeverRepeated ==
  lost /\ ~outrun => \A p \in Process : ~At(p, "PREPARING") /\ ~At(p, "INVOKING")

(* A pause requested of a worker takes effect: the worker settles it,      *)
(* stops or finds the workflow cancelled, unless it dies first; then it is *)
(* the next resume that settles it.                                        *)
PauseSettles ==
  (row.status = "PAUSE_REQUESTED" /\ \E p \in Process : Working(p)) ~>
    (row.status # "PAUSE_REQUESTED" \/ row.worker = Gone)

(* The promise of the runner: the row's status, whether a decision is      *)
(* recorded on it, and who is at work or awaits an agent.                  *)
Promised == INSTANCE RunnerContract WITH
  status <- row.status, decided <- row.decision # NoDecision,
  workers <- {p \in Process : Working(p)},
  asking <- {p \in Process : At(p, "INVOKING")},
  void <- outrun

(* However the statements of workers, commands and observers interleave,   *)
(* the runner keeps its promise until a worker is outrun.                  *)
ImplementsContract == Promised!Spec

=============================================================================
