# Verification of codemoot

TLA+ models of codemoot - the review workflow that drives batches of work
through agents, and the tools around it - model-checked with TLC and partly
proved with TLAPS. Paths are relative to `packages/core/src` unless they start
with `packages/`, `tools/` or `docs/`; `CLI` is
`packages/cli/src/commands/review-workflow.ts`.

The review workflow takes a *batch* of work (plan, implementation, code review,
verification, final audit, merge) from state to state by *commands*. Some commands
put an agent or a subprocess in front of their outcome: minutes of work that must
not be repeated, or lost, when a process dies. Several operating-system processes
(command-line calls, background workers, autonomous runners) share one SQLite
database, one git worktree and its configuration, and no lock is held while an
agent works. Everything difficult in this system comes from that.

## Inventory

| Component | Code | State it keeps | Operations | What makes it correct | Modelled in |
|---|---|---|---|---|---|
| Transition kernel | `review-workflow/state-machine.ts`, `types.ts` | none | `transitionBatch`, `calculateEffectiveBatchState` | a command leads only where the tables allow; a blocked batch resumes before the review or approval it left | BatchKernel, BatchAggregate |
| Command store | `memory/review-workflow-command-store.ts`, `-schema.ts` | receipts, side effects, batches, events | reserve, two releases, claim, three completions, four outcomes | one effect per command; evidence never lost; log, batch and receipts agree | CommandStore, CommandLedger |
| Implementation and code review | `review-workflow-implementation/*.ts` | handoffs, findings and dispositions in the entity store | start, execute, complete, review, respond, block, resume | one invoker; outcomes all or nothing; a correction is approved only with answers accepted for its commit | InvocationRuns, CorrectionRounds, RoleSessions |
| Merge gate | `review-workflow-gate/service.ts` | verification and audit rows, approvals | executeVerification, attest, finalAudit, evaluateGate, reconcileStaleApproval, markMerged | an approval is for the commit it names and everything demanded of it is on record | MergeGate, MCGate |
| Verification, baseline | `review-workflow-verification`, `-baseline` | log files, records, baselines, rulings | capture, ingest, record, attest; capture and approve a baseline, compare, endorse | what is judged is what was observed | VerificationEvidence, Baseline |
| Git evidence, handoff contracts, entity store | `review-workflow-git`, `-contracts`, `memory/review-workflow-store.ts` | rows written once | inspect, capture, validate | a commit is credited only as it was inspected | CorrectionRounds, MergeGate |
| Background jobs | `review-workflow-jobs/*.ts` | jobs with a lease | enqueue, claimNext, runNext, succeed, fail, requeue, cancel | a job's result is its command's; every job settles; late writers change nothing | JobQueue |
| Autonomous runner | `review-workflow-runner/*.ts`, `CLI` run commands | one row per workflow: status, lease, counters, decision | run, pause, resume, cancel, decide, heartbeat, stop; stages; completion | one worker; a pause is not lost; nothing completed is repeated; READY means the whole workflow | WorkflowRunner, RunnerStages, WorkflowAudit |
| Plan review | `review-workflow-plan/service.ts`, `CLI` plan and refine | plan versions, findings, staged drafts | review, revise, accept as is, refine | an approval is for the plan that was shown; a refinement is one decomposition | PlanReview, PlanRefinement |
| Role invocation | `roles/role-invocation.ts`, entity store | session bindings, continuity and audit rows | prepare, invoke, persist, escalate | a batch keeps one session per role; a break blocks it | RoleSessions |
| Model adapters | `models/cli-adapter.ts`, `process-liveness.ts`, shared stream runner | child processes, timers | one call | a wedged process is killed, a quiet one is not | CliCall |
| Command line | `CLI` | none | all of the above | human decisions are commands like any other | with each component |
| Relay | `packages/cli/src/commands/relay.ts` | run row, event log, pid lease | run, resume with decisions, pause, status | one worker; a batch is left only on grounds | Relay |
| Push guard | `CLI` | `remote.origin.pushurl`, a file | install, lift for a push, restore | the user's address survives | PushGuard |
| Debate | `packages/cli/src/commands/debate.ts`, `memory/message-store.ts`, `debate-store.ts`, `unified-session.ts` | messages, turns, the session's thread | start, turn, complete, recovery | the mirror never leads the ledger | Debate |
| Legacy jobs and watcher | `packages/cli/src/watch/debouncer.ts`, `commands/watch.ts`, `worker.ts`, `jobs.ts`, `memory/job-store.ts` | `jobs` rows | enqueue, claim, settle, cancel, retry, flush | one claim per queueing | WatchQueue |
| Build | `packages/cli/src/commands/build.ts`, `memory/build-store.ts` | row and event log | event, review | the log explains the row | BuildRun |
| Legacy engine | `engine/*.ts` | one session in memory and its rows | step loop, review loop, debate, fan-out | what is delivered is what was judged; limits hold | Engine |
| Review controller | `tools/review-controller` | state file, lock file, git | next, run, reconcile | one controller; what is closed is what was reviewed | ReviewController |
| Security, cleanup, configuration, context, MCP server, identity | see `PROJECT.json` | - | scanners, parsers, adapters | functions of their inputs | not modelled |

How they interact. A service reads the batch, *reserves* a receipt in the command
store, *claims* the receipt's side effect under an identity, awaits the agent,
and commits the outcome with all its companion commands in one transaction
(`runAtomically`). The store derives every aggregate write again through the
kernel. A job names the command id its operation will use; its worker reads that
receipt before and after it executes and settles the job from it alone. The same
operation can be run in the foreground, under the same, deterministic id. The
runner holds the lease of one row and calls the services stage by stage. A human
issues commands directly, and by a `fix_again` decision releases every failed
receipt of the batch, so that it can be tried again. People commit, reset and
push in the worktree the agents use.

What is hard: separate transactions for "look the id up" and "invoke", so that other
processes act in between; a process that dies at any of these points; a result
that arrives after the batch was blocked; leases of live workers that run out;
deterministic ids, so that a retry meets what its predecessor left; commits and
reviews that overtake one another; counters that are written before what they
count. `PROJECT.json` lists each hazard at the line where it bites, with the
property that covers it.

## Modules

```
BatchKernel               state tables of the transition kernel
  CommandStore            receipts, effects, archive, batch, events; any caller, any order
    CommandLedger           abstract specification the store implements
    InvocationRuns        processes running the services against the store
      JobQueue              job rows and workers executing the runs
        JobLedger             abstract specification the queue implements
  BatchAggregate          the batch without its receipts
    MergeGate             evidence, approvals and commits
CorrectionRounds          handoffs, rounds and answers of one batch
RunnerStages              the stages one batch passes under the runner
WorkflowRunner            the runner row, its workers and commands
  RunnerContract            abstract specification the runner implements
WorkflowAudit             from the approved batches to READY
VerificationEvidence, Baseline
RoleSessions, CliCall, PlanReview, PlanRefinement
Relay, ReviewController
Debate, WatchQueue, Engine, BuildRun, PushGuard

MCCommandStore            CommandStore
MCImplementation          InvocationRuns with the services of the phase; CorrectionRounds
MCJobs                    JobQueue
MCWorkers                 WorkflowRunner; Debate; WatchQueue; Engine; BuildRun; PushGuard
MCMergeGate               MergeGate; MCGate (InvocationRuns); VerificationEvidence;
                          Baseline; RunnerStages; WorkflowAudit
MCAgents                  RoleSessions; CliCall; PlanReview; PlanRefinement
MCTools                   Relay; ReviewController
MCAcceptedRisk, MCStages, MCCorrection   one module each, for the disagreements

CommandStoreProofs, InvocationRunsProofs, JobQueueProofs, WorkflowRunnerProofs
GateProofs                MCMergeGate and what it composes
AgentProofs               MCAgents and what it composes; CorrectionRounds
ToolProofs                MCTools and what it composes
CommandProofs             MCWorkers and what it composes
```

The modules are composed where the code composes them: kernel, store, services
and queue by extension, so a job of `JobQueue` runs the very steps of
`InvocationRuns`, which takes the very steps of `CommandStore`. Where two models
describe different state they share no variable, and the MC module of a phase has
each behaviour pick one of them (`phase`, `side`, `working`, `served`, `tool`)
and leaves the others in
their initial state. The states explored are those of the separate models, not
their product; what one model assumes of the other is said in its header
("`WorkflowRunner` shows that one worker runs at a time; here that worker ...").

**BatchKernel** is `transitionBatch` as tables: `ExpectedSourceStates`,
`TargetState`, `SafeBlockedResumeState`, and the context of a blocked batch. The
per-command checks of roles and evidence are data the batch does not depend on;
`CommandStore` carries their verdict as the flag `accepted` of a request, chosen
freely when the request is reserved. **BatchAggregate** is the same batch for
readers, and for writers that reserve and apply in one transaction.

**CommandStore** has one action per public method, because every method is one
`db.transaction`. A receipt and its side-effect row are one record, `receipts[c]`;
`status` is the receipt's column and `effect` the other row's. Superseding moves
the record to `archive`, frees the id and renames the events that name it, as the
SQL does; the unique index on identities spans archived rows, and so does
`IdentityBound`. Calls that throw, and replays of a recorded outcome, are
stuttering steps. The callers are arbitrary. **CommandLedger** is what the store
promises without receipts, versions or archives: a command moves its batch at most
once, an identity is granted once, and a closed command never invokes or moves
anything again.

**InvocationRuns** adds processes. `Begin` is the read of the batch and the
fail-fast lookup; `Plan`, `Release`, `ReserveRun`, `ClaimRun` are the transactions
of `reserveInvocationCommand` and `reserveAndInvoke`; `INVOKING` is the await;
`Return` opens the final transaction. `pending` holds its remaining calls: while it
is not empty nothing else acts (SQLite's write lock), and `TransactionStep` performs
them with the store's own actions. `Scripts` says how a run may settle and which
companions follow. `Supersedes` separates services that supersede an unstarted
reservation from the gate, whose lookup refuses any receipt that has not succeeded.
`HumanCommand`, `FixAgain` and `Crash` are the environment.

**CorrectionRounds** is what the receipts are about: the commits of one batch with
linear history (a commit is its number), the handoff of each correction, what
`validateImplementationCommit` and `captureReviewRange` accept of HEAD and a dirty
flag, the rounds, the answers to findings and the decision about them
(`decidePreviousDispositions`), pacing limits and human grants. One agent works at
a time, since the receipts see to that; completing, answering, and commits by
agents and people happen while it works.

**JobQueue** adds job rows, the order of the queue and what each process does for
it (`hand`). `ClaimJob`, `ReadReceipt`, `Execute`, `ReadBack`, `MarkUnknown` and
`Settle` are the statements of `claimNext` and `runNext`; between two of them any
other process may act. A lease is a flag that `LeaseExpires` clears, except between
two synchronous statements of the same `runNext` (`BetweenStatements`): leases last
a second or more, so only an await is long enough. **JobLedger** is what the queue
promises without receipts, verdicts and services: a job is taken from the queue or from
a lapsed lease, every taking is an attempt of its own and operated at most once within
the limit, only the holder settles or gives back, and a success is on record first.

**WorkflowRunner**: the runner row, and processes that are workers and command
lines in turn. A program counter separates the statements that read the row from
those that write it, since `stop`, `reconcileStalled`, `cancel`, `decide` and
`consumeDecision` write on what they read before; the conditional updates of the
store (`acquireLease`, `requestPause`, `settleRequestedPause`, `claimResume`,
`revertResumeClaim`, `markReady`, `releaseLease`) are atomic, as one SQL statement
is. `Crash` renames a worker to `Gone`, since a restarted one has another id.
`outrun` remembers that a worker lost its lease while it was working. **RunnerContract**
is what the runner promises without leases, heartbeats, phases and the statements
between reads and writes: which moves of the status are possible, and in whose hands;
one worker; no agent after a lost answer before a human's decision is consumed. The
contract is void once a worker is outrun.

**RunnerStages** is `runBatch` over the phases the command line gives it, for the one
worker `WorkflowRunner` admits, which may die, be paused or stopped between any two writes. Its
successor finds its way by the state of the batch, the evidence and the counters of
the row. The limit of final audits is 1, as the schema fixes it; the runner's limits
of rounds and passes are those of the contract; deciding and consuming a decision
are one step, which `WorkflowRunner` takes apart.

**WorkflowAudit** makes a batch one commit and one approval and follows the branch:
push after each batch, verification of the whole at the final HEAD, the clean and
remote checks, READY. People pause it and, only while no worker runs, commit, reset,
push and leave changes.

**MergeGate** holds verification records, attestations, the single audit, approvals
and a moving HEAD. Every process reads batch, worktree and evidence in separate
steps and writes in one transaction; the batch may be blocked, resumed, implemented
and reviewed in between. **VerificationEvidence** is below it: a log is written to
a file, then the record is saved, then it is attested, by processes that race and
die in between. **Baseline** compares the findings of records, with the occurrence
numbers that tell equal findings apart.

**RoleSessions**: what an invocation knows when it is prepared is compared with what
is bound when its answer is persisted, minutes later; broken continuity is escalated
in transactions of its own; the runner row's marker of the invocation in flight is
written by observers. **CliCall** is one call below it: children, silence timers
with the CPU probe, kills and their escalation, fallback of a refused resume.

**PlanReview** is the loop of rounds and revisions, in which the agent is invoked
first and everything else happens in one transaction afterwards; runner and
foreground share the plan. **PlanRefinement** pins an outline, stages drafts and
captures the assembly; it records the author of each draft, which the code cannot
tell from the ordinal it is stored under.

**Relay** and **ReviewController** are the drivers beside the workflow. A relay
process works on the copy of the row it read; its lease is a pid, claimed by an update
that pins the holder it found dead. The controller's lock is a file created empty and
written next, and reconciliation inspects and unlinks it in two steps.

**Debate**, **WatchQueue**, **BuildRun** and **PushGuard** have one action per
statement or file access of commands that read first and write later. In
`PushGuard`, a write of the file is atomic (`writeFileSync` of a short line) and the
user leaves the setting alone while runs are under way. **Engine** is one process in
memory: session loop, debate, and a question to many models with slots, late answers
and cancellation.

## Runs

Every bound is a constant named in a module. `CHECK_DEADLOCK FALSE` stands in every
configuration because the systems really stop: a batch that is merged, cancelled or
blocked with nobody deciding, a completed relay, and exhausted bounds.
Symmetry is used over values that the specification treats alike (identities,
processes, invocations, vendors and, in the gate, gate commands), never in a run with
a liveness property.

| Run | Instance | What it shows |
|---|---|---|
| `command_store` | 4 commands of one batch (create, accept, start behind an invocation, block), 2 identities, 1 archived receipt | any order of calls keeps log, receipts and batch in agreement; blocks resume safely; `CommandLedger` is implemented |
| `implementation` | receipts: 2 processes, 4 attempts, 1 crash, 2 archived receipts, 13 commands from creation to the review decision with block and resume. Rounds: 2 review rounds, 2 corrections, 1 grant, 3 handoffs, 3 commits | the invoker holds the running receipt; final transactions are all or nothing; abandoned invocations stay visible; nothing is accepted that no approval covers |
| `jobs` | 1 verification job, 2 attempts, 2 processes (one also in the foreground), 1 crash, 4 executions | one invoker, every job settles; `JobLedger` is implemented, so a success is on record and attempts are owned |
| `runner` | runner: 2 processes, scope of 1 or 2 batches, 1 crash. Debate: 2 commands, 2 rounds. Watch: batches of 2 files, 1 job, 1 retry, 2 workers, 2 retriers. Engine: 3 iterations, 4 debate rounds, 6 models on 2 and 1 slots. Build: 2 commands, 2 events. Guard: 3 runs | one worker; `RunnerContract` is implemented, so a lost outcome stops everything until a human decides; pauses settle; mirror, queue, delivered artifact, slots, log and push address stay right |
| `gate` | receipts: 2 processes, 5 attempts, 1 crash, 2 archived. Evidence: 2 commits, 2 gate commands, 2 processes, version up to 12. Stages: 2 reviews, 1 pass, 2 attempts, 2 checks, 1 grant. Capture: 2 verifiers, 2 runs. Baseline: 2 findings, 2 tool versions. Whole: 2 batches, 3 commits | approvals stand, nothing completed is repeated, records match their logs, endorsed comparisons introduce nothing, READY is whole |
| `agents` | sessions: 3 invocations, 2 vendors, 2 in flight, 1 move of the batch besides its blocks. Call: 2 extensions, 2 sends. Plan: 4 planners, 3 rounds. Refinement: 3 refiners, 2 batches | one session per role, markers and blocks survive crashes, plans are approved as shown, captures are one decomposition, wedged calls are ended |
| `tools` | relay: 3 processes, 2 batches, cap 1 extended to 2. Controller: 2 processes, 2 batches, 1 repair, 2 commits | one worker and one controller; batches advance on grounds and close with what was reviewed; uncertain calls are not repeated |
| `jobs_success`, `accepted_risk`, `fix_again`, `audit_limit`, `correction_grant` | as above, the component alone | where the code departs from its documents (below) |

Why the bounds suffice for the interesting cases: two processes and one crash give
every race of an attempt with its retry, since a third contender meets the same
guards as the second; where a takeover of a takeover matters (relay, refinement,
push guard) there are three. Two archived receipts let one command be released twice
and two commands once. Two attempts of a job are one retry and the exhausted claim
after it. One grant on top of the contract's own limit reaches every comparison of a
counter with its limit, on both sides. Two commits suffice for "moved since it was
read", a third for a move back to a descendant. The theorems below
hold for all values.

Some properties name the way around them, because the code has one; a state counts
against the property only if it was not reached that way. `AdvancesOnGrounds` excepts
a relay whose process died between an `accept` and its prompt (`lostAccept`),
`SoleController` an unlinked lock of a live controller (`LockIntact`),
`OneDecomposition` refiners that overlapped (`contested`), `ReviewedContentCommitted`
an edit between the comparison and the read of HEAD (`breach`),
`UnsettledStaysMarked` another invocation that replaced the marker (`overtaken`),
and `SoleWorker` a worker that was outrun. Each of these is a weakness of the code,
listed below; the property says that there is no other.

Run `runner` explores behaviours until a worker is outrun (`WhileTenured`): nothing
fences an outrun worker (its heartbeats, `review-workflow-runner/service.ts:1034`,
extend the lease of its successor), so the runner's properties, and the contract they refine, claim nothing from
there on, and `PauseSettles` is checked for behaviours without one.

Fairness. `WorkersSpec`: each worker's own steps are weakly fair - its statements run
and its agents return, are killed at their timeout or fail; commands, heartbeats,
lease expiry and crashes are free. `FairJobsSpec`: a worker's own statements run; an
agent or subprocess returns, because adapters kill it at their own timeout; an open
transaction ends; time passes, so leases run out; and `jobs run` is invoked as long
as a job is claimable, which is what the documentation asks of an operator.
Nobody is obliged to enqueue, cancel, decide, or run anything in the foreground. All
of this is weak fairness. `VerifyingSpec`, for the counterexample `accepted_risk`,
grants more, so that the counterexample is not one of a system that stops: every
call ends, and by strong fairness verification is asked for whenever it is open again
and again, and ends with its record when it could again and again.

## Where the code departs from its documents

Five runs end in a violation, each of a sentence of the documentation:

* `jobs_success`: `deriveExpectedReceipt` (`review-workflow-jobs/types.ts:63`) expects
  identities the services no longer claim (they append a per-attempt suffix), so a
  background code review or final audit whose command succeeded ends as `FAILED` with
  `RECEIPT_MISMATCH`.
* `accepted_risk`: a batch whose findings the owner accepts moves to `VERIFYING`, but
  verification, audit and gate all require an approved review
  (`review-workflow-gate/service.ts:846`); only a block or a cancellation gets it out.
* `fix_again`: `resumeStage` (`CLI:3680`) sends a batch in `NEEDS_REVISION` to a
  review, which takes complete implementations only; the granted correction pass is not used.
* `audit_limit`: the final audit is counted before the pause is noticed and the audit
  made (`review-workflow-runner/service.ts:775`); after a pause or crash in between every
  later worker stops with `FINAL_AUDIT_LIMIT_REACHED`.
* `correction_grant`: `execute` (`review-workflow-implementation/service.ts:259`)
  compares with the contract's passes alone, while `resume` and `review` add the
  granted ones.

Further disagreements and weaknesses, met while modelling, which have no run of their
own:

*Receipts and jobs.* A receipt interrupted between reservation and claim is never
resumed by the gate (`review-workflow-gate/service.ts:1012`;
`docs/review-workflow-idempotency.md:44` says it is). A failed command whose agent ran
is deliberately released and invoked again, against the at-most-once of
`idempotency.md:49`. The verification's identity is derived from its id alone and
collides with its archived row after `fix_again` (`CLI:1357`, against the comment at
`review-workflow-gate/service.ts:102`). A worker that finds a `RUNNING` receipt takes
its holder for dead and refuses the holder's result. A receipt still `RESERVED` has no
identity, so the comparison reports a mismatch before the table of
`docs/review-workflow-background-jobs.md:48` applies. A job id is derived from its
command id, so a job that failed can never be enqueued again.

*Implementation and review.* Range evidence kept after a rejected capture wedges the
round once HEAD moves. A correction pass is given the blockers of its own round's
policy, while `submitDispositions` and the next review demand those of the first
(`EXPECTED_FINDINGS_MISMATCH`, `DISPOSITIONS_REQUIRED`). `batch respond` during a review adds
answers the reviewer never saw, and the decision accepts them. Answers rejected in
round 2 are not required again in round 3, and findings never leave `OPEN`. A
correction without a new commit cannot be completed, since its commit is stored under
its sha. A crash after `IMPLEMENTATION_COMPLETE` and before the answers makes the next review
refuse. `complete` does not compare HEAD with the credited range. Corrections of a
human-created implementation cannot be executed (HEAD must be the batch's base).
`review-workflow-implementation-lifecycle.md:93` contradicts
`autonomous-runner.md:90`.

*Gate and workflow.* An approval found stale leads to a state no command leaves
(`review-workflow-implementation/service.ts:165`, against
`docs/review-workflow-merge-gate.md:110`). A crash between log and record makes the id
unusable (`LOG_IMMUTABILITY_CONFLICT`). A HEAD that moved during verification is
reported but not persisted. The baseline service is wired into no command; an accepted
ruling is not revoked by a later rejecting one. At completion, the audited HEAD is not
compared with HEAD again at the remote check; a push that failed at completion is not
repeated; a pause for drift holds until the repository is put back; changing the scope on
resume can stop a begun batch.

*Runner.* `cancel` looks for a lease and then writes (`CLI:4501`): a worker that starts
in between overwrites `CANCELLED`, against `CLI:4468` ("from ANY non-terminal state").
Accepted on the last attempt, then a crash: `VERIFICATION_LIMIT_REACHED`.
`CONTROLLER_ACTION_LIMIT_REACHED` and a disabled auto-advance never clear. A crash after an
invalid output starts its attempts again.

*Plans and sessions.* An invalid revision throws before its receipt; an interrupted
escalation stands in the way of later ones; refiners that overlap mix decompositions;
"every bound invocation attempt - including failures - appends one row"
(session continuity document) is not so when the audit write fails.

*Calls.* In the stream runner an error on stdin fails the call without killing the
child; the codex adapter has no handler for it; a refused resume falls back while the
killed child may live for five seconds; the timer of the last kill is lost with its process.

*Relay and controller.* `resume --background` and a missing `--decision` leave with the
lease they claimed; the fix cycle is counted before its prompt; `relay run` has its exit
handler before its lease, and installs the push guard before it; `proceed` leaves a pending
`accept` of a dead process in place; `claimRelayWorker` clears a pause that was just requested. The
controller's "exclusive `.cowork/controller.lock` prevents concurrent runs" does not
hold against a reconciliation.

*Legacy commands.* `retry` writes without looking again (two exceed `max_retries` and
requeue a running job); rows of dead workers stay running and make the watcher drop
batches; changes during the cooldown are lost. A turn over its budget leaves its message
running; a recovered turn's late answer completes its successor's row; a completed
debate is reopened by a mirror write; review, fix, plan, build and debate share one thread.
Counters of a build lose updates. One run's uninstall lifts the push guard of the
others. The engine hands code review the code as the plan and nothing as code, runs its
implementation step twice, completes sessions that were not approved, and reports the
convergence of a last round as a limit.

## Proofs

Eight modules hold the proofs; they cover all values of the constants that satisfy the
named assumptions. Every invariance proof has the same outline: `Init => Inv`, one lemma
per action (or per group of actions that disturb the same conjuncts) for
`Inv /\ [Next]_vars => Inv'`, and `Inv => Property`.

| Module | Theorems | The inductive invariant, and why it is needed |
|---|---|---|
| CommandStoreProofs | `TypeCorrect`, `EventLogCorrect`, `EffectsAgree`, `BlockContextCorrect`, `ActorCorrect`; `EvidenceIsKept` (an action property); `StoreImplementsLedger` (refinement) | `StoreInv`: their conjunction with `UnbornBatch` (a batch that does not exist is at version 0, as are the requests reserved for it), because creation takes its version from the request. Log, batch and receipts only hold together: success relies on the log matching the batch, and the log on no succeeded receipt ever being superseded |
| InvocationRunsProofs, ownership | `ServicesTyped`, `InvokerHolds`, `ServicesImplementStore`; `AbandonedStays` (an action property) | `RunsInv`: `StoreInv` with `Ownership` (who awaits an invocation holds its receipt, alone) and `PendingSparesInvokers` (no call of an open transaction touches such a receipt), because a release is chosen in one state and carried out in later ones. The refinement carries all of the store's invariants over to the running system |
| InvocationRunsProofs, handoff | `HandoffsComplete` | `Handoffs`: every run is `Closed`, or exactly one is `Underway`, its open transaction at a `Position` of its script with the `Progress` of the calls before it. A run that issued anything is settled or released, and everyone who began it before holds a version the batch has left (`Behind`), so it can be released but not reserved again |
| JobQueueProofs | `JobsTyped`, `SuccessRecorded`, `QueuedClaimable`, `LateWritesAreIgnored`, `QueueImplementsStore` | `JobsInv`: `Decided` and `Told` (a success in a worker's hand is backed by the receipt, read earlier and final) and `Counted` (the attempt in hand is the job's as long as the job is held) |
| JobQueueProofs, ownership | `OneInvoker` | `OwnedJobs`: the services' `Ownership`, which is stated for a set of statuses, with a receipt that may have been written off (`Held`); writing off keeps the identity |
| JobQueueProofs, promise | `QueueKeepsLedger` (refinement); `LedgerSuffices` | `JobsInv` with `WithinLimit` (who executes does so within the attempts): a statement of the queue is a step of the ledger, a step of the services a `Record` or a stutter. From the ledger alone: no two workers have the same attempt in hand, and a success stays on record |
| WorkflowRunnerProofs | `RunnerTyped`, `OneWorker`, `LostStopsWorkers`, `PauseKept`, `StopsForHuman` | `RunnerInv`, while no worker is outrun: `Tenure` (the row names every working process under a live lease, and a paused workflow has none), `Consuming`, `InFlight` and `LostIsMarked` |
| WorkflowRunnerProofs, promise | `RunnerKeepsContract` (refinement); `ContractSuffices` | `ContractInv`: `RunnerInv` with `Pausing` (who goes to settle a pause leaves no running workflow), because the settlement does nothing where a stop has overtaken the pause, and the worker must not leave a running workflow behind. What a command writes on a stale read is a `WrittenOff` of the contract; the contract alone has one worker, none at rest, and nobody after a lost answer |
| GateProofs, capture | `EvidenceTyped`, `RecordsPointToTheirLogs` | `EvidenceInv`: a process past its log holds a record of the very log in the file; a file, once written, keeps its log |
| GateProofs, baseline | `BaselineTyped`, `EndorsementsAreSound` | `BaselineInv`: rulings are on saved baselines, a passed comparison was made with an accepted one under the same tooling and introduces no occurrence, and only passed comparisons are endorsed. `FingerprintsCount` turns "no new occurrence number" into "not more often" |
| GateProofs, stages | `StagesTyped`, `CompletedStays` (an action property) | `StagesInv`: the types with `Progressed`: implementations are ahead of the reviews by one at most, and not ahead while one is due or being made; an approved batch stands at verification or approval, also in the context of a block (`Standing`) |
| GateProofs, workflow | `WorkflowTyped`, `ReadyWorkflowIsWhole` (an action property) | `WorkflowInv`: what a worker has seen by the stage it is at still holds, because people change the repository and the evidence only while no worker runs |
| GateProofs, gate | `GateTyped`, `ApprovalsStand` | `GateInv`: what a process read holds as long as the batch has the version it read, verification and audit are never taken back (`EvidenceGrows`), and the risks accepted for a commit cover all findings while the version stands; every command of the kernel leads to an approval or a merge only as its type says (`AllowedLeads`) |
| AgentProofs, sessions | `OneSessionBound`, `AgentsStayMarked`, `BrokenContinuityStops` | `BindingInv`: one binding per role, invocations ask for the bound session, and who succeeded returned it. `MarkInv`: who prepares is marked so, and who settles failed to write its audit. `BreakInv`: an invocation knows a version its batch had, and an escalation that is done is of an earlier version |
| AgentProofs, sessions, types | `SessionsOfRolesTyped` | `SessionsWithin`: the types with `TicksCounted`: the clock of answers is at most the number of invocations behind their agent, to which each invocation is added once (`BehindAgent`) |
| AgentProofs, calls | `WedgedIsEnded` (an action property), `CallTyped` | `CliInv`: the types (`Watched`) with `Accounted`: the watch counts CPU time only if the present child used it since its last output, and a child that was spared is wedged and has used none since. `SentWithin`: only the first process of a call can be a resume, so a fallback costs one process beyond the attempts at most |
| AgentProofs, plans | `ApprovalIsOfShownPlan`, `RunnerLosesNoAnswer`, `PlanLoopTyped` | `PlanInv`: a reviewer holds the revision it was shown. `RunnerInv`, while no foreground command has taken part and no stop was lost: one worker is busy, its round is the one after the recorded reviews, the pending revision has no receipt, and a review receipt past those rounds failed for good and awaits a decision, which releases it. `PlanWithin`, always: the rounds started are at most the succeeded review receipts (`ReviewedRounds`), which are never taken back, and the plan has one version more than rounds at most |
| AgentProofs, refinement | `RefinementIsTyped`, `CapturesOneDecomposition` | `RefinementInv`, while refiners do not overlap: only one is at work, the outline in its hand is the pinned one, and every draft, staged copy and captured batch is of the pinned author |
| AgentProofs, rounds | `RoundsTyped`, `AnswersWereApproved` | `RoundsInv`: the types with what handoffs, rounds and answers say of one another: an answer is accepted only by a decision of the round after it, at that round's commit |
| ToolProofs, relay | `RelayTyped`, `OneWorkerPerRelay`, `AdvancesHaveGrounds` | `RelayInv`: the lease names no process that has not started, and a holder that was found dead stays dead, so a claim that pins it finds nobody working. `GroundInv`, unless an accept was lost: every batch before the row's, a copy's and the last event's was left on grounds; the worker's copy agrees with the row; a flagged row was accepted, and its last exchange is the implementer's or about to be sent |
| ToolProofs, controller | `ControllerTyped`, `OneControllerActs`, `ClosedAsReviewed`, `LeftInvocationIsEscalated` (an action property) | `ControllerInv`: while no live lock was unlinked, the lock is its holder's, what was inspected and found dead stays dead, and who acts has the state file as it is; while nobody edits between comparison and reading of HEAD, the tree, then HEAD, is what was approved |
| CommandProofs, commands | `MirrorFollowsLedger`; `ClaimsAreQueued`; `BuildIsExplained`; `UserUrlSurvives`; `DebateTyped`, `WatchTyped`, `BuildTyped`, `GuardTyped` | debate: a turn past its answer has it in the ledger; jobs: a queued row has been claimed at most once per earlier queueing; build: what a command read was explained by the log, which only grows; guard: a blocked address was blocked by a run after the user's was saved, and a run puts back nothing else. Watcher: `WatchBounds`, the hands on jobs are no more than the workers, whose number is a fold over the jobs: that the fold is a sum (`CountBounds`) is proved from a least set for which it is not (`WFMin`), since the induction theorems of the library cannot be used |
| CommandProofs, engine | `DeliveredIsJudged`, `SlotsAreBounded`; `SessionsTyped`, `ArgumentsTyped`, `FansTyped` | `SessionHeld`: while a phase is open nothing is delivered, and one artifact is kept per closed phase; `ArgumentInv`: the critique is of its round's proposal. `SessionWithin` and `ArgumentBounded`: iterations, rounds and stances by what was made and paid for before. `FanInv`: who is in line waits there once, and the holders of a kind are counted and fill its limit while anybody waits; `EveryNumberIsAsked` and `FirstFill` count who is let in at first |

| GateProofs, AgentProofs, ToolProofs, CommandProofs, the phases | `SidesAreBehaviours`, `AgentsAreBehaviours`, `DriversAreBehaviours`, `CommandsAreBehaviours`; `PhaseTyped`, `AgentsTyped`, `ToolsTyped`, `WorkersTyped` | a behaviour of the specification a run checks is one of every component it composes, since what is not picked stutters: the theorems about the components are thereby about the specification that was checked, and their types are its type invariant |

The exceptions in these invariants (an outrun worker, an overlap, a lost accept, an
unlinked lock, an edit in between) are the ones the properties themselves name; the
invariant is what the code keeps until then, and it does not come back.

A theorem whose property no run lists (`EffectsAgree`, `ActorCorrect`,
`EvidenceIsKept`, `QueuedClaimable`, `LateWritesAreIgnored`, `SuccessRecorded`,
`LostStopsWorkers`, `PauseKept`, `StopsForHuman`, the refinements of the store, what
follows from the abstract specifications, types of components) stands on its proof
alone.

Assumptions: the named `ASSUME`s of the modules, which TLC evaluates in the runs. They
say that constants have their types, that runs, companions and direct commands do not
overlap, that there is a batch whose sessions are asked for, that the companions of a run
are its own and distinct (their ids are derived from the run's), that each attempt has an
identity, and that model values such as "no worker" (`NoRow`, `NoLog`, `NoRecord`,
`NoAudit`, `NoBaseline`, `NoLock`, `NoEvent`, `NoInvocation` ...) are not members of the
sets they stand beside.

Only model-checked: liveness (`EveryJobSettles`, `PauseSettles`, and the counterexample
to `AcceptedRiskIsVerified`), which is out of reach of the provers used. Every other
property of a passing run - invariants, action properties and refinements - is a theorem.

## Not modelled, and why

* Evidence and actor checks of the kernel, parsing of transcripts, git and
  verification output, shape checks of artefacts: functions of their inputs; their verdict
  is a flag or a nondeterministic choice.
* The request hash: another attempt's request always differs (it names another
  execution), so reserving an id that is held throws.
* Diffs, rename detection and history that is not linear; the subprocesses of git.
* Of jobs: event cursors, which one transaction reads and moves forward, and the branch of a
  job without executor (the command line registers them all).
* Of the runner: token and time budgets (free outcomes of a phase), the final report.
* Of implementation: the recovery of a lost result by a human, prompts.
* Of plans: the importer; of verification: the identity service, which says who an
  execution is and keeps no state between calls.
* Of adapters: stream parsing, environment filtering, health checks, the registry.
* Prompts, printing and listing commands everywhere; memory and artifact stores, whose
  rows are written once by one statement.
* Security, cleanup scanners, configuration, context assembly and the MCP server:
  sequential functions of their inputs, and adapters of operations modelled here.

## Plan

1. Done: kernel, store, ledger, services, queue, runner, with proofs.
2. Done: corrections, stages, workflow audit, gate, evidence, baseline, sessions, calls,
   plans, relay, controller, engine and the legacy commands, model-checked; the proofs of
   all of them.
3. Done: abstract specifications of the queue and of the runner, implemented; the types
   and bounds of the phases as they are checked.
4. Left: abstract specifications of the relay and of the gate, and the plan importer.
