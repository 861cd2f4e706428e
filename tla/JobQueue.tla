------------------------------- MODULE JobQueue -------------------------------
(***************************************************************************)
(* Background jobs (packages/core/src/review-workflow-jobs): a durable     *)
(* queue of requests to run one review-workflow operation, and the workers *)
(* that process it.  A job is bound to the command id of its operation; a  *)
(* worker reads the command's receipt before and after executing, and      *)
(* settles the job from the receipt alone.                                 *)
(*                                                                         *)
(* The operations are the runs of InvocationRuns.  A process either works  *)
(* for the queue or runs a command in the foreground, and a command run in *)
(* the foreground has the id its background job would have.  Every read of *)
(* a receipt and every write of a job is a statement of its own: any other *)
(* process may act between them, the lease of a live worker may run out,   *)
(* and a worker may crash.                                                 *)
(*                                                                         *)
(* The worker registers an executor for every job type, so the branch for  *)
(* a missing executor is not modelled.                                     *)
(***************************************************************************)
EXTENDS InvocationRuns

CONSTANTS
  Job,
  JobCommand,     \* the command id each job is bound to
  ExpectedKind,   \* deriveExpectedReceipt of each job: its side-effect kind
  ExpectedIdentity, \* ... and its side-effect identity
  NoJob,
  MaxAttempts,    \* max_attempts of every job
  EnqueueStates,  \* bound: the batch states in which jobs are enqueued
  Attended        \* bound: the processes that also run commands in the foreground

ASSUME JobAssumption ==
  /\ JobCommand \in [Job -> Runs]
  /\ \A j, k \in Job : JobCommand[j] = JobCommand[k] => j = k
  /\ ExpectedKind \in [Job -> SideEffectKinds]
  /\ ExpectedIdentity \in [Job -> Identity]
  /\ NoJob \notin Job
  /\ MaxAttempts \in Nat \ {0}
  /\ EnqueueStates \subseteq BatchStates
  /\ Attended \subseteq Process

VARIABLES
  jobs,           \* the job rows
  queue,          \* the enqueued jobs, in creation order
  hand            \* what each process does for the queue

jobVars == <<receipts, archive, batch, events, proc, pending, attempts, crashes,
             jobs, queue, hand>>

NoWorker == "NO_WORKER"

JobStatuses == {"ABSENT", "QUEUED", "RUNNING", "SUCCEEDED", "FAILED", "CANCELLED"}

SettledStatuses == {"SUCCEEDED", "FAILED", "CANCELLED"}

JobRow ==
  [status: JobStatuses, attempts: Nat, worker: Process \cup {NoWorker}, leased: BOOLEAN]

Stages == {"FREE", "CLAIMED", "EXECUTING", "AWAITING", "SETTLING"}

Verdicts == {"NONE", "SUCCEEDED", "FAILED", "QUEUED", "UNKNOWN"}

Hand == [stage: Stages, job: Job \cup {NoJob}, attempts: Nat, threw: BOOLEAN, verdict: Verdicts]

JobsTypeOK ==
  /\ jobs \in [Job -> JobRow]
  /\ queue \in Seq(Job)
  /\ hand \in [Process -> Hand]
  /\ \A p \in Process : hand[p].stage = "FREE" <=> hand[p].job = NoJob

Free == [stage |-> "FREE", job |-> NoJob, attempts |-> 0, threw |-> FALSE, verdict |-> "NONE"]

JobsInit ==
  /\ RunsInit
  /\ jobs = [j \in Job |-> [status |-> "ABSENT", attempts |-> 0, worker |-> NoWorker,
                            leased |-> FALSE]]
  /\ queue = <<>>
  /\ hand = [p \in Process |-> Free]

(***************************************************************************)
(* The store of jobs: each method is one statement or one transaction.     *)
(***************************************************************************)
Enqueue(j) ==
  /\ NoTransaction
  /\ jobs[j].status = "ABSENT"
  /\ batch.context.state \in EnqueueStates
  /\ jobs' = [jobs EXCEPT ![j].status = "QUEUED"]
  /\ queue' = Append(queue, j)
  /\ UNCHANGED <<runVars, hand>>

(* Seeded fault: an expired job whose attempts are used up is left alone.  *)
FaultyRunnable(j) ==
  /\ jobs[j].status = "RUNNING" => ~jobs[j].leased
  /\ jobs[j].status \in {"QUEUED", "RUNNING"}
  /\ jobs[j].attempts < MaxAttempts

Runnable(j) ==
  \/ jobs[j].status = "QUEUED" /\ jobs[j].attempts < MaxAttempts
  \/ jobs[j].status = "RUNNING" /\ ~jobs[j].leased

Oldest(j) ==
  \E n \in DOMAIN queue :
    queue[n] = j /\ Runnable(j) /\ \A k \in 1..(n - 1) : ~Runnable(queue[k])

(* claimNext: an expired claim is taken over whatever its attempts.        *)
ClaimJob(p, j) ==
  /\ NoTransaction
  /\ hand[p].stage = "FREE" /\ proc[p].pc = "IDLE"
  /\ Oldest(j)
  /\ jobs' = [jobs EXCEPT ![j] =
       [status |-> "RUNNING", attempts |-> jobs[j].attempts + 1, worker |-> p,
        leased |-> TRUE]]
  /\ hand' = [hand EXCEPT ![p] =
       [stage |-> "CLAIMED", job |-> j, attempts |-> jobs[j].attempts + 1,
        threw |-> FALSE, verdict |-> "NONE"]]
  /\ proc' = [proc EXCEPT ![p] = Idle("NONE")]
  /\ UNCHANGED <<receipts, archive, batch, events, pending, attempts, crashes, queue>>

(* Time passes; the lease of a live worker runs out like a dead one's, but *)
(* not in the moment between two statements of runNext with no await.      *)
BetweenStatements(j) ==
  \E p \in Process :
    /\ jobs[j].worker = p /\ hand[p].job = j
    /\ hand[p].stage \in {"CLAIMED", "SETTLING"}

LeaseExpires(j) ==
  /\ NoTransaction
  /\ jobs[j].status = "RUNNING" /\ jobs[j].leased
  /\ ~BetweenStatements(j)
  /\ jobs' = [jobs EXCEPT ![j].leased = FALSE]
  /\ UNCHANGED <<runVars, queue, hand>>

Cancel(j) ==
  /\ NoTransaction
  /\ jobs[j].status \in {"QUEUED", "RUNNING"}
  /\ jobs' = [jobs EXCEPT ![j].status = "CANCELLED"]
  /\ UNCHANGED <<runVars, queue, hand>>

(***************************************************************************)
(* settleFromReceipt: what a receipt means for the job.                    *)
(***************************************************************************)
ReceiptMatches(j, row) ==
  row.request.kind = ExpectedKind[j] /\ row.identity = ExpectedIdentity[j]

Verdict(j, row) ==
  IF ReceiptMatches(j, row)
  THEN CASE row.status = "SUCCEEDED" -> "SUCCEEDED"
         [] row.status \in {"RESERVED", "RUNNING"} -> "UNKNOWN"
         [] OTHER -> "FAILED"
  ELSE "FAILED"

Decide(p, verdict) ==
  hand' = [hand EXCEPT ![p].stage = "SETTLING", ![p].verdict = verdict]

PutDown(p) == hand' = [hand EXCEPT ![p] = Free]

(***************************************************************************)
(* runNext, one step per statement.                                        *)
(***************************************************************************)
Working(p, stage) == NoTransaction /\ hand[p].stage = stage

(* The receipt is read before executing.                                   *)
ReadReceipt(p) ==
  LET j == hand[p].job
      row == receipts[JobCommand[j]]
  IN /\ Working(p, "CLAIMED")
     /\ \/ row # NoRow /\ Decide(p, Verdict(j, row))
        \/ row = NoRow /\ hand[p].attempts > MaxAttempts /\ Decide(p, "FAILED")
        \/ /\ row = NoRow /\ hand[p].attempts <= MaxAttempts
           /\ hand' = [hand EXCEPT ![p].stage = "EXECUTING"]
     /\ UNCHANGED <<runVars, jobs, queue>>

(* The executor calls the operation, which begins or throws; it may throw  *)
(* before (configuration, repository, batch state), and a gate run replays *)
(* the outcome of a command that has succeeded.                            *)
Await(p, threw) ==
  hand' = [hand EXCEPT ![p].stage = "AWAITING", ![p].threw = threw]

Execute(p) ==
  LET c == JobCommand[hand[p].job] IN
    /\ Working(p, "EXECUTING")
    /\ \/ Begin(p, c) /\ Await(p, FALSE)
       \/ BeginRefused(p, c) /\ Await(p, TRUE)
       \/ UNCHANGED runVars /\ Await(p, TRUE)
       \/ c \notin Supersedes /\ SuccessfulRow(receipts[c]) /\ UNCHANGED runVars /\ Await(p, FALSE)
    /\ UNCHANGED <<jobs, queue>>

MayRetry(p) == hand[p].attempts < MaxAttempts

(* The receipt is read again once the executor is done; it may have thrown *)
(* after its command was settled.                                          *)
ReadBack(p) ==
  LET j == hand[p].job
      row == receipts[JobCommand[j]]
      returned == ~hand[p].threw /\ proc[p].error = "NONE"
  IN /\ Working(p, "AWAITING") /\ proc[p].pc = "IDLE"
     /\ \/ row # NoRow /\ Decide(p, Verdict(j, row))
        \/ row = NoRow /\ MayRetry(p) /\ Decide(p, "QUEUED")
        \/ row = NoRow /\ (returned \/ ~MayRetry(p)) /\ Decide(p, "FAILED")
     /\ UNCHANGED <<runVars, jobs, queue>>

(* Seeded fault: the receipt is written off by a bare update, as failed.   *)
FaultyMarkUnknown(p) ==
  LET c == JobCommand[hand[p].job] IN
    /\ Working(p, "SETTLING") /\ hand[p].verdict = "UNKNOWN"
    /\ receipts[c] # NoRow
    /\ receipts' = [receipts EXCEPT ![c].status = "FAILED_FINAL"]
    /\ Decide(p, "FAILED")
    /\ UNCHANGED <<archive, batch, events, proc, pending, attempts, crashes, jobs, queue>>

(* recordOutcome(OUTCOME_UNKNOWN) on the receipt that was read; it throws  *)
(* out of runNext, leaving the job running, if the receipt moved on.       *)
MarkUnknown(p) ==
  LET c == JobCommand[hand[p].job]
      unknown == receipts[c] # NoRow /\ receipts[c].status = "OUTCOME_UNKNOWN"
      open == receipts[c] # NoRow /\ receipts[c].status \in OutcomeSources("OUTCOME_UNKNOWN")
  IN /\ Working(p, "SETTLING") /\ hand[p].verdict = "UNKNOWN"
     /\ \/ RecordOutcome(c, "OUTCOME_UNKNOWN") /\ Decide(p, "FAILED")
        \/ unknown /\ UNCHANGED vars /\ Decide(p, "FAILED")
        \/ /\ ~unknown /\ ~open
           /\ UNCHANGED vars /\ PutDown(p)
     /\ UNCHANGED <<proc, pending, attempts, crashes, jobs, queue>>

(* Seeded fault: a late write is guarded by the status alone.              *)
FaultyHoldsJob(p, j) == jobs[j].status = "RUNNING"

HoldsJob(p, j) == jobs[j].status = "RUNNING" /\ jobs[j].worker = p

(* succeed, fail and requeue: written only while this worker holds the job. *)
Settle(p) ==
  LET j == hand[p].job IN
    /\ Working(p, "SETTLING") /\ hand[p].verdict # "UNKNOWN"
    /\ jobs' = IF ~HoldsJob(p, j) THEN jobs
               ELSE IF hand[p].verdict = "QUEUED"
               THEN [jobs EXCEPT ![j].status = "QUEUED", ![j].worker = NoWorker,
                                 ![j].leased = FALSE]
               ELSE [jobs EXCEPT ![j].status = hand[p].verdict]
    /\ PutDown(p)
    /\ UNCHANGED <<runVars, queue>>

(***************************************************************************)
(* Processes.                                                              *)
(***************************************************************************)
Foreground(p) ==
  /\ p \in Attended
  /\ hand[p].stage = "FREE"
  /\ \E c \in Runs : Begin(p, c) \/ BeginRefused(p, c)
  /\ UNCHANGED <<jobs, queue, hand>>

RunStep(p) ==
  /\ Plan(p) \/ Release(p) \/ ReserveRun(p) \/ ClaimRun(p) \/ Return(p)
  /\ UNCHANGED <<jobs, queue, hand>>

JobCrash(p) ==
  /\ NoTransaction
  /\ proc[p].pc # "IDLE" \/ hand[p].stage # "FREE"
  /\ crashes < MaxCrashes
  /\ crashes' = crashes + 1
  /\ proc' = [proc EXCEPT ![p] = Idle("NONE")]
  /\ PutDown(p)
  /\ UNCHANGED <<receipts, archive, batch, events, pending, attempts, jobs, queue>>

WorkerStep(p) ==
  ReadReceipt(p) \/ Execute(p) \/ ReadBack(p) \/ MarkUnknown(p) \/ Settle(p)

HumanStep ==
  /\ (\E c \in Direct : HumanCommand(c)) \/ FixAgain
  /\ UNCHANGED <<jobs, queue, hand>>

CommitStep == TransactionStep /\ UNCHANGED <<jobs, queue, hand>>

JobsNext ==
  \/ \E j \in Job : Enqueue(j) \/ Cancel(j) \/ LeaseExpires(j)
  \/ \E p \in Process, j \in Job : ClaimJob(p, j)
  \/ \E p \in Process : WorkerStep(p) \/ RunStep(p) \/ Foreground(p) \/ JobCrash(p)
  \/ HumanStep \/ CommitStep

JobsSpec == JobsInit /\ [][JobsNext]_jobVars

(***************************************************************************)
(* Fairness.  Time passes, an agent or a subprocess returns or is killed   *)
(* by its own timeout, and "jobs run" is invoked as long as a job can be   *)
(* claimed.  Nobody is obliged to enqueue, cancel, decide or run anything  *)
(* in the foreground.                                                      *)
(***************************************************************************)
JobsFairness ==
  /\ \A p \in Process : WF_jobVars(WorkerStep(p) \/ RunStep(p))
  /\ \A j \in Job : WF_jobVars(LeaseExpires(j))
  /\ \A j \in Job : WF_jobVars(\E p \in Process : ClaimJob(p, j))
  /\ WF_jobVars(CommitStep)

FairJobsSpec == JobsSpec /\ JobsFairness

(***************************************************************************)
(*                               Properties                                *)
(***************************************************************************)
(* A job reported as done is done: its command has succeeded, behind the   *)
(* side effect the job was enqueued for.                                   *)
SuccessIsRecorded ==
  \A j \in Job : jobs[j].status = "SUCCEEDED" =>
    /\ SuccessfulRow(receipts[JobCommand[j]])
    /\ ReceiptMatches(j, receipts[JobCommand[j]])

(* However leases, crashes and retries interleave, the process awaiting an *)
(* invocation is the only one that does, and the receipt names it; it may  *)
(* have been written off as unknown meanwhile, never freed or failed.      *)
SoleInvoker ==
  \A c \in Runs, p \in Process : p \in Invoking(c) =>
    /\ receipts[c] # NoRow
    /\ receipts[c].status \in {"RUNNING", "OUTCOME_UNKNOWN"}
    /\ receipts[c].identity = IdentityOf(p)
    /\ Invoking(c) = {p}

(* A job waiting in the queue can be claimed: no order of requeues, late   *)
(* writes and lost leases leaves it with its attempts used up.             *)
QueuedIsClaimable ==
  \A j \in Job : jobs[j].status = "QUEUED" => jobs[j].attempts < MaxAttempts

(* A running job changes hands or ends only by its present holder, by a    *)
(* worker taking over an expired lease, or by a cancellation: the late     *)
(* writes of a worker that lost it are ignored, and a settled job stays.   *)
LateWritesIgnored ==
  [][\A j \in Job :
       /\ jobs[j].status \in SettledStatuses => jobs'[j] = jobs[j]
       /\ jobs[j].status = "RUNNING" /\ jobs'[j].status \in {"QUEUED", "SUCCEEDED", "FAILED"} =>
            hand[jobs[j].worker].job = j /\ hand'[jobs[j].worker].job = NoJob]_jobVars

(* No crash, lost lease or retry strands a job: every job that is queued   *)
(* or running is eventually settled.                                       *)
EveryJobSettles ==
  \A j \in Job : jobs[j].status \in {"QUEUED", "RUNNING"} ~> jobs[j].status \in SettledStatuses

(* Queue and services use the command store only through its operations.   *)
JobsImplementStore == Spec

LedgerStage(stage) ==
  CASE stage = "FREE" -> "FREE"
    [] stage \in {"CLAIMED", "EXECUTING"} -> "TAKEN"
    [] stage = "AWAITING" -> "OPERATING"
    [] stage = "SETTLING" -> "DECIDED"

LedgerHands ==
  [p \in Process |-> [job |-> hand[p].job, attempt |-> hand[p].attempts,
                      stage |-> LedgerStage(hand[p].stage)]]

LapsedJobs == {j \in Job : jobs[j].status = "RUNNING" /\ ~jobs[j].leased}

RecordedJobs ==
  {j \in Job : /\ SuccessfulRow(receipts[JobCommand[j]])
               /\ ReceiptMatches(j, receipts[JobCommand[j]])}

Promised == INSTANCE JobLedger WITH
  Worker <- Process, Nobody <- NoWorker, Limit <- MaxAttempts,
  state <- [j \in Job |-> jobs[j].status],
  holder <- [j \in Job |-> jobs[j].worker],
  tries <- [j \in Job |-> jobs[j].attempts],
  lapsed <- LapsedJobs, hands <- LedgerHands, recorded <- RecordedJobs

(* However leases, crashes, cancellations and foreground runs interleave,  *)
(* every behaviour of claimNext and runNext is one the ledger of jobs      *)
(* allows: an attempt belongs to one worker, which operates once for it    *)
(* and within the limit, and only the holder settles.                      *)
ImplementsJobLedger == Promised!Spec

(***************************************************************************)
(* What the documents say of jobs and the code does not do.                *)
(***************************************************************************)
(* docs/review-workflow-background-jobs.md: a receipt that succeeded       *)
(* settles the job successfully.                                           *)
SucceededSettlesJob ==
  [][\A p \in Process :
       hand[p].verdict = "NONE" /\ hand'[p].verdict # "NONE" =>
         LET row == receipts[JobCommand[hand[p].job]] IN
           SuccessfulRow(row) => hand'[p].verdict = "SUCCEEDED"]_jobVars
=============================================================================
