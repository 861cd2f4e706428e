---------------------------- MODULE JobQueueProofs ----------------------------
(***************************************************************************)
(* Theorems about the background jobs, for every set of jobs, workers and  *)
(* commands and every number of attempts, crashes and lost leases.         *)
(***************************************************************************)
EXTENDS JobQueue, InvocationRunsProofs

-----------------------------------------------------------------------------
(* The command of a job has the recorded success the job is about.         *)
Recorded(j) ==
  /\ SuccessfulRow(receipts[JobCommand[j]])
  /\ ReceiptMatches(j, receipts[JobCommand[j]])

(* A worker that settles its job has decided how.                          *)
Decided == \A p \in Process : hand[p].stage = "SETTLING" => hand[p].verdict # "NONE"

(* A success, decided or written, is backed by the receipt.                *)
Told ==
  /\ \A p \in Process :
       hand[p].stage = "SETTLING" /\ hand[p].verdict = "SUCCEEDED" => Recorded(hand[p].job)
  /\ \A j \in Job : jobs[j].status = "SUCCEEDED" => Recorded(j)

(* The attempt a worker counts is the attempt its job counts, as long as   *)
(* the worker holds the job.                                               *)
Counted ==
  /\ \A j \in Job : jobs[j].status = "ABSENT" => jobs[j].attempts = 0
  /\ \A j \in Job : jobs[j].status = "QUEUED" => jobs[j].attempts < MaxAttempts
  /\ \A p \in Process :
       hand[p].stage = "SETTLING" /\ hand[p].verdict = "QUEUED" => hand[p].attempts < MaxAttempts
  /\ \A p \in Process, j \in Job :
       hand[p].job = j /\ HoldsJob(p, j) => hand[p].attempts = jobs[j].attempts

(* The inductive invariant of the queue.                                   *)
JobsInv ==
  /\ StoreInv
  /\ RunsTyped
  /\ JobsTypeOK
  /\ Decided
  /\ Told
  /\ Counted

-----------------------------------------------------------------------------
(* Constants and types.                                                    *)
LEMMA JobIds == \A j \in Job : JobCommand[j] \in Runs /\ JobCommand[j] \in Command
BY JobAssumption, RunAssumption

LEMMA JobInHand ==
  ASSUME JobsTypeOK, NEW p \in Process, hand[p].stage # "FREE"
  PROVE  hand[p].job \in Job
BY DEF JobsTypeOK, Hand

LEMMA VerdictTyped ==
  ASSUME NEW j, NEW row
  PROVE  /\ Verdict(j, row) \in Verdicts \ {"NONE", "QUEUED"}
         /\ Verdict(j, row) = "SUCCEEDED" => row.status = "SUCCEEDED" /\ ReceiptMatches(j, row)
BY DEF Verdict, Verdicts

LEMMA FreeTyped == Free \in Hand /\ Free.stage = "FREE" /\ Free.job = NoJob
BY DEF Free, Hand, Stages, Verdicts

-----------------------------------------------------------------------------
(* How a worker's hand moves when it neither claims nor settles: it keeps  *)
(* its job and attempt, or it puts the job down.                           *)
Moved(p, stage, threw, verdict) ==
  hand' = [hand EXCEPT ![p].stage = stage, ![p].threw = threw, ![p].verdict = verdict]

Kept(p) ==
  \E stage \in Stages \ {"FREE"}, threw \in BOOLEAN, verdict \in Verdicts :
    /\ Moved(p, stage, threw, verdict)
    /\ stage = "SETTLING" => verdict # "NONE"
    /\ stage = "SETTLING" /\ verdict = "SUCCEEDED" => Recorded(hand[p].job)
    /\ stage = "SETTLING" /\ verdict = "QUEUED" => hand[p].attempts < MaxAttempts

LEMMA DecideKeeps ==
  ASSUME JobsTypeOK, NEW p \in Process, NEW verdict \in Verdicts \ {"NONE"}, Decide(p, verdict),
         verdict = "SUCCEEDED" => Recorded(hand[p].job),
         verdict = "QUEUED" => hand[p].attempts < MaxAttempts
  PROVE  Kept(p)
<1>1. hand[p].threw \in BOOLEAN
  BY DEF JobsTypeOK, Hand
<1>2. Moved(p, "SETTLING", hand[p].threw, verdict)
  BY DEF Decide, Moved, JobsTypeOK, Hand
<1> QED BY <1>1, <1>2 DEF Kept, Stages

LEMMA FailureKeeps ==
  ASSUME JobsTypeOK, NEW p \in Process, Decide(p, "FAILED")
  PROVE  Kept(p)
<1>1. "FAILED" \in Verdicts \ {"NONE"}
  BY DEF Verdicts
<1> QED BY <1>1, DecideKeeps

LEMMA RequeueKeeps ==
  ASSUME JobsTypeOK, NEW p \in Process, MayRetry(p), Decide(p, "QUEUED")
  PROVE  Kept(p)
<1>1. "QUEUED" \in Verdicts \ {"NONE"}
  BY DEF Verdicts
<1> QED BY <1>1, DecideKeeps DEF MayRetry

LEMMA ReceiptDecides ==
  ASSUME JobsTypeOK, NEW p \in Process, hand[p].stage # "FREE",
         NEW row, row = receipts[JobCommand[hand[p].job]], row # NoRow,
         Decide(p, Verdict(hand[p].job, row))
  PROVE  Kept(p)
<1>1. Verdict(hand[p].job, row) = "SUCCEEDED" => Recorded(hand[p].job)
  BY VerdictTyped DEF Recorded, SuccessfulRow
<1> QED BY <1>1, VerdictTyped, DecideKeeps

(* Every step of a worker but its claim and its settlement.                *)
LEMMA WorkerKeeps ==
  ASSUME JobsTypeOK, NEW p \in Process,
         ReadReceipt(p) \/ Execute(p) \/ ReadBack(p) \/ MarkUnknown(p)
  PROVE  /\ hand[p].stage # "FREE"
         /\ jobs' = jobs /\ queue' = queue
         /\ Kept(p) \/ PutDown(p)
<1>1. hand[p].stage # "FREE" /\ jobs' = jobs /\ queue' = queue
  BY DEF ReadReceipt, Execute, ReadBack, MarkUnknown, Working
<1>2. hand[p].attempts \in Nat /\ hand[p].threw \in BOOLEAN /\ hand[p].verdict \in Verdicts
  BY DEF JobsTypeOK, Hand
<1>3. CASE ReadReceipt(p)
  <2>1. CASE hand' = [hand EXCEPT ![p].stage = "EXECUTING"]
    <3>1. Moved(p, "EXECUTING", hand[p].threw, hand[p].verdict)
      BY <2>1 DEF Moved, JobsTypeOK, Hand
    <3> QED BY <1>1, <1>2, <3>1 DEF Kept, Stages
  <2>2. CASE Decide(p, "FAILED")
    BY <1>1, <2>2, FailureKeeps
  <2>3. CASE ~Decide(p, "FAILED") /\ hand' # [hand EXCEPT ![p].stage = "EXECUTING"]
    BY <1>1, <1>3, <2>3, ReceiptDecides DEF ReadReceipt
  <2> QED BY <2>1, <2>2, <2>3, <1>1
<1>4. CASE Execute(p)
  <2>1. PICK threw \in BOOLEAN : Await(p, threw)
    BY <1>4 DEF Execute
  <2>2. Moved(p, "AWAITING", threw, hand[p].verdict)
    BY <2>1 DEF Await, Moved, JobsTypeOK, Hand
  <2> QED BY <1>1, <1>2, <2>2 DEF Kept, Stages
<1>5. CASE ReadBack(p)
  <2>1. CASE Decide(p, "FAILED")
    BY <1>1, <2>1, FailureKeeps
  <2>2. CASE MayRetry(p) /\ Decide(p, "QUEUED")
    BY <1>1, <2>2, RequeueKeeps
  <2>3. CASE ~Decide(p, "FAILED") /\ ~(MayRetry(p) /\ Decide(p, "QUEUED"))
    BY <1>1, <1>5, <2>3, ReceiptDecides DEF ReadBack
  <2> QED BY <2>1, <2>2, <2>3, <1>1
<1>6. CASE MarkUnknown(p)
  BY <1>1, <1>6, FailureKeeps DEF MarkUnknown
<1> QED BY <1>3, <1>4, <1>5, <1>6

-----------------------------------------------------------------------------
(* What the queue does to the services and to the store.                   *)
LEMMA PutAside ==
  ASSUME RunsTyped, NEW p \in Process, proc' = [proc EXCEPT ![p] = Idle("NONE")],
         pending' = pending, attempts' = attempts, crashes' \in 0..MaxCrashes
  PROVE  RunsTyped'
<1>1. ProcTyped(Idle("NONE"))
  BY IdleTyped DEF Errors
<1> QED BY <1>1, OneProcessTyped, CountersTyped

LEMMA WriteOffStep ==
  ASSUME JobsTypeOK, RunsTyped, NEW p \in Process, MarkUnknown(p)
  PROVE  [Next]_vars /\ RunsTyped'
<1>1. JobCommand[hand[p].job] \in Command
  BY JobInHand, JobIds DEF MarkUnknown, Working
<1>2. [Next]_vars
  BY <1>1 DEF MarkUnknown, Next, Outcomes, vars
<1>3. UNCHANGED <<proc, pending, attempts, crashes>>
  BY DEF MarkUnknown
<1> QED BY <1>2, <1>3 DEF RunsTyped, RunsTypeOK, Issuable

LEMMA ServiceStep ==
  ASSUME StoreInv, RunsTyped, [RunsNext]_runVars
  PROVE  [Next]_vars /\ RunsTyped'
BY RunsStepIsStoreStep, RunsTypedStep

LEMMA JobsStepIsStoreStep ==
  ASSUME JobsInv, [JobsNext]_jobVars
  PROVE  [Next]_vars /\ RunsTyped'
<1>1. StoreInv /\ RunsTyped /\ JobsTypeOK
  BY DEF JobsInv
<1>2. CASE UNCHANGED jobVars
  BY <1>1, <1>2, ServiceStep DEF jobVars, runVars
<1>3. ASSUME NEW j \in Job, Enqueue(j) \/ Cancel(j) \/ LeaseExpires(j)
      PROVE  [Next]_vars /\ RunsTyped'
  BY <1>1, <1>3, ServiceStep DEF Enqueue, Cancel, LeaseExpires
<1>4. ASSUME NEW p \in Process, NEW j \in Job, ClaimJob(p, j)
      PROVE  [Next]_vars /\ RunsTyped'
  <2>1. RunsTyped'
    BY <1>1, <1>4, PutAside, CountersTyped DEF ClaimJob
  <2> QED BY <1>4, <2>1 DEF ClaimJob, vars
<1>5. ASSUME NEW p \in Process, ReadReceipt(p) \/ ReadBack(p) \/ Settle(p)
      PROVE  [Next]_vars /\ RunsTyped'
  BY <1>1, <1>5, ServiceStep DEF ReadReceipt, ReadBack, Settle
<1>6. ASSUME NEW p \in Process, Execute(p)
      PROVE  [Next]_vars /\ RunsTyped'
  <2>1. JobCommand[hand[p].job] \in Runs
    BY <1>1, <1>6, JobInHand, JobIds DEF Execute, Working
  <2>2. [RunsNext]_runVars
    BY <1>6, <2>1 DEF Execute, RunsNext
  <2> QED BY <1>1, <2>2, ServiceStep
<1>7. ASSUME NEW p \in Process, MarkUnknown(p)
      PROVE  [Next]_vars /\ RunsTyped'
  BY <1>1, <1>7, WriteOffStep
<1>8. ASSUME NEW p \in Process, RunStep(p) \/ Foreground(p)
      PROVE  [Next]_vars /\ RunsTyped'
  <2>1. RunsNext
    BY <1>8 DEF RunStep, Foreground, RunsNext
  <2> QED BY <1>1, <2>1, ServiceStep
<1>9. ASSUME NEW p \in Process, JobCrash(p)
      PROVE  [Next]_vars /\ RunsTyped'
  <2>1. crashes' \in 0..MaxCrashes
    BY <1>1, <1>9, CountersTyped DEF JobCrash
  <2>2. RunsTyped'
    BY <1>1, <1>9, <2>1, PutAside DEF JobCrash
  <2> QED BY <1>9, <2>2 DEF JobCrash, vars
<1>10. CASE HumanStep \/ CommitStep
  <2>1. RunsNext
    BY <1>10 DEF HumanStep, CommitStep, RunsNext
  <2> QED BY <1>1, <2>1, ServiceStep
<1> QED
  BY <1>2, <1>3, <1>4, <1>5, <1>6, <1>7, <1>8, <1>9, <1>10 DEF JobsNext, WorkerStep

-----------------------------------------------------------------------------
(* What the steps do to the jobs and to the workers' hands.                *)
LEMMA KeptHand ==
  ASSUME JobsTypeOK, NEW p \in Process, hand[p].stage # "FREE", Kept(p)
  PROVE  /\ hand' \in [Process -> Hand]
         /\ \A q \in Process : q # p => hand'[q] = hand[q]
         /\ hand'[p].stage # "FREE"
         /\ hand'[p].job = hand[p].job /\ hand'[p].attempts = hand[p].attempts
         /\ hand'[p].stage = "SETTLING" => hand'[p].verdict # "NONE"
         /\ hand'[p].stage = "SETTLING" /\ hand'[p].verdict = "SUCCEEDED" =>
              Recorded(hand[p].job)
         /\ hand'[p].stage = "SETTLING" /\ hand'[p].verdict = "QUEUED" =>
              hand[p].attempts < MaxAttempts
<1>1. PICK stage \in Stages \ {"FREE"}, threw \in BOOLEAN, verdict \in Verdicts :
        /\ Moved(p, stage, threw, verdict)
        /\ stage = "SETTLING" => verdict # "NONE"
        /\ stage = "SETTLING" /\ verdict = "SUCCEEDED" => Recorded(hand[p].job)
        /\ stage = "SETTLING" /\ verdict = "QUEUED" => hand[p].attempts < MaxAttempts
  BY DEF Kept
<1>2. hand \in [Process -> Hand]
  BY DEF JobsTypeOK
<1>3. hand' \in [Process -> Hand]
  BY <1>1, <1>2 DEF Moved, Hand
<1>4. /\ hand'[p].stage = stage /\ hand'[p].verdict = verdict
      /\ hand'[p].job = hand[p].job /\ hand'[p].attempts = hand[p].attempts
      /\ \A q \in Process : q # p => hand'[q] = hand[q]
  BY <1>1, <1>2 DEF Moved, Hand
<1> QED BY <1>1, <1>3, <1>4

LEMMA FreeHand ==
  ASSUME JobsTypeOK, NEW p \in Process, PutDown(p)
  PROVE  /\ hand' \in [Process -> Hand]
         /\ \A q \in Process : q # p => hand'[q] = hand[q]
         /\ hand'[p] = Free
BY FreeTyped DEF PutDown, JobsTypeOK

LEMMA JobsMoves ==
  ASSUME JobsTypeOK, [JobsNext]_jobVars
  PROVE  \/ UNCHANGED <<jobs, queue, hand>>
         \/ \E j \in Job : Enqueue(j) \/ Cancel(j) \/ LeaseExpires(j)
         \/ \E p \in Process, j \in Job : ClaimJob(p, j)
         \/ \E p \in Process : /\ hand[p].stage # "FREE" /\ Kept(p)
                               /\ jobs' = jobs /\ queue' = queue
         \/ \E p \in Process : PutDown(p) /\ jobs' = jobs /\ queue' = queue
         \/ \E p \in Process : Settle(p)
<1>1. CASE UNCHANGED jobVars
  BY <1>1 DEF jobVars
<1>2. CASE JobsNext
  <2>1. ASSUME NEW p \in Process, WorkerStep(p), ~Settle(p)
        PROVE  \/ hand[p].stage # "FREE" /\ Kept(p) /\ jobs' = jobs /\ queue' = queue
               \/ PutDown(p) /\ jobs' = jobs /\ queue' = queue
    BY <2>1, WorkerKeeps DEF WorkerStep
  <2>2. ASSUME NEW p \in Process, RunStep(p) \/ Foreground(p)
        PROVE  UNCHANGED <<jobs, queue, hand>>
    BY <2>2 DEF RunStep, Foreground
  <2>3. ASSUME NEW p \in Process, JobCrash(p)
        PROVE  PutDown(p) /\ jobs' = jobs /\ queue' = queue
    BY <2>3 DEF JobCrash
  <2>4. ASSUME HumanStep \/ CommitStep
        PROVE  UNCHANGED <<jobs, queue, hand>>
    BY <2>4 DEF HumanStep, CommitStep
  <2> QED BY <1>2, <2>1, <2>2, <2>3, <2>4 DEF JobsNext
<1> QED BY <1>1, <1>2

LEMMA ClaimedHand ==
  ASSUME JobsTypeOK, NEW p \in Process, NEW j \in Job, ClaimJob(p, j)
  PROVE  /\ hand' \in [Process -> Hand] /\ jobs' \in [Job -> JobRow] /\ queue' = queue
         /\ \A q \in Process : q # p => hand'[q] = hand[q]
         /\ \A k \in Job : k # j => jobs'[k] = jobs[k]
         /\ hand'[p].stage = "CLAIMED" /\ hand'[p].job = j
         /\ hand'[p].attempts = jobs'[j].attempts
         /\ jobs'[j].status = "RUNNING" /\ jobs'[j].worker = p
<1>1. jobs[j].attempts + 1 \in Nat
  BY DEF JobsTypeOK, JobRow
<1> QED BY <1>1 DEF ClaimJob, JobsTypeOK, Hand, JobRow, Stages, Verdicts, JobStatuses

(* What a settlement writes: nothing, when the job is no longer held.      *)
LEMMA SettledJob ==
  ASSUME JobsTypeOK, Decided, NEW p \in Process, Settle(p)
  PROVE  /\ hand[p].job \in Job /\ hand[p].stage = "SETTLING" /\ PutDown(p) /\ queue' = queue
         /\ jobs' \in [Job -> JobRow]
         /\ \A k \in Job : k # hand[p].job => jobs'[k] = jobs[k]
         /\ jobs'[hand[p].job] # jobs[hand[p].job] =>
              /\ HoldsJob(p, hand[p].job)
              /\ jobs'[hand[p].job].attempts = jobs[hand[p].job].attempts
              /\ jobs'[hand[p].job].status = hand[p].verdict
              /\ hand[p].verdict \notin {"UNKNOWN", "RUNNING", "ABSENT"}
<1> DEFINE j == hand[p].job
<1>1. j \in Job /\ hand[p].stage = "SETTLING" /\ PutDown(p) /\ queue' = queue
  BY JobInHand DEF Settle, Working
<1>2. jobs \in [Job -> JobRow]
  BY DEF JobsTypeOK
<1>3. hand[p].verdict \in {"SUCCEEDED", "FAILED", "QUEUED"}
  BY <1>1 DEF Settle, JobsTypeOK, Hand, Verdicts, Decided
<1>4. CASE ~HoldsJob(p, j)
  BY <1>1, <1>2, <1>4 DEF Settle
<1>5. CASE HoldsJob(p, j) /\ hand[p].verdict = "QUEUED"
  <2>1. jobs' = [jobs EXCEPT ![j].status = "QUEUED", ![j].worker = NoWorker,
                             ![j].leased = FALSE]
    BY <1>5 DEF Settle
  <2> QED BY <1>1, <1>2, <1>5, <2>1 DEF JobRow, JobStatuses
<1>6. CASE HoldsJob(p, j) /\ hand[p].verdict # "QUEUED"
  <2>1. jobs' = [jobs EXCEPT ![j].status = hand[p].verdict]
    BY <1>6 DEF Settle
  <2> QED BY <1>1, <1>2, <1>3, <1>6, <2>1 DEF JobRow, JobStatuses
<1> QED BY <1>4, <1>5, <1>6

-----------------------------------------------------------------------------
(* A recorded success stays recorded.                                      *)
LEMMA RecordedStays ==
  ASSUME StoreInv, [Next]_vars, NEW j \in Job, Recorded(j)
  PROVE  Recorded(j)'
<1>1. JobCommand[j] \in Command
  BY JobIds
<1>2. receipts'[JobCommand[j]] = receipts[JobCommand[j]]
  BY <1>1, SuccessIsFinal DEF Recorded, StoreInv
<1> QED BY <1>2 DEF Recorded, SuccessfulRow, ReceiptMatches

LEMMA EnqueuedTyped ==
  ASSUME JobsTypeOK, NEW j \in Job, Enqueue(j) \/ Cancel(j) \/ LeaseExpires(j)
  PROVE  /\ jobs' \in [Job -> JobRow] /\ queue' \in Seq(Job) /\ hand' = hand
         /\ \A k \in Job : k # j => jobs'[k] = jobs[k]
         /\ jobs'[j].attempts = jobs[j].attempts /\ jobs'[j].worker = jobs[j].worker
         /\ \/ jobs[j].status = "ABSENT" /\ jobs'[j].status = "QUEUED"
            \/ jobs[j].status \in {"QUEUED", "RUNNING"} /\ jobs'[j].status = "CANCELLED"
            \/ jobs[j].status = "RUNNING" /\ jobs'[j].status = "RUNNING"
<1>1. jobs \in [Job -> JobRow] /\ queue \in Seq(Job)
  BY DEF JobsTypeOK
<1>2. CASE Enqueue(j)
  <2>1. Append(queue, j) \in Seq(Job)
    BY <1>1
  <2> QED BY <1>1, <1>2, <2>1 DEF Enqueue, JobRow, JobStatuses
<1>3. CASE Cancel(j)
  BY <1>1, <1>3 DEF Cancel, JobRow, JobStatuses
<1>4. CASE LeaseExpires(j)
  BY <1>1, <1>4 DEF LeaseExpires, JobRow, JobStatuses
<1> QED BY <1>2, <1>3, <1>4

LEMMA JobsTypeStep ==
  ASSUME JobsInv, [JobsNext]_jobVars
  PROVE  JobsTypeOK' /\ Decided'
<1>1. JobsTypeOK /\ Decided
  BY DEF JobsInv
<1>2. CASE UNCHANGED <<jobs, queue, hand>>
  BY <1>1, <1>2 DEF JobsTypeOK, Decided
<1>3. ASSUME NEW j \in Job, Enqueue(j) \/ Cancel(j) \/ LeaseExpires(j)
      PROVE  JobsTypeOK' /\ Decided'
  BY <1>1, <1>3, EnqueuedTyped DEF JobsTypeOK, Decided
<1>4. ASSUME NEW p \in Process, NEW j \in Job, ClaimJob(p, j)
      PROVE  JobsTypeOK' /\ Decided'
  <2>1. j # NoJob
    BY JobAssumption
  <2>2. /\ hand' \in [Process -> Hand] /\ jobs' \in [Job -> JobRow] /\ queue' = queue
        /\ \A q \in Process : q # p => hand'[q] = hand[q]
        /\ hand'[p].stage = "CLAIMED" /\ hand'[p].job = j
    BY <1>1, <1>4, ClaimedHand
  <2> QED BY <1>1, <2>1, <2>2 DEF JobsTypeOK, Decided
<1>5. ASSUME NEW p \in Process, hand[p].stage # "FREE", Kept(p), jobs' = jobs, queue' = queue
      PROVE  JobsTypeOK' /\ Decided'
  BY <1>1, <1>5, KeptHand DEF JobsTypeOK, Decided
<1>6. ASSUME NEW p \in Process, PutDown(p), jobs' = jobs, queue' = queue
      PROVE  JobsTypeOK' /\ Decided'
  BY <1>1, <1>6, FreeHand, FreeTyped DEF JobsTypeOK, Decided
<1>7. ASSUME NEW p \in Process, Settle(p)
      PROVE  JobsTypeOK' /\ Decided'
  BY <1>1, <1>7, SettledJob, FreeHand, FreeTyped DEF JobsTypeOK, Decided
<1> QED BY <1>1, <1>2, <1>3, <1>4, <1>5, <1>6, <1>7, JobsMoves

LEMMA ToldStep ==
  ASSUME JobsInv, [JobsNext]_jobVars
  PROVE  Told'
<1>1. JobsTypeOK /\ Decided /\ Told
  BY DEF JobsInv
<1>2. \A j \in Job : Recorded(j) => Recorded(j)'
  BY JobsStepIsStoreStep, RecordedStays DEF JobsInv
<1>3. \A p \in Process : hand[p].stage = "SETTLING" => hand[p].job \in Job
  BY <1>1, JobInHand
<1> DEFINE
  Keeps(p) == hand'[p] = hand[p]
  Backed(p) == hand'[p].stage = "SETTLING" /\ hand'[p].verdict = "SUCCEEDED" =>
                 hand'[p].job \in Job /\ Recorded(hand'[p].job)
  Success(j) == jobs'[j].status = "SUCCEEDED" => Recorded(j)
<1>4. SUFFICES (\A p \in Process : Backed(p)) /\ (\A j \in Job : Success(j))
  BY <1>2 DEF Told
<1>5. \A p \in Process : Keeps(p) => Backed(p)
  BY <1>1, <1>3 DEF Told
<1>6. \A j \in Job : jobs'[j] = jobs[j] => Success(j)
  BY <1>1 DEF Told
<1>7. CASE UNCHANGED <<jobs, queue, hand>>
  BY <1>5, <1>6, <1>7
<1>8. ASSUME NEW j \in Job, Enqueue(j) \/ Cancel(j) \/ LeaseExpires(j)
      PROVE  (\A p \in Process : Backed(p)) /\ (\A k \in Job : Success(k))
  BY <1>1, <1>5, <1>6, <1>8, EnqueuedTyped
<1>9. ASSUME NEW p \in Process, NEW j \in Job, ClaimJob(p, j)
      PROVE  (\A q \in Process : Backed(q)) /\ (\A k \in Job : Success(k))
  BY <1>1, <1>5, <1>6, <1>9, ClaimedHand
<1>10. ASSUME NEW p \in Process, hand[p].stage # "FREE", Kept(p), jobs' = jobs
       PROVE  (\A q \in Process : Backed(q)) /\ (\A k \in Job : Success(k))
  BY <1>1, <1>5, <1>6, <1>10, KeptHand, JobInHand
<1>11. ASSUME NEW p \in Process, PutDown(p), jobs' = jobs
       PROVE  (\A q \in Process : Backed(q)) /\ (\A k \in Job : Success(k))
  BY <1>1, <1>5, <1>6, <1>11, FreeHand, FreeTyped
<1>12. ASSUME NEW p \in Process, Settle(p)
       PROVE  (\A q \in Process : Backed(q)) /\ (\A k \in Job : Success(k))
  <2>1. \A q \in Process : Backed(q)
    BY <1>1, <1>5, <1>12, SettledJob, FreeHand, FreeTyped
  <2>2. Success(hand[p].job)
    BY <1>1, <1>6, <1>12, SettledJob DEF Told
  <2> QED BY <1>1, <1>6, <1>12, <2>1, <2>2, SettledJob
<1> QED BY <1>1, <1>7, <1>8, <1>9, <1>10, <1>11, <1>12, JobsMoves

LEMMA CountedStep ==
  ASSUME JobsInv, [JobsNext]_jobVars
  PROVE  Counted'
<1>1. JobsTypeOK /\ Decided /\ Counted
  BY DEF JobsInv
<1> DEFINE
  Limited(j) == /\ jobs'[j].status = "ABSENT" => jobs'[j].attempts = 0
                /\ jobs'[j].status = "QUEUED" => jobs'[j].attempts < MaxAttempts
  MayRequeue(p) == hand'[p].stage = "SETTLING" /\ hand'[p].verdict = "QUEUED" =>
                     hand'[p].attempts < MaxAttempts
  Agree(p, j) == hand'[p].job = j /\ jobs'[j].status = "RUNNING" /\ jobs'[j].worker = p =>
                   hand'[p].attempts = jobs'[j].attempts
  Goal == /\ \A j \in Job : Limited(j)
          /\ \A p \in Process : MayRequeue(p)
          /\ \A p \in Process, j \in Job : Agree(p, j)
<1>2. SUFFICES Goal
  BY DEF Counted, HoldsJob
<1>3. \A j \in Job : jobs'[j] = jobs[j] => Limited(j)
  BY <1>1 DEF Counted
<1>4. \A p \in Process : hand'[p] = hand[p] => MayRequeue(p)
  BY <1>1 DEF Counted
<1>5. \A p \in Process, j \in Job :
        /\ hand'[p].job = hand[p].job /\ hand'[p].attempts = hand[p].attempts
        /\ jobs'[j] = jobs[j]
        => Agree(p, j)
  BY <1>1 DEF Counted, HoldsJob
<1>6. CASE UNCHANGED <<jobs, queue, hand>>
  BY <1>3, <1>4, <1>5, <1>6
<1>7. ASSUME NEW j \in Job, Enqueue(j) \/ Cancel(j) \/ LeaseExpires(j)
      PROVE  Goal
  <2>1. /\ hand' = hand /\ \A k \in Job : k # j => jobs'[k] = jobs[k]
        /\ jobs'[j].attempts = jobs[j].attempts /\ jobs'[j].worker = jobs[j].worker
        /\ \/ jobs[j].status = "ABSENT" /\ jobs'[j].status = "QUEUED"
           \/ jobs[j].status \in {"QUEUED", "RUNNING"} /\ jobs'[j].status = "CANCELLED"
           \/ jobs[j].status = "RUNNING" /\ jobs'[j].status = "RUNNING"
    BY <1>1, <1>7, EnqueuedTyped
  <2>2. Limited(j)
    BY <1>1, <2>1, JobAssumption DEF Counted
  <2>3. \A p \in Process : Agree(p, j)
    BY <1>1, <2>1 DEF Counted, HoldsJob
  <2> QED BY <1>3, <1>4, <1>5, <2>1, <2>2, <2>3
<1>8. ASSUME NEW p \in Process, NEW j \in Job, ClaimJob(p, j)
      PROVE  Goal
  <2>1. /\ \A q \in Process : q # p => hand'[q] = hand[q]
        /\ \A k \in Job : k # j => jobs'[k] = jobs[k]
        /\ hand'[p].stage = "CLAIMED" /\ hand'[p].job = j
        /\ hand'[p].attempts = jobs'[j].attempts
        /\ jobs'[j].status = "RUNNING" /\ jobs'[j].worker = p
    BY <1>1, <1>8, ClaimedHand
  <2>2. Limited(j) /\ MayRequeue(p)
    BY <2>1
  <2>3. \A q \in Process, k \in Job : Agree(q, k)
    BY <1>5, <2>1
  <2> QED BY <1>3, <1>4, <2>1, <2>2, <2>3
<1>9. ASSUME NEW p \in Process, hand[p].stage # "FREE", Kept(p), jobs' = jobs
      PROVE  Goal
  <2>1. /\ \A q \in Process : q # p => hand'[q] = hand[q]
        /\ hand'[p].job = hand[p].job /\ hand'[p].attempts = hand[p].attempts
        /\ hand'[p].stage = "SETTLING" /\ hand'[p].verdict = "QUEUED" =>
             hand[p].attempts < MaxAttempts
    BY <1>1, <1>9, KeptHand
  <2> QED BY <1>3, <1>4, <1>5, <1>9, <2>1
<1>10. ASSUME NEW p \in Process, PutDown(p), jobs' = jobs
      PROVE  Goal
  <2>1. NoJob \notin Job
    BY JobAssumption
  <2>2. hand'[p].job = NoJob /\ hand'[p].stage = "FREE"
        /\ \A q \in Process : q # p => hand'[q] = hand[q]
    BY <1>1, <1>10, FreeHand, FreeTyped
  <2> QED BY <1>3, <1>4, <1>5, <1>10, <2>1, <2>2
<1>11. ASSUME NEW p \in Process, Settle(p)
       PROVE  Goal
  <2> DEFINE j == hand[p].job
  <2>1. NoJob \notin Job
    BY JobAssumption
  <2>2. /\ j \in Job /\ hand[p].stage = "SETTLING" /\ PutDown(p)
        /\ \A k \in Job : k # j => jobs'[k] = jobs[k]
        /\ jobs'[j] # jobs[j] =>
             /\ HoldsJob(p, j)
             /\ jobs'[j].attempts = jobs[j].attempts
             /\ jobs'[j].status = hand[p].verdict
             /\ hand[p].verdict \notin {"UNKNOWN", "RUNNING", "ABSENT"}
    BY <1>1, <1>11, SettledJob
  <2>3. hand'[p].job = NoJob /\ hand'[p].stage = "FREE"
        /\ \A q \in Process : q # p => hand'[q] = hand[q]
    BY <1>1, <2>2, FreeHand, FreeTyped
  <2>4. Limited(j)
    BY <1>1, <1>3, <2>2 DEF Counted
  <2>5. \A q \in Process : Agree(q, j)
    BY <1>5, <2>1, <2>2, <2>3
  <2> QED BY <1>3, <1>4, <1>5, <2>1, <2>2, <2>3, <2>4, <2>5
<1> QED BY <1>1, <1>6, <1>7, <1>8, <1>9, <1>10, <1>11, JobsMoves

-----------------------------------------------------------------------------
LEMMA JobsInvInit == JobsInit => JobsInv
<1> SUFFICES ASSUME JobsInit PROVE JobsInv
  OBVIOUS
<1>1. StoreInv /\ RunsTyped
  BY StoreInvInit, RunsTypedInit DEF JobsInit, RunsInit
<1>2. \A j \in Job : jobs[j].status = "ABSENT" /\ jobs[j].attempts = 0
  BY DEF JobsInit
<1>3. \A p \in Process : hand[p] = Free
  BY DEF JobsInit
<1>4. jobs \in [Job -> JobRow] /\ queue \in Seq(Job) /\ hand \in [Process -> Hand]
  BY FreeTyped DEF JobsInit, JobRow, JobStatuses
<1>5. NoJob \notin Job
  BY JobAssumption
<1>6. JobsTypeOK /\ Decided /\ Told
  BY <1>2, <1>3, <1>4, FreeTyped DEF JobsTypeOK, Decided, Told
<1>7. Counted
  BY <1>2, <1>3, <1>5, FreeTyped DEF Counted, HoldsJob
<1> QED BY <1>1, <1>6, <1>7 DEF JobsInv

LEMMA JobsInvStep ==
  JobsInv /\ [JobsNext]_jobVars => JobsInv' /\ [Next]_vars
<1> SUFFICES ASSUME JobsInv, [JobsNext]_jobVars PROVE JobsInv' /\ [Next]_vars
  OBVIOUS
<1>1. [Next]_vars /\ RunsTyped'
  BY JobsStepIsStoreStep
<1>2. StoreInv'
  BY <1>1, StoreInvStep DEF JobsInv
<1> QED BY <1>1, <1>2, JobsTypeStep, ToldStep, CountedStep DEF JobsInv

LEMMA JobsInvariant == JobsSpec => []JobsInv
BY JobsInvInit, JobsInvStep, PTL DEF JobsSpec

(* Queue and workers use the command store only through its operations:    *)
(* every theorem about the store holds of them too.                        *)
THEOREM QueueImplementsStore == JobsSpec => JobsImplementStore
<1>1. JobsInit => Init
  BY DEF JobsInit, RunsInit
<1> QED BY <1>1, JobsInvariant, JobsInvStep, PTL DEF JobsSpec, JobsImplementStore, Spec

(* The job rows and the workers' hands keep their types.                   *)
THEOREM JobsTyped == JobsSpec => []JobsTypeOK
<1>1. JobsInv => JobsTypeOK
  BY DEF JobsInv
<1> QED BY <1>1, JobsInvariant, PTL

(* A job reported as done has a succeeded command with the side effect it  *)
(* was enqueued for, whatever crashed, expired or raced before.            *)
THEOREM SuccessRecorded == JobsSpec => []SuccessIsRecorded
<1>1. JobsInv => SuccessIsRecorded
  BY DEF JobsInv, Told, Recorded, SuccessIsRecorded
<1> QED BY <1>1, JobsInvariant, PTL

(* No job is left waiting with its attempts used up.                       *)
THEOREM QueuedClaimable == JobsSpec => []QueuedIsClaimable
<1>1. JobsInv => QueuedIsClaimable
  BY DEF JobsInv, Counted, QueuedIsClaimable
<1> QED BY <1>1, JobsInvariant, PTL

LEMMA LateWriteStep ==
  ASSUME JobsInv, [JobsNext]_jobVars, NEW j \in Job
  PROVE  /\ jobs[j].status \in SettledStatuses => jobs'[j] = jobs[j]
         /\ jobs[j].status = "RUNNING" /\ jobs'[j].status \in {"QUEUED", "SUCCEEDED", "FAILED"} =>
              hand[jobs[j].worker].job = j /\ hand'[jobs[j].worker].job = NoJob
<1>1. JobsTypeOK /\ Decided
  BY DEF JobsInv
<1>2. CASE jobs'[j] = jobs[j]
  BY <1>2 DEF SettledStatuses
<1>3. ASSUME NEW k \in Job, Enqueue(k) \/ Cancel(k) \/ LeaseExpires(k)
      PROVE  \/ jobs'[j] = jobs[j]
             \/ jobs[j].status \notin {"RUNNING"} \cup SettledStatuses
             \/ jobs[j].status = "RUNNING" /\ jobs'[j].status \in {"RUNNING", "CANCELLED"}
  BY <1>1, <1>3, EnqueuedTyped DEF SettledStatuses
<1>4. ASSUME NEW p \in Process, NEW k \in Job, ClaimJob(p, k)
      PROVE  \/ jobs'[j] = jobs[j]
             \/ jobs[j].status \in {"QUEUED", "RUNNING"} /\ jobs'[j].status = "RUNNING"
  <2>1. jobs[k].status \in {"QUEUED", "RUNNING"}
    BY <1>4 DEF ClaimJob, Oldest, Runnable
  <2> QED BY <1>1, <1>4, <2>1, ClaimedHand
<1>5. ASSUME NEW p \in Process, Settle(p)
      PROVE  \/ jobs'[j] = jobs[j]
             \/ /\ jobs[j].status = "RUNNING" /\ jobs[j].worker = p
                /\ hand[p].job = j /\ hand'[p].job = NoJob
  <2>1. /\ PutDown(p)
        /\ jobs'[j] # jobs[j] => hand[p].job = j /\ HoldsJob(p, j)
    BY <1>1, <1>5, SettledJob
  <2>2. hand'[p].job = NoJob
    BY <1>1, <2>1, FreeHand, FreeTyped
  <2> QED BY <2>1, <2>2 DEF HoldsJob
<1> QED BY <1>1, <1>2, <1>3, <1>4, <1>5, JobsMoves DEF SettledStatuses

(* A running job ends or is requeued by its present holder only, and a     *)
(* settled job stays as it is: the writes of a worker that lost its lease  *)
(* change nothing.                                                         *)
THEOREM LateWritesAreIgnored == JobsSpec => LateWritesIgnored
<1> DEFINE Step == \A j \in Job :
       /\ jobs[j].status \in SettledStatuses => jobs'[j] = jobs[j]
       /\ jobs[j].status = "RUNNING" /\ jobs'[j].status \in {"QUEUED", "SUCCEEDED", "FAILED"} =>
            hand[jobs[j].worker].job = j /\ hand'[jobs[j].worker].job = NoJob
<1>1. JobsInv /\ [JobsNext]_jobVars => [Step]_jobVars
  BY LateWriteStep
<1> QED BY <1>1, JobsInvariant, PTL DEF JobsSpec, LateWritesIgnored

-----------------------------------------------------------------------------
(* Who awaits an invocation, while workers may write live invocations off. *)
Held == {"RUNNING", "OUTCOME_UNKNOWN"}

OwnedJobs == OwnedRuns(Held) /\ JobsTypeOK

LEMMA HeldIsLive == Live(Held)
BY DEF Live, Held

(* A step that only sets a process aside, or leaves the services alone.    *)
LEMMA SetAsideOwned ==
  ASSUME OwnedRuns(Held), NEW p \in Process, proc' = [proc EXCEPT ![p] = Idle("NONE")],
         receipts' = receipts, NoTransaction, pending' = pending
  PROVE  Ownership(Held)' /\ PendingSparesInvokers'
<1>1. RunsTyped /\ DOMAIN <<>> = {}
  BY DEF OwnedRuns
<1>2. \A q \in Process : proc'[q].pc = "INVOKING" => proc'[q] = proc[q]
  BY <1>1, IdleTyped, MovedAlone DEF Errors
<1>3. Ownership(Held)'
  BY <1>2, HeldIsLive, OwnershipKept
<1> QED BY <1>1, <1>3 DEF PendingSparesInvokers, NoTransaction

(* Writing an invocation off as unknown takes it from nobody.              *)
LEMMA WriteOffOwned ==
  ASSUME OwnedJobs, NEW p \in Process, MarkUnknown(p)
  PROVE  Ownership(Held)' /\ PendingSparesInvokers'
<1> DEFINE c == JobCommand[hand[p].job]
<1>1. RunsTyped /\ TypeOK /\ DOMAIN <<>> = {}
  BY DEF OwnedJobs, OwnedRuns, StoreInv
<1>2. c \in Command /\ pending = <<>> /\ pending' = pending /\ proc' = proc
  BY JobInHand, JobIds DEF OwnedJobs, MarkUnknown, Working, NoTransaction
<1>3. CASE receipts' = receipts
  <2>1. Ownership(Held)'
    BY <1>2, <1>3, HeldIsLive, OwnershipKept DEF OwnedJobs
  <2> QED BY <1>1, <1>2, <2>1 DEF PendingSparesInvokers
<1>4. CASE RecordOutcome(c, "OUTCOME_UNKNOWN")
  <2>1. /\ receipts[c] \in Row
        /\ receipts'[c] = [receipts[c] EXCEPT !.status = "OUTCOME_UNKNOWN",
                                               !.effect = receipts[c].effect]
        /\ \A d \in Command : d # c => receipts'[d] = receipts[d]
    BY <1>1, <1>2, <1>4, LiveRow DEF RecordOutcome, TypeOK
  <2>2. /\ receipts'[c] # NoRow /\ receipts'[c].status = "OUTCOME_UNKNOWN"
        /\ receipts'[c].identity = receipts[c].identity
    <3>1. receipts[c].effect \in Effects /\ "OUTCOME_UNKNOWN" \in Statuses
      BY <2>1 DEF Row, Statuses
    <3>2. receipts'[c] \in Row
      BY <2>1, <3>1 DEF Row
    <3> QED BY <2>1, <3>2, NoRowAssumption DEF Row
  <2>3. ASSUME NEW q \in Process, proc'[q].pc = "INVOKING"
        PROVE  Holds(q, Held)'
    <3> DEFINE d == proc[q].command
    <3>1. d \in Command /\ Holds(q, Held)
      BY <1>1, <1>2, <2>3, RunIds DEF OwnedJobs, OwnedRuns, Ownership, RunsTyped
    <3>2. /\ receipts'[d] # NoRow /\ receipts'[d].status \in Held
          /\ receipts'[d].identity = receipts[d].identity
      BY <2>1, <2>2, <3>1 DEF Holds, Held
    <3> QED BY <1>2, <3>1, <3>2 DEF Holds, IdentityOf
  <2> QED BY <1>1, <1>2, <2>3 DEF OwnedJobs, OwnedRuns, Ownership, PendingSparesInvokers
<1> QED BY <1>3, <1>4 DEF MarkUnknown, vars

LEMMA ServiceOwned ==
  ASSUME OwnedJobs, [RunsNext]_runVars
  PROVE  Ownership(Held)' /\ PendingSparesInvokers'
BY OwnershipStep, HeldIsLive DEF OwnedJobs

LEMMA JobsOwned ==
  ASSUME OwnedJobs, [JobsNext]_jobVars
  PROVE  Ownership(Held)' /\ PendingSparesInvokers'
<1>1. OwnedRuns(Held) /\ JobsTypeOK
  BY DEF OwnedJobs
<1>2. ASSUME NEW p \in Process, JobCrash(p) \/ \E j \in Job : ClaimJob(p, j)
      PROVE  Ownership(Held)' /\ PendingSparesInvokers'
  BY <1>1, <1>2, SetAsideOwned DEF JobCrash, ClaimJob
<1>3. ASSUME NEW p \in Process, MarkUnknown(p)
      PROVE  Ownership(Held)' /\ PendingSparesInvokers'
  BY <1>3, WriteOffOwned
<1>4. ASSUME NEW p \in Process, Execute(p)
      PROVE  [RunsNext]_runVars
  <2>1. JobCommand[hand[p].job] \in Runs
    BY <1>1, <1>4, JobInHand, JobIds DEF Execute, Working
  <2> QED BY <1>4, <2>1 DEF Execute, RunsNext
<1>5. ASSUME \/ \E j \in Job : Enqueue(j) \/ Cancel(j) \/ LeaseExpires(j)
             \/ \E p \in Process : \/ ReadReceipt(p) \/ ReadBack(p) \/ Settle(p)
                                   \/ RunStep(p) \/ Foreground(p)
             \/ HumanStep \/ CommitStep
             \/ UNCHANGED jobVars
      PROVE  [RunsNext]_runVars
  BY <1>5 DEF Enqueue, Cancel, LeaseExpires, ReadReceipt, ReadBack, Settle, RunStep,
              Foreground, HumanStep, CommitStep, RunsNext, jobVars, runVars
<1> QED BY <1>2, <1>3, <1>4, <1>5, ServiceOwned DEF JobsNext, WorkerStep

(* However leases, crashes and retries interleave, a process awaiting an   *)
(* invocation is the only one, and the receipt, though it may have been    *)
(* written off, names it.                                                  *)
THEOREM OneInvoker == JobsSpec => []SoleInvoker
<1>1. JobsInit => Ownership(Held) /\ PendingSparesInvokers
  BY DEF JobsInit, RunsInit, Idle, Ownership, PendingSparesInvokers
<1>2. JobsInv /\ JobsInv' /\ Ownership(Held) /\ PendingSparesInvokers /\ [JobsNext]_jobVars =>
        (Ownership(Held) /\ PendingSparesInvokers)'
  BY JobsOwned DEF JobsInv, OwnedJobs, OwnedRuns
<1>3. JobsInv /\ Ownership(Held) => SoleInvoker
  BY DEF JobsInv, RunsTyped, Ownership, Holds, Held, SoleInvoker, Invoking
<1> QED BY <1>1, <1>2, <1>3, JobsInvariant, PTL DEF JobsSpec

-----------------------------------------------------------------------------
(* The queue keeps the promise of JobLedger.                               *)
(* A worker executes only within the limit of attempts.                    *)
WithinLimit == \A p \in Process : hand[p].stage = "EXECUTING" => hand[p].attempts <= MaxAttempts

JobStates == [j \in Job |-> jobs[j].status]

JobHolders == [j \in Job |-> jobs[j].worker]

JobTries == [j \in Job |-> jobs[j].attempts]

Shown(h) == [job |-> h.job, attempt |-> h.attempts, stage |-> LedgerStage(h.stage)]

OtherJobsKept(j) == \A k \in Job : k # j => jobs'[k] = jobs[k]

OtherHandsKept(p) == \A q \in Process : q # p => hand'[q] = hand[q]

(* What the promise sees of a step that changes one job, or one hand.      *)
LEMMA OneJobSeen ==
  ASSUME NEW j \in Job, OtherJobsKept(j)
  PROVE  /\ JobStates' = [JobStates EXCEPT ![j] = jobs'[j].status]
         /\ JobHolders' = [JobHolders EXCEPT ![j] = jobs'[j].worker]
         /\ JobTries' = [JobTries EXCEPT ![j] = jobs'[j].attempts]
         /\ jobs'[j].status = "RUNNING" /\ ~jobs'[j].leased => LapsedJobs' = LapsedJobs \cup {j}
         /\ jobs'[j].status # "RUNNING" \/ jobs'[j].leased => LapsedJobs' = LapsedJobs \ {j}
BY DEF JobStates, JobHolders, JobTries, LapsedJobs, OtherJobsKept

LEMMA OneHandSeen ==
  ASSUME NEW p \in Process, OtherHandsKept(p)
  PROVE  LedgerHands' = [LedgerHands EXCEPT ![p] = Shown(hand'[p])]
BY DEF LedgerHands, Shown, OtherHandsKept

LEMMA HandSeen ==
  ASSUME NEW p \in Process
  PROVE  /\ LedgerHands[p] = Shown(hand[p])
         /\ LedgerHands[p].job = hand[p].job /\ LedgerHands[p].attempt = hand[p].attempts
         /\ LedgerHands[p].stage = LedgerStage(hand[p].stage)
BY DEF LedgerHands, Shown

LEMMA HandKept ==
  ASSUME NEW p \in Process, OtherHandsKept(p), Shown(hand'[p]) = Shown(hand[p])
  PROVE  LedgerHands' = LedgerHands
<1>1. \A q \in Process : Shown(hand'[q]) = Shown(hand[q])
  BY DEF OtherHandsKept
<1>2. /\ LedgerHands = [q \in Process |-> Shown(hand[q])]
      /\ LedgerHands' = [q \in Process |-> Shown(hand'[q])]
  BY DEF LedgerHands, Shown
<1> QED BY <1>1, <1>2

LEMMA StagesSeen ==
  /\ LedgerStage("FREE") = "FREE"
  /\ LedgerStage("CLAIMED") = "TAKEN" /\ LedgerStage("EXECUTING") = "TAKEN"
  /\ LedgerStage("AWAITING") = "OPERATING" /\ LedgerStage("SETTLING") = "DECIDED"
BY DEF LedgerStage

LEMMA FreeSeen == Shown(Free) = Promised!Empty
BY StagesSeen DEF Shown, Free, Promised!Empty

JobsSeen == <<JobStates, JobHolders, JobTries, LapsedJobs>>

LEMMA JobsUnseen ==
  ASSUME jobs' = jobs
  PROVE  UNCHANGED JobsSeen
BY DEF JobsSeen, JobStates, JobHolders, JobTries, LapsedJobs

LEMMA RecordUnseen ==
  ASSUME receipts' = receipts
  PROVE  RecordedJobs' = RecordedJobs
BY DEF RecordedJobs, SuccessfulRow, ReceiptMatches

LEMMA HandsUnseen ==
  ASSUME hand' = hand
  PROVE  LedgerHands' = LedgerHands
BY DEF LedgerHands

(* Any step of the store only adds successes to the record.                *)
LEMMA RecordStep ==
  ASSUME StoreInv, [Next]_vars, jobs' = jobs, LedgerHands' = LedgerHands
  PROVE  Promised!Record
<1>1. RecordedJobs \subseteq RecordedJobs' /\ RecordedJobs' \subseteq Job
  BY RecordedStays DEF RecordedJobs, Recorded
<1> QED BY <1>1, JobsUnseen DEF Promised!Record, JobsSeen, JobStates, JobHolders, JobTries

LEMMA EnqueueSeen ==
  ASSUME JobsTypeOK, NEW j \in Job, Enqueue(j)
  PROVE  Promised!Enqueue(j)
<1>1. /\ OtherJobsKept(j) /\ jobs[j].status = "ABSENT" /\ jobs'[j].status = "QUEUED"
      /\ jobs'[j].worker = jobs[j].worker /\ jobs'[j].attempts = jobs[j].attempts
      /\ receipts' = receipts /\ hand' = hand
  BY DEF Enqueue, JobsTypeOK, JobRow, OtherJobsKept, runVars
<1>2. LapsedJobs' = LapsedJobs
  BY <1>1, OneJobSeen DEF LapsedJobs
<1>3. /\ JobStates' = [JobStates EXCEPT ![j] = "QUEUED"]
      /\ JobHolders' = JobHolders /\ JobTries' = JobTries
  BY <1>1, OneJobSeen DEF JobHolders, JobTries
<1>4. RecordedJobs' = RecordedJobs /\ LedgerHands' = LedgerHands
  BY <1>1, RecordUnseen, HandsUnseen
<1> QED BY <1>1, <1>2, <1>3, <1>4 DEF Promised!Enqueue, JobStates, JobHolders, JobTries

LEMMA CancelSeen ==
  ASSUME JobsTypeOK, NEW j \in Job, Cancel(j)
  PROVE  Promised!Cancel(j)
<1>1. /\ OtherJobsKept(j) /\ jobs[j].status \in {"QUEUED", "RUNNING"}
      /\ jobs'[j].status = "CANCELLED"
      /\ jobs'[j].worker = jobs[j].worker /\ jobs'[j].attempts = jobs[j].attempts
      /\ receipts' = receipts /\ hand' = hand
  BY DEF Cancel, JobsTypeOK, JobRow, OtherJobsKept, runVars
<1>2. /\ JobStates' = [JobStates EXCEPT ![j] = "CANCELLED"]
      /\ JobHolders' = JobHolders /\ JobTries' = JobTries /\ LapsedJobs' = LapsedJobs \ {j}
  BY <1>1, OneJobSeen DEF JobHolders, JobTries
<1>3. RecordedJobs' = RecordedJobs /\ LedgerHands' = LedgerHands
  BY <1>1, RecordUnseen, HandsUnseen
<1> QED BY <1>1, <1>2, <1>3 DEF Promised!Cancel, JobStates, JobHolders, JobTries

LEMMA LapseSeen ==
  ASSUME JobsTypeOK, NEW j \in Job, LeaseExpires(j)
  PROVE  Promised!Lapse(j)
<1>1. /\ OtherJobsKept(j) /\ jobs[j].status = "RUNNING"
      /\ jobs'[j].status = "RUNNING" /\ ~jobs'[j].leased
      /\ jobs'[j].worker = jobs[j].worker /\ jobs'[j].attempts = jobs[j].attempts
      /\ receipts' = receipts /\ hand' = hand
  BY DEF LeaseExpires, JobsTypeOK, JobRow, OtherJobsKept, runVars
<1>2. /\ JobStates' = JobStates
      /\ JobHolders' = JobHolders /\ JobTries' = JobTries /\ LapsedJobs' = LapsedJobs \cup {j}
  BY <1>1, OneJobSeen DEF JobStates, JobHolders, JobTries
<1>3. RecordedJobs' = RecordedJobs /\ LedgerHands' = LedgerHands
  BY <1>1, RecordUnseen, HandsUnseen
<1> QED BY <1>1, <1>2, <1>3 DEF Promised!Lapse, JobStates, JobHolders, JobTries

(* A claim takes a job that waits, or whose lease has run out.             *)
LEMMA TakeSeen ==
  ASSUME JobsTypeOK, NEW p \in Process, NEW j \in Job, ClaimJob(p, j)
  PROVE  Promised!Take(p, j)
<1>1. /\ OtherJobsKept(j) /\ OtherHandsKept(p) /\ receipts' = receipts
      /\ jobs'[j].status = "RUNNING" /\ jobs'[j].worker = p
      /\ hand'[p].stage = "CLAIMED" /\ hand'[p].job = j /\ hand'[p].attempts = jobs'[j].attempts
  <2>1. receipts' = receipts
    BY DEF ClaimJob
  <2> QED BY <2>1, ClaimedHand DEF OtherJobsKept, OtherHandsKept
<1>2. jobs'[j].attempts = jobs[j].attempts + 1 /\ jobs'[j].leased = TRUE
  BY DEF ClaimJob, JobsTypeOK
<1>3. LedgerHands[p].stage = "FREE"
  BY HandSeen, StagesSeen DEF ClaimJob
<1>4. (jobs[j].status = "QUEUED" /\ jobs[j].attempts < MaxAttempts) \/ j \in LapsedJobs
  BY DEF ClaimJob, Oldest, Runnable, LapsedJobs
<1>5. /\ JobStates' = [JobStates EXCEPT ![j] = "RUNNING"]
      /\ JobHolders' = [JobHolders EXCEPT ![j] = p]
      /\ JobTries' = [JobTries EXCEPT ![j] = jobs[j].attempts + 1]
      /\ LapsedJobs' = LapsedJobs \ {j}
  BY <1>1, <1>2, OneJobSeen
<1>6. LedgerHands' = [LedgerHands EXCEPT ![p] =
        [job |-> j, attempt |-> jobs[j].attempts + 1, stage |-> "TAKEN"]]
  BY <1>1, <1>2, OneHandSeen, StagesSeen DEF Shown
<1>7. RecordedJobs' = RecordedJobs
  BY <1>1, RecordUnseen
<1>8. Promised!Free(j)
  BY <1>4 DEF Promised!Free
<1>9. JobStates[j] = jobs[j].status /\ JobTries[j] = jobs[j].attempts
  BY DEF JobStates, JobTries
<1> QED BY <1>3, <1>5, <1>6, <1>7, <1>8, <1>9 DEF Promised!Take, JobStates, JobHolders, JobTries

(* How the hand of a worker looks after a step that keeps its job.         *)
LEMMA StageSeen ==
  ASSUME JobsTypeOK, NEW p \in Process, NEW stage, OtherHandsKept(p), hand'[p].stage = stage,
         hand'[p].job = hand[p].job, hand'[p].attempts = hand[p].attempts
  PROVE  LedgerHands' = [LedgerHands EXCEPT ![p].stage = LedgerStage(stage)]
<1>1. LedgerHands' = [LedgerHands EXCEPT ![p] = Shown(hand'[p])]
  BY OneHandSeen
<1>2. Shown(hand'[p]) = [LedgerHands[p] EXCEPT !.stage = LedgerStage(stage)]
  <2>1. LedgerHands[p] = [job |-> hand[p].job, attempt |-> hand[p].attempts,
                          stage |-> LedgerStage(hand[p].stage)]
    BY DEF LedgerHands
  <2>2. Shown(hand'[p]) = [job |-> hand[p].job, attempt |-> hand[p].attempts,
                           stage |-> LedgerStage(stage)]
    BY DEF Shown
  <2> QED BY <2>1, <2>2
<1> QED BY <1>1, <1>2

LEMMA LeaveSeen ==
  ASSUME JobsTypeOK, NEW p \in Process, PutDown(p), jobs' = jobs, receipts' = receipts
  PROVE  Promised!Leave(p)
<1>1. OtherHandsKept(p) /\ hand'[p] = Free
  BY FreeHand DEF OtherHandsKept
<1>2. LedgerHands' = [LedgerHands EXCEPT ![p] = Promised!Empty]
  BY <1>1, OneHandSeen, FreeSeen
<1> QED
  BY <1>2, JobsUnseen, RecordUnseen DEF Promised!Leave, Promised!PutDown, JobsSeen, JobStates,
    JobHolders, JobTries

(* A worker that has read what it needs decides.                           *)
LEMMA DecideSeen ==
  ASSUME JobsTypeOK, NEW p \in Process, NEW verdict, Decide(p, verdict),
         hand[p].stage \in {"CLAIMED", "AWAITING"}, jobs' = jobs, receipts' = receipts
  PROVE  Promised!Decide(p)
<1>1. /\ OtherHandsKept(p) /\ hand'[p].stage = "SETTLING"
      /\ hand'[p].job = hand[p].job /\ hand'[p].attempts = hand[p].attempts
  BY DEF Decide, OtherHandsKept, JobsTypeOK, Hand
<1>2. LedgerHands' = [LedgerHands EXCEPT ![p].stage = "DECIDED"]
  BY <1>1, StageSeen, StagesSeen
<1>3. LedgerHands[p].stage \in {"TAKEN", "OPERATING"}
  BY HandSeen, StagesSeen
<1> QED
  BY <1>2, <1>3, JobsUnseen, RecordUnseen DEF Promised!Decide, JobsSeen, JobStates, JobHolders,
    JobTries

LEMMA OperateSeen ==
  ASSUME JobsTypeOK, WithinLimit, NEW p \in Process, Execute(p)
  PROVE  Promised!Operate(p)
<1>1. receipts' = receipts /\ jobs' = jobs /\ hand[p].stage = "EXECUTING"
  BY DEF Execute, Working, Begin, BeginRefused, Throw, runVars
<1>2. PICK threw : Await(p, threw)
  BY DEF Execute
<1>3. /\ OtherHandsKept(p) /\ hand'[p].stage = "AWAITING"
      /\ hand'[p].job = hand[p].job /\ hand'[p].attempts = hand[p].attempts
  BY <1>2 DEF Await, OtherHandsKept, JobsTypeOK, Hand
<1>4. LedgerHands' = [LedgerHands EXCEPT ![p].stage = "OPERATING"]
  BY <1>3, StageSeen, StagesSeen
<1>5. LedgerHands[p].stage = "TAKEN" /\ LedgerHands[p].attempt <= MaxAttempts
  BY <1>1, HandSeen, StagesSeen DEF WithinLimit
<1> QED
  BY <1>1, <1>4, <1>5, JobsUnseen, RecordUnseen DEF Promised!Operate, JobsSeen, JobStates,
    JobHolders, JobTries

LEMMA ReadSeen ==
  ASSUME JobsInv, NEW p \in Process, ReadReceipt(p) \/ ReadBack(p)
  PROVE  Promised!Decide(p) \/ Promised!Record
<1>1. /\ JobsTypeOK /\ StoreInv /\ receipts' = receipts /\ jobs' = jobs
      /\ hand[p].stage \in {"CLAIMED", "AWAITING"} /\ UNCHANGED vars
  BY DEF JobsInv, ReadReceipt, ReadBack, Working, runVars, vars
<1>2. CASE \E verdict : Decide(p, verdict)
  BY <1>1, <1>2, DecideSeen
<1>3. CASE ~\E verdict : Decide(p, verdict)
  <2>1. hand[p].stage = "CLAIMED" /\ hand' = [hand EXCEPT ![p].stage = "EXECUTING"]
    BY <1>3 DEF ReadReceipt, ReadBack, Working
  <2>2. /\ OtherHandsKept(p) /\ hand'[p].stage = "EXECUTING"
        /\ hand'[p].job = hand[p].job /\ hand'[p].attempts = hand[p].attempts
    BY <1>1, <2>1 DEF OtherHandsKept, JobsTypeOK, Hand
  <2>3. Shown(hand'[p]) = Shown(hand[p])
    BY <2>1, <2>2, StagesSeen DEF Shown
  <2>4. LedgerHands' = LedgerHands
    BY <2>2, <2>3, HandKept
  <2> QED BY <1>1, <2>4, RecordStep
<1> QED BY <1>2, <1>3

LEMMA WriteOffSeen ==
  ASSUME JobsInv, NEW p \in Process, MarkUnknown(p)
  PROVE  Promised!Leave(p) \/ Promised!Record
<1>1. JobsTypeOK /\ StoreInv /\ [Next]_vars /\ jobs' = jobs /\ hand[p].stage = "SETTLING"
  BY WriteOffStep DEF JobsInv, MarkUnknown, Working
<1>2. CASE PutDown(p) /\ receipts' = receipts
  BY <1>1, <1>2, LeaveSeen
<1>3. CASE Decide(p, "FAILED")
  <2>1. /\ OtherHandsKept(p) /\ hand'[p].stage = "SETTLING"
        /\ hand'[p].job = hand[p].job /\ hand'[p].attempts = hand[p].attempts
    BY <1>1, <1>3 DEF Decide, OtherHandsKept, JobsTypeOK, Hand
  <2>2. Shown(hand'[p]) = Shown(hand[p])
    BY <1>1, <2>1 DEF Shown
  <2>3. LedgerHands' = LedgerHands
    BY <2>1, <2>2, HandKept
  <2> QED BY <1>1, <2>3, RecordStep
<1> QED BY <1>2, <1>3 DEF MarkUnknown, vars

(* Only the holder of a job settles it; anybody else leaves it.            *)
LEMMA SettleSeen ==
  ASSUME JobsInv, NEW p \in Process, Settle(p)
  PROVE  \/ Promised!Leave(p)
         \/ \E outcome \in {"SUCCEEDED", "FAILED", "QUEUED"} : Promised!Settle(p, outcome)
<1> DEFINE j == hand[p].job
           v == hand[p].verdict
<1>1. JobsTypeOK /\ Decided /\ Told /\ Counted
  BY DEF JobsInv
<1>2. /\ j \in Job /\ hand[p].stage = "SETTLING" /\ PutDown(p) /\ receipts' = receipts
      /\ OtherJobsKept(j)
  BY <1>1, SettledJob DEF Settle, runVars, OtherJobsKept
<1>3. CASE ~HoldsJob(p, j)
  <2>1. jobs' = jobs
    BY <1>3 DEF Settle
  <2> QED BY <1>1, <1>2, <2>1, LeaveSeen
<1>4. CASE HoldsJob(p, j)
  <2>1. v \in {"SUCCEEDED", "FAILED", "QUEUED"}
    BY <1>1, <1>2 DEF Settle, JobsTypeOK, Hand, Verdicts, Decided
  <2>2. /\ jobs'[j].status = v /\ jobs'[j].attempts = jobs[j].attempts
        /\ jobs'[j].worker = IF v = "QUEUED" THEN NoWorker ELSE jobs[j].worker
    <3>1. CASE v = "QUEUED"
      BY <1>1, <1>2, <1>4, <3>1 DEF Settle, JobsTypeOK, JobRow
    <3>2. CASE v # "QUEUED"
      BY <1>1, <1>2, <1>4, <3>2 DEF Settle, JobsTypeOK, JobRow
    <3> QED BY <3>1, <3>2
  <2>3. /\ JobStates' = [JobStates EXCEPT ![j] = v]
        /\ JobHolders' = IF v = "QUEUED" THEN [JobHolders EXCEPT ![j] = NoWorker]
                         ELSE JobHolders
        /\ JobTries' = JobTries /\ LapsedJobs' = LapsedJobs \ {j}
    BY <1>2, <2>1, <2>2, OneJobSeen DEF JobHolders, JobTries
  <2>4. LedgerHands' = [LedgerHands EXCEPT ![p] = Promised!Empty]
    <3>1. OtherHandsKept(p) /\ hand'[p] = Free
      BY <1>1, <1>2, FreeHand DEF OtherHandsKept
    <3> QED BY <3>1, OneHandSeen, FreeSeen
  <2>5. LedgerHands[p].job = j /\ LedgerHands[p].stage = "DECIDED"
    BY <1>2, HandSeen, StagesSeen
  <2>6. jobs[j].status = "RUNNING" /\ jobs[j].worker = p /\ hand[p].attempts = jobs[j].attempts
    BY <1>1, <1>2, <1>4 DEF HoldsJob, Counted
  <2>7. /\ v = "SUCCEEDED" => j \in RecordedJobs
        /\ v = "QUEUED" => jobs[j].attempts < MaxAttempts
    BY <1>1, <1>2, <2>6 DEF Told, Counted, Recorded, RecordedJobs
  <2>8. RecordedJobs' = RecordedJobs
    BY <1>2, RecordUnseen
  <2>9. /\ JobStates[j] = jobs[j].status /\ JobHolders[j] = jobs[j].worker
        /\ JobTries[j] = jobs[j].attempts
    BY <1>2 DEF JobStates, JobHolders, JobTries
  <2>10. ASSUME NEW outcome \in {"SUCCEEDED", "FAILED", "QUEUED"}, outcome = v
         PROVE  Promised!Settle(p, outcome)
    BY <1>2, <2>3, <2>4, <2>5, <2>6, <2>7, <2>8, <2>9, <2>10 DEF Promised!Settle,
      Promised!PutDown, JobStates, JobHolders, JobTries
  <2> QED BY <2>1, <2>10
<1> QED BY <1>3, <1>4

LEMMA WithinLimitStep ==
  ASSUME JobsInv, WithinLimit, [JobsNext]_jobVars
  PROVE  WithinLimit'
<1>1. JobsTypeOK /\ Decided
  BY DEF JobsInv
<1>2. CASE UNCHANGED hand
  BY <1>2 DEF WithinLimit
<1>3. ASSUME NEW p \in Process, OtherHandsKept(p),
             hand'[p].stage = "EXECUTING" => hand'[p].attempts <= MaxAttempts
      PROVE  WithinLimit'
  BY <1>3 DEF WithinLimit, OtherHandsKept
<1>4. ASSUME NEW p \in Process, ReadReceipt(p)
      PROVE  WithinLimit'
  <2>1. CASE \E verdict : Decide(p, verdict)
    <3>1. OtherHandsKept(p) /\ hand'[p].stage = "SETTLING"
      BY <1>1, <2>1 DEF Decide, OtherHandsKept, JobsTypeOK, Hand
    <3> QED BY <1>3, <3>1
  <2>2. CASE ~\E verdict : Decide(p, verdict)
    <3>1. hand[p].attempts <= MaxAttempts /\ hand' = [hand EXCEPT ![p].stage = "EXECUTING"]
      BY <1>4, <2>2 DEF ReadReceipt
    <3>2. OtherHandsKept(p) /\ hand'[p].attempts <= MaxAttempts
      BY <1>1, <3>1 DEF OtherHandsKept, JobsTypeOK, Hand
    <3> QED BY <1>3, <3>2
  <2> QED BY <2>1, <2>2
<1>5. ASSUME NEW p \in Process, \/ \E threw : Await(p, threw)
                                \/ \E verdict : Decide(p, verdict)
      PROVE  WithinLimit'
  <2>1. OtherHandsKept(p) /\ hand'[p].stage \in {"AWAITING", "SETTLING"}
    BY <1>1, <1>5 DEF Await, Decide, OtherHandsKept, JobsTypeOK, Hand
  <2> QED BY <1>3, <2>1
<1>6. ASSUME NEW p \in Process, PutDown(p)
      PROVE  WithinLimit'
  <2>1. OtherHandsKept(p) /\ hand'[p].stage = "FREE"
    BY <1>1, <1>6, FreeHand, FreeTyped DEF OtherHandsKept
  <2> QED BY <1>3, <2>1
<1>7. ASSUME NEW p \in Process, NEW j \in Job, ClaimJob(p, j)
      PROVE  WithinLimit'
  <2>1. OtherHandsKept(p) /\ hand'[p].stage = "CLAIMED"
    BY <1>1, <1>7, ClaimedHand DEF OtherHandsKept
  <2> QED BY <1>3, <2>1
<1>8. ASSUME NEW p \in Process, WorkerStep(p) \/ RunStep(p) \/ Foreground(p) \/ JobCrash(p)
      PROVE  WithinLimit'
  <2>1. CASE Execute(p) \/ ReadBack(p)
    BY <1>5, <2>1 DEF Execute, ReadBack
  <2>2. CASE MarkUnknown(p) \/ Settle(p) \/ JobCrash(p)
    BY <1>5, <1>6, <2>2 DEF MarkUnknown, Settle, JobCrash
  <2>3. CASE RunStep(p) \/ Foreground(p)
    BY <1>2, <2>3 DEF RunStep, Foreground
  <2> QED BY <1>4, <1>8, <2>1, <2>2, <2>3 DEF WorkerStep
<1>9. ASSUME \/ \E j \in Job : Enqueue(j) \/ Cancel(j) \/ LeaseExpires(j)
             \/ HumanStep \/ CommitStep \/ UNCHANGED jobVars
      PROVE  WithinLimit'
  BY <1>2, <1>9 DEF Enqueue, Cancel, LeaseExpires, HumanStep, CommitStep, jobVars
<1> QED BY <1>7, <1>8, <1>9 DEF JobsNext

LEMMA JobLedgerStep ==
  ASSUME JobsInv, WithinLimit, [JobsNext]_jobVars
  PROVE  Promised!Next
<1>1. JobsTypeOK /\ StoreInv /\ [Next]_vars
  BY JobsStepIsStoreStep DEF JobsInv
<1>2. ASSUME UNCHANGED <<jobs, hand>>
      PROVE  Promised!Next
  BY <1>1, <1>2, HandsUnseen, RecordStep DEF Promised!Next
<1>3. ASSUME NEW j \in Job, Enqueue(j) \/ Cancel(j) \/ LeaseExpires(j)
      PROVE  Promised!Next
  BY <1>1, <1>3, EnqueueSeen, CancelSeen, LapseSeen DEF Promised!Next
<1>4. ASSUME NEW p \in Process, NEW j \in Job, ClaimJob(p, j)
      PROVE  Promised!Next
  BY <1>1, <1>4, TakeSeen DEF Promised!Next
<1>5. ASSUME NEW p \in Process, ReadReceipt(p) \/ ReadBack(p)
      PROVE  Promised!Next
  BY <1>5, ReadSeen DEF Promised!Next
<1>6. ASSUME NEW p \in Process, Execute(p)
      PROVE  Promised!Next
  BY <1>1, <1>6, OperateSeen DEF Promised!Next
<1>7. ASSUME NEW p \in Process, MarkUnknown(p)
      PROVE  Promised!Next
  BY <1>7, WriteOffSeen DEF Promised!Next
<1>8. ASSUME NEW p \in Process, Settle(p)
      PROVE  Promised!Next
  BY <1>8, SettleSeen DEF Promised!Next
<1>9. ASSUME NEW p \in Process, JobCrash(p)
      PROVE  Promised!Next
  <2>1. Promised!Leave(p)
    BY <1>1, <1>9, LeaveSeen DEF JobCrash
  <2> QED BY <2>1 DEF Promised!Next
<1>10. ASSUME \/ \E p \in Process : RunStep(p) \/ Foreground(p)
              \/ HumanStep \/ CommitStep \/ UNCHANGED jobVars
       PROVE  Promised!Next
  BY <1>2, <1>10 DEF RunStep, Foreground, HumanStep, CommitStep, jobVars
<1> QED
  BY <1>3, <1>4, <1>5, <1>6, <1>7, <1>8, <1>9, <1>10 DEF JobsNext, WorkerStep

LEMMA JobLedgerInit == JobsInit => Promised!Init /\ WithinLimit
<1> SUFFICES ASSUME JobsInit PROVE Promised!Init /\ WithinLimit
  OBVIOUS
<1>1. \A j \in Job : jobs[j] = [status |-> "ABSENT", attempts |-> 0, worker |-> NoWorker,
                                leased |-> FALSE]
  BY DEF JobsInit
<1>2. \A p \in Process : hand[p] = Free
  BY DEF JobsInit
<1>3. LedgerHands = [p \in Process |-> Promised!Empty]
  BY <1>2, FreeSeen DEF LedgerHands, Shown
<1>4. RecordedJobs = {}
  <2>1. \A c \in Command : receipts[c] = NoRow
    BY DEF JobsInit, RunsInit, Init
  <2> QED BY <2>1, JobIds DEF RecordedJobs, SuccessfulRow
<1>5. WithinLimit
  BY <1>2, FreeTyped DEF WithinLimit
<1>6. LapsedJobs = {}
  BY <1>1 DEF LapsedJobs
<1> QED BY <1>1, <1>3, <1>4, <1>5, <1>6 DEF Promised!Init

(* The queue implements the ledger of jobs: however leases, crashes,       *)
(* cancellations and foreground runs interleave, every statement of        *)
(* claimNext and runNext is a step the ledger allows.                      *)
THEOREM QueueKeepsLedger == JobsSpec => ImplementsJobLedger
<1>1. JobsInit => Promised!Init /\ WithinLimit
  BY JobLedgerInit
<1>2. JobsInv /\ WithinLimit /\ [JobsNext]_jobVars =>
        [Promised!Next]_Promised!jobLedger /\ WithinLimit'
  BY JobLedgerStep, WithinLimitStep
<1> QED
  BY <1>1, <1>2, JobsInvariant, PTL DEF JobsSpec, ImplementsJobLedger, Promised!Spec

-----------------------------------------------------------------------------
(* What the ledger alone gives.                                            *)
AttemptsCounted ==
  /\ JobTries \in [Job -> Nat]
  /\ LedgerHands \in [Process -> Promised!LedgerHand]
  /\ \A p \in Process : LedgerHands[p].job \in Job =>
       LedgerHands[p].attempt <= JobTries[LedgerHands[p].job]

LedgerHolds == AttemptsCounted /\ Promised!AttemptsAreOwned /\ Promised!SuccessesRecorded

(* What a worker holds after a step that takes nothing it held before.     *)
LEMMA HandsHold ==
  ASSUME AttemptsCounted, Promised!AttemptsAreOwned, JobTries' = JobTries,
         NEW p \in Process, NEW h \in Promised!LedgerHand,
         LedgerHands' = [LedgerHands EXCEPT ![p] = h],
         h.job = NoJob \/ (h.job = LedgerHands[p].job /\ h.attempt = LedgerHands[p].attempt)
  PROVE  AttemptsCounted' /\ Promised!AttemptsAreOwned'
<1>1. NoJob \notin Job
  BY JobAssumption
<1>2. /\ LedgerHands' \in [Process -> Promised!LedgerHand] /\ LedgerHands'[p] = h
      /\ \A q \in Process : q # p => LedgerHands'[q] = LedgerHands[q]
  BY DEF AttemptsCounted
<1>3. AttemptsCounted'
  BY <1>1, <1>2 DEF AttemptsCounted
<1>4. Promised!AttemptsAreOwned'
  BY <1>1, <1>2 DEF Promised!AttemptsAreOwned
<1> QED BY <1>3, <1>4

LEMMA StageKept ==
  ASSUME AttemptsCounted, Promised!AttemptsAreOwned, JobTries' = JobTries,
         NEW p \in Process, NEW stage \in {"OPERATING", "DECIDED"},
         LedgerHands' = [LedgerHands EXCEPT ![p].stage = stage]
  PROVE  AttemptsCounted' /\ Promised!AttemptsAreOwned'
<1> DEFINE h == [LedgerHands[p] EXCEPT !.stage = stage]
<1>1. LedgerHands[p] \in Promised!LedgerHand
  BY DEF AttemptsCounted
<1>2. h \in Promised!LedgerHand /\ h.job = LedgerHands[p].job /\ h.attempt = LedgerHands[p].attempt
  BY <1>1 DEF Promised!LedgerHand
<1> QED BY <1>2, HandsHold

LEMMA EmptyHolds ==
  ASSUME AttemptsCounted, Promised!AttemptsAreOwned, JobTries' = JobTries,
         NEW p \in Process, Promised!PutDown(p)
  PROVE  AttemptsCounted' /\ Promised!AttemptsAreOwned'
<1>1. Promised!Empty \in Promised!LedgerHand /\ Promised!Empty.job = NoJob
  BY DEF Promised!Empty, Promised!LedgerHand
<1> QED BY <1>1, HandsHold DEF Promised!PutDown

LEMMA TakenHolds ==
  ASSUME AttemptsCounted, Promised!AttemptsAreOwned, NEW p \in Process, NEW j \in Job,
         Promised!Take(p, j)
  PROVE  AttemptsCounted' /\ Promised!AttemptsAreOwned'
<1> DEFINE n == JobTries[j] + 1
           h == [job |-> j, attempt |-> n, stage |-> "TAKEN"]
<1>1. JobTries[j] \in Nat /\ n \in Nat
  BY DEF AttemptsCounted
<1>2. JobTries' = [JobTries EXCEPT ![j] = n] /\ LedgerHands' = [LedgerHands EXCEPT ![p] = h]
  BY DEF Promised!Take, JobTries
<1>3. JobTries' \in [Job -> Nat] /\ JobTries'[j] = n /\ \A k \in Job : JobTries'[k] >= JobTries[k]
  BY <1>1, <1>2 DEF AttemptsCounted
<1>4. h \in Promised!LedgerHand
  BY <1>1 DEF Promised!LedgerHand
<1>5. /\ LedgerHands' \in [Process -> Promised!LedgerHand] /\ LedgerHands'[p] = h
      /\ \A q \in Process : q # p => LedgerHands'[q] = LedgerHands[q]
  BY <1>2, <1>4 DEF AttemptsCounted
<1>6. ASSUME NEW q \in Process, q # p, LedgerHands[q].job \in Job
      PROVE  /\ LedgerHands[q].attempt <= JobTries'[LedgerHands[q].job]
             /\ LedgerHands[q].job = j => LedgerHands[q].attempt < n
  <2>1. LedgerHands[q].attempt \in Nat /\ LedgerHands[q].attempt <= JobTries[LedgerHands[q].job]
    BY <1>6 DEF AttemptsCounted, Promised!LedgerHand
  <2>2. JobTries[LedgerHands[q].job] \in Nat /\ JobTries'[LedgerHands[q].job] \in Nat
    BY <1>3, <1>6 DEF AttemptsCounted
  <2> QED BY <1>1, <1>3, <1>6, <2>1, <2>2
<1>7. AttemptsCounted'
  BY <1>1, <1>3, <1>5, <1>6 DEF AttemptsCounted
<1>8. Promised!AttemptsAreOwned'
  <2> SUFFICES ASSUME NEW v \in Process, NEW w \in Process,
                      LedgerHands'[v].job \in Job, LedgerHands'[v].job = LedgerHands'[w].job,
                      LedgerHands'[v].attempt = LedgerHands'[w].attempt
               PROVE  v = w
    BY DEF Promised!AttemptsAreOwned
  <2>1. CASE v # p /\ w # p
    BY <1>5, <2>1 DEF Promised!AttemptsAreOwned
  <2>2. CASE v = p /\ w # p
    BY <1>1, <1>5, <1>6, <2>2
  <2>3. CASE v # p /\ w = p
    BY <1>1, <1>5, <1>6, <2>3
  <2> QED BY <2>1, <2>2, <2>3
<1> QED BY <1>7, <1>8

LEMMA HandsKeptHold ==
  ASSUME AttemptsCounted, Promised!AttemptsAreOwned, JobTries' = JobTries,
         LedgerHands' = LedgerHands
  PROVE  AttemptsCounted' /\ Promised!AttemptsAreOwned'
BY DEF AttemptsCounted, Promised!AttemptsAreOwned

(* A job ends as a success only when that is on record.                    *)
LEMMA RecordHolds ==
  ASSUME Promised!SuccessesRecorded, RecordedJobs \subseteq RecordedJobs', NEW j \in Job, NEW s,
         JobStates' = [JobStates EXCEPT ![j] = s], s = "SUCCEEDED" => j \in RecordedJobs
  PROVE  Promised!SuccessesRecorded'
<1>1. \A k \in Job : JobStates'[k] = IF k = j THEN s ELSE JobStates[k]
  BY DEF JobStates
<1>2. \A k \in Job : JobStates[k] = "SUCCEEDED" => k \in RecordedJobs
  BY DEF Promised!SuccessesRecorded, JobStates
<1>3. \A k \in Job : JobStates'[k] = "SUCCEEDED" => k \in RecordedJobs'
  BY <1>1, <1>2
<1> QED BY <1>3 DEF Promised!SuccessesRecorded, JobStates

LEMMA RecordKept ==
  ASSUME Promised!SuccessesRecorded, RecordedJobs \subseteq RecordedJobs', JobStates' = JobStates
  PROVE  Promised!SuccessesRecorded'
BY DEF Promised!SuccessesRecorded, JobStates

LEMMA LedgerHoldsStep ==
  ASSUME LedgerHolds, [Promised!Next]_Promised!jobLedger
  PROVE  LedgerHolds'
<1> USE DEF LedgerHolds
<1>1. CASE UNCHANGED Promised!jobLedger
  <2>1. JobTries' = JobTries /\ JobStates' = JobStates /\ LedgerHands' = LedgerHands
        /\ RecordedJobs' = RecordedJobs
    BY <1>1 DEF Promised!jobLedger, JobTries, JobStates
  <2> QED BY <2>1, HandsKeptHold, RecordKept
<1>2. ASSUME NEW j \in Job, Promised!Enqueue(j) \/ Promised!Cancel(j)
      PROVE  LedgerHolds'
  <2>1. PICK s \in {"QUEUED", "CANCELLED"} : JobStates' = [JobStates EXCEPT ![j] = s]
    BY <1>2 DEF Promised!Enqueue, Promised!Cancel, JobStates
  <2>2. JobTries' = JobTries /\ LedgerHands' = LedgerHands /\ RecordedJobs' = RecordedJobs
    BY <1>2 DEF Promised!Enqueue, Promised!Cancel, JobTries
  <2> QED BY <2>1, <2>2, HandsKeptHold, RecordHolds
<1>3. ASSUME NEW j \in Job, Promised!Lapse(j)
      PROVE  LedgerHolds'
  <2>1. JobTries' = JobTries /\ JobStates' = JobStates /\ LedgerHands' = LedgerHands
        /\ RecordedJobs' = RecordedJobs
    BY <1>3 DEF Promised!Lapse, JobTries, JobStates
  <2> QED BY <2>1, HandsKeptHold, RecordKept
<1>4. ASSUME NEW p \in Process, NEW j \in Job, Promised!Take(p, j)
      PROVE  LedgerHolds'
  <2>1. JobStates' = [JobStates EXCEPT ![j] = "RUNNING"] /\ RecordedJobs' = RecordedJobs
    BY <1>4 DEF Promised!Take, JobStates
  <2> QED BY <1>4, <2>1, TakenHolds, RecordHolds
<1>5. ASSUME NEW p \in Process, Promised!Operate(p) \/ Promised!Decide(p)
      PROVE  LedgerHolds'
  <2>1. PICK stage \in {"OPERATING", "DECIDED"} :
          LedgerHands' = [LedgerHands EXCEPT ![p].stage = stage]
    BY <1>5 DEF Promised!Operate, Promised!Decide
  <2>2. JobTries' = JobTries /\ JobStates' = JobStates /\ RecordedJobs' = RecordedJobs
    BY <1>5 DEF Promised!Operate, Promised!Decide, JobTries, JobStates
  <2> QED BY <2>1, <2>2, StageKept, RecordKept
<1>6. ASSUME NEW p \in Process, Promised!Leave(p)
      PROVE  LedgerHolds'
  <2>1. JobTries' = JobTries /\ JobStates' = JobStates /\ RecordedJobs' = RecordedJobs
        /\ Promised!PutDown(p)
    BY <1>6 DEF Promised!Leave, JobTries, JobStates
  <2> QED BY <2>1, EmptyHolds, RecordKept
<1>7. ASSUME NEW p \in Process, NEW outcome \in {"SUCCEEDED", "FAILED", "QUEUED"},
             Promised!Settle(p, outcome)
      PROVE  LedgerHolds'
  <2> DEFINE j == LedgerHands[p].job
  <2>1. JobTries' = JobTries /\ RecordedJobs' = RecordedJobs /\ Promised!PutDown(p)
    BY <1>7 DEF Promised!Settle, JobTries
  <2>2. /\ outcome = "SUCCEEDED" => j \in RecordedJobs
        /\ JobStates' = [JobStates EXCEPT ![j] = outcome]
    BY <1>7 DEF Promised!Settle, JobStates
  <2>3. CASE j \in Job
    BY <2>1, <2>2, <2>3, EmptyHolds, RecordHolds
  <2>4. CASE j \notin Job
    <3>1. JobStates' = JobStates
      BY <2>2, <2>4 DEF JobStates
    <3> QED BY <2>1, <3>1, EmptyHolds, RecordKept
  <2> QED BY <2>3, <2>4
<1>8. CASE Promised!Record
  <2>1. JobTries' = JobTries /\ JobStates' = JobStates /\ LedgerHands' = LedgerHands
        /\ RecordedJobs \subseteq RecordedJobs'
    BY <1>8 DEF Promised!Record, JobTries, JobStates
  <2> QED BY <2>1, HandsKeptHold, RecordKept
<1> QED
  BY <1>1, <1>2, <1>3, <1>4, <1>5, <1>6, <1>7, <1>8 DEF Promised!Next

LEMMA LedgerHoldsInit == Promised!Init => LedgerHolds
<1> SUFFICES ASSUME Promised!Init PROVE LedgerHolds
  OBVIOUS
<1>1. /\ JobTries = [j \in Job |-> 0] /\ JobStates = [j \in Job |-> "ABSENT"]
      /\ LedgerHands = [p \in Process |-> Promised!Empty]
  BY DEF Promised!Init, JobTries, JobStates
<1>2. Promised!Empty \in Promised!LedgerHand /\ Promised!Empty.job = NoJob /\ NoJob \notin Job
  BY JobAssumption DEF Promised!Empty, Promised!LedgerHand
<1>3. AttemptsCounted /\ Promised!AttemptsAreOwned
  BY <1>1, <1>2 DEF AttemptsCounted, Promised!AttemptsAreOwned
<1>4. Promised!SuccessesRecorded
  BY <1>1 DEF Promised!SuccessesRecorded, JobStates
<1> QED BY <1>3, <1>4 DEF LedgerHolds

(* The ledger suffices: whatever keeps it gives every attempt at a job to  *)
(* one worker only and reports no success that is not on record.           *)
THEOREM LedgerSuffices == ImplementsJobLedger =>
  [](Promised!AttemptsAreOwned /\ Promised!SuccessesRecorded)
<1>1. LedgerHolds => Promised!AttemptsAreOwned /\ Promised!SuccessesRecorded
  BY DEF LedgerHolds
<1>2. LedgerHolds /\ [Promised!Next]_Promised!jobLedger => LedgerHolds'
  BY LedgerHoldsStep
<1> QED
  BY <1>1, <1>2, LedgerHoldsInit, PTL DEF ImplementsJobLedger, Promised!Spec
=============================================================================
