------------------------------- MODULE WatchQueue -------------------------------
(* The background reviews of the command line: codemoot watch collects      *)
(* changed files in a debouncer and enqueues a review of each batch, other   *)
(* commands enqueue, cancel and retry jobs, and codemoot worker processes    *)
(* claim and settle them.  A job is not leased: the row of a job whose       *)
(* worker died stays running until somebody cancels it.                      *)
EXTENDS Naturals, Functions

CONSTANTS
  FlushAt,       \* maxBatchSize of the debouncer
  Queued,        \* bound: jobs enqueued
  MaxRetries,    \* max_retries of a job
  Workers,       \* bound: worker processes
  Retriers       \* bound: processes that run jobs retry at a time

ASSUME WatchAssumption ==
  {FlushAt, Queued, MaxRetries, Workers, Retriers} \subseteq Nat /\ FlushAt # 0

VARIABLES
  pending,       \* how many files changed since the last flush
  timers,        \* the timers of the debouncer that are armed
  cooling,       \* the cooldown after a flush runs
  queue,         \* the rows of table jobs, oldest first
  claims,        \* how often each job was claimed
  selecting,     \* how many workers are about to claim each job
  calling,       \* how many workers have the agent work on each job
  retrying       \* how many retries have read each job's row

watchVars == <<pending, timers, cooling, queue, claims, selecting, calling, retrying>>

debounced == <<pending, timers, cooling>>

worked == <<claims, selecting, calling>>

QueueId == 1..Queued

Count(f) == FoldFunction(+, 0, f)

(* Retries that race each add one.                                          *)
MostRetries == MaxRetries + Retriers

WatchTypeOK ==
  /\ pending \in 0..FlushAt
  /\ timers = IF pending = 0 THEN {} ELSE {"quiet", "maxWait"}
  /\ cooling \in BOOLEAN
  /\ queue \in [QueueId ->
       [status: {"NONE", "queued", "running", "succeeded", "failed", "canceled"},
        watching: BOOLEAN, retries: 0..MostRetries]]
  /\ claims \in [QueueId -> Nat]
  /\ selecting \in [QueueId -> 0..Workers] /\ calling \in [QueueId -> 0..Workers]
  /\ retrying \in [QueueId -> 0..Retriers]

Nobody == [j \in QueueId |-> 0]

WatchInit ==
  /\ pending = 0 /\ timers = {} /\ cooling = FALSE
  /\ queue = [j \in QueueId |-> [status |-> "NONE", watching |-> FALSE, retries |-> 0]]
  /\ claims = Nobody /\ selecting = Nobody /\ calling = Nobody /\ retrying = Nobody

(***************************************************************************)
(* Enqueueing.                                                             *)
(***************************************************************************)
HasStatus(statuses) == {j \in QueueId : queue[j].status \in statuses}

Oldest(S) == CHOOSE j \in S : \A other \in S : j <= other

Enqueued(watching) ==
  /\ HasStatus({"NONE"}) # {}
  /\ queue' = [queue EXCEPT ![Oldest(HasStatus({"NONE"}))] =
                 [status |-> "queued", watching |-> watching, retries |-> 0]]

JobEnqueued == Enqueued(FALSE) /\ UNCHANGED <<debounced, worked, retrying>>

(***************************************************************************)
(* The debouncer.                                                          *)
(***************************************************************************)
(* The batch is dropped while a review of changes is queued or running.    *)
BatchReviewed ==
  IF \E j \in HasStatus({"queued", "running"}) : queue[j].watching
    THEN UNCHANGED queue ELSE Enqueued(TRUE)

Flushed == pending' = 0 /\ timers' = {} /\ cooling' = TRUE /\ BatchReviewed

(* The first change of a batch arms the longest wait, every change starts  *)
(* the quiet period anew, and a full batch does not wait for either.  A    *)
(* change during the cooldown is lost.                                     *)
FileChanges(files) ==
  /\ ~cooling /\ files \in {pending, pending + 1} \ {0}
  /\ IF files >= FlushAt
       THEN Flushed
       ELSE /\ pending' = files
            /\ timers' = timers \cup {"quiet"} \cup IF pending = 0 THEN {"maxWait"} ELSE {}
            /\ UNCHANGED <<cooling, queue>>
  /\ UNCHANGED <<worked, retrying>>

TimerFires(timer) ==
  /\ timer \in timers /\ pending # 0 /\ Flushed
  /\ UNCHANGED <<worked, retrying>>

CooldownEnds ==
  /\ cooling /\ cooling' = FALSE
  /\ UNCHANGED <<pending, timers, queue, worked, retrying>>

(* A watcher that is told to stop flushes what it has, one that is killed  *)
(* loses it.                                                               *)
WatcherStops(killed) ==
  /\ pending # 0
  /\ pending' = 0 /\ timers' = {} /\ cooling' = FALSE
  /\ IF killed THEN UNCHANGED queue ELSE BatchReviewed
  /\ UNCHANGED <<worked, retrying>>

(***************************************************************************)
(* The workers: the next job is selected by one statement and claimed by   *)
(* another, and settled whoever claimed it last; so it does not matter     *)
(* which worker it is.                                                     *)
(***************************************************************************)
OneMore(f, j) == f' = [f EXCEPT ![j] = @ + 1]
OneLess(f, j) == f[j] > 0 /\ f' = [f EXCEPT ![j] = @ - 1]

SelectsJob ==
  /\ Count(selecting) + Count(calling) < Workers
  /\ HasStatus({"queued"}) # {} /\ OneMore(selecting, Oldest(HasStatus({"queued"})))
  /\ UNCHANGED <<debounced, queue, claims, calling, retrying>>

(* Seeded fault: the claim does not look at the status again.              *)
ClaimableAnyhow(j) == TRUE

Claimable(j) == queue[j].status = "queued"

ClaimsJob(j) ==
  /\ OneLess(selecting, j)
  /\ IF Claimable(j)
       THEN /\ queue' = [queue EXCEPT ![j].status = "running"]
            /\ OneMore(claims, j) /\ OneMore(calling, j)
       ELSE UNCHANGED <<queue, claims, calling>>
  /\ UNCHANGED <<debounced, retrying>>

SettlesJob(j, outcome) ==
  /\ OneLess(calling, j)
  /\ queue' = IF queue[j].status = "running" THEN [queue EXCEPT ![j].status = outcome] ELSE queue
  /\ UNCHANGED <<debounced, claims, selecting, retrying>>

JobberDies(j) ==
  /\ \/ OneLess(selecting, j) /\ UNCHANGED calling
     \/ OneLess(calling, j) /\ UNCHANGED selecting
  /\ UNCHANGED <<debounced, queue, claims, retrying>>

(***************************************************************************)
(* jobs cancel, and jobs retry: what the retry reads it does not check     *)
(* again when it writes.                                                   *)
(***************************************************************************)
CancelsJob(j) ==
  /\ j \in HasStatus({"queued", "running"})
  /\ queue' = [queue EXCEPT ![j].status = "canceled"]
  /\ UNCHANGED <<debounced, worked, retrying>>

RetryReads(j) ==
  /\ Count(retrying) < Retriers
  /\ j \in HasStatus({"failed", "canceled"}) /\ queue[j].retries < MaxRetries
  /\ OneMore(retrying, j)
  /\ UNCHANGED <<debounced, queue, worked>>

RetryWrites(j) ==
  /\ OneLess(retrying, j)
  /\ queue' = [queue EXCEPT ![j].status = "queued", ![j].retries = @ + 1]
  /\ UNCHANGED <<debounced, worked>>

WatchNext ==
  \/ JobEnqueued \/ CooldownEnds \/ SelectsJob
  \/ \E files \in 1..FlushAt : FileChanges(files)
  \/ \E timer \in {"quiet", "maxWait"} : TimerFires(timer)
  \/ \E killed \in BOOLEAN : WatcherStops(killed)
  \/ \E j \in QueueId :
       \/ ClaimsJob(j) \/ JobberDies(j) \/ CancelsJob(j) \/ RetryReads(j) \/ RetryWrites(j)
       \/ \E outcome \in {"succeeded", "failed"} : SettlesJob(j, outcome)

WatchSpec == WatchInit /\ [][WatchNext]_watchVars

(***************************************************************************)
(* Properties.                                                             *)
(***************************************************************************)
(* A job is claimed once each time it is queued: workers that select the   *)
(* same row, cancellations and retries that overtake a running job do not  *)
(* have the agent called more often than the job was put into the queue.   *)
ClaimedOncePerQueueing == \A j \in QueueId : claims[j] <= 1 + queue[j].retries
=============================================================================
