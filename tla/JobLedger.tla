------------------------------ MODULE JobLedger ------------------------------
(***************************************************************************)
(* What the job queue promises, without receipts, verdicts, the order of   *)
(* the queue or the services that execute: a job is enqueued once; it is   *)
(* taken from the queue, or from a worker whose lease has lapsed, and every*)
(* taking is an attempt of its own; a worker operates at most once for     *)
(* what it took, and not beyond the limit of attempts; only the holder of  *)
(* a job gives it back or ends it; a success is on record first.           *)
(***************************************************************************)
EXTENDS Naturals

CONSTANTS
  Job, Worker,
  NoJob,        \* in the hand of a worker without a job
  Nobody,       \* the holder of a job that no worker has taken
  Limit         \* how often a job may be attempted

VARIABLES
  state,        \* where each job stands
  holder,       \* the worker that took it last
  tries,        \* how often it has been taken
  lapsed,       \* running jobs whose lease has run out
  hands,        \* what each worker took, as which attempt, and how far it is
  recorded      \* jobs whose operation has succeeded, on record

jobLedger == <<state, holder, tries, lapsed, hands, recorded>>

Empty == [job |-> NoJob, attempt |-> 0, stage |-> "FREE"]

Init ==
  /\ state = [j \in Job |-> "ABSENT"]
  /\ holder = [j \in Job |-> Nobody]
  /\ tries = [j \in Job |-> 0]
  /\ lapsed = {}
  /\ hands = [w \in Worker |-> Empty]
  /\ recorded = {}

Enqueue(j) ==
  /\ state[j] = "ABSENT"
  /\ state' = [state EXCEPT ![j] = "QUEUED"]
  /\ UNCHANGED <<holder, tries, lapsed, hands, recorded>>

Free(j) == (state[j] = "QUEUED" /\ tries[j] < Limit) \/ j \in lapsed

Take(w, j) ==
  /\ hands[w].stage = "FREE" /\ Free(j)
  /\ state' = [state EXCEPT ![j] = "RUNNING"]
  /\ holder' = [holder EXCEPT ![j] = w]
  /\ tries' = [tries EXCEPT ![j] = tries[j] + 1]
  /\ lapsed' = lapsed \ {j}
  /\ hands' = [hands EXCEPT ![w] = [job |-> j, attempt |-> tries[j] + 1, stage |-> "TAKEN"]]
  /\ UNCHANGED recorded

Lapse(j) ==
  /\ state[j] = "RUNNING"
  /\ lapsed' = lapsed \cup {j}
  /\ UNCHANGED <<state, holder, tries, hands, recorded>>

Cancel(j) ==
  /\ state[j] \in {"QUEUED", "RUNNING"}
  /\ state' = [state EXCEPT ![j] = "CANCELLED"]
  /\ lapsed' = lapsed \ {j}
  /\ UNCHANGED <<holder, tries, hands, recorded>>

Operate(w) ==
  /\ hands[w].stage = "TAKEN" /\ hands[w].attempt <= Limit
  /\ hands' = [hands EXCEPT ![w].stage = "OPERATING"]
  /\ UNCHANGED <<state, holder, tries, lapsed, recorded>>

Decide(w) ==
  /\ hands[w].stage \in {"TAKEN", "OPERATING"}
  /\ hands' = [hands EXCEPT ![w].stage = "DECIDED"]
  /\ UNCHANGED <<state, holder, tries, lapsed, recorded>>

PutDown(w) == hands' = [hands EXCEPT ![w] = Empty]

(* A worker that died, or comes too late, leaves the job as it is.         *)
Leave(w) ==
  /\ PutDown(w)
  /\ UNCHANGED <<state, holder, tries, lapsed, recorded>>

Settle(w, outcome) ==
  LET j == hands[w].job IN
    /\ hands[w].stage = "DECIDED" /\ state[j] = "RUNNING" /\ holder[j] = w
    /\ outcome = "SUCCEEDED" => j \in recorded
    /\ outcome = "QUEUED" => tries[j] < Limit
    /\ state' = [state EXCEPT ![j] = outcome]
    /\ holder' = IF outcome = "QUEUED" THEN [holder EXCEPT ![j] = Nobody] ELSE holder
    /\ lapsed' = lapsed \ {j}
    /\ PutDown(w)
    /\ UNCHANGED <<tries, recorded>>

(* Operations succeed in the foreground too, and stay on record.           *)
Record ==
  /\ recorded \subseteq recorded' /\ recorded' \subseteq Job
  /\ UNCHANGED <<state, holder, tries, lapsed, hands>>

Next ==
  \/ \E j \in Job : Enqueue(j) \/ Lapse(j) \/ Cancel(j)
  \/ \E w \in Worker, j \in Job : Take(w, j)
  \/ \E w \in Worker : Operate(w) \/ Decide(w) \/ Leave(w)
  \/ \E w \in Worker, outcome \in {"SUCCEEDED", "FAILED", "QUEUED"} : Settle(w, outcome)
  \/ Record

Spec == Init /\ [][Next]_jobLedger

(***************************************************************************)
(* What follows from the promise.                                          *)
(***************************************************************************)
LedgerStates == {"ABSENT", "QUEUED", "RUNNING", "SUCCEEDED", "FAILED", "CANCELLED"}

LedgerHand ==
  [job: Job \cup {NoJob}, attempt: Nat, stage: {"FREE", "TAKEN", "OPERATING", "DECIDED"}]

(* No two workers have the same attempt of a job in hand, so that with the *)
(* guard of Operate a job is operated at most as often as Limit says.      *)
AttemptsAreOwned ==
  \A v, w \in Worker :
    hands[v].job \in Job /\ hands[v].job = hands[w].job /\ hands[v].attempt = hands[w].attempt
      => v = w

(* A success stays backed by the record.                                   *)
SuccessesRecorded == \A j \in Job : state[j] = "SUCCEEDED" => j \in recorded
=============================================================================
