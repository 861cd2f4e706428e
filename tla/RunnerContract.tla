---------------------------- MODULE RunnerContract ----------------------------
(***************************************************************************)
(* What the autonomous runner promises, without leases, heartbeats,        *)
(* batches, phases and the statements between reads and writes: one worker *)
(* at a time, which leaves only a workflow that is over or waits for       *)
(* somebody; a pause that nothing but a stop or a cancellation overtakes;  *)
(* an agent whose answer was lost is followed by no other before a human's *)
(* decision is consumed.  The promise ends when a lease has run out under  *)
(* a working process: from then on it is void.                             *)
(***************************************************************************)
CONSTANT Process

VARIABLES
  status,       \* of the workflow
  decided,      \* a human's decision waits to be consumed
  workers,      \* the processes at work
  asking,       \* those that await an agent
  lost,         \* an agent's answer was lost, and no human has decided since
  void          \* the promise has ended

contract == <<status, decided, workers, asking, lost, void>>

Init ==
  /\ status = "RUNNING" /\ decided = FALSE
  /\ workers = {} /\ asking = {}
  /\ lost = FALSE /\ void = FALSE

(* Worker: it starts alone, and goes on from a stop by a decision.         *)
Starts(p) ==
  /\ workers = {} /\ status \in {"RUNNING", "HUMAN_DECISION_REQUIRED"}
  /\ workers' = {p}
  /\ UNCHANGED <<status, decided, asking, lost, void>>

GoesOn(p) ==
  /\ p \in workers /\ asking = {}
  /\ status = "HUMAN_DECISION_REQUIRED" /\ decided
  /\ status' = "RUNNING" /\ decided' = FALSE /\ lost' = FALSE
  /\ UNCHANGED <<workers, asking, void>>

Asks(p) ==
  /\ p \in workers /\ asking = {} /\ ~lost
  /\ asking' = {p}
  /\ UNCHANGED <<status, decided, workers, lost, void>>

Settles(p) ==
  /\ p \in asking
  /\ asking' = asking \ {p}
  /\ UNCHANGED <<status, decided, workers, lost, void>>

Loses(p) ==
  /\ p \in asking
  /\ asking' = asking \ {p} /\ lost' = TRUE
  /\ UNCHANGED <<status, decided, workers, void>>

(* How a worker may leave the workflow.                                    *)
Over(s) ==
  \/ s = status /\ s \notin {"RUNNING", "PAUSE_REQUESTED"}
  \/ s = "HUMAN_DECISION_REQUIRED"
  \/ s = "PAUSED_BY_USER" /\ status = "PAUSE_REQUESTED"
  \/ s = "READY_FOR_HUMAN_VERIFICATION" /\ status = "RUNNING"
  \/ s = "CANCELLED" /\ status = "HUMAN_DECISION_REQUIRED" /\ decided

Leaves(p) ==
  /\ p \in workers /\ p \notin asking
  /\ Over(status')
  /\ decided' \in {decided, FALSE}
  /\ workers' = workers \ {p}
  /\ UNCHANGED <<asking, lost, void>>

Dies(p) ==
  /\ p \in workers
  /\ workers' = workers \ {p} /\ asking' = asking \ {p}
  /\ lost' = (lost \/ p \in asking)
  /\ UNCHANGED <<status, decided, void>>

(* Commands and observers: they move an idle workflow, ask a working one   *)
(* to pause, and stop it on what they read earlier.                        *)
PauseRequested ==
  /\ status = "RUNNING" /\ status' = "PAUSE_REQUESTED"
  /\ UNCHANGED <<decided, workers, asking, lost, void>>

MovesIdle ==
  /\ workers = {}
  /\ \/ status = "PAUSE_REQUESTED" /\ status' = "PAUSED_BY_USER"
     \/ status = "PAUSED_BY_USER" /\ status' = "RUNNING"
     \/ status = "RUNNING" /\ status' = "PAUSED_BY_USER"
     \/ status' = "CANCELLED"
  /\ UNCHANGED <<decided, workers, asking, lost, void>>

WrittenOff ==
  /\ status' = "HUMAN_DECISION_REQUIRED"
  /\ UNCHANGED <<decided, workers, asking, lost, void>>

Decides ==
  /\ decided' = TRUE
  /\ UNCHANGED <<status, workers, asking, lost, void>>

Voided == void' = TRUE

Next ==
  \/ \E p \in Process :
       Starts(p) \/ GoesOn(p) \/ Asks(p) \/ Settles(p) \/ Loses(p) \/ Leaves(p) \/ Dies(p)
  \/ PauseRequested \/ MovesIdle \/ WrittenOff \/ Decides
  \/ Voided

Spec == Init /\ [][Next]_contract

(***************************************************************************)
(* What follows from the promise while it holds.                           *)
(***************************************************************************)
(* One worker at most, and agents are awaited by workers.                  *)
OneAtWork ==
  ~void => asking \subseteq workers /\ \A p, q \in workers : p = q

(* A workflow that is paused, cancelled or ready has no worker.            *)
NobodyAtRest ==
  ~void /\ status \in {"PAUSED_BY_USER", "CANCELLED", "READY_FOR_HUMAN_VERIFICATION"} =>
    workers = {}

(* No agent is awaited while the answer of an earlier one is lost.         *)
LostIsFollowedByNone == ~void /\ lost => asking = {}
=============================================================================
