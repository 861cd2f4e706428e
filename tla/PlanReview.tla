-------------------------------- MODULE PlanReview --------------------------------
(***************************************************************************)
(* The plan loop of one batch: the runner reviews its plan round by round, *)
(* the implementer revises it, and an approval or the operator's           *)
(* acceptance opens it for implementation.  Reviews and revisions invoke   *)
(* the agent first and then reserve, record and decide in one transaction: *)
(* what a transaction throws, the answer with it is lost.  A reservation   *)
(* that failed keeps its command id until a human decision releases it.    *)
(* A worker may die at any point; foreground commands review as well.      *)
(***************************************************************************)
EXTENDS Naturals

CONSTANTS
  MaxRounds,      \* maxPlanReviewRoundsPerBatch
  Planner,        \* workers of the runner, one at a time, and foreground commands
  NoPlan

ASSUME PlanAssumption == MaxRounds \in Nat \ {0} /\ NoPlan \notin Nat

VARIABLES
  plan,           \* the batch: state, plan version, rounds started
  planReceipts,   \* receipts of review-N and revise-N
  planStop,       \* the runner waits for a human decision
  planners,       \* what each process is doing
  approvedPlan,   \* history: what the approving reviewer was shown
  wasted          \* history: answers that were lost, by cause

planVars == <<plan, planReceipts, planStop, planners, approvedPlan, wasted>>

Rounds == 1..(MaxRounds + 1)

PlanVersions == 1..(MaxRounds + 1)

PlanStates == {"DRAFT", "PLAN_NEEDS_REVISION", "APPROVED_FOR_IMPLEMENTATION"}

PlanReceiptId == {"review", "revise"} \X Rounds

PlannerPCs == {"NEW", "AS_IS", "ROUND", "REVIEW", "REVISE", "REVISE_FIRST", "STOPPING", "GONE"}

(* shown is the plan version in the prompt the agent is answering.         *)
PlanTypeOK ==
  /\ plan \in [state: PlanStates, version: PlanVersions, rounds: 0..MaxRounds]
  /\ planReceipts \in [PlanReceiptId -> {"NONE", "FAILED_FINAL", "SUCCEEDED"}]
  /\ planStop \in BOOLEAN
  /\ planners \in [Planner ->
       [pc: PlannerPCs, worker: BOOLEAN, round: Rounds, shown: PlanVersions \cup {NoPlan}]]
  /\ approvedPlan \in PlanVersions \cup {NoPlan}
  /\ wasted \subseteq {"INVALID", "OVERTAKEN", "CRASHED", "STOP_LOST", "UNEXPECTED"}

PlanInit ==
  /\ plan = [state |-> "DRAFT", version |-> 1, rounds |-> 0]
  /\ planReceipts = [c \in PlanReceiptId |-> "NONE"]
  /\ planStop = FALSE
  /\ planners = [p \in Planner |-> [pc |-> "NEW", worker |-> FALSE, round |-> 1, shown |-> NoPlan]]
  /\ approvedPlan = NoPlan
  /\ wasted = {}

PlannerAt(p, pc) == planners[p].pc = pc

RoundOf(p) == planners[p].round

PlannerBusy(p) == planners[p].pc \notin {"NEW", "GONE"}

PlannerGoes(p, pc, round, shown) ==
  planners' = [planners EXCEPT ![p].pc = pc, ![p].round = round, ![p].shown = shown]

PlannerEnds(p) ==
  planners' = [planners EXCEPT ![p].pc = "GONE", ![p].round = 1, ![p].shown = NoPlan]

(***************************************************************************)
(* planReviewStage: the round follows the durable events.                  *)
(***************************************************************************)
WorkerStarts(p) ==
  /\ PlannerAt(p, "NEW") /\ ~planStop
  /\ \A q \in Planner : ~(PlannerBusy(q) /\ planners[q].worker)
  /\ \E mode \in {"AS_IS", "ROUND"} :
       planners' = [planners EXCEPT ![p].pc = mode, ![p].worker = TRUE,
                                    ![p].round = plan.rounds + 1]
  /\ UNCHANGED <<plan, planReceipts, planStop, approvedPlan, wasted>>

(* Plan-as-is: the operator's acceptance instead of a review, of a draft.  *)
AcceptsPlanAsIs(p) ==
  /\ PlannerAt(p, "AS_IS")
  /\ plan' = IF plan.state = "DRAFT"
             THEN [plan EXCEPT !.state = "APPROVED_FOR_IMPLEMENTATION"] ELSE plan
  /\ PlannerEnds(p)
  /\ UNCHANGED <<planReceipts, planStop, approvedPlan, wasted>>

FindsPlanApproved(p) ==
  /\ PlannerAt(p, "ROUND") /\ plan.state = "APPROVED_FOR_IMPLEMENTATION"
  /\ PlannerEnds(p)
  /\ UNCHANGED <<plan, planReceipts, planStop, approvedPlan, wasted>>

WorkerStops(p) == PlannerEnds(p) /\ planStop' = TRUE

(* Seeded fault: one round too many.                                       *)
RoundsOverrun(p) == RoundOf(p) <= MaxRounds + 1

RoundsLeft(p) == RoundOf(p) <= MaxRounds

PlanRoundsExhausted(p) ==
  /\ PlannerAt(p, "ROUND") /\ ~RoundsLeft(p)
  /\ WorkerStops(p)
  /\ UNCHANGED <<plan, planReceipts, approvedPlan, wasted>>

InvokesPlanReview(p) ==
  /\ PlannerAt(p, "ROUND") /\ RoundsLeft(p) /\ plan.state = "DRAFT"
  /\ PlannerGoes(p, "REVIEW", RoundOf(p), plan.version)
  /\ UNCHANGED <<plan, planReceipts, planStop, approvedPlan, wasted>>

(* A worker resumed after a rejection has the plan revised first.          *)
InvokesPendingRevision(p) ==
  /\ PlannerAt(p, "ROUND") /\ RoundsLeft(p) /\ plan.state = "PLAN_NEEDS_REVISION"
  /\ PlannerGoes(p, "REVISE_FIRST", RoundOf(p), plan.version)
  /\ UNCHANGED <<plan, planReceipts, planStop, approvedPlan, wasted>>

(* batch review-plan: a round the user names, on a draft.                  *)
ForegroundReview(p, round) ==
  /\ PlannerAt(p, "NEW") /\ plan.state = "DRAFT"
  /\ PlannerGoes(p, "REVIEW", round, plan.version)
  /\ UNCHANGED <<plan, planReceipts, planStop, approvedPlan, wasted>>

(***************************************************************************)
(* capturePlanReview.                                                      *)
(***************************************************************************)
(* An error ends the command; the runner waits for a human.                *)
PlannerFails(p) ==
  /\ PlannerEnds(p)
  /\ planStop' = (planStop \/ planners[p].worker)

PlanReceipt(command, status) == planReceipts' = [planReceipts EXCEPT ![command] = status]

(* A foreground command has taken part in what the runner does.            *)
Overlapped == \E q \in Planner : ~planners[q].worker /\ ~PlannerAt(q, "NEW")

WasteCause ==
  IF Overlapped THEN "OVERTAKEN" ELSE IF "STOP_LOST" \in wasted THEN "CRASHED" ELSE "UNEXPECTED"

LosesAnswer(p, cause) ==
  /\ PlannerFails(p) /\ wasted' = wasted \cup {cause}
  /\ UNCHANGED <<plan, planReceipts, approvedPlan>>

PlanReviewRefused(p) ==
  \/ planReceipts[<<"review", RoundOf(p)>>] # "NONE"
  \/ plan.state # "DRAFT"

(* Seeded fault: an answer counts for whatever plan is current.            *)
AnyTarget(p) == TRUE

ReviewsCurrentPlan(p) == planners[p].shown = plan.version

PlanReviewLost(p) ==
  /\ PlannerAt(p, "REVIEW") /\ PlanReviewRefused(p)
  /\ LosesAnswer(p, WasteCause)

(* The repository moved under the audit the plan is bound to.              *)
PlanContextMoved(p) == PlannerAt(p, "REVIEW") /\ LosesAnswer(p, "OVERTAKEN")

(* No contract, another plan, or a verdict its findings contradict: the    *)
(* receipt fails for good.  The runner goes on to revise a draft, which    *)
(* throws, and stops.                                                      *)
PlanReviewRejected(p) ==
  /\ PlannerAt(p, "REVIEW") /\ ~PlanReviewRefused(p)
  /\ PlanReceipt(<<"review", RoundOf(p)>>, "FAILED_FINAL")
  /\ PlannerGoes(p, "STOPPING", RoundOf(p), NoPlan)
  /\ UNCHANGED <<plan, planStop, approvedPlan, wasted>>

StopsAfterRejection(p) ==
  /\ PlannerAt(p, "STOPPING") /\ PlannerFails(p)
  /\ UNCHANGED <<plan, planReceipts, approvedPlan, wasted>>

PlanApproved(p) ==
  /\ PlannerAt(p, "REVIEW") /\ ~PlanReviewRefused(p) /\ ReviewsCurrentPlan(p)
  /\ plan' = [plan EXCEPT !.state = "APPROVED_FOR_IMPLEMENTATION", !.rounds = @ + 1]
  /\ approvedPlan' = planners[p].shown
  /\ PlanReceipt(<<"review", RoundOf(p)>>, "SUCCEEDED")
  /\ PlannerEnds(p)
  /\ UNCHANGED <<planStop, wasted>>

(* The runner goes on to the revision, or stops at its limit.              *)
PlanNeedsRevision(p) ==
  /\ PlannerAt(p, "REVIEW") /\ ~PlanReviewRefused(p) /\ ReviewsCurrentPlan(p)
  /\ plan' = [plan EXCEPT !.state = "PLAN_NEEDS_REVISION", !.rounds = @ + 1]
  /\ PlanReceipt(<<"review", RoundOf(p)>>, "SUCCEEDED")
  /\ IF planners[p].worker /\ RoundOf(p) < MaxRounds
     THEN PlannerGoes(p, "REVISE", RoundOf(p), plan.version) /\ UNCHANGED planStop
     ELSE PlannerFails(p)
  /\ UNCHANGED <<approvedPlan, wasted>>

(***************************************************************************)
(* capturePlanRevision.                                                    *)
(***************************************************************************)
Revising(p) == PlannerAt(p, "REVISE") \/ PlannerAt(p, "REVISE_FIRST")

(* Seeded fault: the pending revision is numbered as the coming round.     *)
ComingRound(p) == RoundOf(p)

RevisionRound(p) ==
  IF PlannerAt(p, "REVISE_FIRST") /\ RoundOf(p) > 1 THEN RoundOf(p) - 1 ELSE RoundOf(p)

PlanRevisionRefused(p) ==
  \/ planReceipts[<<"revise", RevisionRound(p)>>] # "NONE"
  \/ plan.state # "PLAN_NEEDS_REVISION"
  \/ ~ReviewsCurrentPlan(p)

PlanRevisionLost(p) ==
  /\ Revising(p) /\ PlanRevisionRefused(p)
  /\ LosesAnswer(p, WasteCause)

(* Validation throws before the reservation: no receipt, no audit row.     *)
PlanRevisionInvalid(p) == Revising(p) /\ LosesAnswer(p, "INVALID")

(* The next review is the round after the one just revised for.            *)
PlanRevised(p) ==
  /\ Revising(p) /\ ~PlanRevisionRefused(p)
  /\ plan' = [plan EXCEPT !.state = "DRAFT", !.version = @ + 1]
  /\ PlanReceipt(<<"revise", RevisionRound(p)>>, "SUCCEEDED")
  /\ PlannerGoes(p, "ROUND", IF PlannerAt(p, "REVISE") THEN RoundOf(p) + 1 ELSE RoundOf(p), NoPlan)
  /\ UNCHANGED <<planStop, approvedPlan, wasted>>

(***************************************************************************)
(* A crash, and the human decision that lets the batch continue.           *)
(***************************************************************************)
PlannerDies(p) ==
  /\ PlannerBusy(p) /\ PlannerEnds(p)
  /\ wasted' = wasted \cup {IF PlannerAt(p, "STOPPING") THEN "STOP_LOST" ELSE "CRASHED"}
  /\ UNCHANGED <<plan, planReceipts, planStop, approvedPlan>>

Releasable(command) == planReceipts[command] = "FAILED_FINAL"

HumanContinues ==
  /\ planStop /\ planStop' = FALSE
  /\ planReceipts' =
       [c \in PlanReceiptId |-> IF Releasable(c) THEN "NONE" ELSE planReceipts[c]]
  /\ UNCHANGED <<plan, planners, approvedPlan, wasted>>

PlannerStep(p) ==
  \/ WorkerStarts(p) \/ AcceptsPlanAsIs(p) \/ FindsPlanApproved(p) \/ PlanRoundsExhausted(p)
  \/ InvokesPlanReview(p) \/ InvokesPendingRevision(p)
  \/ \E round \in 1..MaxRounds : ForegroundReview(p, round)
  \/ PlanReviewLost(p) \/ PlanContextMoved(p) \/ PlanReviewRejected(p) \/ StopsAfterRejection(p)
  \/ PlanApproved(p) \/ PlanNeedsRevision(p)
  \/ PlanRevisionLost(p) \/ PlanRevisionInvalid(p) \/ PlanRevised(p)
  \/ PlannerDies(p)

PlanNext == (\E p \in Planner : PlannerStep(p)) \/ HumanContinues

PlanSpec == PlanInit /\ [][PlanNext]_planVars

(***************************************************************************)
(* Properties.                                                             *)
(***************************************************************************)
(* A reviewer's approval opens exactly the plan that reviewer was shown:   *)
(* an answer that arrives after the plan was rejected and revised by       *)
(* somebody else never approves the revision.                              *)
ApprovedPlanWasReviewed ==
  approvedPlan # NoPlan =>
    /\ plan.state = "APPROVED_FOR_IMPLEMENTATION"
    /\ plan.version = approvedPlan

(* The runner never pays for an answer its own receipts make it throw      *)
(* away: round numbers follow the events, a resumed revision takes the     *)
(* number of the review it answers, and a decision releases what failed -  *)
(* so an answer is lost only with its process, to a foreground command, to *)
(* a moved repository, to its own invalidity, or to a crash between a      *)
(* rejected review and the stop that would have released it.               *)
RunnerAnswersKept == "UNEXPECTED" \notin wasted

=============================================================================
