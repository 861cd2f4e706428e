----------------------------- MODULE BatchKernel -----------------------------
(***************************************************************************)
(* The pure transition kernel of a review-workflow batch: which commands   *)
(* may be issued from which state, by whom, and where they lead            *)
(* (packages/core/src/review-workflow).  Every aggregate write of the      *)
(* program is re-derived through this kernel by the command store.         *)
(* The command-specific actor and evidence checks are not modelled here:   *)
(* CommandStore reduces their verdict to one flag of the request.          *)
(***************************************************************************)

(***************************************************************************)
(* Batch states.  NoState stands for "no batch row yet" (null).            *)
(***************************************************************************)
NoState == "NO_STATE"

TerminalStates == {"MERGED", "CANCELLED"}

BlockableStates ==
  {"DRAFT", "PLAN_REVIEW", "PLAN_NEEDS_REVISION", "APPROVED_FOR_IMPLEMENTATION",
   "IMPLEMENTING", "AWAITING_COMMIT", "IMPLEMENTATION_COMPLETE", "CODE_REVIEW",
   "NEEDS_REVISION", "VERIFYING", "APPROVED_FOR_MERGE", "APPROVAL_STALE"}

BatchStates == BlockableStates \cup {"BLOCKED"} \cup TerminalStates

(***************************************************************************)
(* Where a batch blocked in a given state resumes: never inside a review   *)
(* or an approval, always before it.                                       *)
(***************************************************************************)
SafeBlockedResumeState ==
  [s \in BlockableStates |->
    CASE s \in {"DRAFT", "PLAN_REVIEW", "APPROVED_FOR_IMPLEMENTATION"} -> "DRAFT"
      [] s = "CODE_REVIEW" -> "IMPLEMENTATION_COMPLETE"
      [] s = "APPROVED_FOR_MERGE" -> "VERIFYING"
      [] s = "APPROVAL_STALE" -> "NEEDS_REVISION"
      [] OTHER -> s]

ResumableStates ==
  {"DRAFT", "PLAN_NEEDS_REVISION", "IMPLEMENTING", "AWAITING_COMMIT",
   "IMPLEMENTATION_COMPLETE", "NEEDS_REVISION", "VERIFYING"}

CommandTypes ==
  {"CREATE_BATCH", "START_PLAN_REVIEW", "APPROVE_PLAN", "REJECT_PLAN",
   "ACCEPT_PLAN_AS_IS", "SUBMIT_REVISED_PLAN", "START_IMPLEMENTATION",
   "MARK_IMPLEMENTATION_READY", "RESUME_IMPLEMENTATION", "COMPLETE_IMPLEMENTATION",
   "START_CODE_REVIEW", "REJECT_CODE_REVIEW", "APPROVE_CODE_REVIEW",
   "FAIL_VERIFICATION", "APPROVE_FOR_MERGE", "RECONCILE_STALE_APPROVAL",
   "RECORD_EXTERNAL_MERGE", "BLOCK_BATCH", "RESUME_BATCH", "ACCEPT_FINDINGS_RISK",
   "CANCEL_BATCH"}

(***************************************************************************)
(* expectedSourceStates: the states a command may be issued from.          *)
(***************************************************************************)
ExpectedSourceStates ==
  [t \in CommandTypes |->
    CASE t = "CREATE_BATCH" -> {NoState}
      [] t \in {"START_PLAN_REVIEW", "ACCEPT_PLAN_AS_IS"} -> {"DRAFT"}
      [] t \in {"APPROVE_PLAN", "REJECT_PLAN"} -> {"PLAN_REVIEW"}
      [] t = "SUBMIT_REVISED_PLAN" -> {"PLAN_NEEDS_REVISION"}
      [] t = "START_IMPLEMENTATION" -> {"APPROVED_FOR_IMPLEMENTATION"}
      [] t = "MARK_IMPLEMENTATION_READY" -> {"IMPLEMENTING"}
      [] t = "RESUME_IMPLEMENTATION" ->
           {"AWAITING_COMMIT", "NEEDS_REVISION", "APPROVAL_STALE"}
      [] t = "COMPLETE_IMPLEMENTATION" -> {"AWAITING_COMMIT"}
      [] t = "START_CODE_REVIEW" -> {"IMPLEMENTATION_COMPLETE"}
      [] t \in {"APPROVE_CODE_REVIEW", "REJECT_CODE_REVIEW"} -> {"CODE_REVIEW"}
      [] t \in {"FAIL_VERIFICATION", "APPROVE_FOR_MERGE"} -> {"VERIFYING"}
      [] t \in {"RECONCILE_STALE_APPROVAL", "RECORD_EXTERNAL_MERGE"} ->
           {"APPROVED_FOR_MERGE"}
      [] t = "BLOCK_BATCH" -> BlockableStates
      [] t = "RESUME_BATCH" -> {"BLOCKED"}
      [] t = "ACCEPT_FINDINGS_RISK" -> {"NEEDS_REVISION", "IMPLEMENTATION_COMPLETE"}
      [] t = "CANCEL_BATCH" -> BlockableStates \cup {"BLOCKED"}]

(***************************************************************************)
(* The state an allowed command leads to, for every command but            *)
(* RESUME_BATCH, whose target is the batch's own resume state.             *)
(***************************************************************************)
TargetState ==
  [t \in CommandTypes \ {"RESUME_BATCH"} |->
    CASE t \in {"CREATE_BATCH", "SUBMIT_REVISED_PLAN"} -> "DRAFT"
      [] t = "START_PLAN_REVIEW" -> "PLAN_REVIEW"
      [] t \in {"APPROVE_PLAN", "ACCEPT_PLAN_AS_IS"} -> "APPROVED_FOR_IMPLEMENTATION"
      [] t = "REJECT_PLAN" -> "PLAN_NEEDS_REVISION"
      [] t \in {"START_IMPLEMENTATION", "RESUME_IMPLEMENTATION"} -> "IMPLEMENTING"
      [] t = "MARK_IMPLEMENTATION_READY" -> "AWAITING_COMMIT"
      [] t = "COMPLETE_IMPLEMENTATION" -> "IMPLEMENTATION_COMPLETE"
      [] t = "START_CODE_REVIEW" -> "CODE_REVIEW"
      [] t \in {"REJECT_CODE_REVIEW", "FAIL_VERIFICATION"} -> "NEEDS_REVISION"
      [] t \in {"APPROVE_CODE_REVIEW", "ACCEPT_FINDINGS_RISK"} -> "VERIFYING"
      [] t = "APPROVE_FOR_MERGE" -> "APPROVED_FOR_MERGE"
      [] t = "RECONCILE_STALE_APPROVAL" -> "APPROVAL_STALE"
      [] t = "RECORD_EXTERNAL_MERGE" -> "MERGED"
      [] t = "BLOCK_BATCH" -> "BLOCKED"
      [] t = "CANCEL_BATCH" -> "CANCELLED"]

(***************************************************************************)
(* The kernel context of a batch: its state, and the block context that    *)
(* exists exactly while it is BLOCKED.                                     *)
(***************************************************************************)
KernelContext ==
  [state: BatchStates \cup {NoState},
   blockedFrom: BlockableStates \cup {NoState},
   blockedResume: ResumableStates \cup {NoState}]

(***************************************************************************)
(* transitionBatch without its actor and evidence checks: the state rules. *)
(* A resumed batch must carry a block context the kernel itself derived.   *)
(***************************************************************************)
StateAllows(t, ctx) ==
  /\ ctx.state \notin TerminalStates
  /\ ctx.state \in ExpectedSourceStates[t]
  /\ t = "RESUME_BATCH" =>
       /\ ctx.blockedFrom \in BlockableStates
       /\ ctx.blockedResume \in ResumableStates
       /\ SafeBlockedResumeState[ctx.blockedFrom] = ctx.blockedResume

(* Seeded fault: resume where the batch was blocked, inside the review.    *)
FaultyNextContext(t, ctx) ==
  [state |-> IF t = "RESUME_BATCH" THEN ctx.blockedResume ELSE TargetState[t],
   blockedFrom |-> IF t = "BLOCK_BATCH" THEN ctx.state ELSE NoState,
   blockedResume |-> IF t = "BLOCK_BATCH" THEN ctx.state ELSE NoState]

NextContext(t, ctx) ==
  [state |-> IF t = "RESUME_BATCH" THEN ctx.blockedResume ELSE TargetState[t],
   blockedFrom |-> IF t = "BLOCK_BATCH" THEN ctx.state ELSE NoState,
   blockedResume |-> IF t = "BLOCK_BATCH" THEN SafeBlockedResumeState[ctx.state]
                                          ELSE NoState]

=============================================================================
