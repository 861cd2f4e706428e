----------------------------- MODULE WorkflowAudit -----------------------------
(* The whole workflow (review-workflow-runner complete, the workflowAudit   *)
(* phase of the command line): batch after batch is approved at a commit,   *)
(* pushed and finished; then everything is verified again at the final HEAD *)
(* and the workflow is declared READY.  Workers die and are restarted,      *)
(* people pause the workflow, and between two workers they commit, reset,   *)
(* push and leave changes on its branch.  What happens inside a batch is    *)
(* RunnerStages, how two workers compete is WorkflowRunner: here a batch is *)
(* one commit and one approval, and one worker runs at a time.              *)
EXTENDS Naturals, Sequences, FiniteSets

CONSTANTS
  Total,        \* batches, frozen when refinement is approved
  MaxCommits    \* bound: commits made

ASSUME AuditAssumption == Total \in Nat \ {0} /\ MaxCommits \in Nat

VARIABLES
  branch,       \* the commits of the workflow branch, oldest first
  made,         \* commits ever made; they are numbered as they are made
  remote,       \* the commit the remote branch is at
  tidy,         \* worktree and index are clean
  approvedAt,   \* per batch, the commit its gate approved; 0 before that
  finished,     \* counters.completedOrdinals: batches are finished in order
  standing,     \* status of the runner row
  left,         \* paused_repo: HEAD and cleanliness when the pause settled
  reverified,   \* commits with a recorded workflow-level verification
  auditor       \* what the worker is doing

auditVars == <<branch, made, remote, tidy, approvedAt, finished, standing, left, reverified,
               auditor>>

Batches == 1..Total

NothingLeft == [at |-> 0, tidy |-> FALSE]

HeadOf(commits) == IF commits = <<>> THEN 0 ELSE commits[Len(commits)]

CurrentHead == HeadOf(branch)

InHistory(commit) == commit \in {branch[i] : i \in DOMAIN branch}

AuditTypeOK ==
  /\ made \in 0..MaxCommits
  /\ branch \in UNION {[1..n -> 1..made] : n \in 0..made}
  /\ remote \in 0..made
  /\ tidy \in BOOLEAN
  /\ approvedAt \in [Batches -> 0..made]
  /\ finished \in 0..Total
  /\ standing \in {"RUNNING", "PAUSE_REQUESTED", "PAUSED_BY_USER", "HUMAN_DECISION_REQUIRED",
                   "READY"}
  /\ left \in [at: 0..made, tidy: BOOLEAN]
  /\ reverified \subseteq 0..made
  /\ auditor \in {"NONE", "BATCH", "PUSH", "FINISH", "AUDIT", "CLEAN", "REMOTE", "READY"}

AuditInit ==
  /\ branch = <<>> /\ made = 0 /\ remote = 0 /\ tidy = TRUE
  /\ approvedAt = [b \in Batches |-> 0] /\ finished = 0
  /\ standing = "RUNNING" /\ left = NothingLeft
  /\ reverified = {} /\ auditor = "NONE"

repository == <<branch, made, remote, tidy>>

progress == <<approvedAt, finished, reverified>>

(***************************************************************************)
(* A worker starts, from wherever the last one was.                        *)
(***************************************************************************)
StopsForHuman == standing' = "HUMAN_DECISION_REQUIRED" /\ auditor' = "NONE"

(* The stage its persisted state proves; completion after the last batch.  *)
StageOf(n) ==
  CASE n = Total -> "AUDIT"
    [] n < Total /\ approvedAt[n + 1] = 0 -> "BATCH"
    [] OTHER -> "PUSH"

(* What was left at a pause must be found again.                           *)
Undrifted == left \in {NothingLeft, [at |-> CurrentHead, tidy |-> tidy]}

(* After a crash, a resume, or a fix_again decision of a human.            *)
WorkflowContinues ==
  /\ auditor = "NONE" /\ standing \in {"RUNNING", "HUMAN_DECISION_REQUIRED"}
  /\ IF Undrifted
       THEN /\ standing' = "RUNNING" /\ left' = NothingLeft
            /\ auditor' = StageOf(finished)
       ELSE StopsForHuman /\ UNCHANGED left
  /\ UNCHANGED <<repository, progress>>

AuditorDies ==
  /\ auditor # "NONE" /\ auditor' = "NONE"
  /\ UNCHANGED <<repository, progress, standing, left>>

(***************************************************************************)
(* One batch.                                                              *)
(***************************************************************************)
(* The implementer commits; review, verification and gate approve HEAD.    *)
BatchApproved ==
  /\ auditor = "BATCH" /\ made < MaxCommits /\ tidy
  /\ made' = made + 1 /\ branch' = Append(branch, made')
  /\ approvedAt' = [approvedAt EXCEPT ![finished + 1] = made']
  /\ auditor' = "PUSH"
  /\ UNCHANGED <<remote, tidy, finished, standing, left, reverified>>

BatchStops ==
  /\ auditor = "BATCH" /\ StopsForHuman
  /\ UNCHANGED <<repository, progress, left>>

(* Never forced: a remote that went elsewhere refuses it.                  *)
PushesBranch ==
  /\ auditor = "PUSH"
  /\ IF remote = 0 \/ InHistory(remote)
       THEN remote' = CurrentHead /\ auditor' = "FINISH" /\ UNCHANGED standing
       ELSE StopsForHuman /\ UNCHANGED remote
  /\ UNCHANGED <<branch, made, tidy, progress, left>>

FinishesBatch ==
  /\ auditor = "FINISH"
  /\ finished' = finished + 1 /\ auditor' = StageOf(finished')
  /\ UNCHANGED <<repository, approvedAt, reverified, standing, left>>

(***************************************************************************)
(* Completion.                                                             *)
(***************************************************************************)
(* The last approval is effective, the earlier ones are in the history.    *)
StillApproved(b) ==
  /\ approvedAt[b] # 0
  /\ IF b = Total THEN approvedAt[b] = CurrentHead ELSE InHistory(approvedAt[b])

(* Seeded fault: only the last batch is looked at.                         *)
LastApproved == \A b \in Batches : b = Total => StillApproved(b)

AllApproved == \A b \in Batches : StillApproved(b)

(* The commands run again at HEAD, unless a success is recorded there; one *)
(* may fail, or write files.                                               *)
AuditsWorkflow(succeeded, tidies) ==
  /\ auditor = "AUDIT"
  /\ CurrentHead \in reverified => succeeded /\ tidies = tidy
  /\ tidies => tidy
  /\ tidy' = tidies
  /\ reverified' = IF succeeded THEN reverified \cup {CurrentHead} ELSE reverified
  /\ IF succeeded /\ tidies /\ AllApproved
       THEN auditor' = "CLEAN" /\ UNCHANGED standing
       ELSE StopsForHuman
  /\ UNCHANGED <<branch, made, remote, approvedAt, finished, left>>

ChecksClean ==
  /\ auditor = "CLEAN"
  /\ IF tidy THEN auditor' = "REMOTE" /\ UNCHANGED standing ELSE StopsForHuman
  /\ UNCHANGED <<repository, progress, left>>

ChecksRemote ==
  /\ auditor = "REMOTE"
  /\ IF remote = CurrentHead THEN auditor' = "READY" /\ UNCHANGED standing ELSE StopsForHuman
  /\ UNCHANGED <<repository, progress, left>>

MarksReady ==
  /\ auditor = "READY" /\ standing = "RUNNING"
  /\ standing' = "READY" /\ auditor' = "NONE"
  /\ UNCHANGED <<repository, progress, left>>

(***************************************************************************)
(* Pause and resume.  A pause settles before the next phase, and at the    *)
(* end: READY loses to it.                                                 *)
(***************************************************************************)
PauseAsked ==
  /\ standing = "RUNNING" /\ standing' = "PAUSE_REQUESTED"
  /\ UNCHANGED <<repository, progress, left, auditor>>

PauseTakesEffect ==
  /\ standing = "PAUSE_REQUESTED" /\ auditor \in {"BATCH", "PUSH", "AUDIT", "READY"}
  /\ standing' = "PAUSED_BY_USER" /\ left' = [at |-> CurrentHead, tidy |-> tidy]
  /\ auditor' = "NONE"
  /\ UNCHANGED <<repository, progress>>

(* A dead worker's request settles when it is resumed, as it finds things. *)
WorkflowResumes ==
  /\ auditor = "NONE"
  /\ \/ standing = "PAUSED_BY_USER" /\ UNCHANGED left
     \/ standing = "PAUSE_REQUESTED" /\ left' = [at |-> CurrentHead, tidy |-> tidy]
  /\ standing' = "RUNNING"
  /\ UNCHANGED <<repository, progress, auditor>>

(***************************************************************************)
(* People, while no worker runs.                                           *)
(***************************************************************************)
HumanRewrites(keep, extends) ==
  /\ auditor = "NONE" /\ standing # "READY"
  /\ extends => made < MaxCommits
  /\ LET kept == SubSeq(branch, 1, keep)
     IN  IF extends THEN made' = made + 1 /\ branch' = Append(kept, made')
                    ELSE branch' = kept /\ UNCHANGED made
  /\ tidy' = TRUE
  /\ UNCHANGED <<remote, progress, standing, left, auditor>>

HumanPushes ==
  /\ auditor = "NONE" /\ remote' = CurrentHead
  /\ UNCHANGED <<branch, made, tidy, progress, standing, left, auditor>>

HumanEdits ==
  /\ auditor = "NONE" /\ tidy' = ~tidy
  /\ UNCHANGED <<branch, made, remote, progress, standing, left, auditor>>

(* A recorded success whose log is gone is not reused.                     *)
LogLost(commit) ==
  /\ auditor = "NONE" /\ commit \in reverified /\ reverified' = reverified \ {commit}
  /\ UNCHANGED <<repository, approvedAt, finished, standing, left, auditor>>

AuditNext ==
  \/ WorkflowContinues \/ AuditorDies
  \/ BatchApproved \/ BatchStops \/ PushesBranch \/ FinishesBatch
  \/ \E succeeded, tidies \in BOOLEAN : AuditsWorkflow(succeeded, tidies)
  \/ ChecksClean \/ ChecksRemote \/ MarksReady
  \/ PauseAsked \/ PauseTakesEffect \/ WorkflowResumes
  \/ \E keep \in 0..Len(branch), extends \in BOOLEAN : HumanRewrites(keep, extends)
  \/ HumanPushes \/ HumanEdits
  \/ \E commit \in 0..made : LogLost(commit)

AuditSpec == AuditInit /\ [][AuditNext]_auditVars

(***************************************************************************)
(* Properties.                                                             *)
(***************************************************************************)
(* READY_FOR_HUMAN_VERIFICATION is declared of a whole workflow: the work  *)
(* every gate approved is in the branch, nothing came after the last       *)
(* approval, that HEAD was verified again, and it is what was pushed, from *)
(* a clean worktree; whatever died, was paused, or was rewritten by hand   *)
(* on the way.                                                             *)
ReadyIsWhole ==
  [][(standing # "READY" /\ standing' = "READY") =>
       /\ finished = Total
       /\ \A b \in Batches : InHistory(approvedAt[b])
       /\ CurrentHead = approvedAt[Total] /\ CurrentHead \in reverified
       /\ remote = CurrentHead /\ tidy]_auditVars
=============================================================================
