--------------------------- MODULE ReviewController ---------------------------
(***************************************************************************)
(* The repository review controller (tools/review-controller): a state     *)
(* file says which phase of a batch is next, a lock file says which        *)
(* process may act on it, and git says what was implemented, reviewed and  *)
(* committed.  Processes read the state file, take the lock, read again    *)
(* and act once; reconcile first removes a stale lock.  Processes may die  *)
(* at any point, and the developer edits and commits when he likes.        *)
(* Artefacts are reduced to their verdicts, the tree to one content.       *)
(***************************************************************************)
EXTENDS Naturals, Sequences

CONSTANTS
  LastBatch,      \* approved batches are 1..LastBatch
  Content,        \* what the product worktree may hold
  BaseContent,    \* its content at the first base commit
  Automation,     \* automation settings to consider
  RepairLimit,    \* invalidOutputRetryCount
  MaxCommits,     \* bound: commits of the repository
  Controller,     \* pids of run-once, run-until-stop and reconcile processes
  NoLock, NoSnapshot

ASSUME ControllerAssumption ==
  /\ LastBatch \in Nat \ {0} /\ RepairLimit \in Nat /\ MaxCommits \in Nat \ {0}
  /\ BaseContent \in Content
  /\ Automation \subseteq [commit: BOOLEAN, push: BOOLEAN, advance: BOOLEAN]

(* The null values are none of the things they stand in for.               *)
ASSUME NoControllerAssumption ==
  NoLock \notin Controller \cup [maker: Controller, written: BOOLEAN]

VARIABLES
  flow,           \* the workflow state file
  automation,     \* its automation settings
  lock,           \* the lock file: who created it, and whether its pid is written
  commits,        \* the content of every commit, HEAD last
  tree,           \* the content of the worktree
  remoteRef,      \* the commit the remote branch is at
  breach,         \* history: what happened outside the protocol
  control         \* what each process is doing

controllerVars == <<flow, automation, lock, commits, tree, remoteRef, breach, control>>

AgentPhases == {"IMPLEMENT", "REVIEW_INITIAL", "FIX_BLOCKING_FINDINGS", "REVIEW_FINAL"}

Phases == AgentPhases \cup
  {"READY_TO_COMMIT", "CLOSE_BATCH", "ADVANCE_BATCH",
   "HUMAN_DECISION_REQUIRED", "BLOCKED", "DONE"}

Snapshot == [head: 1..MaxCommits, content: Content]

(* The review and correction rounds follow from the phase.  invoker is the *)
(* process whose call is recorded IN_PROGRESS.                             *)
Flow ==
  [phase: Phases, activeBatch: 1..LastBatch, invocation: {"NONE", "IN_PROGRESS"},
   invoker: Controller \cup {NoLock}, stopReason: {"NONE", "AUTOMATION", "STOP"},
   approved: Snapshot \cup {NoSnapshot}, commit: 0..MaxCommits]

ControlPCs ==
  {"NEW", "GONE", "UNLINK", "READ", "OPEN", "WRITE", "COMPARE", "WORK", "AGENT", "REPAIR",
   "COMMIT", "COMMITTED", "PUSHED", "RELEASE"}

Control ==
  [pc: ControlPCs, reconcile: BOOLEAN, inspected: Controller \cup {NoLock}, flow: Flow,
   before: Snapshot \cup {NoSnapshot}, attempt: 0..(RepairLimit + 1)]

ControllerTypeOK ==
  /\ flow \in Flow
  /\ automation \in Automation
  /\ lock \in [maker: Controller, written: BOOLEAN] \cup {NoLock}
  /\ commits \in Seq(Content) /\ Len(commits) \in 1..MaxCommits
  /\ tree \in Content
  /\ remoteRef \in 0..MaxCommits
  /\ breach \subseteq {"LIVE_LOCK_REMOVED", "COMMIT_RACED"}
  /\ control \in [Controller -> Control]

NewFlow ==
  [phase |-> "IMPLEMENT", activeBatch |-> 1, invocation |-> "NONE", invoker |-> NoLock,
   stopReason |-> "NONE", approved |-> NoSnapshot, commit |-> 0]

NewControl ==
  [pc |-> "NEW", reconcile |-> FALSE, inspected |-> NoLock, flow |-> NewFlow,
   before |-> NoSnapshot, attempt |-> 0]

ControllerInit ==
  /\ flow = NewFlow
  /\ automation \in Automation
  /\ lock = NoLock
  /\ commits = <<BaseContent>> /\ tree = BaseContent /\ remoteRef = 0
  /\ breach = {}
  /\ control = [p \in Controller |-> NewControl]

ControlAt(p, pc) == control[p].pc = pc

ControllerAlive(p) == control[p].pc \notin {"NEW", "GONE"}

FlowOf(p) == control[p].flow

Moves(p, pc) == control' = [control EXCEPT ![p].pc = pc]

Finishes(p) ==
  control' = [control EXCEPT ![p] =
    [NewControl EXCEPT !.pc = "RELEASE", !.reconcile = control[p].reconcile]]

Leaves(p) == control' = [control EXCEPT ![p] = [NewControl EXCEPT !.pc = "GONE"]]

Repository == <<commits, tree, remoteRef>>

OnlyControl == UNCHANGED <<flow, automation, lock, Repository, breach>>

HeadIndex == Len(commits)

Clean == tree = commits[HeadIndex]

Here == [head |-> HeadIndex, content |-> tree]

(***************************************************************************)
(* The lock.                                                               *)
(***************************************************************************)
Starts(p) ==
  /\ ControlAt(p, "NEW") /\ Moves(p, "READ") /\ OnlyControl

(* inspectLock: a lock file without a pid, or with a dead one, is stale.   *)
LockStale == lock # NoLock /\ (lock.written => ~ControllerAlive(lock.maker))

(* Seeded fault: a lock that exists is removed, stale or not.              *)
LockExists == lock # NoLock

LockRemovable == LockStale

ReconcileStarts(p) ==
  /\ ControlAt(p, "NEW")
  /\ lock = NoLock \/ LockRemovable
  /\ control' = [control EXCEPT ![p].reconcile = TRUE,
         ![p].inspected = IF lock # NoLock /\ lock.written THEN lock.maker ELSE NoLock,
         ![p].pc = IF lock = NoLock THEN "READ" ELSE "UNLINK"]
  /\ OnlyControl

(* An unlink takes whatever lock is there by then: one whose pid was not   *)
(* written when it was inspected, or one that replaced the inspected one.  *)
Unlinks(p) ==
  /\ lock' = NoLock
  /\ breach' =
       IF lock # NoLock /\ lock.maker \notin {p, control[p].inspected} /\ ControllerAlive(lock.maker)
       THEN breach \cup {"LIVE_LOCK_REMOVED"} ELSE breach

RemovesStaleLock(p) ==
  /\ ControlAt(p, "UNLINK") /\ lock # NoLock
  /\ Unlinks(p) /\ Moves(p, "READ")
  /\ UNCHANGED <<flow, automation, Repository>>

ReadsFlow(p) ==
  /\ ControlAt(p, "READ")
  /\ control' = [control EXCEPT ![p].pc = "OPEN", ![p].flow = flow]
  /\ OnlyControl

(* The file is created first and its pid written next.                     *)
OpensLock(p) ==
  /\ ControlAt(p, "OPEN") /\ lock = NoLock
  /\ lock' = [maker |-> p, written |-> FALSE]
  /\ Moves(p, "WRITE")
  /\ UNCHANGED <<flow, automation, Repository, breach>>

WritesLock(p) ==
  /\ ControlAt(p, "WRITE")
  /\ lock' = IF lock # NoLock /\ lock.maker = p THEN [lock EXCEPT !.written = TRUE] ELSE lock
  /\ Moves(p, "COMPARE")
  /\ UNCHANGED <<flow, automation, Repository, breach>>

Acquires(p) ==
  /\ ControlAt(p, "COMPARE") /\ flow = FlowOf(p)
  /\ Moves(p, "WORK") /\ OnlyControl

(* The file changed while the lock was taken: released, and nothing done.  *)
FlowChanged(p) ==
  /\ ControlAt(p, "COMPARE") /\ flow # FlowOf(p)
  /\ Unlinks(p) /\ Leaves(p)
  /\ UNCHANGED <<flow, automation, Repository>>

(* run-until-stop goes on with its next action; after a reconciliation the *)
(* next run may follow.                                                    *)
ReleasesLock(p) ==
  /\ ControlAt(p, "RELEASE")
  /\ Unlinks(p)
  /\ \/ Leaves(p)
     \/ control' = [control EXCEPT ![p] = [NewControl EXCEPT !.pc = "READ"]]
  /\ UNCHANGED <<flow, automation, Repository>>

(* A refusal, or an error outside the protected section.                   *)
GivesUp(p) ==
  /\ \/ ControlAt(p, "UNLINK") /\ lock = NoLock
     \/ ControlAt(p, "OPEN") /\ lock # NoLock
  /\ Leaves(p) /\ OnlyControl

(* An error in the protected section: the lock is released.                *)
Throws(p) ==
  /\ control[p].pc \in {"WORK", "COMMIT", "PUSHED"}
  /\ Finishes(p) /\ OnlyControl

ControllerDies(p) == ControllerAlive(p) /\ Leaves(p) /\ OnlyControl

(***************************************************************************)
(* The state file.                                                         *)
(***************************************************************************)
Saves(p, next) ==
  /\ flow' = next /\ Finishes(p)
  /\ UNCHANGED <<automation, lock, Repository, breach>>

Settled(state) == [state EXCEPT !.invocation = "NONE", !.invoker = NoLock]

Enters(state, phase) == [state EXCEPT !.phase = phase, !.stopReason = "NONE"]

StopsIn(state, phase) == [state EXCEPT !.phase = phase, !.stopReason = "STOP"]

(***************************************************************************)
(* runOnce.                                                                *)
(***************************************************************************)
(* Seeded fault: only the caller's own record counts.                      *)
OwnCallRecorded(p) == FlowOf(p).invocation = "IN_PROGRESS" /\ FlowOf(p).invoker = p

Uncertain(p) == FlowOf(p).invocation = "IN_PROGRESS"

(* An invocation somebody left behind is escalated, never repeated.        *)
Escalates(p) ==
  /\ ControlAt(p, "WORK") /\ Uncertain(p)
  /\ Saves(p, StopsIn(Settled(FlowOf(p)), "HUMAN_DECISION_REQUIRED"))

Running(p) ==
  /\ ControlAt(p, "WORK") /\ ~control[p].reconcile /\ ~Uncertain(p)
  /\ FlowOf(p).stopReason # "STOP"

FindsNothing(p) ==
  /\ ControlAt(p, "WORK") /\ ~control[p].reconcile /\ ~Uncertain(p)
  /\ FlowOf(p).stopReason = "STOP"
  /\ Finishes(p) /\ OnlyControl

(* run-until-stop after its last action, whatever the file says by then.   *)
StopsAtLimit(p) ==
  /\ ControlAt(p, "WORK") /\ ~control[p].reconcile
  /\ Saves(p, [FlowOf(p) EXCEPT !.stopReason = "STOP"])

(* The call is recorded before the agent starts.                           *)
Invokes(p) ==
  /\ \/ Running(p) /\ FlowOf(p).phase \in AgentPhases
     \/ ControlAt(p, "REPAIR")
  /\ flow' = [FlowOf(p) EXCEPT !.invocation = "IN_PROGRESS", !.invoker = p,
                               !.stopReason = "NONE"]
  /\ control' = [control EXCEPT ![p].pc = "AGENT", ![p].flow = flow', ![p].before = Here,
                                ![p].attempt = @ + 1]
  /\ UNCHANGED <<automation, lock, Repository, breach>>

MayModify(phase) == phase \in {"IMPLEMENT", "FIX_BLOCKING_FINDINGS"}

AgentFails(p) ==
  /\ ControlAt(p, "AGENT")
  /\ Saves(p, StopsIn(Settled(FlowOf(p)), "BLOCKED"))

(* The state file is not the one the call was recorded in, or an artefact  *)
(* changed: the file is restored, and the controller stops.                *)
Restores(p) ==
  /\ ControlAt(p, "AGENT")
  /\ Saves(p, [Settled(FlowOf(p)) EXCEPT !.stopReason = "STOP"])

(* What the agent may not have changed.                                    *)
Untampered(p) == ControlAt(p, "AGENT") /\ flow = FlowOf(p)

HeadKept(p) == HeadIndex = control[p].before.head

TreeKept(p) ==
  \/ MayModify(FlowOf(p).phase) /\ control[p].attempt = 1
  \/ tree = control[p].before.content

RejectsChanges(p) ==
  /\ Untampered(p) /\ ~(HeadKept(p) /\ TreeKept(p))
  /\ Saves(p, StopsIn(Settled(FlowOf(p)), "HUMAN_DECISION_REQUIRED"))

(* Seeded fault: one repair too many.                                      *)
RepairsOverrun(p) == control[p].attempt > RepairLimit + 1

RepairsExhausted(p) == control[p].attempt > RepairLimit

InvalidOutput(p) ==
  /\ Untampered(p) /\ HeadKept(p) /\ TreeKept(p)
  /\ IF RepairsExhausted(p)
     THEN Saves(p, StopsIn(Settled(FlowOf(p)), "HUMAN_DECISION_REQUIRED"))
     ELSE /\ flow' = Settled(FlowOf(p))
          /\ control' = [control EXCEPT ![p].pc = "REPAIR", ![p].flow = flow']
          /\ UNCHANGED <<automation, lock, Repository, breach>>

(* transitionWithArtifact, by phase and verdict: one review, one           *)
(* correction, one final review.                                           *)
Approves(state) == [Enters(state, "READY_TO_COMMIT") EXCEPT !.approved = Here]

Verdicts(state) ==
  CASE state.phase = "IMPLEMENT" -> {Enters(state, "REVIEW_INITIAL")}
    [] state.phase = "REVIEW_INITIAL" ->
         {Approves(state), Enters(state, "FIX_BLOCKING_FINDINGS"), StopsIn(state, "BLOCKED")}
    [] state.phase = "FIX_BLOCKING_FINDINGS" -> {Enters(state, "REVIEW_FINAL")}
    [] state.phase = "REVIEW_FINAL" ->
         {Approves(state), StopsIn(state, "HUMAN_DECISION_REQUIRED"), StopsIn(state, "BLOCKED")}

AcceptsArtifact(p) ==
  /\ Untampered(p) /\ HeadKept(p) /\ TreeKept(p)
  /\ \E next \in Verdicts(Settled(FlowOf(p))) : Saves(p, next)

(***************************************************************************)
(* The commit, the push and the next batch.                                *)
(***************************************************************************)
InPhase(p, phase) == Running(p) /\ FlowOf(p).phase = phase

(* Seeded fault: the committed content is not compared.                    *)
FilesCommitted(approved) ==
  /\ HeadIndex > 1 /\ HeadIndex - 1 = approved.head /\ Clean

(* verifyApprovedCommit: HEAD is a commit on the reviewed one, and holds   *)
(* the reviewed files as they were reviewed.                               *)
ApprovedCommitted(approved) ==
  /\ HeadIndex > 1 /\ HeadIndex - 1 = approved.head /\ Clean
  /\ tree = approved.content

Closes(state, commit) == [Enters(state, "CLOSE_BATCH") EXCEPT !.commit = commit]

VerifiesCommit(p) ==
  /\ InPhase(p, "READY_TO_COMMIT") /\ ~automation.commit
  /\ IF ApprovedCommitted(FlowOf(p).approved)
     THEN Saves(p, Closes(FlowOf(p), HeadIndex))
     ELSE Saves(p, [FlowOf(p) EXCEPT !.stopReason = "AUTOMATION"])

ChecksSnapshot(p) ==
  /\ InPhase(p, "READY_TO_COMMIT") /\ automation.commit
  /\ Here = FlowOf(p).approved
  /\ Moves(p, "COMMIT") /\ OnlyControl

(* git add and git commit take the content as it is then.                  *)
CommitsSnapshot(p) ==
  /\ ControlAt(p, "COMMIT") /\ ~Clean /\ HeadIndex < MaxCommits
  /\ commits' = Append(commits, tree)
  /\ Moves(p, "COMMITTED")
  /\ UNCHANGED <<flow, automation, lock, tree, remoteRef, breach>>

ClosesCommitted(p) ==
  /\ ControlAt(p, "COMMITTED")
  /\ Saves(p, Closes(FlowOf(p), HeadIndex))

Closing(p) ==
  /\ InPhase(p, "CLOSE_BATCH") /\ HeadIndex = FlowOf(p).commit /\ Clean

VerifiesPush(p) ==
  /\ Closing(p) /\ ~automation.push
  /\ IF remoteRef = FlowOf(p).commit
     THEN Saves(p, Enters(FlowOf(p), "ADVANCE_BATCH"))
     ELSE Saves(p, [FlowOf(p) EXCEPT !.stopReason = "AUTOMATION"])

PushesBranch(p) ==
  /\ Closing(p) /\ automation.push
  /\ remoteRef' = HeadIndex
  /\ Moves(p, "PUSHED")
  /\ UNCHANGED <<flow, automation, lock, commits, tree, breach>>

ChecksPushed(p) ==
  /\ ControlAt(p, "PUSHED") /\ HeadIndex = FlowOf(p).commit /\ Clean
  /\ Saves(p, Enters(FlowOf(p), "ADVANCE_BATCH"))

NextBatch(state) == [NewFlow EXCEPT !.activeBatch = state.activeBatch + 1]

Advances(p) ==
  /\ InPhase(p, "ADVANCE_BATCH")
  /\ \/ ~automation.advance /\ Saves(p, [FlowOf(p) EXCEPT !.stopReason = "STOP"])
     \/ /\ automation.advance /\ Clean /\ FlowOf(p).activeBatch < LastBatch
        /\ Saves(p, NextBatch(FlowOf(p)))
     \/ /\ automation.advance /\ Clean /\ FlowOf(p).activeBatch = LastBatch
        /\ Saves(p, StopsIn(FlowOf(p), "DONE"))

(***************************************************************************)
(* reconcile: the interrupted invocation is escalated as above; a manual   *)
(* commit or push is recognised; anything else is only reported.           *)
(***************************************************************************)
Reconciles(p) ==
  /\ ControlAt(p, "WORK") /\ control[p].reconcile /\ ~Uncertain(p)
  /\ \/ /\ FlowOf(p).phase = "READY_TO_COMMIT" /\ ApprovedCommitted(FlowOf(p).approved)
        /\ Saves(p, Closes(FlowOf(p), HeadIndex))
     \/ /\ FlowOf(p).phase = "CLOSE_BATCH" /\ remoteRef = FlowOf(p).commit
        /\ Saves(p, Enters(FlowOf(p), "ADVANCE_BATCH"))
     \/ Finishes(p) /\ OnlyControl

(***************************************************************************)
(* The developer, and the agent while it runs.                             *)
(***************************************************************************)
(* Between the comparison of the snapshot and the commit, and between the  *)
(* commit and the reading of HEAD, nothing keeps the developer out.        *)
Races(pcs) ==
  breach' = IF \E p \in Controller : control[p].pc \in pcs
            THEN breach \cup {"COMMIT_RACED"} ELSE breach

TreeEdited(content) ==
  /\ tree # content /\ tree' = content
  /\ Races({"COMMIT"})
  /\ UNCHANGED <<flow, automation, lock, commits, remoteRef, control>>

DeveloperCommits ==
  /\ ~Clean /\ HeadIndex < MaxCommits
  /\ commits' = Append(commits, tree)
  /\ Races({"COMMIT", "COMMITTED"})
  /\ UNCHANGED <<flow, automation, lock, tree, remoteRef, control>>

DeveloperPushes ==
  /\ remoteRef # HeadIndex /\ remoteRef' = HeadIndex
  /\ UNCHANGED <<flow, automation, lock, commits, tree, breach, control>>

(***************************************************************************)
(* The specification.                                                      *)
(***************************************************************************)
ControllerStep(p) ==
  \/ Starts(p) \/ ReconcileStarts(p) \/ RemovesStaleLock(p) \/ ReadsFlow(p)
  \/ OpensLock(p) \/ WritesLock(p) \/ Acquires(p) \/ FlowChanged(p) \/ ReleasesLock(p)
  \/ GivesUp(p) \/ Throws(p) \/ ControllerDies(p)
  \/ Escalates(p) \/ FindsNothing(p) \/ StopsAtLimit(p)
  \/ Invokes(p) \/ AgentFails(p) \/ Restores(p)
  \/ RejectsChanges(p) \/ InvalidOutput(p) \/ AcceptsArtifact(p)
  \/ VerifiesCommit(p) \/ ChecksSnapshot(p) \/ CommitsSnapshot(p) \/ ClosesCommitted(p)
  \/ VerifiesPush(p) \/ PushesBranch(p) \/ ChecksPushed(p) \/ Advances(p) \/ Reconciles(p)

(* Every property is about the time before a live lock is unlinked, so     *)
(* what follows that is left out.                                          *)
LockIntact == "LIVE_LOCK_REMOVED" \notin breach

ControllerNext ==
  /\ LockIntact
  /\ \/ \E p \in Controller : ControllerStep(p)
     \/ \E c \in Content : TreeEdited(c)
     \/ DeveloperCommits \/ DeveloperPushes

ControllerSpec == ControllerInit /\ [][ControllerNext]_controllerVars

(***************************************************************************)
(* Properties.                                                             *)
(***************************************************************************)
Acting(p) == control[p].pc \in {"WORK", "AGENT", "REPAIR", "COMMIT", "COMMITTED", "PUSHED"}

(* README, Integrity and recovery: the lock prevents concurrent runs.  Two *)
(* controllers never act at once, whatever dies and whoever reconciles,    *)
(* unless the lock of a live controller was unlinked - which reconcile     *)
(* does to a lock file whose pid is not written yet, and to one that       *)
(* replaced the stale file it had inspected.                               *)
SoleController ==
  \/ ~LockIntact
  \/ \A p, q \in Controller : Acting(p) /\ Acting(q) => p = q

(* README: an invocation left IN_PROGRESS is escalated rather than         *)
(* repeated.  No process records a call over that of a dead one.           *)
UncertainNeverRepeated ==
  [][/\ flow.invocation = "IN_PROGRESS" /\ ~ControllerAlive(flow.invoker)
     /\ flow'.invocation = "IN_PROGRESS"
     => flow'.invoker = flow.invoker \/ ~LockIntact]_controllerVars

(* What a batch is closed with is what its approving review saw, through   *)
(* manual commits, edits, crashes between commit and state file, and       *)
(* reconciliation - unless the developer edits or commits between the      *)
(* comparison and the reading of HEAD, which no check of the code sees.    *)
ReviewedContentCommitted ==
  \/ breach # {}
  \/ flow.phase \in {"CLOSE_BATCH", "ADVANCE_BATCH"} =>
       commits[flow.commit] = flow.approved.content

=============================================================================
