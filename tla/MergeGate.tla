------------------------------ MODULE MergeGate ------------------------------
(***************************************************************************)
(* The merge gate of a batch (review-workflow-gate, with the verification  *)
(* service and the CLI commands that drive them): verification records and *)
(* their attestation, the single final audit, the evaluation of the gate   *)
(* from durable evidence and fresh repository reads, the reconciliation of *)
(* an approval whose commit is no longer HEAD, and the recording of an     *)
(* external merge.                                                         *)
(*                                                                         *)
(* Every process reads batch, repository and evidence in separate steps    *)
(* and writes in one transaction at the end.  Between two of its steps the *)
(* worktree may move, another process may decide the same batch, and the   *)
(* batch may be blocked, resumed, implemented and reviewed again.          *)
(***************************************************************************)
EXTENDS BatchAggregate, SequencesExt

CONSTANTS
  Commit,
  Ancestors,       \* Ancestors[c]: the commits that are ancestors of c, c included
  FirstCommit,    \* the commit the first implementation ended with
  PlanCommand,    \* verification commands of the approved plan
  CriteriaOf,     \* CriteriaOf[p]: required acceptance criteria command p is evidence for
  Finding,        \* critical or high findings of code reviews
  Record,         \* verification record ids
  GateCommand,    \* command ids gate evaluations run under
  StaleCommand,   \* command ids reconciliations run under
  GateProcess,
  NoCommit, NoRecord, NoAudit, NoGateCommand

Criterion == UNION {CriteriaOf[p] : p \in PlanCommand}

ASSUME GateAssumption ==
  /\ Ancestors \in [Commit -> SUBSET Commit]
  /\ \A c \in Commit : c \in Ancestors[c]
  /\ FirstCommit \in Commit
  /\ DOMAIN CriteriaOf = PlanCommand
  /\ NoCommit \notin Commit
  /\ NoGateCommand \notin GateCommand \cup StaleCommand

VARIABLES
  worktree,       \* what git reports: HEAD, and whether the worktree is clean
  implemented,    \* the commit the last completed implementation ended with
  reviews,        \* reviewed commits of the approved code reviews, in order
  findings,       \* open findings without an accepted disposition
  riskAccepted,   \* <<finding, commit>>: BATCH_FINDINGS_RISK_ACCEPTED events
  records,        \* the immutable verification records, and whether each is accepted
  finalAudit,     \* the single final audit
  approvals,      \* approvedCommitSha of the BATCH_GATE_APPROVED events, in order
  settled,        \* gate and reconcile command ids with a succeeded receipt
  merged,         \* the merge commit of the BATCH_MERGED event
  gater           \* what each process has read so far

evidenceVars == <<reviews, findings, riskAccepted, records, finalAudit>>
gateVars == <<aggregate, worktree, implemented, evidenceVars, approvals, settled, merged, gater>>

VerificationRecord ==
  [command: PlanCommand, commit: Commit, succeeded: BOOLEAN, accepted: BOOLEAN]

FinalAudit == [commit: Commit, approved: BOOLEAN]

ASSUME NoRecordAssumption == NoRecord \notin VerificationRecord /\ NoAudit \notin FinalAudit

GaterPCs == {"IDLE", "GATE", "GATE_WORKTREE", "GATE_COMMIT", "STALE_COMMIT",
             "MERGE", "MERGE_COMMIT", "RUNNING", "AUDITING"}

Gater == [pc: GaterPCs, command: GateCommand \cup StaleCommand \cup {NoGateCommand},
          version: 0..MaxVersion, commit: Commit \cup {NoCommit}]

GateTypeOK ==
  /\ BatchTypeOK
  /\ worktree \in [head: Commit, clean: BOOLEAN]
  /\ implemented \in Commit
  /\ reviews \in Seq(Commit)
  /\ findings \subseteq Finding
  /\ riskAccepted \subseteq Finding \X Commit
  /\ records \in [Record -> VerificationRecord \cup {NoRecord}]
  /\ finalAudit \in FinalAudit \cup {NoAudit}
  /\ approvals \in Seq(Commit)
  /\ settled \subseteq GateCommand \cup StaleCommand
  /\ merged \in Commit \cup {NoCommit}
  /\ gater \in [GateProcess -> Gater]

Resting == [pc |-> "IDLE", command |-> NoGateCommand, version |-> 0, commit |-> NoCommit]

GateInit ==
  /\ aggregate = BatchIn("IMPLEMENTATION_COMPLETE")
  /\ worktree = [head |-> FirstCommit, clean |-> TRUE]
  /\ implemented = FirstCommit
  /\ reviews = <<>>
  /\ findings = {} /\ riskAccepted = {}
  /\ records = [r \in Record |-> NoRecord]
  /\ finalAudit = NoAudit
  /\ approvals = <<>>
  /\ settled = {}
  /\ merged = NoCommit
  /\ gater = [p \in GateProcess |-> Resting]

(***************************************************************************)
(* Reads.                                                                  *)
(***************************************************************************)
CleanAt(commit) == worktree = [head |-> commit, clean |-> TRUE]

RecordsAt(commit) == {r \in Record : records[r] # NoRecord /\ records[r].commit = commit}

AcceptedAt(commit) == {r \in RecordsAt(commit) : records[r].accepted}

Passed(commit) == {records[r].command : r \in {q \in AcceptedAt(commit) : records[q].succeeded}}

AuditApproves(commit) == finalAudit # NoAudit /\ finalAudit = [commit |-> commit, approved |-> TRUE]

(* The persisted evidence the gate demands at the reviewed commit.         *)
EvidenceComplete(commit) ==
  /\ findings \X {commit} \subseteq riskAccepted
  /\ Passed(commit) = PlanCommand
  /\ UNION {CriteriaOf[p] : p \in Passed(commit)} = Criterion
  /\ RecordsAt(commit) # {} /\ RecordsAt(commit) = AcceptedAt(commit)
  /\ AuditApproves(commit)

(***************************************************************************)
(* Steps of a process: it goes on, or it ends its call.                    *)
(***************************************************************************)
GaterAt(p, pc) == gater[p].pc = pc

Continue(p, state) == gater' = [gater EXCEPT ![p] = state]

End(p) == Continue(p, Resting)

(* The batch was read: its version is what the transaction will expect.    *)
Holding(pc, command) ==
  [pc |-> pc, command |-> command, version |-> aggregate.version, commit |-> NoCommit]

OnlyGater ==
  UNCHANGED <<aggregate, worktree, implemented, evidenceVars, approvals, settled, merged>>

Refused(p) == End(p) /\ OnlyGater

(***************************************************************************)
(* Verification: executed at HEAD behind a reservation, then attested.     *)
(***************************************************************************)
VerifyBegin(p) ==
  /\ GaterAt(p, "IDLE")
  /\ BatchState = "VERIFYING" /\ reviews # <<>>
  /\ Continue(p, [Resting EXCEPT !.pc = "RUNNING", !.commit = worktree.head])
  /\ OnlyGater

(* The record is evidence of what was observed, at the commit HEAD had.    *)
VerifyEnd(p, r, command, succeeded) ==
  /\ GaterAt(p, "RUNNING")
  /\ records[r] = NoRecord
  /\ records' = [records EXCEPT ![r] =
       [command |-> command, commit |-> gater[p].commit,
        succeeded |-> succeeded, accepted |-> FALSE]]
  /\ End(p)
  /\ UNCHANGED <<aggregate, worktree, implemented, reviews, findings, riskAccepted, finalAudit,
                 approvals, settled, merged>>

(* attest with decision ACCEPTED, by the human or the assigned reviewer:   *)
(* record, approved review and HEAD must name one commit.  Automatic       *)
(* acceptance is always denied, and a rejection decides nothing.           *)
Attest(r) ==
  /\ r \in RecordsAt(worktree.head) /\ ~records[r].accepted
  /\ reviews # <<>> /\ Last(reviews) = worktree.head
  /\ records' = [records EXCEPT ![r].accepted = TRUE]
  /\ UNCHANGED <<aggregate, worktree, implemented, reviews, findings, riskAccepted, finalAudit,
                 approvals, settled, merged, gater>>

(***************************************************************************)
(* The final audit: one per batch, its outcome recorded whatever the batch *)
(* has become meanwhile.                                                   *)
(***************************************************************************)
AuditBegin(p) ==
  /\ GaterAt(p, "IDLE")
  /\ BatchState = "VERIFYING" /\ finalAudit = NoAudit
  /\ reviews # <<>> /\ CleanAt(Last(reviews))
  /\ Continue(p, [Resting EXCEPT !.pc = "AUDITING", !.commit = Last(reviews)])
  /\ OnlyGater

AuditApproved(p) ==
  /\ GaterAt(p, "AUDITING")
  /\ CleanAt(gater[p].commit) /\ finalAudit = NoAudit
  /\ finalAudit' = [commit |-> gater[p].commit, approved |-> TRUE]
  /\ End(p)
  /\ UNCHANGED <<aggregate, worktree, implemented, reviews, findings, riskAccepted, records,
                 approvals, settled, merged>>

(* An audit that demands a revision blocks the batch in the same           *)
(* transaction, and is not recorded when the block is refused.             *)
AuditRejected(p) ==
  /\ GaterAt(p, "AUDITING")
  /\ CleanAt(gater[p].commit) /\ finalAudit = NoAudit
  /\ finalAudit' = [commit |-> gater[p].commit, approved |-> FALSE]
  /\ IssueNow("BLOCK_BATCH")
  /\ End(p)
  /\ UNCHANGED <<worktree, implemented, reviews, findings, riskAccepted, records,
                 approvals, settled, merged>>

(***************************************************************************)
(* evaluateGate: batch and receipt; worktree and approved review; the      *)
(* evidence at the reviewed commit, with HEAD read again; the transaction. *)
(***************************************************************************)
GateBegin(p, command) ==
  /\ GaterAt(p, "IDLE")
  /\ command \in GateCommand \ settled
  /\ BatchState = "VERIFYING"
  /\ Continue(p, Holding("GATE", command))
  /\ OnlyGater

GateReadsWorktree(p) ==
  /\ GaterAt(p, "GATE")
  /\ reviews # <<>> /\ CleanAt(Last(reviews))
  /\ Continue(p, [gater[p] EXCEPT !.pc = "GATE_WORKTREE", !.commit = Last(reviews)])
  /\ OnlyGater

GateEvidencePasses(p) ==
  /\ GaterAt(p, "GATE_WORKTREE")
  /\ CleanAt(gater[p].commit)
  /\ EvidenceComplete(gater[p].commit)
  /\ Continue(p, [gater[p] EXCEPT !.pc = "GATE_COMMIT"])
  /\ OnlyGater

GateApproves(p) ==
  /\ GaterAt(p, "GATE_COMMIT")
  /\ gater[p].command \notin settled
  /\ Issue("APPROVE_FOR_MERGE", gater[p].version)
  /\ approvals' = Append(approvals, gater[p].commit)
  /\ settled' = settled \cup {gater[p].command}
  /\ End(p)
  /\ UNCHANGED <<worktree, implemented, evidenceVars, merged>>

(***************************************************************************)
(* reconcileStaleApproval: the batch and its last approval, HEAD, the      *)
(* transaction.                                                            *)
(***************************************************************************)
StaleBegin(p, command) ==
  /\ GaterAt(p, "IDLE")
  /\ command \in StaleCommand \ settled
  /\ BatchState = "APPROVED_FOR_MERGE" /\ approvals # <<>>
  /\ worktree.head # Last(approvals)
  /\ Continue(p, Holding("STALE_COMMIT", command))
  /\ OnlyGater

StaleReconciles(p) ==
  /\ GaterAt(p, "STALE_COMMIT")
  /\ gater[p].command \notin settled
  /\ Issue("RECONCILE_STALE_APPROVAL", gater[p].version)
  /\ settled' = settled \cup {gater[p].command}
  /\ End(p)
  /\ UNCHANGED <<worktree, implemented, evidenceVars, approvals, merged>>

(***************************************************************************)
(* markMerged: the batch; its effective approval (the batch again, the     *)
(* last approval, HEAD before and after); the transaction.                 *)
(***************************************************************************)
MergeBegin(p) ==
  /\ GaterAt(p, "IDLE")
  /\ BatchState = "APPROVED_FOR_MERGE"
  /\ Continue(p, Holding("MERGE", NoGateCommand))
  /\ OnlyGater

(* calculateEffectiveBatchState: an approval is valid while HEAD is at it. *)
ApprovalEffective ==
  /\ BatchState = "APPROVED_FOR_MERGE"
  /\ approvals # <<>> /\ worktree.head = Last(approvals)

MergeReadsApproval(p) ==
  /\ GaterAt(p, "MERGE")
  /\ ApprovalEffective
  /\ Continue(p, [gater[p] EXCEPT !.pc = "MERGE_COMMIT", !.commit = Last(approvals)])
  /\ OnlyGater

MergeRecorded(p, commit) ==
  /\ GaterAt(p, "MERGE_COMMIT")
  /\ gater[p].commit \in Ancestors[commit]
  /\ Issue("RECORD_EXTERNAL_MERGE", gater[p].version)
  /\ merged' = commit
  /\ End(p)
  /\ UNCHANGED <<worktree, implemented, evidenceVars, approvals, settled>>

(* A failed read, condition or reservation, a dead process: nothing is     *)
(* written.                                                                *)
CallEnds(p) == ~GaterAt(p, "IDLE") /\ Refused(p)

(***************************************************************************)
(* What the other services, the operator and git do to the batch.          *)
(***************************************************************************)
OnlyBatch ==
  UNCHANGED <<worktree, implemented, evidenceVars, approvals, settled, merged, gater>>

HeadMoves(commit) ==
  /\ worktree.head # commit
  /\ worktree' = [head |-> commit, clean |-> TRUE]
  /\ UNCHANGED <<aggregate, implemented, evidenceVars, approvals, settled, merged, gater>>

WorktreeEdited ==
  /\ worktree.clean
  /\ worktree' = [worktree EXCEPT !.clean = FALSE]
  /\ UNCHANGED <<aggregate, implemented, evidenceVars, approvals, settled, merged, gater>>

WorktreeCleaned ==
  /\ ~worktree.clean
  /\ worktree' = [worktree EXCEPT !.clean = TRUE]
  /\ UNCHANGED <<aggregate, implemented, evidenceVars, approvals, settled, merged, gater>>

(* An agent call of the batch still in flight fails session continuity.    *)
ContinuityBlocks ==
  /\ BatchState \in {"VERIFYING", "APPROVED_FOR_MERGE", "APPROVAL_STALE"}
  /\ IssueNow("BLOCK_BATCH") /\ OnlyBatch

OwnerResumes == IssueNow("RESUME_BATCH") /\ OnlyBatch

(* implementation resume serves two of the three states the kernel allows. *)
ImplementationResumes ==
  /\ BatchState \in {"AWAITING_COMMIT", "NEEDS_REVISION"}
  /\ IssueNow("RESUME_IMPLEMENTATION") /\ OnlyBatch

ImplementationReady == IssueNow("MARK_IMPLEMENTATION_READY") /\ OnlyBatch

ImplementationCompletes ==
  /\ worktree.clean
  /\ IssueNow("COMPLETE_IMPLEMENTATION")
  /\ implemented' = worktree.head
  /\ UNCHANGED <<worktree, evidenceVars, approvals, settled, merged, gater>>

(* A review starts and decides in one transaction, at the completed commit *)
(* and a clean HEAD; approval accepts dispositions of earlier findings.    *)
ReviewApproves(resolved) ==
  /\ CleanAt(implemented)
  /\ IssueBoth("START_CODE_REVIEW", "APPROVE_CODE_REVIEW", aggregate.version)
  /\ reviews' = Append(reviews, implemented)
  /\ findings' = findings \ resolved
  /\ UNCHANGED <<worktree, implemented, riskAccepted, records, finalAudit, approvals, settled,
                 merged, gater>>

ReviewRejects(finding) ==
  /\ CleanAt(implemented) /\ finding \notin findings
  /\ IssueBoth("START_CODE_REVIEW", "REJECT_CODE_REVIEW", aggregate.version)
  /\ findings' = findings \cup {finding}
  /\ UNCHANGED <<worktree, implemented, reviews, riskAccepted, records, finalAudit, approvals,
                 settled, merged, gater>>

(* The owner accepts the risk of the open findings at the HEAD the runner  *)
(* stopped at: the batch returns to VERIFYING without a new review.        *)
OwnerAcceptsRisk ==
  /\ IssueNow("ACCEPT_FINDINGS_RISK")
  /\ riskAccepted' = riskAccepted \cup (findings \X {worktree.head})
  /\ UNCHANGED <<worktree, implemented, reviews, findings, records, finalAudit, approvals,
                 settled, merged, gater>>

(***************************************************************************)
(* The specification.                                                      *)
(***************************************************************************)
GateCall(p) ==
  \/ VerifyBegin(p)
  \/ \E r \in Record, q \in PlanCommand, ok \in BOOLEAN : VerifyEnd(p, r, q, ok)
  \/ AuditBegin(p) \/ AuditApproved(p) \/ AuditRejected(p)
  \/ \E c \in GateCommand : GateBegin(p, c)
  \/ GateReadsWorktree(p) \/ GateEvidencePasses(p) \/ GateApproves(p)
  \/ \E c \in StaleCommand : StaleBegin(p, c)
  \/ StaleReconciles(p)
  \/ MergeBegin(p) \/ MergeReadsApproval(p)
  \/ \E c \in Commit : MergeRecorded(p, c)
  \/ CallEnds(p)

GateSurroundings ==
  \/ \E r \in Record : Attest(r)
  \/ \E c \in Commit : HeadMoves(c)
  \/ WorktreeEdited \/ WorktreeCleaned
  \/ ContinuityBlocks \/ OwnerResumes
  \/ ImplementationResumes \/ ImplementationReady \/ ImplementationCompletes
  \/ \E resolved \in SUBSET findings : ReviewApproves(resolved)
  \/ \E f \in Finding : ReviewRejects(f)
  \/ OwnerAcceptsRisk

GateNext == (\E p \in GateProcess : GateCall(p)) \/ GateSurroundings

GateSpec == GateInit /\ [][GateNext]_gateVars

(* Every call ends, the runner or an operator keeps asking for a           *)
(* verification of the batch, and one of them ends with its record.        *)
VerifyingSpec ==
  /\ GateSpec
  /\ \A p \in GateProcess : WF_gateVars(CallEnds(p))
  /\ SF_gateVars(\E p \in GateProcess : VerifyBegin(p))
  /\ SF_gateVars(\E p \in GateProcess, r \in Record, q \in PlanCommand, ok \in BOOLEAN :
                    VerifyEnd(p, r, q, ok))

(***************************************************************************)
(* Properties.                                                             *)
(***************************************************************************)
(* An approved or merged batch was approved at the commit its latest       *)
(* approved review saw, and everything the gate demands of that commit is  *)
(* still on record; a recorded merge contains it.  Gate evaluations read   *)
(* batch, worktree and evidence at different moments, and the batch may be *)
(* decided, blocked, reimplemented and reviewed between them.              *)
ApprovalStands ==
  BatchState \in {"APPROVED_FOR_MERGE", "MERGED"} =>
    /\ approvals # <<>> /\ reviews # <<>>
    /\ Last(approvals) = Last(reviews)
    /\ AuditApproves(Last(approvals))
    /\ Passed(Last(approvals)) = PlanCommand
    /\ findings \X {Last(approvals)} \subseteq riskAccepted
    /\ merged # NoCommit => Last(approvals) \in Ancestors[merged]

(* docs/review-workflow-autonomous-runner.md: a batch whose findings the   *)
(* owner accepts moves to VERIFYING, and the gate excludes them.  Its       *)
(* verification must be possible: it ends with a record, or the batch is   *)
(* taken out of VERIFYING.                                                 *)
AcceptedRiskIsVerified ==
  BatchState = "VERIFYING" /\ riskAccepted # {} ~>
    (\E r \in Record : records[r] # NoRecord) \/ BatchState # "VERIFYING"

=============================================================================
