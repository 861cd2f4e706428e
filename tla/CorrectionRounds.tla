--------------------------- MODULE CorrectionRounds ---------------------------
(* One batch between its first implementation and the approval of its      *)
(* code: handoffs of the implementer, validated commits, rounds of review, *)
(* the answers (dispositions) to blocking findings, and the decision about *)
(* them (review-workflow-implementation service.ts and code-review.ts).    *)
(* The repository changes whenever an agent or a person changes it.  One   *)
(* agent works at a time: CommandStore and InvocationRuns show how         *)
(* receipts see to that.                                                   *)
EXTENDS Naturals, Sequences, FiniteSets

CONSTANTS
  MaxReviewRounds,  \* pacing.maxCodeReviewRounds
  MaxCorrections,   \* pacing.maxCorrectionPasses
  MaxFixAgains,     \* bound: decisions that resume a blocked batch
  MaxHandoffs,      \* bound: implementation attempts
  LastCommit,       \* bound: commits after the base of the batch
  NoRange

ASSUME RoundsAssumption ==
  /\ {MaxReviewRounds, MaxHandoffs, LastCommit} \subseteq Nat \ {0}
  /\ {MaxCorrections, MaxFixAgains} \subseteq Nat

VARIABLES
  tree,        \* HEAD and the worktree; commit 0 is the base of the batch
  standing,    \* persisted state of the batch, and where a blocked one resumes
  grants,      \* BATCH_RESUMED events with a grant
  handoffs,    \* implementation attempts, with their ready evidence
  credited,    \* commits recorded as IMPLEMENTATION_COMMIT
  rounds,      \* accepted code reviews
  captured,    \* commit of the range evidence of the round to come
  answers,     \* dispositions
  agent        \* the invocation in flight

roundVars == <<tree, standing, grants, handoffs, credited, rounds, captured, answers, agent>>

Commits == 0..LastCommit
Trees == [head: Commits, dirty: BOOLEAN]
Severities == {"HIGH", "MEDIUM"}     \* the medium one cites a required criterion
Modes == {"AGENT_AUTHORIZED", "HUMAN_CREATED"}

BatchAt == {"IMPLEMENTING", "AWAITING_COMMIT", "IMPLEMENTATION_COMPLETE", "NEEDS_REVISION",
            "VERIFYING"}

Standing == [at: BatchAt \cup {"BLOCKED"}, resumes: BatchAt]
Handoff == [ready: Modes \cup {"NONE"}]
Answer == [round: Nat, severity: Severities, handoff: Nat, commit: Commits,
           decision: {"PENDING", "ACCEPTED", "REJECTED"}]
Agents == [doing: {"NOTHING", "EXECUTE", "RESUME", "REVIEW"}, mode: Modes, before: Trees]

NoAgent ==
  [doing |-> "NOTHING", mode |-> "AGENT_AUTHORIZED", before |-> [head |-> 0, dirty |-> FALSE]]

RoundsTypeOK ==
  /\ tree \in Trees
  /\ standing \in Standing
  /\ grants \in 0..MaxFixAgains
  /\ handoffs \in Seq(Handoff) /\ Len(handoffs) <= MaxHandoffs
  /\ credited \subseteq Commits \ {0}
  /\ rounds \in Seq([commit: Commits, found: SUBSET Severities])
  /\ Len(rounds) <= MaxReviewRounds + grants
  /\ captured \in Commits \cup {NoRange}
  /\ answers \subseteq Answer
  /\ agent \in Agents

RoundsInit ==
  /\ tree = NoAgent.before
  /\ standing = [at |-> "IMPLEMENTING", resumes |-> "IMPLEMENTING"]
  /\ grants = 0 /\ handoffs = <<>> /\ credited = {} /\ rounds = <<>>
  /\ captured = NoRange /\ answers = {} /\ agent = NoAgent

(***************************************************************************)
(* What the services derive from the records.                              *)
(***************************************************************************)
(* successfulAttemptCount: each ready handoff has its event.               *)
ReadyCount == Cardinality({n \in DOMAIN handoffs : handoffs[n].ready # "NONE"})

(* isBlockingSeverity: the last round of the contract blocks on critical   *)
(* and high findings only.                                                 *)
Blocking(found, round) == IF round < MaxReviewRounds THEN found ELSE found \ {"MEDIUM"}

(* previousBlockers: what the first round's policy makes of the last       *)
(* review.                                                                 *)
PreviousBlockers == IF rounds = <<>> THEN {} ELSE Blocking(rounds[Len(rounds)].found, 1)

(* The answers to one of them at a commit.                                 *)
AnswersAt(severity, commit) ==
  {a \in answers : a.round = Len(rounds) /\ a.severity = severity /\ a.commit = commit}

(* requireDispositionsFor, before the reviewer is invoked.                 *)
AllAnswered(commit) == \A s \in PreviousBlockers : AnswersAt(s, commit) # {}

MovesTo(state) == standing' = [standing EXCEPT !.at = state]

HoldsBatch(from) == standing' = [at |-> "BLOCKED", resumes |-> from]

Begins(doing, mode) == agent' = [doing |-> doing, mode |-> mode, before |-> tree]

records == <<grants, handoffs, credited, rounds, captured, answers>>

(***************************************************************************)
(* The repository, and an agent that fails: it crashes, answers nothing    *)
(* usable, or its process dies.                                            *)
(***************************************************************************)
TreeChanges ==
  /\ \/ tree.head < LastCommit /\ tree' = [head |-> tree.head + 1, dirty |-> FALSE]
     \/ tree' = [tree EXCEPT !.dirty = ~@]
  /\ UNCHANGED <<standing, records, agent>>

AgentFails ==
  /\ agent.doing # "NOTHING" /\ agent' = NoAgent
  /\ UNCHANGED <<tree, standing, records>>

(* A session that cannot be continued blocks the batch.                    *)
ContinuityFails ==
  /\ agent.doing # "NOTHING" /\ standing.at \in BatchAt
  /\ HoldsBatch(standing.at) /\ agent' = NoAgent
  /\ UNCHANGED <<tree, records>>

(***************************************************************************)
(* Implementation and correction.                                          *)
(***************************************************************************)
(* execute counts ready handoffs against the contract, without grants.     *)
MayExecute == ReadyCount < 1 + MaxCorrections

ExecuteBegins ==
  /\ agent.doing = "NOTHING" /\ standing.at = "IMPLEMENTING"
  /\ MayExecute /\ Len(handoffs) < MaxHandoffs
  /\ \E mode \in Modes :
       /\ mode = "HUMAN_CREATED" => tree.head = 0
       /\ Begins("EXECUTE", mode)
  /\ UNCHANGED <<tree, standing, records>>

(* validateCompletedEvidence, for a handoff that names the changed files   *)
(* as they are.                                                            *)
Evidenced ==
  IF agent.mode = "AGENT_AUTHORIZED" THEN ~tree.dirty /\ tree.head # 0
  ELSE tree.head = agent.before.head /\ tree.dirty

HandsOff(ready) == handoffs' = Append(handoffs, [ready |-> ready])

(* A handoff that parses is kept, whatever becomes of its claims.          *)
HandoffRejected ==
  /\ agent.doing = "EXECUTE"
  /\ HandsOff("NONE") /\ agent' = NoAgent
  /\ UNCHANGED <<tree, standing, grants, credited, rounds, captured, answers>>

HandoffBlocked ==
  /\ agent.doing = "EXECUTE"
  /\ HandsOff("NONE") /\ HoldsBatch("IMPLEMENTING") /\ agent' = NoAgent
  /\ UNCHANGED <<tree, grants, credited, rounds, captured, answers>>

HandoffReady ==
  /\ agent.doing = "EXECUTE" /\ Evidenced
  /\ HandsOff(agent.mode) /\ MovesTo("AWAITING_COMMIT") /\ agent' = NoAgent
  /\ UNCHANGED <<tree, grants, credited, rounds, captured, answers>>

(* validateImplementationCommit: a clean HEAD after the base of the batch. *)
Creditable == ~tree.dirty /\ tree.head # 0

(* complete credits a commit once: it is stored under its hash.            *)
Completes ==
  /\ standing.at = "AWAITING_COMMIT"
  /\ Creditable /\ tree.head \notin credited
  /\ credited' = credited \cup {tree.head}
  /\ MovesTo("IMPLEMENTATION_COMPLETE")
  /\ UNCHANGED <<tree, grants, handoffs, rounds, captured, answers, agent>>

(* requireCorrectionPassAvailable, which counts grants.                    *)
MayCorrect == ReadyCount < 1 + MaxCorrections + grants

ResumeBegins ==
  /\ agent.doing = "NOTHING"
  /\ \/ standing.at = "AWAITING_COMMIT"
     \/ standing.at = "NEEDS_REVISION" /\ MayCorrect
  /\ Begins("RESUME", "AGENT_AUTHORIZED")
  /\ UNCHANGED <<tree, standing, records>>

(* preflightFailure: everything must be as it was.                         *)
Untouched == tree = agent.before

ResumeEnds ==
  /\ agent.doing = "RESUME" /\ Untouched
  /\ standing.at \in {"AWAITING_COMMIT", "NEEDS_REVISION"}
  /\ MovesTo("IMPLEMENTING") /\ agent' = NoAgent
  /\ UNCHANGED <<tree, records>>

(* submitDispositions, by "batch respond" or at the end of a correction:   *)
(* the last handoff answers every previous blocker at HEAD, once.          *)
Answers ==
  /\ standing.at = "IMPLEMENTATION_COMPLETE"
  /\ PreviousBlockers # {} /\ handoffs # <<>>
  /\ \A s \in PreviousBlockers :
       \A a \in AnswersAt(s, tree.head) : a.handoff # Len(handoffs)
  /\ answers' = answers \cup
       {[round |-> Len(rounds), severity |-> s, handoff |-> Len(handoffs),
         commit |-> tree.head, decision |-> "PENDING"] : s \in PreviousBlockers}
  /\ UNCHANGED <<tree, standing, grants, handoffs, credited, rounds, captured, agent>>

(***************************************************************************)
(* Code review.                                                            *)
(***************************************************************************)
NextReview == Len(rounds) + 1

(* captureReviewRange; the history of these commits is linear.             *)
RangeCapturable == ~tree.dirty

ReviewBegins ==
  /\ agent.doing = "NOTHING" /\ standing.at = "IMPLEMENTATION_COMPLETE"
  /\ NextReview <= MaxReviewRounds + grants
  /\ AllAnswered(tree.head) /\ RangeCapturable
  /\ Begins("REVIEW", "AGENT_AUTHORIZED")
  /\ UNCHANGED <<tree, standing, records>>

(* The range evidence is saved first, and never replaced.                  *)
RangeHolds == captured \in {NoRange, tree.head}

(* The reviewer must have left everything as it was, too.                  *)
ReviewReturns == agent.doing = "REVIEW" /\ Untouched /\ RangeHolds

(* A result that does not parse, or whose verdict is not the derived one.  *)
ReviewUnusable ==
  /\ ReviewReturns
  /\ captured' = tree.head /\ agent' = NoAgent
  /\ UNCHANGED <<tree, standing, grants, handoffs, credited, rounds, answers>>

(* decideDisposition.                                                      *)
Decide(a, decision) == [a EXCEPT !.decision = decision]

(* Seeded fault: answers given at an earlier commit are decided as well.   *)
DecidedAnywhere(decision) ==
  {IF a.round = Len(rounds) /\ a.decision = "PENDING" THEN Decide(a, decision) ELSE a :
     a \in answers}

(* decidePreviousDispositions: pending answers at the reviewed commit.     *)
Decided(decision) ==
  {IF /\ a.round = Len(rounds) /\ a.severity \in PreviousBlockers
      /\ a.decision = "PENDING" /\ a.commit = tree.head
   THEN Decide(a, decision) ELSE a : a \in answers}

(* pendingDispositionCount is zero.                                        *)
NonePending(decided) ==
  \A s \in PreviousBlockers :
    \E a \in decided : /\ a.round = Len(rounds) /\ a.severity = s
                       /\ a.commit = tree.head /\ a.decision = "ACCEPTED"

Concludes(found) ==
  /\ rounds' = Append(rounds, [commit |-> tree.head, found |-> found])
  /\ captured' = NoRange /\ agent' = NoAgent
  /\ UNCHANGED <<tree, grants, handoffs, credited>>

(* An approval needs an accepted answer to each previous blocker.          *)
ReviewApproves ==
  /\ ReviewReturns
  /\ \E found \in SUBSET Severities :
       Blocking(found, NextReview) = {} /\ Concludes(found)
  /\ answers' = Decided("ACCEPTED") /\ NonePending(answers')
  /\ MovesTo("VERIFYING")

CorrectionAvailable ==
  /\ NextReview < MaxReviewRounds + grants
  /\ MayCorrect

ReviewRejects ==
  /\ ReviewReturns
  /\ \E found \in SUBSET Severities :
       Blocking(found, NextReview) # {} /\ Concludes(found)
  /\ answers' = Decided("REJECTED")
  /\ IF CorrectionAvailable THEN MovesTo("NEEDS_REVISION") ELSE HoldsBatch("NEEDS_REVISION")

(* fix_again: a blocked batch resumes with one more round and pass.        *)
FixAgainGranted ==
  /\ standing.at = "BLOCKED" /\ grants < MaxFixAgains
  /\ MovesTo(standing.resumes) /\ grants' = grants + 1
  /\ UNCHANGED <<tree, handoffs, credited, rounds, captured, answers, agent>>

RoundsNext ==
  \/ TreeChanges \/ AgentFails \/ ContinuityFails
  \/ ExecuteBegins \/ HandoffRejected \/ HandoffBlocked \/ HandoffReady \/ Completes
  \/ ResumeBegins \/ ResumeEnds \/ Answers
  \/ ReviewBegins \/ ReviewUnusable \/ ReviewApproves \/ ReviewRejects \/ FixAgainGranted

RoundsSpec == RoundsInit /\ [][RoundsNext]_roundVars

(***************************************************************************)
(* Properties.                                                             *)
(***************************************************************************)
(* Nothing is accepted that no approval covers: an accepted answer was     *)
(* given at the very commit that the next round approved; and when a       *)
(* correction was approved, each of the findings that forced it has such   *)
(* an answer, although HEAD moves, answers come and handoffs are repeated  *)
(* while the reviewer works (review, decidePreviousDispositions).          *)
AcceptedAtApproval ==
  /\ \A a \in answers : a.decision = "ACCEPTED" =>
       /\ standing.at # "NEEDS_REVISION" /\ a.round + 1 = Len(rounds)
       /\ rounds[a.round + 1].commit = a.commit
       /\ Blocking(rounds[a.round + 1].found, a.round + 1) = {}
  /\ standing.at = "VERIFYING" /\ Len(rounds) > 1 =>
       \A s \in Blocking(rounds[Len(rounds) - 1].found, 1) :
         \E a \in answers : /\ a.round = Len(rounds) - 1 /\ a.severity = s
                            /\ a.decision = "ACCEPTED"

(* "FIX_AGAIN ... extends the contract by exactly one round and one        *)
(* correction pass" (autonomous-runner document, line 90): what is resumed *)
(* to correct a rejected review, within the granted passes, can be         *)
(* executed.                                                               *)
GrantedPassRuns ==
  /\ standing.at = "IMPLEMENTING" /\ Len(rounds) = ReadyCount
  /\ ReadyCount < 1 + MaxCorrections + grants
  => MayExecute
=============================================================================
