------------------------------ MODULE GateProofs ------------------------------
(***************************************************************************)
(* From evidence to approval: what a verification record points to, what   *)
(* an endorsed comparison says, what an approval stands on, what is true   *)
(* of a workflow that is declared ready, and what its runner never does    *)
(* again; for any number of records, processes, baselines, batches,        *)
(* commits, rounds and grants.                                             *)
(***************************************************************************)
EXTENDS MCMergeGate, InvocationRunsProofs, SequenceTheorems, TLAPS

(***************************************************************************)
(* Verification evidence.                                                  *)
(***************************************************************************)
(* A process past its log holds a record whose log is the one in the file  *)
(* of the record's id.  A log never changes once it is written, so this    *)
(* survives every other process, and with it the saved record.             *)
HeldLogIsWritten ==
  \A v \in Verifier : verifier[v].pc = "LOGGED" =>
    logs[verifier[v].capture] = verifier[v].record.log

EvidenceInv == EvidenceTypeOK /\ HeldLogIsWritten /\ RecordedLogIsItsRun

(* A file that holds a log keeps it.                                       *)
LEMMA WritesLogStep ==
  ASSUME EvidenceInv, NEW v \in Verifier, NEW succeeded \in BOOLEAN, WritesLog(v, succeeded)
  PROVE  EvidenceInv'
<1> DEFINE run == verifier[v]
           log == [at |-> run.at, succeeded |-> succeeded]
<1> USE EvidenceAssumption, NoEvidenceAssumption DEF EvidenceInv, EvidenceTypeOK
<1>1. run.capture \in Capture /\ log \in Log /\ run.revision \in Revision /\ run.origin \in Origins
  BY DEF WritesLog, Verifying, Quiet, Log
<1>2. \/ /\ logs[run.capture] \in {NoLog, log}
         /\ logs' = [logs EXCEPT ![run.capture] = log]
         /\ verifier' = [verifier EXCEPT ![v] =
              [pc |-> "LOGGED", capture |-> run.capture,
               record |-> [origin |-> run.origin, revision |-> run.revision, log |-> log]]]
      \/ logs' = logs /\ verifier' = [verifier EXCEPT ![v] = Quiet]
  BY DEF WritesLog, LogStorable, Goes
<1>3. UNCHANGED <<checkout, runs, captured, attested>>
  BY DEF WritesLog
<1>4. \A c \in Capture : logs[c] # NoLog => logs'[c] = logs[c]
  BY <1>1, <1>2
<1>5. EvidenceTypeOK'
  BY <1>1, <1>2, <1>3 DEF Verifying, CaptureRecord
<1>6. RecordedLogIsItsRun'
  BY <1>3, <1>4 DEF RecordedLogIsItsRun, CaptureRecord
<1>7. HeldLogIsWritten'
  <2> SUFFICES ASSUME NEW w \in Verifier, verifier'[w].pc = "LOGGED"
               PROVE  logs'[verifier'[w].capture] = verifier'[w].record.log
    BY DEF HeldLogIsWritten
  <2>1. CASE w = v
    BY <1>1, <1>2, <2>1 DEF Quiet
  <2>2. CASE w # v
    <3>1. verifier'[w] = verifier[w]
      BY <1>2, <2>2
    <3>2. verifier[w].capture \in Capture /\ verifier[w].record.log \in Log
      BY <3>1 DEF Verifying, Quiet, CaptureRecord
    <3> QED
      BY <1>4, <3>1, <3>2 DEF HeldLogIsWritten
  <2> QED
    BY <2>1, <2>2
<1> QED
  BY <1>5, <1>6, <1>7

LEMMA SavesRecordStep ==
  ASSUME EvidenceInv, NEW v \in Verifier, SavesRecord(v)
  PROVE  EvidenceInv'
<1> DEFINE c == verifier[v].capture
<1> USE EvidenceAssumption, NoEvidenceAssumption DEF EvidenceInv, EvidenceTypeOK
<1>1. c \in Capture /\ verifier[v].record \in CaptureRecord
  BY DEF SavesRecord, Verifying, Quiet
<1>2. /\ captured' = [captured EXCEPT ![c] = IF @ = NoCapture THEN verifier[v].record ELSE @]
      /\ verifier' = [verifier EXCEPT ![v] = Quiet]
      /\ UNCHANGED <<checkout, runs, logs, attested>>
  BY DEF SavesRecord, Goes
<1>3. EvidenceTypeOK'
  BY <1>1, <1>2 DEF Verifying
<1>4. HeldLogIsWritten'
  BY <1>2 DEF HeldLogIsWritten, Quiet
<1>5. logs[c] = verifier[v].record.log
  BY DEF HeldLogIsWritten, SavesRecord
<1>6. RecordedLogIsItsRun'
  BY <1>1, <1>2, <1>5 DEF RecordedLogIsItsRun
<1> QED
  BY <1>3, <1>4, <1>6

(* What neither writes a log nor saves a record leaves both as they are.   *)
LEMMA OtherCaptureKeeps ==
  ASSUME EvidenceInv, EvidenceTypeOK', UNCHANGED <<logs, captured>>,
         \A v \in Verifier : verifier'[v] = verifier[v] \/ verifier'[v].pc # "LOGGED"
  PROVE  EvidenceInv'
BY DEF EvidenceInv, HeldLogIsWritten, RecordedLogIsItsRun

LEMMA CaptureKeeps ==
  ASSUME EvidenceInv, [CaptureNext]_captureVars
  PROVE  EvidenceInv'
<1> USE EvidenceAssumption, NoEvidenceAssumption DEF EvidenceInv, EvidenceTypeOK
<1>1. ASSUME CheckoutMoves PROVE EvidenceInv'
  BY <1>1, OtherCaptureKeeps DEF CheckoutMoves
<1>2. ASSUME NEW v \in Verifier, NEW c \in Capture, NEW origin \in Origins, Executes(v, c, origin)
      PROVE  EvidenceInv'
  <2>1. runs + 1 \in 0..MaxRuns
    BY <1>2 DEF Executes
  <2>2. [pc |-> "RUNNING", capture |-> c, origin |-> origin, at |-> runs + 1,
         revision |-> checkout] \in Verifying
    BY <2>1 DEF Verifying
  <2>3. EvidenceTypeOK'
    BY <1>2, <2>1, <2>2 DEF Executes, Goes
  <2> QED
    BY <1>2, <2>3, OtherCaptureKeeps DEF Executes, Goes
<1>3. ASSUME NEW v \in Verifier, NEW c \in Capture, NEW origin \in Origins,
             NEW revision \in Revision, Ingests(v, c, origin, revision)
      PROVE  EvidenceInv'
  <2>1. [pc |-> "RUNNING", capture |-> c, origin |-> origin, at |-> 0,
         revision |-> revision] \in Verifying
    BY DEF Verifying
  <2>2. EvidenceTypeOK'
    BY <1>3, <2>1 DEF Ingests, Goes
  <2> QED
    BY <1>3, <2>2, OtherCaptureKeeps DEF Ingests, Goes
<1>4. ASSUME NEW v \in Verifier, VerifierDies(v) PROVE EvidenceInv'
  <2>1. EvidenceTypeOK'
    BY <1>4 DEF VerifierDies, Goes, Verifying
  <2> QED
    BY <1>4, <2>1, OtherCaptureKeeps DEF VerifierDies, Goes, Quiet
<1>5. ASSUME NEW c \in Capture, NEW attestor, AttestsCapture(c, attestor) PROVE EvidenceInv'
  BY <1>5, OtherCaptureKeeps DEF AttestsCapture
<1>6. CASE UNCHANGED captureVars
  BY <1>6, OtherCaptureKeeps DEF captureVars
<1> QED
  BY <1>1, <1>2, <1>3, <1>4, <1>5, <1>6, WritesLogStep, SavesRecordStep DEF CaptureNext

LEMMA EvidenceInvariant == CaptureSpec => []EvidenceInv
<1>1. CaptureInit => EvidenceInv
  BY EvidenceAssumption, NoEvidenceAssumption
  DEF CaptureInit, EvidenceInv, EvidenceTypeOK, HeldLogIsWritten, RecordedLogIsItsRun, Verifying,
      Quiet
<1>2. EvidenceInv /\ [CaptureNext]_captureVars => EvidenceInv'
  BY CaptureKeeps
<1> QED
  BY <1>1, <1>2, PTL DEF CaptureSpec

(* Captures, logs, records and attestations keep their types; only saved   *)
(* records are attested (captureCommand, ingest, attest).                  *)
THEOREM EvidenceTyped == CaptureSpec => []EvidenceTypeOK
BY EvidenceInvariant, PTL DEF EvidenceInv

(* However many processes execute, ingest, write and save under the same   *)
(* ids, and wherever they die, the log in the file of a saved record is    *)
(* the log of the run the record describes (insertImmutable and the        *)
(* exclusive creation of log files).                                       *)
THEOREM RecordsPointToTheirLogs == CaptureSpec => []RecordedLogIsItsRun
BY EvidenceInvariant, PTL DEF EvidenceInv

(***************************************************************************)
(* Baselines.                                                              *)
(***************************************************************************)
(* What was ruled on is a saved baseline, and a comparison that passed was *)
(* made with an accepted one, by the same tooling, and found nothing new.  *)
RulingsOnSaved == \A ruling \in rulings : baselines[ruling[1]] # NoBaseline

PassedComparison(m) == comparisons[m] # NoComparison /\ comparisons[m].result = "PASSED"

PassedIntroducesNothing ==
  \A m \in ComparisonId : PassedComparison(m) =>
    /\ <<comparisons[m].baseline, TRUE>> \in rulings
    /\ Comparable(comparisons[m].baseline, comparisons[m].capture)
    /\ Introduced(comparisons[m].baseline, comparisons[m].capture) = {}

EndorsedPassed == \A m \in endorsed : PassedComparison(m)

BaselineInv ==
  BaselineTypeOK /\ RulingsOnSaved /\ PassedIntroducesNothing /\ EndorsedPassed

(* Fingerprints count: when those of one report are among those of         *)
(* another, no finding occurs in the first more often than in the second.  *)
LEMMA FingerprintsCount ==
  ASSUME NEW r \in Report, NEW s \in Report, Fingerprints(r) \ Fingerprints(s) = {}
  PROVE  \A f \in DOMAIN r : r[f] <= s[f]
<1> SUFFICES ASSUME NEW f \in DOMAIN r, ~(r[f] <= s[f]) PROVE FALSE
  OBVIOUS
<1>1. f \in DOMAIN s /\ r[f] \in Nat /\ s[f] \in Nat /\ r[f] \in 1..r[f]
  BY BaselineAssumption
<1>2. <<f, r[f]>> \in Fingerprints(r)
  BY <1>1 DEF Fingerprints
<1>3. PICK g \in DOMAIN s : <<f, r[f]>> \in {g} \X (1..s[g])
  BY <1>2 DEF Fingerprints
<1> QED
  BY <1>1, <1>3

LEMMA FindingsAreOccurrences ==
  ASSUME BaselineTypeOK, NEW c \in Reported
  PROVE  FindingsOf(c) \in SUBSET Occurrence
BY DEF BaselineTypeOK, Saved, FindingsOf, Occurrence

LEMMA StoredFindingsTyped ==
  ASSUME BaselineTypeOK, NEW a \in BaselineId \cup ComparisonId, NEW c \in Reported,
         StoresFindings(a, FindingsOf(c))
  PROVE  artifacts' \in [BaselineId \cup ComparisonId -> (SUBSET Occurrence) \cup {NoFindings}]
BY FindingsAreOccurrences DEF BaselineTypeOK, StoresFindings

(* Reports and saved baselines are kept, so what a comparison found stays. *)
LEMMA FoundStays ==
  ASSUME BaselineInv, BaselineTypeOK', reported' = reported, rulings \subseteq rulings',
         \A b \in BaselineId : baselines[b] # NoBaseline => baselines'[b] = baselines[b],
         RulingsOnSaved',
         NEW m \in ComparisonId, comparisons'[m] = comparisons[m], PassedComparison(m)
  PROVE  /\ <<comparisons'[m].baseline, TRUE>> \in rulings'
         /\ Comparable(comparisons[m].baseline, comparisons[m].capture)'
         /\ Introduced(comparisons[m].baseline, comparisons[m].capture)' = {}
<1> DEFINE b == comparisons[m].baseline
           c == comparisons[m].capture
<1>1. b \in BaselineId /\ c \in Reported
  BY DEF BaselineInv, BaselineTypeOK, PassedComparison, Comparison
<1>2. <<b, TRUE>> \in rulings /\ Comparable(b, c) /\ Introduced(b, c) = {}
  BY DEF BaselineInv, PassedIntroducesNothing
<1>3. baselines[b] # NoBaseline
  BY <1>2 DEF BaselineInv, RulingsOnSaved
<1>4. baselines'[b] = baselines[b]
  BY <1>1, <1>3
<1> QED
  BY <1>2, <1>4 DEF Comparable, Introduced, FindingsOf

LEMMA KeepsComparisons ==
  ASSUME BaselineInv, BaselineTypeOK', reported' = reported, rulings \subseteq rulings',
         \A b \in BaselineId : baselines[b] # NoBaseline => baselines'[b] = baselines[b],
         RulingsOnSaved', comparisons' = comparisons,
         \A m \in endorsed' : m \in endorsed \/ PassedComparison(m)
  PROVE  BaselineInv'
<1>1. \A m \in ComparisonId : comparisons'[m] = comparisons[m] /\ (PassedComparison(m)' <=> PassedComparison(m))
  BY DEF PassedComparison
<1>2. PassedIntroducesNothing'
  BY <1>1, FoundStays DEF PassedIntroducesNothing
<1>3. EndorsedPassed'
  BY <1>1 DEF BaselineInv, EndorsedPassed, BaselineTypeOK
<1> QED
  BY <1>2, <1>3 DEF BaselineInv

LEMMA SavesComparisonStep ==
  ASSUME BaselineInv, NEW m \in ComparisonId, NEW b \in BaselineId, NEW c \in Reported,
         NEW result \in {"PASSED", "FAILED", "INCOMPARABLE"},
         SavesComparison(m, b, c, result),
         artifacts' \in [BaselineId \cup ComparisonId -> (SUBSET Occurrence) \cup {NoFindings}],
         result = "PASSED" =>
           <<b, TRUE>> \in rulings /\ Comparable(b, c) /\ Introduced(b, c) = {}
  PROVE  BaselineInv'
<1> USE DEF BaselineInv
<1>1. UNCHANGED <<tip, reported, baselines, rulings, endorsed>>
  BY DEF SavesComparison
<1>2. comparisons' = [comparisons EXCEPT ![m] = [baseline |-> b, capture |-> c, result |-> result]]
  BY DEF SavesComparison
<1>3. [baseline |-> b, capture |-> c, result |-> result] \in Comparison
  BY DEF Comparison
<1>4. BaselineTypeOK'
  BY <1>1, <1>2, <1>3, NoBaselineAssumption DEF BaselineTypeOK
<1>5. RulingsOnSaved'
  BY <1>1 DEF RulingsOnSaved
<1>6. PassedIntroducesNothing'
  <2> SUFFICES ASSUME NEW n \in ComparisonId, PassedComparison(n)'
               PROVE  /\ <<comparisons'[n].baseline, TRUE>> \in rulings'
                      /\ Comparable(comparisons[n].baseline, comparisons[n].capture)'
                      /\ Introduced(comparisons[n].baseline, comparisons[n].capture)' = {}
    BY DEF PassedIntroducesNothing
  <2>1. CASE n = m
    <3>1. comparisons'[n] = [baseline |-> b, capture |-> c, result |-> result]
      BY <1>2, <2>1 DEF BaselineTypeOK
    <3>2. result = "PASSED"
      BY <3>1 DEF PassedComparison
    <3> QED
      BY <1>1, <3>1, <3>2 DEF Comparable, Introduced, FindingsOf
  <2>2. CASE n # m
    <3>1. comparisons'[n] = comparisons[n] /\ PassedComparison(n)
      BY <1>2, <2>2 DEF BaselineTypeOK, PassedComparison
    <3> QED
      BY <1>1, <1>4, <1>5, <3>1, FoundStays
  <2> QED
    BY <2>1, <2>2
<1>7. EndorsedPassed'
  <2>1. comparisons[m] = NoComparison
    BY DEF SavesComparison
  <2>2. m \notin endorsed
    BY <2>1 DEF EndorsedPassed, PassedComparison
  <2> QED
    BY <1>1, <1>2, <2>2 DEF EndorsedPassed, PassedComparison, BaselineTypeOK
<1> QED
  BY <1>4, <1>5, <1>6, <1>7

LEMMA BaselineStep ==
  ASSUME BaselineInv, [BaselineNext]_baselineVars
  PROVE  BaselineInv'
<1> USE DEF BaselineInv
<1>1. ASSUME BranchMoves PROVE BaselineInv'
  <2>1. BaselineTypeOK' /\ RulingsOnSaved'
    BY <1>1 DEF BranchMoves, BaselineTypeOK, RulingsOnSaved
  <2> QED
    BY <1>1, <2>1, KeepsComparisons DEF BranchMoves
<1>2. ASSUME NEW b \in BaselineId, NEW c \in Reported, CapturesBaseline(b, c) PROVE BaselineInv'
  <2>1. /\ baselines[b] = NoBaseline /\ baselines' = [baselines EXCEPT ![b] = c]
        /\ UNCHANGED <<tip, reported, rulings, comparisons, endorsed>>
    BY <1>2 DEF CapturesBaseline, SavesBaseline
  <2>2. BaselineTypeOK'
    BY <1>2, <2>1, StoredFindingsTyped DEF CapturesBaseline, BaselineTypeOK
  <2>3. RulingsOnSaved'
    BY <2>1, NoBaselineAssumption DEF BaselineTypeOK, RulingsOnSaved
  <2>4. \A d \in BaselineId : baselines[d] # NoBaseline => baselines'[d] = baselines[d]
    BY <2>1 DEF BaselineTypeOK
  <2> QED
    BY <2>1, <2>2, <2>3, <2>4, KeepsComparisons
<1>3. ASSUME NEW b \in BaselineId, NEW accepted \in BOOLEAN, RulesOnBaseline(b, accepted)
      PROVE  BaselineInv'
  <2>1. BaselineTypeOK' /\ RulingsOnSaved'
    BY <1>3 DEF RulesOnBaseline, BaselineTypeOK, RulingsOnSaved
  <2> QED
    BY <1>3, <2>1, KeepsComparisons DEF RulesOnBaseline
<1>4. ASSUME NEW a \in BaselineId \cup ComparisonId, NEW c \in Reported, LeavesFindings(a, c)
      PROVE  BaselineInv'
  <2>1. BaselineTypeOK' /\ RulingsOnSaved'
    BY <1>4, StoredFindingsTyped DEF LeavesFindings, BaselineTypeOK, RulingsOnSaved
  <2> QED
    BY <1>4, <2>1, KeepsComparisons DEF LeavesFindings
<1>5. ASSUME NEW m \in ComparisonId, NEW b \in BaselineId, NEW c \in Reported,
             ComparesFindings(m, b, c)
      PROVE  BaselineInv'
  <2> DEFINE result == IF Introduced(b, c) = {} THEN "PASSED" ELSE "FAILED"
  <2>1. SavesComparison(m, b, c, result) /\ <<b, TRUE>> \in rulings /\ Comparable(b, c)
    BY <1>5 DEF ComparesFindings, MayCompare
  <2>2. artifacts' \in [BaselineId \cup ComparisonId -> (SUBSET Occurrence) \cup {NoFindings}]
    BY <1>5, StoredFindingsTyped DEF ComparesFindings
  <2>3. result \in {"PASSED", "FAILED", "INCOMPARABLE"} /\ (result = "PASSED" => Introduced(b, c) = {})
    OBVIOUS
  <2> HIDE DEF result
  <2> QED
    BY <2>1, <2>2, <2>3, SavesComparisonStep
<1>6. ASSUME NEW m \in ComparisonId, NEW b \in BaselineId, NEW c \in Reported,
             FindsIncomparable(m, b, c)
      PROVE  BaselineInv'
  BY <1>6, SavesComparisonStep DEF FindsIncomparable, BaselineTypeOK
<1>7. ASSUME NEW m \in ComparisonId, Endorses(m) PROVE BaselineInv'
  <2>1. /\ UNCHANGED <<tip, reported, artifacts, baselines, rulings, comparisons>>
        /\ endorsed' = endorsed \cup {m} /\ PassedComparison(m)
    BY <1>7 DEF Endorses, Endorsable, PassedComparison
  <2>2. BaselineTypeOK' /\ RulingsOnSaved'
    BY <2>1 DEF BaselineTypeOK, RulingsOnSaved, PassedComparison
  <2> QED
    BY <2>1, <2>2, KeepsComparisons
<1>8. CASE UNCHANGED baselineVars
  <2>1. BaselineTypeOK' /\ RulingsOnSaved'
    BY <1>8 DEF baselineVars, BaselineTypeOK, RulingsOnSaved
  <2> QED
    BY <1>8, <2>1, KeepsComparisons DEF baselineVars
<1> QED
  BY <1>1, <1>2, <1>3, <1>4, <1>5, <1>6, <1>7, <1>8 DEF BaselineNext

LEMMA BaselineInvariant == BaselineSpec => []BaselineInv
<1>1. BaselineInit => BaselineInv
  BY NoBaselineAssumption
  DEF BaselineInit, BaselineInv, BaselineTypeOK, RulingsOnSaved, PassedIntroducesNothing,
      EndorsedPassed, PassedComparison
<1>2. BaselineInv /\ [BaselineNext]_baselineVars => BaselineInv'
  BY BaselineStep
<1> QED
  BY <1>1, <1>2, PTL DEF BaselineSpec

(* Baselines, findings files, rulings, comparisons and endorsements keep   *)
(* their types; only saved comparisons are endorsed.                       *)
THEOREM BaselineTyped == BaselineSpec => []BaselineTypeOK
BY BaselineInvariant, PTL DEF BaselineInv

(* An endorsed comparison (compare, attestComparison) was made with a      *)
(* baseline the reviewer accepted and with the same tooling, and no        *)
(* finding occurs in it more often than there: for any reports, however    *)
(* captures, rulings, comparisons and crashes follow on one another.       *)
THEOREM EndorsementsAreSound == BaselineSpec => []EndorsedIntroducesNothing
<1>1. BaselineInv => EndorsedIntroducesNothing
  <2> SUFFICES ASSUME BaselineInv, NEW m \in endorsed
               PROVE  LET now == reported[comparisons[m].capture]
                          then == reported[baselines[comparisons[m].baseline]]
                      IN  /\ <<comparisons[m].baseline, TRUE>> \in rulings
                          /\ now.tooling = then.tooling
                          /\ \A f \in DOMAIN now.report : now.report[f] <= then.report[f]
    BY DEF EndorsedIntroducesNothing
  <2> DEFINE b == comparisons[m].baseline
             c == comparisons[m].capture
  <2>1. m \in ComparisonId /\ PassedComparison(m)
    BY DEF BaselineInv, BaselineTypeOK, EndorsedPassed
  <2>2. b \in BaselineId /\ c \in Reported
    BY <2>1 DEF BaselineInv, BaselineTypeOK, PassedComparison, Comparison
  <2>3. <<b, TRUE>> \in rulings /\ Comparable(b, c) /\ Introduced(b, c) = {}
    BY <2>1 DEF BaselineInv, PassedIntroducesNothing
  <2>4. baselines[b] \in Reported
    BY <2>2, <2>3 DEF BaselineInv, BaselineTypeOK, RulingsOnSaved
  <2>5. reported[c].report \in Report /\ reported[baselines[b]].report \in Report
    BY <2>2, <2>4 DEF BaselineInv, BaselineTypeOK, Saved
  <2>6. \A f \in DOMAIN reported[c].report :
          reported[c].report[f] <= reported[baselines[b]].report[f]
    BY <2>3, <2>5, FingerprintsCount DEF Introduced, FindingsOf
  <2> QED
    BY <2>3, <2>6 DEF Comparable
<1> QED
  BY <1>1, BaselineInvariant, PTL

(***************************************************************************)
(* The whole workflow.                                                     *)
(***************************************************************************)
(* What a worker has seen by the stage it is at.  People change repository *)
(* and evidence only while no worker runs, so it is still so.              *)
BatchAtHand == auditor \in {"BATCH", "PUSH", "FINISH"} => finished < Total

AllFinished == auditor \in {"AUDIT", "CLEAN", "REMOTE", "READY"} => finished = Total

AuditHolds ==
  auditor \in {"CLEAN", "REMOTE", "READY"} => AllApproved /\ CurrentHead \in reverified

CheckedState ==
  /\ auditor \in {"REMOTE", "READY"} => tidy
  /\ auditor = "READY" => remote = CurrentHead

WorkflowInv == AuditTypeOK /\ BatchAtHand /\ AllFinished /\ AuditHolds /\ CheckedState

LEMMA BranchIsSeq ==
  ASSUME AuditTypeOK
  PROVE  /\ branch \in Seq(1..made) /\ Len(branch) \in 0..made /\ made \in Nat
         /\ DOMAIN branch = 1..Len(branch)
         /\ CurrentHead \in 0..made
         /\ CurrentHead # 0 => InHistory(CurrentHead)
<1>1. made \in Nat
  BY AuditAssumption DEF AuditTypeOK
<1>2. PICK n \in 0..made : branch \in [1..n -> 1..made]
  BY DEF AuditTypeOK
<1>3. branch \in Seq(1..made) /\ Len(branch) = n /\ DOMAIN branch = 1..n
  BY <1>1, <1>2
<1>4. CASE branch = <<>>
  BY <1>1, <1>2, <1>3, <1>4 DEF CurrentHead, HeadOf
<1>5. CASE branch # <<>>
  <2>1. Len(branch) \in 1..n
    BY <1>1, <1>3, <1>5, EmptySeq
  <2> QED
    BY <1>1, <1>2, <1>3, <1>5, <2>1 DEF CurrentHead, HeadOf, InHistory
<1> QED
  BY <1>1, <1>2, <1>3, <1>4, <1>5

LEMMA SeqIsBranch ==
  ASSUME NEW n \in Nat, NEW commits \in Seq(1..n), Len(commits) <= n
  PROVE  commits \in UNION {[1..k -> 1..n] : k \in 0..n}
BY LenProperties

(* A branch that gets one commit more, whatever is cut off before it.      *)
LEMMA BranchGrows ==
  ASSUME NEW n \in Nat, NEW commits \in Seq(1..n), Len(commits) <= n
  PROVE  Append(commits, n + 1) \in UNION {[1..k -> 1..(n + 1)] : k \in 0..(n + 1)}
<1>1. commits \in Seq(1..(n + 1)) /\ n + 1 \in 1..(n + 1)
  BY SeqMonotonic
<1>2. Append(commits, n + 1) \in Seq(1..(n + 1)) /\ Len(Append(commits, n + 1)) = Len(commits) + 1
  BY <1>1
<1>3. n + 1 \in Nat /\ Len(Append(commits, n + 1)) <= n + 1
  BY <1>2, LenProperties
<1> QED
  BY <1>2, <1>3, SeqIsBranch

LEMMA KeptCommits ==
  ASSUME AuditTypeOK, NEW keep \in 0..Len(branch)
  PROVE  SubSeq(branch, 1, keep) \in Seq(1..made) /\ Len(SubSeq(branch, 1, keep)) = keep
<1>1. \A i \in 1..keep : branch[i] \in 1..made
  BY BranchIsSeq, ElementOfSeq
<1> QED
  BY <1>1, BranchIsSeq, SubSeqProperties

LEMMA StageTyped ==
  ASSUME AuditTypeOK
  PROVE  /\ StageOf(finished) \in {"AUDIT", "BATCH", "PUSH"}
         /\ StageOf(finished) = "AUDIT" => finished = Total
         /\ StageOf(finished) \in {"BATCH", "PUSH"} => finished < Total
BY AuditAssumption DEF AuditTypeOK, StageOf

(* Without a worker nothing is claimed of what one has seen.               *)
LEMMA NobodyAtWork ==
  ASSUME AuditTypeOK', auditor' = "NONE"
  PROVE  WorkflowInv'
BY DEF WorkflowInv, BatchAtHand, AllFinished, AuditHolds, CheckedState

LEMMA AuditStep ==
  ASSUME WorkflowInv, [AuditNext]_auditVars
  PROVE  WorkflowInv'
<1> USE AuditAssumption DEF WorkflowInv
<1> USE DEF NothingLeft
<1>1. /\ made \in Nat /\ Len(branch) \in 0..made /\ branch \in Seq(1..made)
      /\ CurrentHead \in 0..made /\ finished \in 0..Total
  BY BranchIsSeq DEF AuditTypeOK
<1>2. ASSUME WorkflowContinues PROVE WorkflowInv'
  <2>1. UNCHANGED <<repository, progress>>
    BY <1>2 DEF WorkflowContinues
  <2>2. CASE Undrifted
    <3>1. standing' = "RUNNING" /\ left' = NothingLeft /\ auditor' = StageOf(finished)
      BY <1>2, <2>2 DEF WorkflowContinues
    <3>2. AuditTypeOK'
      <4>1. left' \in [at: 0..made, tidy: BOOLEAN]
        BY <1>1, <3>1
      <4>2. auditor' \in {"AUDIT", "BATCH", "PUSH"}
        BY <3>1, StageTyped
      <4> QED
        BY <2>1, <3>1, <4>1, <4>2 DEF AuditTypeOK, repository, progress
    <3> QED
      BY <2>1, <3>1, <3>2, StageTyped
      DEF BatchAtHand, AllFinished, AuditHolds, CheckedState, repository, progress
  <2>3. CASE ~Undrifted
    BY <1>2, <2>1, <2>3, NobodyAtWork
    DEF WorkflowContinues, StopsForHuman, AuditTypeOK, repository, progress
  <2> QED
    BY <2>2, <2>3
<1>3. ASSUME AuditorDies PROVE WorkflowInv'
  BY <1>3, NobodyAtWork DEF AuditorDies, AuditTypeOK, repository, progress
<1>4. ASSUME BatchApproved PROVE WorkflowInv'
  <2>1. /\ made < MaxCommits /\ made' = made + 1 /\ branch' = Append(branch, made + 1)
        /\ approvedAt' = [approvedAt EXCEPT ![finished + 1] = made + 1] /\ auditor' = "PUSH"
        /\ UNCHANGED <<remote, tidy, finished, standing, left, reverified>>
    BY <1>4 DEF BatchApproved
  <2>2. finished < Total
    BY <1>4 DEF BatchApproved, BatchAtHand
  <2>3. branch' \in UNION {[1..n -> 1..made'] : n \in 0..made'}
    <3>1. Append(branch, made + 1) \in UNION {[1..n -> 1..(made + 1)] : n \in 0..(made + 1)}
      <4>1. Len(branch) <= made
        BY <1>1
      <4> QED
        BY <1>1, <4>1, BranchGrows
    <3> QED
      BY <2>1, <3>1
  <2>4. approvedAt' \in [Batches -> 0..made']
    BY <1>1, <2>1, <2>2 DEF AuditTypeOK, Batches
  <2>5. /\ made' \in 0..MaxCommits /\ remote' \in 0..made' /\ reverified' \subseteq 0..made'
        /\ left' \in [at: 0..made', tidy: BOOLEAN]
    <3>1. 0..made \subseteq 0..(made + 1)
      BY <1>1
    <3>2. left \in [at: 0..(made + 1), tidy: BOOLEAN]
      BY <3>1 DEF AuditTypeOK
    <3> QED
      BY <1>1, <2>1, <3>1, <3>2 DEF AuditTypeOK
  <2>6. AuditTypeOK'
    BY <2>1, <2>3, <2>4, <2>5 DEF AuditTypeOK
  <2> QED
    BY <2>1, <2>2, <2>6 DEF BatchAtHand, AllFinished, AuditHolds, CheckedState
<1>5. ASSUME BatchStops PROVE WorkflowInv'
  BY <1>5, NobodyAtWork DEF BatchStops, StopsForHuman, AuditTypeOK, repository, progress
<1>6. ASSUME PushesBranch PROVE WorkflowInv'
  <2>1. AuditTypeOK'
    BY <1>1, <1>6 DEF PushesBranch, StopsForHuman, AuditTypeOK, progress
  <2> QED
    BY <1>6, <2>1
    DEF PushesBranch, StopsForHuman, progress, BatchAtHand, AllFinished, AuditHolds, CheckedState
<1>7. ASSUME FinishesBatch PROVE WorkflowInv'
  <2>1. /\ finished' = finished + 1 /\ finished' \in 0..Total
        /\ UNCHANGED <<repository, approvedAt, reverified, standing, left>>
    BY <1>1, <1>7 DEF FinishesBatch, BatchAtHand
  <2>2. /\ auditor' \in {"AUDIT", "BATCH", "PUSH"}
        /\ auditor' = "AUDIT" => finished' = Total
        /\ auditor' \in {"BATCH", "PUSH"} => finished' < Total
    BY <1>7, <2>1 DEF FinishesBatch, StageOf
  <2>3. AuditTypeOK'
    BY <2>1, <2>2 DEF AuditTypeOK, repository
  <2> QED
    BY <2>2, <2>3 DEF BatchAtHand, AllFinished, AuditHolds, CheckedState
<1>8. ASSUME NEW succeeded \in BOOLEAN, NEW tidies \in BOOLEAN, AuditsWorkflow(succeeded, tidies)
      PROVE  WorkflowInv'
  <2>1. AuditTypeOK'
    BY <1>1, <1>8 DEF AuditsWorkflow, StopsForHuman, AuditTypeOK
  <2>2. UNCHANGED <<branch, made, remote, approvedAt, finished, left>>
    BY <1>8 DEF AuditsWorkflow
  <2>3. CASE succeeded /\ tidies /\ AllApproved
    <3>1. auditor' = "CLEAN" /\ reverified' = reverified \cup {CurrentHead}
      BY <1>8, <2>3 DEF AuditsWorkflow
    <3>2. AllApproved'
      BY <2>2, <2>3 DEF AllApproved, StillApproved, InHistory, CurrentHead
    <3> QED
      BY <1>8, <2>1, <2>2, <3>1, <3>2
      DEF AuditsWorkflow, BatchAtHand, AllFinished, AuditHolds, CheckedState, CurrentHead
  <2>4. CASE ~(succeeded /\ tidies /\ AllApproved)
    BY <1>8, <2>1, <2>4, NobodyAtWork DEF AuditsWorkflow, StopsForHuman
  <2> QED
    BY <2>3, <2>4
<1>9. ASSUME ChecksClean \/ ChecksRemote PROVE WorkflowInv'
  <2>1. /\ UNCHANGED <<repository, progress, left>>
        /\ \/ auditor = "CLEAN" /\ tidy /\ auditor' = "REMOTE" /\ standing' = standing
           \/ auditor = "REMOTE" /\ remote = CurrentHead /\ auditor' = "READY" /\ standing' = standing
           \/ StopsForHuman
    BY <1>9 DEF ChecksClean, ChecksRemote
  <2>2. AuditTypeOK'
    BY <2>1 DEF AuditTypeOK, StopsForHuman, repository, progress
  <2>3. AllApproved' <=> AllApproved
    BY <2>1 DEF AllApproved, StillApproved, InHistory, CurrentHead, repository, progress
  <2> QED
    BY <2>1, <2>2, <2>3, NobodyAtWork
    DEF StopsForHuman, repository, progress, BatchAtHand, AllFinished, AuditHolds, CheckedState,
        CurrentHead
<1>10. ASSUME MarksReady PROVE WorkflowInv'
  BY <1>10, NobodyAtWork DEF MarksReady, AuditTypeOK, repository, progress
<1>11. ASSUME PauseAsked PROVE WorkflowInv'
  <2>1. UNCHANGED <<repository, progress, left, auditor>> /\ standing' = "PAUSE_REQUESTED"
    BY <1>11 DEF PauseAsked
  <2>2. AllApproved' <=> AllApproved
    BY <2>1 DEF AllApproved, StillApproved, InHistory, CurrentHead, repository, progress
  <2> QED
    BY <2>1, <2>2
    DEF AuditTypeOK, repository, progress, BatchAtHand, AllFinished, AuditHolds, CheckedState,
        CurrentHead
<1>12. ASSUME PauseTakesEffect PROVE WorkflowInv'
  BY <1>1, <1>12, NobodyAtWork DEF PauseTakesEffect, AuditTypeOK, repository, progress
<1>13. ASSUME WorkflowResumes PROVE WorkflowInv'
  <2>1. /\ auditor' = "NONE" /\ standing' = "RUNNING" /\ UNCHANGED <<repository, progress>>
        /\ left' = left \/ left' = [at |-> CurrentHead, tidy |-> tidy]
    BY <1>13 DEF WorkflowResumes
  <2>2. left' \in [at: 0..made, tidy: BOOLEAN]
    BY <1>1, <2>1 DEF AuditTypeOK
  <2>3. AuditTypeOK'
    BY <2>1, <2>2 DEF AuditTypeOK, repository, progress
  <2> QED
    BY <2>1, <2>3, NobodyAtWork
<1>14. ASSUME NEW keep \in 0..Len(branch), NEW extends \in BOOLEAN, HumanRewrites(keep, extends)
       PROVE  WorkflowInv'
  <2> DEFINE kept == SubSeq(branch, 1, keep)
  <2>1. /\ auditor' = "NONE" /\ tidy' = TRUE
        /\ UNCHANGED <<remote, progress, standing, left>>
        /\ \/ made < MaxCommits /\ made' = made + 1 /\ branch' = Append(kept, made + 1)
           \/ made' = made /\ branch' = kept
    BY <1>14 DEF HumanRewrites
  <2>2. kept \in Seq(1..made) /\ Len(kept) <= made
    BY <1>1, KeptCommits
  <2>3. branch' \in UNION {[1..n -> 1..made'] : n \in 0..made'}
    <3> HIDE DEF kept
    <3>1. CASE made' = made + 1 /\ branch' = Append(kept, made + 1)
      BY <1>1, <2>2, <3>1, BranchGrows
    <3>2. CASE made' = made /\ branch' = kept
      BY <1>1, <2>2, <3>2, SeqIsBranch
    <3> QED
      BY <2>1, <3>1, <3>2
  <2>4. 0..made \subseteq 0..made' /\ made' \in 0..MaxCommits
    BY <1>1, <2>1 DEF AuditTypeOK
  <2>5. left' \in [at: 0..made', tidy: BOOLEAN] /\ approvedAt' \in [Batches -> 0..made']
    BY <2>1, <2>4 DEF AuditTypeOK, progress
  <2>6. AuditTypeOK'
    BY <2>1, <2>3, <2>4, <2>5 DEF AuditTypeOK, progress
  <2> QED
    BY <2>1, <2>6, NobodyAtWork
<1>15. ASSUME HumanPushes PROVE WorkflowInv'
  BY <1>1, <1>15, NobodyAtWork DEF HumanPushes, AuditTypeOK, progress
<1>16. ASSUME HumanEdits PROVE WorkflowInv'
  BY <1>16, NobodyAtWork DEF HumanEdits, AuditTypeOK, progress
<1>17. ASSUME NEW commit \in 0..made, LogLost(commit) PROVE WorkflowInv'
  BY <1>17, NobodyAtWork DEF LogLost, AuditTypeOK, repository
<1>18. CASE UNCHANGED auditVars
  <2>1. AllApproved' <=> AllApproved
    BY <1>18 DEF auditVars, AllApproved, StillApproved, InHistory, CurrentHead
  <2> QED
    BY <1>18, <2>1
    DEF auditVars, AuditTypeOK, BatchAtHand, AllFinished, AuditHolds, CheckedState, CurrentHead
<1> QED
  BY <1>2, <1>3, <1>4, <1>5, <1>6, <1>7, <1>8, <1>9, <1>10, <1>11, <1>12, <1>13, <1>14, <1>15,
     <1>16, <1>17, <1>18
  DEF AuditNext

LEMMA WorkflowInvariant == AuditSpec => []WorkflowInv
<1>1. AuditInit => WorkflowInv
  <2> SUFFICES ASSUME AuditInit PROVE WorkflowInv
    OBVIOUS
  <2>1. branch \in [1..0 -> 1..made] /\ made \in Nat
    BY DEF AuditInit
  <2>2. AuditTypeOK
    BY <2>1, AuditAssumption DEF AuditInit, AuditTypeOK, NothingLeft
  <2> QED
    BY <2>2 DEF AuditInit, WorkflowInv, BatchAtHand, AllFinished, AuditHolds, CheckedState
<1>2. WorkflowInv /\ [AuditNext]_auditVars => WorkflowInv'
  BY AuditStep
<1> QED
  BY <1>1, <1>2, PTL DEF AuditSpec

(* Branch, approvals, progress and the runner row keep their types, and    *)
(* nothing refers to a commit that was never made.                         *)
THEOREM WorkflowTyped == AuditSpec => []AuditTypeOK
BY WorkflowInvariant, PTL DEF WorkflowInv

(* For any number of batches and commits, whatever is paused, restarted,   *)
(* rewritten or pushed by hand between two workers: READY is declared only *)
(* of a branch that holds every approved batch, ends in the last approval, *)
(* was verified again there, was pushed, and is clean (complete()).        *)
THEOREM ReadyWorkflowIsWhole == AuditSpec => ReadyIsWhole
<1>1. WorkflowInv /\ [AuditNext]_auditVars =>
        [(standing # "READY" /\ standing' = "READY") =>
           /\ finished = Total
           /\ \A b \in Batches : InHistory(approvedAt[b])
           /\ CurrentHead = approvedAt[Total] /\ CurrentHead \in reverified
           /\ remote = CurrentHead /\ tidy]_auditVars
  <2> SUFFICES ASSUME WorkflowInv, AuditNext, standing # "READY", standing' = "READY"
               PROVE  /\ finished = Total
                      /\ \A b \in Batches : InHistory(approvedAt[b])
                      /\ CurrentHead = approvedAt[Total] /\ CurrentHead \in reverified
                      /\ remote = CurrentHead /\ tidy
    BY DEF auditVars
  <2>1. auditor = "READY"
    BY DEF AuditNext, WorkflowContinues, StopsForHuman, AuditorDies, BatchApproved, BatchStops,
           PushesBranch, FinishesBatch, AuditsWorkflow, ChecksClean, ChecksRemote, MarksReady,
           PauseAsked, PauseTakesEffect, WorkflowResumes, HumanRewrites, HumanPushes, HumanEdits,
           LogLost
  <2>2. finished = Total /\ AllApproved /\ CurrentHead \in reverified /\ remote = CurrentHead /\ tidy
    BY <2>1 DEF WorkflowInv, AllFinished, AuditHolds, CheckedState
  <2>3. Total \in Batches
    BY AuditAssumption DEF Batches
  <2>4. CurrentHead = approvedAt[Total] /\ CurrentHead # 0
    BY <2>2, <2>3 DEF AllApproved, StillApproved
  <2>5. InHistory(CurrentHead)
    BY <2>4, BranchIsSeq DEF WorkflowInv
  <2>6. \A b \in Batches : InHistory(approvedAt[b])
    BY <2>2, <2>4, <2>5 DEF AllApproved, StillApproved
  <2> QED
    BY <2>2, <2>4, <2>6
<1> QED
  BY <1>1, WorkflowInvariant, PTL DEF AuditSpec, ReadyIsWhole

(***************************************************************************)
(* The merge gate.                                                         *)
(***************************************************************************)
(* What one allowed command does to the batch: it leads to an approval or  *)
(* a merge only as its own type says, from the state before it, and never  *)
(* out of a merge.                                                         *)
LEMMA AllowedLeads ==
  ASSUME NEW t \in CommandTypes, NEW ctx \in KernelContext, StateAllows(t, ctx)
  PROVE  /\ NextContext(t, ctx) \in KernelContext
         /\ ctx.state # "MERGED"
         /\ NextContext(t, ctx).state = "APPROVED_FOR_MERGE" =>
              t = "APPROVE_FOR_MERGE" /\ ctx.state = "VERIFYING"
         /\ NextContext(t, ctx).state = "MERGED" =>
              t = "RECORD_EXTERNAL_MERGE" /\ ctx.state = "APPROVED_FOR_MERGE"
         /\ t = "APPROVE_FOR_MERGE" => NextContext(t, ctx).state = "APPROVED_FOR_MERGE"
         /\ t = "RECORD_EXTERNAL_MERGE" => NextContext(t, ctx).state = "MERGED"
<1>1. ctx.state \in ExpectedSourceStates[t] /\ ctx.state \notin TerminalStates
  BY DEF StateAllows
<1>2. CASE t = "RESUME_BATCH"
  BY <1>1, <1>2
  DEF StateAllows, NextContext, KernelContext, ResumableStates, BatchStates, BlockableStates,
      TerminalStates
<1>3. CASE t = "BLOCK_BATCH"
  <2>1. ctx.state \in BlockableStates
    BY <1>1, <1>3 DEF ExpectedSourceStates, CommandTypes
  <2>2. SafeBlockedResumeState[ctx.state] \in ResumableStates
    BY <2>1 DEF SafeBlockedResumeState, ResumableStates, BlockableStates
  <2>3. TargetState[t] = "BLOCKED"
    BY <1>3 DEF TargetState, CommandTypes
  <2> QED
    BY <1>1, <1>3, <2>1, <2>2, <2>3 DEF NextContext, KernelContext, BatchStates, TerminalStates
<1>4. CASE t \notin {"RESUME_BATCH", "BLOCK_BATCH"}
  <2>1. /\ TargetState[t] \in BatchStates
        /\ TargetState[t] = "APPROVED_FOR_MERGE" <=> t = "APPROVE_FOR_MERGE"
        /\ TargetState[t] = "MERGED" <=> t = "RECORD_EXTERNAL_MERGE"
    BY <1>4 DEF TargetState, CommandTypes, BatchStates, BlockableStates, TerminalStates
  <2>2. /\ t = "APPROVE_FOR_MERGE" => ctx.state = "VERIFYING"
        /\ t = "RECORD_EXTERNAL_MERGE" => ctx.state = "APPROVED_FOR_MERGE"
    BY <1>1 DEF ExpectedSourceStates, CommandTypes
  <2> QED
    BY <1>1, <1>4, <2>1, <2>2 DEF NextContext, KernelContext, TerminalStates
<1> QED
  BY <1>2, <1>3, <1>4

LEMMA IssueMoves ==
  ASSUME BatchTypeOK, NEW t \in CommandTypes, NEW version, Issue(t, version)
  PROVE  /\ BatchTypeOK' /\ aggregate'.version = aggregate.version + 1
         /\ aggregate.version = version /\ BatchState # "MERGED"
         /\ BatchState' = "APPROVED_FOR_MERGE" <=> t = "APPROVE_FOR_MERGE"
         /\ BatchState' = "MERGED" <=> t = "RECORD_EXTERNAL_MERGE"
<1>1. aggregate.context \in KernelContext /\ StateAllows(t, aggregate.context)
  BY DEF BatchTypeOK, Issue
<1>2. aggregate' = [context |-> NextContext(t, aggregate.context), version |-> aggregate.version + 1]
  BY DEF Issue, After
<1>3. aggregate.version = version /\ aggregate.version + 1 \in 0..MaxVersion
  BY VersionAssumption DEF BatchTypeOK, Issue
<1> QED
  BY <1>1, <1>2, <1>3, AllowedLeads DEF BatchTypeOK, BatchState

LEMMA ReviewMoves ==
  ASSUME BatchTypeOK, NEW decision \in {"APPROVE_CODE_REVIEW", "REJECT_CODE_REVIEW"},
         IssueBoth("START_CODE_REVIEW", decision, aggregate.version)
  PROVE  /\ BatchTypeOK' /\ aggregate'.version = aggregate.version + 2
         /\ BatchState # "MERGED" /\ BatchState' \notin {"APPROVED_FOR_MERGE", "MERGED"}
<1> DEFINE first == NextContext("START_CODE_REVIEW", aggregate.context)
<1>1. /\ aggregate.context \in KernelContext /\ StateAllows("START_CODE_REVIEW", aggregate.context)
      /\ StateAllows(decision, first)
  BY DEF BatchTypeOK, IssueBoth, After
<1>2. "START_CODE_REVIEW" \in CommandTypes /\ decision \in CommandTypes
  BY DEF CommandTypes
<1>3. first \in KernelContext /\ BatchState # "MERGED"
  BY <1>1, <1>2, AllowedLeads DEF BatchState
<1>4. aggregate' = [context |-> NextContext(decision, first),
                    version |-> aggregate.version + 1 + 1]
  BY DEF IssueBoth, After
<1>5. aggregate.version + 1 + 1 \in 0..MaxVersion /\ aggregate.version \in Nat
  BY VersionAssumption DEF BatchTypeOK, IssueBoth
<1> HIDE DEF first
<1>6. NextContext(decision, first) \in KernelContext
      /\ NextContext(decision, first).state \notin {"APPROVED_FOR_MERGE", "MERGED"}
  BY <1>1, <1>2, <1>3, AllowedLeads
<1> QED
  BY <1>3, <1>4, <1>5, <1>6 DEF BatchTypeOK, BatchState

(***************************************************************************)
(* The inductive invariant.                                                *)
(***************************************************************************)
(* Only the batch's own merge ends it.                                     *)
MergeIsFinal == merged # NoCommit => BatchState = "MERGED"

(* A process that read the batch holds a version that was current; while   *)
(* it still is, nothing it has read since is out of date.                  *)
Current(p) == gater[p].version = aggregate.version

ReadsHold ==
  \A p \in GateProcess :
    /\ gater[p].version <= aggregate.version
    /\ gater[p].pc \in {"GATE_WORKTREE", "GATE_COMMIT"} /\ Current(p) =>
         reviews # <<>> /\ gater[p].commit = Last(reviews)
    /\ gater[p].pc = "MERGE_COMMIT" /\ Current(p) =>
         approvals # <<>> /\ gater[p].commit = Last(approvals)

(* A process past its reading of HEAD or of the review names a commit, one *)
(* that will settle a command names it.                                    *)
NamesCommit ==
  \A p \in GateProcess :
    /\ gater[p].pc \in {"RUNNING", "AUDITING", "GATE_WORKTREE", "GATE_COMMIT", "MERGE_COMMIT"} =>
         gater[p].commit \in Commit
    /\ gater[p].pc \in {"GATE", "GATE_WORKTREE", "GATE_COMMIT", "STALE_COMMIT"} =>
         gater[p].command \in GateCommand \cup StaleCommand

(* Verification and audit at a commit are never taken back, so they need   *)
(* no version; the findings do.                                            *)
EvidenceHeld ==
  \A p \in GateProcess : gater[p].pc = "GATE_COMMIT" =>
    /\ AuditApproves(gater[p].commit) /\ Passed(gater[p].commit) = PlanCommand
    /\ Current(p) => findings \X {gater[p].commit} \subseteq riskAccepted

GateInv ==
  GateTypeOK /\ MergeIsFinal /\ NamesCommit /\ ReadsHold /\ EvidenceHeld /\ ApprovalStands

(* Evidence that only grows.                                               *)
EvidenceGrows ==
  \A c \in Commit \cup {NoCommit} :
    /\ AuditApproves(c) => AuditApproves(c)'
    /\ Passed(c) = PlanCommand => Passed(c)' = PlanCommand

LEMMA RecordsGrow ==
  ASSUME GateTypeOK, GateTypeOK', finalAudit # NoAudit => finalAudit' = finalAudit,
         \A r \in Record : records[r] # NoRecord =>
           /\ records'[r] # NoRecord
           /\ records'[r].commit = records[r].commit /\ records'[r].command = records[r].command
           /\ records'[r].succeeded = records[r].succeeded
           /\ records[r].accepted => records'[r].accepted
  PROVE  EvidenceGrows
<1>1. ASSUME NEW c \in Commit \cup {NoCommit} PROVE Passed(c) \subseteq Passed(c)'
  BY DEF Passed, AcceptedAt, RecordsAt
<1>2. ASSUME NEW c \in Commit \cup {NoCommit} PROVE Passed(c)' \subseteq PlanCommand
  BY DEF Passed, AcceptedAt, RecordsAt, GateTypeOK, VerificationRecord
<1>3. ASSUME NEW c \in Commit \cup {NoCommit}, AuditApproves(c) PROVE AuditApproves(c)'
  BY <1>3 DEF AuditApproves
<1> QED
  BY <1>1, <1>2, <1>3 DEF EvidenceGrows

LEMMA SameRecordsGrow ==
  ASSUME GateTypeOK, GateTypeOK', UNCHANGED <<records, finalAudit>>
  PROVE  EvidenceGrows
BY RecordsGrow

(* The batch stays: one process takes a step, or evidence is added.        *)
LEMMA BatchStays ==
  ASSUME GateInv, GateTypeOK', EvidenceGrows,
         UNCHANGED <<aggregate, reviews, findings, riskAccepted, approvals, merged>>,
         NamesCommit', ReadsHold', EvidenceHeld'
  PROVE  GateInv'
<1>1. MergeIsFinal'
  BY DEF GateInv, MergeIsFinal, BatchState
<1>2. ApprovalStands'
  <2> SUFFICES ASSUME BatchState \in {"APPROVED_FOR_MERGE", "MERGED"}
               PROVE  ApprovalStands'
    BY DEF ApprovalStands, BatchState
  <2>1. approvals # <<>> /\ approvals \in Seq(Commit) /\ Last(approvals) \in Commit
    BY DEF GateInv, ApprovalStands, GateTypeOK, Last
  <2> QED
    BY <2>1 DEF GateInv, ApprovalStands, EvidenceGrows, BatchState
<1> QED
  BY <1>1, <1>2 DEF GateInv

(* One process goes from a step that holds something to one that holds no  *)
(* more, or rests.                                                         *)
LEMMA ProcessRests ==
  ASSUME GateInv, GateTypeOK', EvidenceGrows,
         UNCHANGED <<aggregate, reviews, findings, riskAccepted, approvals, merged>>,
         NEW p \in GateProcess, NEW state \in Gater, gater' = [gater EXCEPT ![p] = state],
         state.pc \notin {"GATE_WORKTREE", "GATE_COMMIT", "MERGE_COMMIT"},
         state.version <= aggregate.version,
         state.pc \in {"RUNNING", "AUDITING"} => state.commit \in Commit,
         state.pc \in {"GATE", "STALE_COMMIT"} => state.command \in GateCommand \cup StaleCommand
  PROVE  GateInv'
<1>1. gater'[p] = state /\ \A q \in GateProcess \ {p} : gater'[q] = gater[q]
  BY DEF GateInv, GateTypeOK
<1>2. ReadsHold' /\ NamesCommit'
  BY <1>1 DEF GateInv, ReadsHold, NamesCommit, Current
<1>3. EvidenceHeld'
  <2> SUFFICES ASSUME NEW q \in GateProcess, gater'[q].pc = "GATE_COMMIT"
               PROVE  /\ AuditApproves(gater[q].commit)' /\ Passed(gater[q].commit)' = PlanCommand
                      /\ Current(q)' => findings' \X {gater'[q].commit} \subseteq riskAccepted'
    BY DEF EvidenceHeld
  <2>1. q # p /\ gater'[q] = gater[q] /\ gater[q].commit \in Commit \cup {NoCommit}
    BY <1>1 DEF GateInv, GateTypeOK, Gater
  <2>2. AuditApproves(gater[q].commit) /\ Passed(gater[q].commit) = PlanCommand
        /\ (Current(q) => findings \X {gater[q].commit} \subseteq riskAccepted)
    BY <2>1 DEF GateInv, EvidenceHeld
  <2>3. \A c \in Commit \cup {NoCommit} : c = gater[q].commit =>
          AuditApproves(c)' /\ Passed(c)' = PlanCommand
    BY <2>1, <2>2 DEF EvidenceGrows
  <2>4. AuditApproves(gater[q].commit)' /\ Passed(gater[q].commit)' = PlanCommand
    BY <2>1, <2>3 DEF AuditApproves, Passed, AcceptedAt, RecordsAt
  <2> QED
    BY <2>1, <2>2, <2>4 DEF Current
<1> QED
  BY <1>2, <1>3, BatchStays

(* No process moves.                                                       *)
LEMMA NobodyMoves ==
  ASSUME GateInv, GateTypeOK', EvidenceGrows,
         UNCHANGED <<aggregate, reviews, findings, riskAccepted, approvals, merged, gater>>
  PROVE  GateInv'
<1>1. ReadsHold' /\ NamesCommit'
  BY DEF GateInv, ReadsHold, NamesCommit, Current
<1>2. EvidenceHeld'
  <2> SUFFICES ASSUME NEW q \in GateProcess, gater[q].pc = "GATE_COMMIT"
               PROVE  AuditApproves(gater[q].commit)' /\ Passed(gater[q].commit)' = PlanCommand
    BY DEF EvidenceHeld, GateInv, Current
  <2>1. gater[q].commit \in Commit \cup {NoCommit} /\ gater' = gater
    BY DEF GateInv, GateTypeOK, Gater
  <2>2. AuditApproves(gater[q].commit) /\ Passed(gater[q].commit) = PlanCommand
    BY DEF GateInv, EvidenceHeld
  <2>3. \A c \in Commit \cup {NoCommit} : c = gater[q].commit =>
          AuditApproves(c)' /\ Passed(c)' = PlanCommand
    BY <2>1, <2>2 DEF EvidenceGrows
  <2> QED
    BY <2>1, <2>3 DEF AuditApproves, Passed, AcceptedAt, RecordsAt
<1> QED
  BY <1>1, <1>2, BatchStays

(* The batch moves, to no approval and no merge: whatever a process has    *)
(* read of it is out of date.                                              *)
LEMMA BatchLeaves ==
  ASSUME GateInv, GateTypeOK', EvidenceGrows, merged' = merged, BatchState # "MERGED",
         BatchState' \notin {"APPROVED_FOR_MERGE", "MERGED"},
         aggregate'.version > aggregate.version,
         \/ gater' = gater
         \/ \E p \in GateProcess : gater' = [gater EXCEPT ![p] = Resting]
  PROVE  GateInv'
<1>1. aggregate.version \in Nat /\ aggregate'.version \in Nat
      /\ \A q \in GateProcess : gater[q].version \in Nat
  BY VersionAssumption DEF GateInv, GateTypeOK, BatchTypeOK, Gater
<1>2. \A q \in GateProcess : gater'[q] = gater[q] \/ gater'[q] = Resting
  BY DEF GateInv, GateTypeOK
<1>3. \A q \in GateProcess :
        /\ gater'[q].version < aggregate'.version \/ gater'[q] = Resting
        /\ gater'[q].version <= aggregate'.version
  BY <1>1, <1>2 DEF GateInv, ReadsHold, Resting
<1>4. MergeIsFinal' /\ ApprovalStands' /\ NamesCommit'
  BY <1>2 DEF GateInv, MergeIsFinal, ApprovalStands, NamesCommit, Resting
<1>5. ReadsHold'
  BY <1>1, <1>3 DEF ReadsHold, Current, Resting
<1>6. EvidenceHeld'
  <2> SUFFICES ASSUME NEW q \in GateProcess, gater'[q].pc = "GATE_COMMIT"
               PROVE  /\ AuditApproves(gater[q].commit)' /\ Passed(gater[q].commit)' = PlanCommand
                      /\ ~Current(q)'
    BY DEF EvidenceHeld
  <2>1. gater'[q] = gater[q] /\ gater[q].commit \in Commit \cup {NoCommit}
    BY <1>2 DEF GateInv, GateTypeOK, Gater, Resting
  <2>2. AuditApproves(gater[q].commit) /\ Passed(gater[q].commit) = PlanCommand
    BY <2>1 DEF GateInv, EvidenceHeld
  <2>3. \A c \in Commit \cup {NoCommit} : c = gater[q].commit =>
          AuditApproves(c)' /\ Passed(c)' = PlanCommand
    BY <2>1, <2>2 DEF EvidenceGrows
  <2>4. ~Current(q)'
    BY <1>1, <1>3, <2>1 DEF Current, Resting
  <2> QED
    BY <2>1, <2>3, <2>4 DEF AuditApproves, Passed, AcceptedAt, RecordsAt
<1> QED
  BY <1>4, <1>5, <1>6 DEF GateInv

LEMMA RestingTyped == Resting \in Gater /\ Resting.pc = "IDLE" /\ Resting.version = 0
BY VersionAssumption DEF Resting, Gater, GaterPCs

LEMMA GateCommands ==
  {"BLOCK_BATCH", "RESUME_BATCH", "RESUME_IMPLEMENTATION", "MARK_IMPLEMENTATION_READY",
   "COMPLETE_IMPLEMENTATION", "ACCEPT_FINDINGS_RISK", "RECONCILE_STALE_APPROVAL",
   "APPROVE_FOR_MERGE", "RECORD_EXTERNAL_MERGE"} \subseteq CommandTypes
BY DEF CommandTypes

(* A command that neither approves nor merges.                             *)
LEMMA OtherCommand ==
  ASSUME GateInv, NEW t \in CommandTypes \ {"APPROVE_FOR_MERGE", "RECORD_EXTERNAL_MERGE"},
         NEW version, Issue(t, version)
  PROVE  /\ BatchTypeOK' /\ BatchState # "MERGED" /\ aggregate'.version > aggregate.version
         /\ BatchState' \notin {"APPROVED_FOR_MERGE", "MERGED"}
<1>1. BatchTypeOK /\ aggregate.version \in Nat
  BY VersionAssumption DEF GateInv, GateTypeOK, BatchTypeOK
<1> QED
  BY <1>1, IssueMoves

(***************************************************************************)
(* The calls.                                                              *)
(***************************************************************************)
(* A process that moves on alone.                                          *)
LEMMA GaterTyped ==
  ASSUME GateTypeOK, OnlyGater, NEW p \in GateProcess, NEW state \in Gater,
         gater' = [gater EXCEPT ![p] = state]
  PROVE  GateTypeOK' /\ EvidenceGrows
<1>1. GateTypeOK'
  BY DEF GateTypeOK, OnlyGater, evidenceVars, BatchTypeOK
<1> QED
  BY <1>1, SameRecordsGrow DEF OnlyGater, evidenceVars

LEMMA GaterMoves ==
  ASSUME GateInv, OnlyGater, NEW p \in GateProcess, NEW state \in Gater,
         gater' = [gater EXCEPT ![p] = state],
         state.pc \notin {"GATE_WORKTREE", "GATE_COMMIT", "MERGE_COMMIT"},
         state.version <= aggregate.version,
         state.pc \in {"RUNNING", "AUDITING"} => state.commit \in Commit,
         state.pc \in {"GATE", "STALE_COMMIT"} => state.command \in GateCommand \cup StaleCommand
  PROVE  GateInv'
<1>1. GateTypeOK' /\ EvidenceGrows
  BY GaterTyped DEF GateInv
<1>2. UNCHANGED <<aggregate, reviews, findings, riskAccepted, approvals, merged>>
  BY DEF OnlyGater, evidenceVars
<1> QED
  BY <1>1, <1>2, ProcessRests

LEMMA VersionIsNat ==
  ASSUME GateInv
  PROVE  /\ GateTypeOK /\ BatchTypeOK /\ aggregate.version \in 0..MaxVersion
         /\ aggregate.version \in Nat /\ 0 <= aggregate.version
BY VersionAssumption DEF GateInv, GateTypeOK, BatchTypeOK

(* A call that begins or ends holds nothing, or the commit it works at.    *)
LEMMA CallTyped ==
  ASSUME NEW pc \in GaterPCs, NEW commit \in Commit \cup {NoCommit}
  PROVE  /\ [Resting EXCEPT !.pc = pc, !.commit = commit] \in Gater
         /\ [Resting EXCEPT !.pc = pc, !.commit = commit].pc = pc
         /\ [Resting EXCEPT !.pc = pc, !.commit = commit].version = 0
         /\ [Resting EXCEPT !.pc = pc, !.commit = commit].commit = commit
<1>1. PICK r \in Gater : r = Resting /\ r.version = 0
  BY RestingTyped
<1>2. /\ [r EXCEPT !.pc = pc, !.commit = commit] \in Gater
      /\ [r EXCEPT !.pc = pc, !.commit = commit].pc = pc
      /\ [r EXCEPT !.pc = pc, !.commit = commit].version = 0
      /\ [r EXCEPT !.pc = pc, !.commit = commit].commit = commit
  BY <1>1 DEF Gater
<1> QED
  BY <1>1, <1>2

LEMMA CallBegins ==
  ASSUME GateInv, OnlyGater, NEW p \in GateProcess, NEW pc \in {"RUNNING", "AUDITING"},
         NEW commit \in Commit,
         Continue(p, [Resting EXCEPT !.pc = pc, !.commit = commit])
  PROVE  GateInv'
<1> DEFINE state == [Resting EXCEPT !.pc = pc, !.commit = commit]
<1>1. pc \in GaterPCs /\ commit \in Commit \cup {NoCommit}
  BY DEF GaterPCs
<1>2. state \in Gater /\ state.pc = pc /\ state.version = 0 /\ state.commit = commit
  BY <1>1, CallTyped
<1>3. gater' = [gater EXCEPT ![p] = state]
  BY DEF Continue
<1> HIDE DEF state
<1>4. state.version <= aggregate.version
  BY <1>2, VersionIsNat
<1>5. state.pc \notin {"GATE_WORKTREE", "GATE_COMMIT", "MERGE_COMMIT", "GATE", "STALE_COMMIT"}
  BY <1>2
<1> QED
  BY <1>2, <1>3, <1>4, <1>5, GaterMoves

(* A call that ends with nothing written.                                  *)
LEMMA CallRefused ==
  ASSUME GateInv, NEW p \in GateProcess, Refused(p)
  PROVE  GateInv'
<1>1. gater' = [gater EXCEPT ![p] = Resting] /\ OnlyGater
  BY DEF Refused, End, Continue
<1> QED
  BY <1>1, GaterMoves, RestingTyped, VersionIsNat

LEMMA VerificationStep ==
  ASSUME GateInv, NEW p \in GateProcess,
         \/ VerifyBegin(p)
         \/ \E r \in Record, q \in PlanCommand, ok \in BOOLEAN : VerifyEnd(p, r, q, ok)
  PROVE  GateInv'
<1>1. GateTypeOK /\ aggregate.version \in Nat
  BY VersionIsNat
<1>2. ASSUME VerifyBegin(p) PROVE GateInv'
  <2>1. OnlyGater /\ Continue(p, [Resting EXCEPT !.pc = "RUNNING", !.commit = worktree.head])
    BY <1>2 DEF VerifyBegin
  <2>2. worktree.head \in Commit
    BY <1>1 DEF GateTypeOK
  <2> QED
    BY <2>1, <2>2, CallBegins
<1>3. ASSUME NEW r \in Record, NEW q \in PlanCommand, NEW ok \in BOOLEAN, VerifyEnd(p, r, q, ok)
      PROVE  GateInv'
  <2> DEFINE row == [command |-> q, commit |-> gater[p].commit, succeeded |-> ok, accepted |-> FALSE]
  <2>1. /\ records[r] = NoRecord /\ records' = [records EXCEPT ![r] = row]
        /\ gater' = [gater EXCEPT ![p] = Resting] /\ gater[p].pc = "RUNNING"
        /\ UNCHANGED <<aggregate, worktree, implemented, reviews, findings, riskAccepted,
                       finalAudit, approvals, settled, merged>>
    BY <1>3 DEF VerifyEnd, End, Continue, GaterAt
  <2>2. gater[p].commit \in Commit
    BY <2>1 DEF GateInv, NamesCommit
  <2>3. row \in VerificationRecord
    BY <2>2 DEF VerificationRecord
  <2>4. GateTypeOK'
    BY <1>1, <2>1, <2>3, RestingTyped DEF GateTypeOK, BatchTypeOK
  <2>5. EvidenceGrows
    BY <1>1, <2>1, <2>4, RecordsGrow DEF GateTypeOK
  <2> QED
    <3>1. Resting.version <= aggregate.version
      BY <1>1, RestingTyped
    <3>2. Resting.pc \notin {"GATE_WORKTREE", "GATE_COMMIT", "MERGE_COMMIT", "RUNNING", "AUDITING",
                            "GATE", "STALE_COMMIT"}
      BY RestingTyped
    <3>3. UNCHANGED <<aggregate, reviews, findings, riskAccepted, approvals, merged>>
      BY <2>1
    <3> QED
      BY <2>1, <2>4, <2>5, <3>1, <3>2, <3>3, RestingTyped, ProcessRests
<1> QED
  BY <1>2, <1>3

LEMMA AttestStep ==
  ASSUME GateInv, NEW r \in Record, Attest(r)
  PROVE  GateInv'
<1>1. GateTypeOK
  BY VersionIsNat
<1>2. /\ records[r] # NoRecord /\ records' = [records EXCEPT ![r].accepted = TRUE]
      /\ UNCHANGED <<aggregate, worktree, implemented, reviews, findings, riskAccepted, finalAudit,
                     approvals, settled, merged, gater>>
  BY DEF Attest, RecordsAt
<1>3. [records[r] EXCEPT !.accepted = TRUE] \in VerificationRecord
  BY <1>1, <1>2 DEF GateTypeOK, VerificationRecord
<1>4. GateTypeOK'
  BY <1>1, <1>2, <1>3 DEF GateTypeOK, BatchTypeOK
<1>5. /\ records'[r] = [records[r] EXCEPT !.accepted = TRUE]
      /\ \A q \in Record \ {r} : records'[q] = records[q]
  BY <1>1, <1>2 DEF GateTypeOK
<1>6. records[r] \in VerificationRecord
  BY <1>1, <1>2 DEF GateTypeOK
<1>7. EvidenceGrows
  <2>1. /\ records'[r].commit = records[r].commit /\ records'[r].command = records[r].command
        /\ records'[r].succeeded = records[r].succeeded /\ records'[r].accepted
    BY <1>5, <1>6 DEF VerificationRecord
  <2>2. records'[r] # NoRecord
    BY <1>3, <1>5, NoRecordAssumption
  <2> QED
    BY <1>1, <1>2, <1>4, <1>5, <2>1, <2>2, RecordsGrow
<1> QED
  BY <1>2, <1>4, <1>7, NobodyMoves

(* The audit is made once, at the reviewed commit, and stays.              *)
LEMMA AuditCallStep ==
  ASSUME GateInv, NEW p \in GateProcess, AuditBegin(p) \/ AuditApproved(p) \/ AuditRejected(p)
  PROVE  GateInv'
<1>1. GateTypeOK /\ aggregate.version \in Nat
  BY VersionIsNat
<1>2. ASSUME AuditBegin(p) PROVE GateInv'
  <2>1. OnlyGater /\ Continue(p, [Resting EXCEPT !.pc = "AUDITING", !.commit = Last(reviews)])
    BY <1>2 DEF AuditBegin
  <2>2. Last(reviews) \in Commit
    BY <1>1, <1>2 DEF AuditBegin, GateTypeOK, Last
  <2> QED
    BY <2>1, <2>2, CallBegins
<1>3. ASSUME NEW approved \in BOOLEAN, GaterAt(p, "AUDITING"), finalAudit = NoAudit,
             finalAudit' = [commit |-> gater[p].commit, approved |-> approved], End(p),
             UNCHANGED <<worktree, implemented, reviews, findings, riskAccepted, records,
                         approvals, settled, merged>>,
             BatchTypeOK'
      PROVE  GateTypeOK' /\ EvidenceGrows /\ gater' = [gater EXCEPT ![p] = Resting]
  <2>1. gater' = [gater EXCEPT ![p] = Resting] /\ gater[p].commit \in Commit
    BY <1>3 DEF End, Continue, GaterAt, GateInv, NamesCommit
  <2>2. finalAudit' \in FinalAudit
    BY <1>3, <2>1 DEF FinalAudit
  <2>3. GateTypeOK'
    BY <1>1, <1>3, <2>1, <2>2, RestingTyped DEF GateTypeOK
  <2> QED
    BY <1>1, <1>3, <2>1, <2>3, RecordsGrow
<1>4. ASSUME AuditApproved(p) PROVE GateInv'
  <2>1. BatchTypeOK' /\ UNCHANGED <<aggregate, reviews, findings, riskAccepted, approvals, merged>>
    BY <1>1, <1>4 DEF AuditApproved, GateTypeOK, BatchTypeOK
  <2>2. GateTypeOK' /\ EvidenceGrows /\ gater' = [gater EXCEPT ![p] = Resting]
    BY <1>3, <1>4, <2>1 DEF AuditApproved
  <2> QED
    BY <2>1, <2>2, ProcessRests, RestingTyped, VersionIsNat
<1>5. ASSUME AuditRejected(p) PROVE GateInv'
  <2>1. /\ BatchTypeOK' /\ BatchState # "MERGED" /\ aggregate'.version > aggregate.version
        /\ BatchState' \notin {"APPROVED_FOR_MERGE", "MERGED"}
    BY <1>5, OtherCommand, GateCommands DEF AuditRejected, IssueNow
  <2>2. GateTypeOK' /\ EvidenceGrows /\ gater' = [gater EXCEPT ![p] = Resting]
    BY <1>3, <1>5, <2>1 DEF AuditRejected
  <2>3. merged' = merged
    BY <1>5 DEF AuditRejected
  <2> QED
    BY <2>1, <2>2, <2>3, BatchLeaves
<1> QED
  BY <1>2, <1>4, <1>5

(* A process that reads keeps its version, and what it reads is current    *)
(* as long as that is.                                                     *)
LEMMA GaterReads ==
  ASSUME GateInv, OnlyGater, NEW p \in GateProcess, NEW state \in Gater,
         gater' = [gater EXCEPT ![p] = state],
         state.version <= aggregate.version,
         state.pc \in {"GATE_WORKTREE", "GATE_COMMIT", "MERGE_COMMIT"} => state.commit \in Commit,
         state.pc \in {"GATE_WORKTREE", "GATE_COMMIT"} /\ state.version = aggregate.version =>
           reviews # <<>> /\ state.commit = Last(reviews),
         state.pc = "MERGE_COMMIT" => approvals # <<>> /\ state.commit = Last(approvals),
         state.pc = "GATE_COMMIT" =>
           /\ AuditApproves(state.commit) /\ Passed(state.commit) = PlanCommand
           /\ findings \X {state.commit} \subseteq riskAccepted,
         state.pc \notin {"RUNNING", "AUDITING", "GATE", "STALE_COMMIT"},
         state.pc \in {"GATE_WORKTREE", "GATE_COMMIT"} =>
           state.command \in GateCommand \cup StaleCommand
  PROVE  GateInv'
<1>1. GateTypeOK' /\ EvidenceGrows
  BY GaterTyped DEF GateInv
<1>2. gater'[p] = state /\ \A q \in GateProcess \ {p} : gater'[q] = gater[q]
  BY DEF GateInv, GateTypeOK
<1>3. UNCHANGED <<aggregate, reviews, findings, riskAccepted, records, finalAudit, approvals, merged>>
  BY DEF OnlyGater, evidenceVars
<1>4. ReadsHold'
  <2> SUFFICES ASSUME NEW q \in GateProcess
               PROVE  /\ gater'[q].version <= aggregate'.version
                      /\ gater'[q].pc \in {"GATE_WORKTREE", "GATE_COMMIT"} /\ Current(q)' =>
                           reviews' # <<>> /\ gater'[q].commit = Last(reviews')
                      /\ gater'[q].pc = "MERGE_COMMIT" /\ Current(q)' =>
                           approvals' # <<>> /\ gater'[q].commit = Last(approvals')
    BY DEF ReadsHold
  <2>1. CASE q = p
    BY <1>2, <1>3, <2>1 DEF Current
  <2>2. CASE q # p
    BY <1>2, <1>3, <2>2 DEF GateInv, ReadsHold, Current
  <2> QED
    BY <2>1, <2>2
<1>5. NamesCommit'
  <2> SUFFICES ASSUME NEW q \in GateProcess
               PROVE  /\ gater'[q].pc \in {"RUNNING", "AUDITING", "GATE_WORKTREE", "GATE_COMMIT",
                                             "MERGE_COMMIT"} => gater'[q].commit \in Commit
                      /\ gater'[q].pc \in {"GATE", "GATE_WORKTREE", "GATE_COMMIT", "STALE_COMMIT"} =>
                           gater'[q].command \in GateCommand \cup StaleCommand
    BY DEF NamesCommit
  <2>1. CASE q = p
    BY <1>2, <2>1
  <2>2. CASE q # p
    BY <1>2, <2>2 DEF GateInv, NamesCommit
  <2> QED
    BY <2>1, <2>2
<1>6. \A c : AuditApproves(c)' = AuditApproves(c) /\ Passed(c)' = Passed(c)
  BY <1>3 DEF AuditApproves, Passed, AcceptedAt, RecordsAt
<1>7. EvidenceHeld'
  <2> SUFFICES ASSUME NEW q \in GateProcess, gater'[q].pc = "GATE_COMMIT"
               PROVE  /\ AuditApproves(gater[q].commit)' /\ Passed(gater[q].commit)' = PlanCommand
                      /\ Current(q)' => findings' \X {gater'[q].commit} \subseteq riskAccepted'
    BY DEF EvidenceHeld
  <2>1. /\ AuditApproves(gater'[q].commit) /\ Passed(gater'[q].commit) = PlanCommand
        /\ Current(q)' => findings \X {gater'[q].commit} \subseteq riskAccepted
    BY <1>2, <1>3 DEF GateInv, EvidenceHeld, Current
  <2> QED
    BY <1>3, <2>1 DEF AuditApproves, Passed, AcceptedAt, RecordsAt
<1> QED
  BY <1>1, <1>3, <1>4, <1>5, <1>7, BatchStays

LEMMA HoldingTyped ==
  ASSUME GateInv, NEW pc \in GaterPCs, NEW command \in GateCommand \cup StaleCommand \cup {NoGateCommand}
  PROVE  /\ Holding(pc, command) \in Gater /\ Holding(pc, command).pc = pc
         /\ Holding(pc, command).version = aggregate.version
         /\ Holding(pc, command).command = command
BY VersionIsNat DEF Holding, Gater

LEMMA CallHolds ==
  ASSUME GateInv, OnlyGater, NEW p \in GateProcess, NEW pc \in {"GATE", "STALE_COMMIT", "MERGE"},
         NEW command \in GateCommand \cup StaleCommand \cup {NoGateCommand},
         pc # "MERGE" => command \in GateCommand \cup StaleCommand,
         Continue(p, Holding(pc, command))
  PROVE  GateInv'
<1> DEFINE state == Holding(pc, command)
<1>1. pc \in GaterPCs
  BY DEF GaterPCs
<1>2. state \in Gater /\ state.pc = pc /\ state.version = aggregate.version /\ state.command = command
  BY <1>1, HoldingTyped
<1>3. gater' = [gater EXCEPT ![p] = state]
  BY DEF Continue
<1> HIDE DEF state
<1>4. state.version <= aggregate.version /\ state.pc \in {"GATE", "STALE_COMMIT", "MERGE"}
  BY <1>2, VersionIsNat
<1> QED
  BY <1>2, <1>3, <1>4, GaterMoves

LEMMA GateReadStep ==
  ASSUME GateInv, NEW p \in GateProcess, GateReadsWorktree(p) \/ GateEvidencePasses(p) \/ MergeReadsApproval(p)
  PROVE  GateInv'
<1>1. /\ GateTypeOK /\ gater[p] \in Gater /\ gater[p].version <= aggregate.version
      /\ aggregate.version \in Nat
  BY VersionIsNat DEF GateTypeOK, GateInv, ReadsHold
<1>2. ASSUME GateReadsWorktree(p) PROVE GateInv'
  <2>1. PICK state : /\ state = [gater[p] EXCEPT !.pc = "GATE_WORKTREE", !.commit = Last(reviews)]
                     /\ gater' = [gater EXCEPT ![p] = state]
    BY <1>2 DEF GateReadsWorktree, Continue
  <2>2. OnlyGater /\ reviews # <<>> /\ Last(reviews) \in Commit
    BY <1>1, <1>2 DEF GateReadsWorktree, GateTypeOK, Last
  <2>3. /\ state \in Gater /\ state.pc = "GATE_WORKTREE" /\ state.commit = Last(reviews)
        /\ state.version = gater[p].version /\ state.command = gater[p].command
    BY <1>1, <2>1, <2>2 DEF Gater, GaterPCs
  <2>4. gater[p].command \in GateCommand \cup StaleCommand
    BY <1>2 DEF GateReadsWorktree, GaterAt, GateInv, NamesCommit
  <2> QED
    BY <1>1, <2>1, <2>2, <2>3, <2>4, GaterReads
<1>3. ASSUME GateEvidencePasses(p) PROVE GateInv'
  <2>1. PICK state : /\ state = [gater[p] EXCEPT !.pc = "GATE_COMMIT"]
                     /\ gater' = [gater EXCEPT ![p] = state]
    BY <1>3 DEF GateEvidencePasses, Continue
  <2>2. /\ state \in Gater /\ state.pc = "GATE_COMMIT" /\ state.commit = gater[p].commit
        /\ state.version = gater[p].version /\ state.command = gater[p].command
    BY <1>1, <2>1 DEF Gater, GaterPCs
  <2>3. OnlyGater /\ gater[p].pc = "GATE_WORKTREE" /\ EvidenceComplete(gater[p].commit)
    BY <1>3 DEF GateEvidencePasses, GaterAt
  <2>4. /\ gater[p].commit \in Commit /\ gater[p].command \in GateCommand \cup StaleCommand
        /\ gater[p].version = aggregate.version => reviews # <<>> /\ gater[p].commit = Last(reviews)
    BY <2>3 DEF GateInv, NamesCommit, ReadsHold, Current
  <2>5. /\ AuditApproves(gater[p].commit) /\ Passed(gater[p].commit) = PlanCommand
        /\ findings \X {gater[p].commit} \subseteq riskAccepted
    BY <2>3 DEF EvidenceComplete
  <2> QED
    BY <1>1, <2>1, <2>2, <2>3, <2>4, <2>5, GaterReads
<1>4. ASSUME MergeReadsApproval(p) PROVE GateInv'
  <2>1. PICK state : /\ state = [gater[p] EXCEPT !.pc = "MERGE_COMMIT", !.commit = Last(approvals)]
                     /\ gater' = [gater EXCEPT ![p] = state]
    BY <1>4 DEF MergeReadsApproval, Continue
  <2>2. OnlyGater /\ approvals # <<>> /\ Last(approvals) \in Commit
    BY <1>1, <1>4 DEF MergeReadsApproval, ApprovalEffective, GateTypeOK, Last
  <2>3. /\ state \in Gater /\ state.pc = "MERGE_COMMIT" /\ state.commit = Last(approvals)
        /\ state.version = gater[p].version
    BY <1>1, <2>1, <2>2 DEF Gater, GaterPCs
  <2> QED
    BY <1>1, <2>1, <2>2, <2>3, GaterReads
<1> QED
  BY <1>2, <1>3, <1>4

(* The approval and the merge: the transaction checks the version, so what *)
(* was read on the way is still so.                                        *)
LEMMA ApproveStep ==
  ASSUME GateInv, NEW p \in GateProcess, GateApproves(p)
  PROVE  GateInv'
<1> DEFINE commit == gater[p].commit
<1>1. /\ GateTypeOK /\ BatchTypeOK /\ aggregate.version \in Nat
      /\ \A q \in GateProcess : gater[q].version \in Nat
  BY VersionIsNat DEF GateTypeOK, Gater
<1>2. /\ gater[p].pc = "GATE_COMMIT" /\ Issue("APPROVE_FOR_MERGE", gater[p].version)
      /\ approvals' = Append(approvals, commit)
      /\ settled' = settled \cup {gater[p].command}
      /\ gater' = [gater EXCEPT ![p] = Resting]
      /\ UNCHANGED <<worktree, implemented, evidenceVars, merged>>
  BY DEF GateApproves, GaterAt, End, Continue
<1>3. /\ BatchTypeOK' /\ aggregate'.version = aggregate.version + 1 /\ Current(p)
      /\ BatchState # "MERGED" /\ BatchState' = "APPROVED_FOR_MERGE"
  BY <1>1, <1>2, IssueMoves, GateCommands DEF Current
<1>4. /\ reviews # <<>> /\ commit = Last(reviews) /\ commit \in Commit
      /\ AuditApproves(commit) /\ Passed(commit) = PlanCommand
      /\ findings \X {commit} \subseteq riskAccepted /\ merged = NoCommit
  BY <1>2, <1>3 DEF GateInv, ReadsHold, NamesCommit, EvidenceHeld, MergeIsFinal
<1>5. gater[p].command \in GateCommand \cup StaleCommand
  BY <1>2 DEF GateInv, NamesCommit
<1>6. /\ approvals' \in Seq(Commit) /\ approvals' # <<>> /\ Last(approvals') = commit
  BY <1>1, <1>2, <1>4 DEF GateTypeOK, Last
<1>7. GateTypeOK'
  BY <1>1, <1>2, <1>3, <1>5, <1>6, RestingTyped DEF GateTypeOK, evidenceVars
<1>8. \A c : AuditApproves(c)' = AuditApproves(c) /\ Passed(c)' = Passed(c)
  BY <1>2 DEF AuditApproves, Passed, AcceptedAt, RecordsAt, evidenceVars
<1>9. \A q \in GateProcess : gater'[q] = Resting \/ gater'[q] = gater[q]
  BY <1>1, <1>2 DEF GateTypeOK
<1>10. MergeIsFinal' /\ NamesCommit'
  BY <1>2, <1>4, <1>9 DEF GateInv, MergeIsFinal, NamesCommit, Resting
<1>11. \A q \in GateProcess : gater'[q].version <= aggregate'.version
                               /\ (gater'[q] # Resting => ~Current(q)')
  BY <1>1, <1>3, <1>9 DEF GateInv, ReadsHold, Current, Resting
<1>12. ReadsHold'
  BY <1>11 DEF ReadsHold, Resting
<1>13. EvidenceHeld'
  <2> SUFFICES ASSUME NEW q \in GateProcess, gater'[q].pc = "GATE_COMMIT"
               PROVE  /\ AuditApproves(gater[q].commit)' /\ Passed(gater[q].commit)' = PlanCommand
                      /\ ~Current(q)'
    BY DEF EvidenceHeld
  <2>1. gater'[q] = gater[q] /\ gater[q].pc = "GATE_COMMIT"
    BY <1>9 DEF Resting
  <2>2. AuditApproves(gater[q].commit) /\ Passed(gater[q].commit) = PlanCommand
    BY <2>1 DEF GateInv, EvidenceHeld
  <2>3. ~Current(q)'
    BY <1>11, <2>1 DEF Resting
  <2> QED
    BY <1>2, <2>1, <2>2, <2>3 DEF AuditApproves, Passed, AcceptedAt, RecordsAt, evidenceVars
<1>14. ApprovalStands'
  <2>1. reviews' = reviews /\ findings' = findings /\ riskAccepted' = riskAccepted /\ merged' = merged
    BY <1>2 DEF evidenceVars
  <2>2. /\ approvals' # <<>> /\ reviews' # <<>> /\ Last(approvals') = Last(reviews')
        /\ findings' \X {Last(approvals')} \subseteq riskAccepted' /\ merged' = NoCommit
    BY <1>4, <1>6, <2>1
  <2>3. AuditApproves(Last(approvals))' /\ Passed(Last(approvals))' = PlanCommand
    BY <1>2, <1>4, <1>6 DEF AuditApproves, Passed, AcceptedAt, RecordsAt, evidenceVars
  <2> QED
    BY <2>2, <2>3 DEF ApprovalStands
<1> QED
  BY <1>7, <1>10, <1>12, <1>13, <1>14 DEF GateInv

LEMMA MergeStep ==
  ASSUME GateInv, NEW p \in GateProcess, NEW commit \in Commit, MergeRecorded(p, commit)
  PROVE  GateInv'
<1>1. /\ GateTypeOK /\ BatchTypeOK /\ aggregate.version \in Nat
      /\ \A q \in GateProcess : gater[q].version \in Nat
  BY VersionIsNat DEF GateTypeOK, Gater
<1>2. /\ gater[p].pc = "MERGE_COMMIT" /\ Issue("RECORD_EXTERNAL_MERGE", gater[p].version)
      /\ merged' = commit /\ gater[p].commit \in Ancestors[commit]
      /\ gater' = [gater EXCEPT ![p] = Resting]
      /\ UNCHANGED <<worktree, implemented, evidenceVars, approvals, settled>>
  BY DEF MergeRecorded, GaterAt, End, Continue
<1>3. /\ BatchTypeOK' /\ aggregate'.version = aggregate.version + 1 /\ Current(p)
      /\ BatchState' = "MERGED"
  BY <1>1, <1>2, IssueMoves, GateCommands DEF Current
<1>4. BatchState = "APPROVED_FOR_MERGE"
  BY <1>2 DEF Issue, StateAllows, ExpectedSourceStates, CommandTypes, BatchState
<1>5. approvals # <<>> /\ gater[p].commit = Last(approvals)
  BY <1>2, <1>3 DEF GateInv, ReadsHold
<1>6. GateTypeOK'
  BY <1>1, <1>2, <1>3, RestingTyped DEF GateTypeOK, evidenceVars
<1>7. \A q \in GateProcess : gater'[q] = Resting \/ gater'[q] = gater[q]
  BY <1>1, <1>2 DEF GateTypeOK
<1>8. MergeIsFinal' /\ NamesCommit'
  BY <1>3, <1>7 DEF GateInv, MergeIsFinal, NamesCommit, Resting
<1>9. \A q \in GateProcess : gater'[q].version <= aggregate'.version
                              /\ (gater'[q] # Resting => ~Current(q)')
  BY <1>1, <1>3, <1>7 DEF GateInv, ReadsHold, Current, Resting
<1>10. ReadsHold'
  BY <1>9 DEF ReadsHold, Resting
<1>11. EvidenceHeld'
  <2> SUFFICES ASSUME NEW q \in GateProcess, gater'[q].pc = "GATE_COMMIT"
               PROVE  /\ AuditApproves(gater[q].commit)' /\ Passed(gater[q].commit)' = PlanCommand
                      /\ ~Current(q)'
    BY DEF EvidenceHeld
  <2>1. gater'[q] = gater[q] /\ gater[q].pc = "GATE_COMMIT"
    BY <1>7 DEF Resting
  <2>2. AuditApproves(gater[q].commit) /\ Passed(gater[q].commit) = PlanCommand
    BY <2>1 DEF GateInv, EvidenceHeld
  <2>3. ~Current(q)'
    BY <1>9, <2>1 DEF Resting
  <2> QED
    BY <1>2, <2>1, <2>2, <2>3 DEF AuditApproves, Passed, AcceptedAt, RecordsAt, evidenceVars
<1>12. ApprovalStands'
  <2>1. UNCHANGED <<reviews, findings, riskAccepted, records, finalAudit, approvals>>
    BY <1>2 DEF evidenceVars
  <2>2. /\ approvals # <<>> /\ reviews # <<>> /\ Last(approvals) = Last(reviews)
        /\ AuditApproves(Last(approvals)) /\ Passed(Last(approvals)) = PlanCommand
        /\ findings \X {Last(approvals)} \subseteq riskAccepted
    BY <1>4 DEF GateInv, ApprovalStands
  <2>3. AuditApproves(Last(approvals))' /\ Passed(Last(approvals))' = PlanCommand
    BY <2>1, <2>2 DEF AuditApproves, Passed, AcceptedAt, RecordsAt
  <2>4. Last(approvals) \in Ancestors[merged']
    BY <1>2, <1>5
  <2> QED
    BY <2>1, <2>2, <2>3, <2>4 DEF ApprovalStands
<1> QED
  BY <1>6, <1>8, <1>10, <1>11, <1>12 DEF GateInv

LEMMA StaleStep ==
  ASSUME GateInv, NEW p \in GateProcess, StaleReconciles(p)
  PROVE  GateInv'
<1>1. /\ Issue("RECONCILE_STALE_APPROVAL", gater[p].version)
      /\ settled' = settled \cup {gater[p].command} /\ gater' = [gater EXCEPT ![p] = Resting]
      /\ gater[p].pc = "STALE_COMMIT"
      /\ UNCHANGED <<worktree, implemented, evidenceVars, approvals, merged>>
  BY DEF StaleReconciles, End, Continue, GaterAt
<1>2. /\ BatchTypeOK' /\ BatchState # "MERGED" /\ aggregate'.version > aggregate.version
      /\ BatchState' \notin {"APPROVED_FOR_MERGE", "MERGED"}
  BY <1>1, OtherCommand, GateCommands
<1>3. gater[p].command \in GateCommand \cup StaleCommand
  BY <1>1 DEF GateInv, NamesCommit
<1>4. GateTypeOK'
  BY <1>1, <1>2, <1>3, RestingTyped, VersionIsNat DEF GateTypeOK, evidenceVars
<1>5. EvidenceGrows
  BY <1>1, <1>4, SameRecordsGrow, VersionIsNat DEF evidenceVars
<1> QED
  BY <1>1, <1>2, <1>4, <1>5, BatchLeaves

LEMMA GateCallStep ==
  ASSUME GateInv, NEW p \in GateProcess, GateCall(p)
  PROVE  GateInv'
<1>1. ASSUME NEW c \in GateCommand, GateBegin(p, c) PROVE GateInv'
  BY <1>1, CallHolds DEF GateBegin
<1>2. ASSUME NEW c \in StaleCommand, StaleBegin(p, c) PROVE GateInv'
  BY <1>2, CallHolds DEF StaleBegin
<1>3. ASSUME MergeBegin(p) PROVE GateInv'
  BY <1>3, CallHolds DEF MergeBegin
<1>4. ASSUME CallEnds(p) PROVE GateInv'
  BY <1>4, CallRefused DEF CallEnds
<1> QED
  BY <1>1, <1>2, <1>3, <1>4, VerificationStep, AuditCallStep, GateReadStep, ApproveStep, MergeStep,
     StaleStep
  DEF GateCall

(***************************************************************************)
(* What happens around the calls.                                          *)
(***************************************************************************)
LEMMA WorktreeStep ==
  ASSUME GateInv, (\E c \in Commit : HeadMoves(c)) \/ WorktreeEdited \/ WorktreeCleaned
  PROVE  GateInv'
<1>1. /\ worktree' \in [head: Commit, clean: BOOLEAN]
      /\ UNCHANGED <<aggregate, implemented, evidenceVars, approvals, settled, merged, gater>>
  <2>1. worktree \in [head: Commit, clean: BOOLEAN]
    BY DEF GateInv, GateTypeOK
  <2>2. ASSUME NEW c \in Commit, HeadMoves(c) 
        PROVE  /\ worktree' \in [head: Commit, clean: BOOLEAN]
               /\ UNCHANGED <<aggregate, implemented, evidenceVars, approvals, settled, merged, gater>>
    BY <2>2 DEF HeadMoves
  <2>3. CASE WorktreeEdited
    BY <2>1, <2>3 DEF WorktreeEdited
  <2>4. CASE WorktreeCleaned
    BY <2>1, <2>4 DEF WorktreeCleaned
  <2> QED
    BY <2>2, <2>3, <2>4
<1>2. GateTypeOK'
  BY <1>1, VersionIsNat DEF GateTypeOK, BatchTypeOK, evidenceVars
<1>3. EvidenceGrows
  BY <1>1, <1>2, SameRecordsGrow, VersionIsNat DEF evidenceVars
<1> QED
  BY <1>1, <1>2, <1>3, NobodyMoves DEF evidenceVars

(* A command of another service.                                           *)
LEMMA ServiceStep ==
  ASSUME GateInv, NEW t \in CommandTypes \ {"APPROVE_FOR_MERGE", "RECORD_EXTERNAL_MERGE"}, IssueNow(t),
         implemented' \in Commit, riskAccepted' \subseteq Finding \X Commit,
         UNCHANGED <<worktree, reviews, findings, records, finalAudit, approvals, settled, merged,
                     gater>>
  PROVE  GateInv'
<1>1. /\ BatchTypeOK' /\ BatchState # "MERGED" /\ aggregate'.version > aggregate.version
      /\ BatchState' \notin {"APPROVED_FOR_MERGE", "MERGED"}
  BY OtherCommand DEF IssueNow
<1>2. GateTypeOK'
  BY <1>1, VersionIsNat DEF GateTypeOK
<1>3. EvidenceGrows
  BY <1>2, SameRecordsGrow, VersionIsNat
<1> QED
  BY <1>1, <1>2, <1>3, BatchLeaves

LEMMA ReviewDecides ==
  ASSUME GateInv, NEW decision \in {"APPROVE_CODE_REVIEW", "REJECT_CODE_REVIEW"},
         IssueBoth("START_CODE_REVIEW", decision, aggregate.version),
         reviews' \in Seq(Commit), findings' \subseteq Finding,
         UNCHANGED <<worktree, implemented, riskAccepted, records, finalAudit, approvals, settled,
                     merged, gater>>
  PROVE  GateInv'
<1>1. /\ BatchTypeOK' /\ aggregate'.version > aggregate.version
      /\ BatchState # "MERGED" /\ BatchState' \notin {"APPROVED_FOR_MERGE", "MERGED"}
  BY ReviewMoves, VersionIsNat
<1>2. GateTypeOK'
  BY <1>1, VersionIsNat DEF GateTypeOK
<1>3. EvidenceGrows
  BY <1>2, SameRecordsGrow, VersionIsNat
<1> QED
  BY <1>1, <1>2, <1>3, BatchLeaves

LEMMA SurroundingsStep ==
  ASSUME GateInv, GateSurroundings
  PROVE  GateInv'
<1>1. GateTypeOK
  BY VersionIsNat
<1>2. ASSUME NEW t \in {"BLOCK_BATCH", "RESUME_BATCH", "RESUME_IMPLEMENTATION",
                       "MARK_IMPLEMENTATION_READY"}, IssueNow(t), OnlyBatch
      PROVE  GateInv'
  <2>1. implemented' \in Commit /\ riskAccepted' \subseteq Finding \X Commit
    BY <1>1, <1>2 DEF OnlyBatch, evidenceVars, GateTypeOK
  <2>2. t \in CommandTypes \ {"APPROVE_FOR_MERGE", "RECORD_EXTERNAL_MERGE"}
    BY GateCommands
  <2> QED
    BY <1>2, <2>1, <2>2, ServiceStep DEF OnlyBatch, evidenceVars
<1>3. ASSUME ImplementationCompletes PROVE GateInv'
  <2>1. implemented' \in Commit /\ riskAccepted' \subseteq Finding \X Commit
    BY <1>1, <1>3 DEF ImplementationCompletes, evidenceVars, GateTypeOK
  <2> QED
    BY <1>3, <2>1, ServiceStep, GateCommands DEF ImplementationCompletes, evidenceVars
<1>4. ASSUME OwnerAcceptsRisk PROVE GateInv'
  <2>1. implemented' \in Commit /\ riskAccepted' \subseteq Finding \X Commit
    BY <1>1, <1>4 DEF OwnerAcceptsRisk, GateTypeOK
  <2> QED
    BY <1>4, <2>1, ServiceStep, GateCommands DEF OwnerAcceptsRisk
<1>5. ASSUME NEW resolved \in SUBSET findings, ReviewApproves(resolved) PROVE GateInv'
  <2>1. reviews' \in Seq(Commit) /\ findings' \subseteq Finding
    BY <1>1, <1>5 DEF ReviewApproves, GateTypeOK
  <2> QED
    BY <1>5, <2>1, ReviewDecides DEF ReviewApproves
<1>6. ASSUME NEW f \in Finding, ReviewRejects(f) PROVE GateInv'
  <2>1. reviews' \in Seq(Commit) /\ findings' \subseteq Finding
    BY <1>1, <1>6 DEF ReviewRejects, GateTypeOK
  <2> QED
    BY <1>6, <2>1, ReviewDecides DEF ReviewRejects
<1> QED
  BY <1>2, <1>3, <1>4, <1>5, <1>6, AttestStep, WorktreeStep
  DEF GateSurroundings, ContinuityBlocks, OwnerResumes, ImplementationResumes, ImplementationReady

LEMMA GateInvariant == GateSpec => []GateInv
<1>1. GateInit => GateInv
  <2> SUFFICES ASSUME GateInit PROVE GateInv
    OBVIOUS
  <2>1. BatchTypeOK /\ BatchState = "IMPLEMENTATION_COMPLETE" /\ aggregate.version = 0
    BY VersionAssumption
    DEF GateInit, BatchIn, BatchTypeOK, KernelContext, BatchStates, BlockableStates, BatchState
  <2>2. GateTypeOK
    BY <2>1, RestingTyped, GateAssumption DEF GateInit, GateTypeOK
  <2> QED
    BY <2>1, <2>2
    DEF GateInit, GateInv, MergeIsFinal, NamesCommit, ReadsHold, EvidenceHeld, ApprovalStands,
        Resting
<1>2. GateInv /\ [GateNext]_gateVars => GateInv'
  <2> SUFFICES ASSUME GateInv, [GateNext]_gateVars PROVE GateInv'
    OBVIOUS
  <2>1. CASE UNCHANGED gateVars
    <3>1. GateTypeOK'
      BY <2>1, VersionIsNat DEF gateVars, evidenceVars, GateTypeOK, BatchTypeOK
    <3>2. EvidenceGrows
      BY <2>1, <3>1, SameRecordsGrow, VersionIsNat DEF gateVars, evidenceVars
    <3> QED
      BY <2>1, <3>1, <3>2, NobodyMoves DEF gateVars, evidenceVars
  <2> QED
    BY <2>1, GateCallStep, SurroundingsStep DEF GateNext
<1> QED
  BY <1>1, <1>2, PTL DEF GateSpec

(* Batch, evidence, approvals and what each process has read keep their    *)
(* types.                                                                  *)
THEOREM GateTyped == GateSpec => []GateTypeOK
BY GateInvariant, PTL DEF GateInv

(* For any commits, records, commands and processes, however gate          *)
(* evaluations, reconciliations and merges interleave with blocks,         *)
(* corrections and reviews: an approved or merged batch was approved at    *)
(* the commit of its latest review, on evidence that is still on record    *)
(* (evaluateGate, reconcileStaleApproval, markMerged).                     *)
THEOREM ApprovalsStand == GateSpec => []ApprovalStands
BY GateInvariant, PTL DEF GateInv

(***************************************************************************)
(* The stages of a batch under its runner.                                 *)
(***************************************************************************)
(* What can still happen to the batch: a blocked one goes on from where it *)
(* resumes.                                                                *)
Standing == IF batchState.at = "BLOCKED" THEN batchState.resumes ELSE batchState.at

(* Each implementation but the first answers a review; an approved batch   *)
(* does not return to its implementer or its reviewer.                     *)
Progressed ==
  /\ evidence.ready <= 1 + evidence.reviews
  /\ Standing \in {"APPROVED_FOR_IMPLEMENTATION", "IMPLEMENTING", "NEEDS_REVISION"} =>
       evidence.ready <= evidence.reviews
  /\ evidence.approved => Standing \in {"VERIFYING", "APPROVED_FOR_MERGE"}

StagesInv == StagesTypeOK /\ Progressed

LEMMA NobodyHere == NoWorkerHere \in Worker
  BY StagesAssumption DEF NoWorkerHere, Worker

LEMMA LimitsBounded ==
  ASSUME StagesTypeOK
  PROVE  /\ RoundLimit \in Nat /\ RoundLimit <= MaxReviews + MaxGrants
         /\ PassLimit \in Nat /\ PassLimit <= MaxPasses + MaxGrants
         /\ Synced \in Counters
<1>1. evidence.grants \in 0..MaxGrants /\ counters \in Counters
      /\ evidence.reviews \in 0..(MaxReviews + MaxGrants)
      /\ evidence.ready \in 0..(1 + MaxPasses + MaxGrants)
  BY DEF StagesTypeOK, Evidence
<1>2. PICK passes : passes = IF evidence.ready = 0 THEN 0 ELSE evidence.ready - 1
  OBVIOUS
<1>3. passes \in 0..(MaxPasses + MaxGrants)
  BY <1>1, <1>2, StagesAssumption
<1>4. Synced = [counters EXCEPT !.rounds = evidence.reviews, !.passes = passes]
  BY <1>2 DEF Synced
<1>5. Synced \in Counters
  BY <1>1, <1>3, <1>4 DEF Counters
<1> QED
  BY <1>1, <1>5, StagesAssumption DEF RoundLimit, PassLimit

LEMMA NextBounded ==
  ASSUME StagesTypeOK
  PROVE  NextRound \in Nat /\ NextAttempt \in Nat /\ NextRound # 0
<1>1. Synced.rounds \in Nat /\ worker.round \in Nat
  BY LimitsBounded, StagesAssumption DEF StagesTypeOK, Worker, Counters
<1>2. worker.attempt \in Nat /\ counters.attempts[worker.check] \in Nat
  BY StagesAssumption DEF StagesTypeOK, Worker, Counters
<1> QED
  BY <1>1, <1>2 DEF NextRound, NextAttempt

(* The worker is gone and the workflow stopped, for one of the reasons.    *)
LEMMA StopsTyped ==
  ASSUME StagesTypeOK,
         NEW reason \in {"FAILED", "REFUSED", "BLOCKED", "REVIEW_LIMIT", "VERIFICATION_LIMIT",
                         "AUDIT_LIMIT"},
         StopsWith(reason)
  PROVE  runRow' \in RowRecord /\ worker' \in Worker /\ worker' = NoWorkerHere
  BY NobodyHere DEF StopsWith, RowRecord

LEMMA GoesTyped ==
  ASSUME StagesTypeOK, NEW pc \in Stages, GoesTo(pc)
  PROVE  worker' \in Worker /\ worker'.ran = worker.ran
  BY DEF GoesTo, StagesTypeOK, Worker

LEMMA VerifiedTyped ==
  ASSUME StagesTypeOK, Verified
  PROVE  worker' \in Worker /\ worker'.ran = worker.ran
<1>1. PICK c, a :
        /\ c \in 1..Checks /\ a \in 0..(MaxAttempts + 1)
        /\ \/ worker' = [worker EXCEPT !.pc = "VERIFY_LOOP", !.inPhase = FALSE, !.check = c,
                                      !.attempt = a]
           \/ worker' = [worker EXCEPT !.pc = "AUDIT_ONCE", !.inPhase = FALSE]
  <2>1. PICK c : c = worker.check + 1
    OBVIOUS
  <2>2. worker.check < Checks => c \in 1..Checks
    BY <2>1, StagesAssumption DEF StagesTypeOK, Worker
  <2>3. 0 \in 0..(MaxAttempts + 1) /\ worker.check \in 1..Checks
    BY StagesAssumption DEF StagesTypeOK, Worker
  <2> QED
    BY <2>1, <2>2, <2>3 DEF Verified
<1> QED
  BY <1>1 DEF StagesTypeOK, Worker, Stages

(***************************************************************************)
(* One step: what it repeats of what was completed, and what it keeps.     *)
(***************************************************************************)
RepeatsNothing ==
  /\ worker'.ran /\ ~worker.ran => worker.check \notin evidence.accepted
  /\ evidence.audit # "NONE" => evidence'.audit = evidence.audit
  /\ evidence.approved => evidence'.reviews = evidence.reviews
  /\ evidence'.ready # evidence.ready => evidence.ready <= evidence.reviews

(* A step that leaves batch and evidence alone can only run a command.     *)
LEMMA QuietKeeps ==
  ASSUME StagesInv, UNCHANGED batchVars,
         counters' \in Counters, runRow' \in RowRecord, worker' \in Worker,
         worker'.ran => worker.ran \/ worker.check \notin evidence.accepted
  PROVE  StagesInv' /\ RepeatsNothing
  BY DEF StagesInv, StagesTypeOK, Progressed, Standing, RepeatsNothing, batchVars

LEMMA StopKeeps ==
  ASSUME StagesInv, UNCHANGED batchVars, counters' \in Counters,
         NEW reason \in {"FAILED", "REFUSED", "BLOCKED", "REVIEW_LIMIT", "VERIFICATION_LIMIT",
                         "AUDIT_LIMIT"},
         StopsWith(reason)
  PROVE  StagesInv' /\ RepeatsNothing
<1>1. /\ runRow' \in RowRecord /\ worker' \in Worker /\ ~worker'.ran
  BY StopsTyped DEF StagesInv, NoWorkerHere
<1> QED
  BY <1>1, QuietKeeps

LEMMA GoKeeps ==
  ASSUME StagesInv, UNCHANGED <<batchVars, runRow>>, counters' \in Counters,
         NEW pc \in Stages, GoesTo(pc)
  PROVE  StagesInv' /\ RepeatsNothing
<1>1. /\ runRow' \in RowRecord /\ worker' \in Worker /\ worker'.ran = worker.ran
  BY GoesTyped DEF StagesInv, StagesTypeOK
<1> QED
  BY <1>1, QuietKeeps

LEMMA WorkerStepKeeps ==
  ASSUME StagesInv,
         \/ StageBegins \/ WorkerDies \/ EntersStage \/ FindsBlocked \/ PhaseBegins
         \/ PausesAtBoundary \/ BudgetStops \/ PhaseFails
  PROVE  StagesInv' /\ RepeatsNothing
<1> counters \in Counters /\ runRow \in RowRecord /\ worker \in Worker /\ batchState \in StoredBatch
  BY DEF StagesInv, StagesTypeOK
<1>1. CASE StageBegins
  <2>1. worker' \in Worker /\ ~worker'.ran
    BY <1>1, NobodyHere DEF StageBegins, NoWorkerHere, Worker, Stages
  <2> QED
    BY <1>1, <2>1, QuietKeeps DEF StageBegins
<1>2. CASE WorkerDies
  <2>1. worker' \in Worker /\ ~worker'.ran
    BY <1>2, NobodyHere DEF WorkerDies, NoWorkerHere
  <2> QED
    BY <1>2, <2>1, QuietKeeps DEF WorkerDies
<1>3. CASE EntersStage
  <2>1. ResumeStage(batchState.at) \in Stages
    BY <1>3 DEF EntersStage, ResumeStage, Stages, StoredBatch, WorkStates
  <2> QED
    BY <1>3, <2>1, GoKeeps DEF EntersStage
<1>4. CASE FindsBlocked
  BY <1>4, StopKeeps DEF FindsBlocked
<1>5. CASE PhaseBegins
  <2>1. worker' \in Worker /\ ~worker'.ran
    BY <1>5 DEF PhaseBegins, Worker
  <2> QED
    BY <1>5, <2>1, QuietKeeps DEF PhaseBegins
<1>6. CASE PausesAtBoundary
  <2>1. worker' \in Worker /\ ~worker'.ran
    BY <1>6, NobodyHere DEF PausesAtBoundary, NoWorkerHere
  <2>2. runRow' \in RowRecord
    BY <1>6 DEF PausesAtBoundary, RowRecord
  <2> QED
    BY <1>6, <2>1, <2>2, QuietKeeps DEF PausesAtBoundary
<1>7. CASE BudgetStops
  BY <1>7, StopKeeps DEF BudgetStops
<1>8. CASE PhaseFails
  BY <1>8, StopKeeps DEF PhaseFails
<1> QED
  BY <1>1, <1>2, <1>3, <1>4, <1>5, <1>6, <1>7, <1>8

LEMMA LoopStepKeeps ==
  ASSUME StagesInv,
         \/ EntersRound \/ RoundsExhausted \/ ReviewRefused \/ EntersPass
         \/ EntersAttempt \/ AttemptsExhausted \/ CountsAudit \/ AuditsExhausted
  PROVE  StagesInv' /\ RepeatsNothing
<1> counters \in Counters /\ runRow \in RowRecord /\ worker \in Worker /\ StagesTypeOK
  BY DEF StagesInv, StagesTypeOK
<1>1. CASE EntersRound
  <2>1. PICK n, base : n = NextRound /\ base = IF worker.round = 0 THEN Synced ELSE counters
    OBVIOUS
  <2>2. n \in 0..(MaxReviews + MaxGrants) /\ base \in Counters
    BY <1>1, <2>1, NextBounded, LimitsBounded, StagesAssumption DEF EntersRound
  <2>3. n \in 0..(MaxReviews + MaxGrants + 1)
    BY <2>2, StagesAssumption
  <2>4. counters' = [base EXCEPT !.rounds = n] /\ worker' = [worker EXCEPT !.pc = "REVIEW", !.round = n]
        /\ UNCHANGED <<batchVars, runRow>>
    BY <1>1, <2>1 DEF EntersRound
  <2>5. counters' \in Counters
    BY <2>2, <2>4 DEF Counters
  <2>6. worker' \in Worker /\ worker'.ran = worker.ran
    BY <2>3, <2>4 DEF Worker, Stages
  <2> QED
    BY <2>4, <2>5, <2>6, QuietKeeps
<1>2. CASE RoundsExhausted
  <2>1. counters' \in Counters
    BY <1>2, LimitsBounded DEF RoundsExhausted
  <2> QED
    BY <1>2, <2>1, StopKeeps DEF RoundsExhausted
<1>3. CASE ReviewRefused
  BY <1>3, StopKeeps DEF ReviewRefused
<1>4. CASE EntersPass
  <2>1. PICK n : n = counters.passes + 1
    OBVIOUS
  <2>2. n \in 0..(MaxPasses + MaxGrants)
    BY <1>4, <2>1, LimitsBounded, StagesAssumption DEF EntersPass, Counters
  <2>3. counters' = [counters EXCEPT !.passes = n]
    BY <1>4, <2>1 DEF EntersPass
  <2>4. counters' \in Counters
    BY <2>2, <2>3 DEF Counters
  <2> QED
    BY <1>4, <2>4, GoKeeps DEF EntersPass, Stages
<1>5. CASE EntersAttempt
  <2>1. PICK n : n = NextAttempt
    OBVIOUS
  <2>2. n \in 0..MaxAttempts /\ n \in 0..(MaxAttempts + 1)
    BY <1>5, <2>1, NextBounded, StagesAssumption DEF EntersAttempt
  <2>3. /\ counters' = [counters EXCEPT !.attempts = [counters.attempts EXCEPT ![worker.check] = n]]
        /\ worker' = [worker EXCEPT !.pc = "VERIFY", !.attempt = n]
        /\ UNCHANGED <<batchVars, runRow>>
    BY <1>5, <2>1 DEF EntersAttempt
  <2>4. counters' \in Counters
    BY <2>2, <2>3 DEF Counters
  <2>5. worker' \in Worker /\ worker'.ran = worker.ran
    BY <2>2, <2>3 DEF Worker, Stages
  <2> QED
    BY <2>3, <2>4, <2>5, QuietKeeps
<1>6. CASE AttemptsExhausted
  BY <1>6, StopKeeps DEF AttemptsExhausted
<1>7. CASE CountsAudit
  <2>1. counters' \in Counters
    BY <1>7 DEF CountsAudit, Counters
  <2> QED
    BY <1>7, <2>1, GoKeeps DEF CountsAudit, Stages
<1>8. CASE AuditsExhausted
  BY <1>8, StopKeeps DEF AuditsExhausted
<1> QED
  BY <1>1, <1>2, <1>3, <1>4, <1>5, <1>6, <1>7, <1>8

LEMMA RestKeeps ==
  ASSUME StagesInv,
         \/ FindsVerified \/ RunsCommand \/ NotAccepted \/ BranchPushed
         \/ PauseRequested \/ PauseSettled \/ Resumed
  PROVE  StagesInv' /\ RepeatsNothing
<1> counters \in Counters /\ runRow \in RowRecord /\ worker \in Worker /\ StagesTypeOK
  BY DEF StagesInv, StagesTypeOK
<1>1. CASE FindsVerified
  <2>1. worker' \in Worker /\ worker'.ran = worker.ran
    BY <1>1, VerifiedTyped DEF FindsVerified
  <2> QED
    BY <1>1, <2>1, QuietKeeps DEF FindsVerified
<1>2. CASE RunsCommand
  <2>1. worker' \in Worker /\ worker.check \notin evidence.accepted
    BY <1>2 DEF RunsCommand, AlreadyVerified, Worker
  <2> QED
    BY <1>2, <2>1, QuietKeeps DEF RunsCommand
<1>3. CASE NotAccepted
  BY <1>3, GoKeeps DEF NotAccepted, Stages
<1>4. CASE BranchPushed
  <2>1. worker' \in Worker /\ ~worker'.ran
    BY <1>4, NobodyHere DEF BranchPushed, NoWorkerHere
  <2>2. runRow' \in RowRecord
    BY <1>4 DEF BranchPushed, RowRecord
  <2> QED
    BY <1>4, <2>1, <2>2, QuietKeeps DEF BranchPushed
<1>5. CASE PauseRequested \/ PauseSettled \/ Resumed
  <2>1. runRow' \in RowRecord /\ UNCHANGED <<batchVars, counters, worker>>
    BY <1>5 DEF PauseRequested, PauseSettled, Resumed, RowRecord
  <2> QED
    BY <2>1, QuietKeeps
<1> QED
  BY <1>1, <1>2, <1>3, <1>4, <1>5

(* The implementer and the reviewer work on a batch that is not approved.  *)
LEMMA ImplementerKeeps ==
  ASSUME StagesInv,
         \/ ContinuityBreaks \/ StartsImplementing \/ WorkReady \/ WorkCompletes
         \/ DispositionsSubmitted
  PROVE  StagesInv' /\ RepeatsNothing
<1> /\ counters \in Counters /\ runRow \in RowRecord /\ worker \in Worker /\ StagesTypeOK
    /\ batchState \in StoredBatch /\ evidence \in Evidence /\ Progressed
  BY DEF StagesInv, StagesTypeOK
<1>1. CASE ContinuityBreaks
  <2>1. /\ batchState.at \in {"IMPLEMENTING", "IMPLEMENTATION_COMPLETE", "NEEDS_REVISION"}
        /\ batchState' = [at |-> "BLOCKED", resumes |-> batchState.at]
        /\ UNCHANGED <<evidence, counters>>
    BY <1>1 DEF ContinuityBreaks
  <2>2. runRow' \in RowRecord /\ worker' \in Worker /\ ~worker'.ran
    BY <1>1, StopsTyped DEF ContinuityBreaks, NoWorkerHere
  <2>3. batchState' \in StoredBatch
    BY <2>1 DEF StoredBatch, WorkStates
  <2>4. Standing' = Standing
    BY <2>1 DEF Standing
  <2> QED
    BY <2>1, <2>2, <2>3, <2>4 DEF StagesInv, StagesTypeOK, Progressed, RepeatsNothing
<1>2. CASE StartsImplementing
  <2>1. /\ batchState.at \in {"APPROVED_FOR_IMPLEMENTATION", "NEEDS_REVISION"}
        /\ batchState' = [batchState EXCEPT !.at = "IMPLEMENTING"]
        /\ UNCHANGED <<evidence, counters, runRow, worker>>
    BY <1>2 DEF StartsImplementing, MovesTo
  <2>2. batchState' \in StoredBatch
    BY <2>1 DEF StoredBatch, WorkStates
  <2>3. Standing = batchState.at /\ Standing' = "IMPLEMENTING"
    BY <2>1 DEF Standing, StoredBatch
  <2> QED
    BY <2>1, <2>2, <2>3 DEF StagesInv, StagesTypeOK, Progressed, RepeatsNothing
<1>3. CASE WorkReady
  <2>1. PICK n : n = evidence.ready + 1
    OBVIOUS
  <2>2. /\ batchState.at = "IMPLEMENTING" /\ evidence.ready < 1 + MaxPasses
        /\ batchState' = [batchState EXCEPT !.at = "AWAITING_COMMIT"]
        /\ evidence' = [evidence EXCEPT !.ready = n]
        /\ UNCHANGED <<counters, runRow, worker>>
    BY <1>3, <2>1 DEF WorkReady, MovesTo
  <2>3. n \in 0..(1 + MaxPasses + MaxGrants)
    BY <2>1, <2>2, StagesAssumption DEF Evidence
  <2>4. batchState' \in StoredBatch /\ evidence' \in Evidence
    BY <2>2, <2>3 DEF StoredBatch, WorkStates, Evidence
  <2>5. Standing = "IMPLEMENTING" /\ Standing' = "AWAITING_COMMIT"
    BY <2>2 DEF Standing, StoredBatch
  <2>6. /\ evidence'.ready = n /\ evidence'.reviews = evidence.reviews
        /\ evidence'.approved = evidence.approved /\ evidence'.audit = evidence.audit
    BY <2>2 DEF Evidence
  <2>7. evidence.ready <= evidence.reviews /\ ~evidence.approved /\ n <= 1 + evidence.reviews
    BY <2>1, <2>5, StagesAssumption DEF Progressed, Evidence
  <2> QED
    BY <2>2, <2>4, <2>5, <2>6, <2>7 DEF StagesInv, StagesTypeOK, Progressed, RepeatsNothing
<1>4. CASE WorkCompletes
  <2>1. /\ batchState.at = "AWAITING_COMMIT"
        /\ batchState' = [batchState EXCEPT !.at = "IMPLEMENTATION_COMPLETE"]
        /\ UNCHANGED <<evidence, counters, runRow>>
    BY <1>4 DEF WorkCompletes, MovesTo
  <2>2. worker' \in Worker /\ worker'.ran = worker.ran
    BY <1>4, GoesTyped DEF WorkCompletes, Stages
  <2>3. batchState' \in StoredBatch
    BY <2>1 DEF StoredBatch, WorkStates
  <2>4. Standing = "AWAITING_COMMIT" /\ Standing' = "IMPLEMENTATION_COMPLETE"
    BY <2>1 DEF Standing, StoredBatch
  <2> QED
    BY <2>1, <2>2, <2>3, <2>4 DEF StagesInv, StagesTypeOK, Progressed, RepeatsNothing
<1>5. CASE DispositionsSubmitted
  <2>1. /\ evidence' = [evidence EXCEPT !.disposed = TRUE]
        /\ UNCHANGED <<batchState, counters, runRow>>
    BY <1>5 DEF DispositionsSubmitted
  <2>2. worker' \in Worker /\ worker'.ran = worker.ran
    BY <1>5, GoesTyped DEF DispositionsSubmitted, Stages
  <2>3. evidence' \in Evidence
    BY <2>1 DEF Evidence
  <2>4. /\ evidence'.ready = evidence.ready /\ evidence'.reviews = evidence.reviews
        /\ evidence'.approved = evidence.approved /\ evidence'.audit = evidence.audit
    BY <2>1 DEF Evidence
  <2> QED
    BY <2>1, <2>2, <2>3, <2>4 DEF StagesInv, StagesTypeOK, Progressed, Standing, RepeatsNothing
<1> QED
  BY <1>1, <1>2, <1>3, <1>4, <1>5

LEMMA ReviewerKeeps ==
  ASSUME StagesInv, RoundApproves \/ RoundRejects
  PROVE  StagesInv' /\ RepeatsNothing
<1> /\ counters \in Counters /\ runRow \in RowRecord /\ worker \in Worker /\ StagesTypeOK
    /\ batchState \in StoredBatch /\ evidence \in Evidence /\ Progressed
  BY DEF StagesInv, StagesTypeOK
<1>1. PICK n : n = evidence.reviews + 1
  OBVIOUS
<1>2. batchState.at = "IMPLEMENTATION_COMPLETE" /\ evidence.reviews < RoundLimit
  BY DEF RoundApproves, RoundRejects, Reviewable
<1>3. n \in 0..(MaxReviews + MaxGrants)
  BY <1>1, <1>2, LimitsBounded, StagesAssumption DEF Evidence
<1>4. ~evidence.approved /\ evidence.ready <= n
  BY <1>1, <1>2, StagesAssumption DEF Progressed, Standing, Evidence
<1>5. evidence.audit # "NONE" => evidence'.audit = evidence.audit
  BY DEF RoundApproves, RoundRejects, Evidence
<1>6. worker' \in Worker /\ worker'.ran = worker.ran
  BY GoesTyped DEF RoundApproves, RoundRejects, Stages
<1>7. CASE RoundApproves
  <2>1. /\ batchState' = [batchState EXCEPT !.at = "VERIFYING"]
        /\ evidence' = [evidence EXCEPT !.reviews = n, !.approved = TRUE]
        /\ UNCHANGED <<counters, runRow>>
    BY <1>7, <1>1 DEF RoundApproves, MovesTo
  <2>2. batchState' \in StoredBatch /\ evidence' \in Evidence
    BY <2>1, <1>3 DEF StoredBatch, WorkStates, Evidence
  <2>3. Standing' = "VERIFYING" /\ evidence'.ready = evidence.ready /\ evidence'.reviews = n
    BY <2>1 DEF Standing, StoredBatch, Evidence
  <2>4. evidence.ready <= 1 + n
    BY <1>3, <1>4, StagesAssumption DEF Evidence
  <2> QED
    BY <2>1, <2>2, <2>3, <2>4, <1>4, <1>5, <1>6
       DEF StagesInv, StagesTypeOK, Progressed, RepeatsNothing
<1>8. CASE RoundRejects
  <2>1. /\ \/ batchState' = [batchState EXCEPT !.at = "NEEDS_REVISION"]
           \/ batchState' = [at |-> "BLOCKED", resumes |-> "NEEDS_REVISION"]
        /\ evidence' = [evidence EXCEPT !.reviews = n, !.disposed = FALSE]
        /\ UNCHANGED <<counters, runRow>>
    BY <1>8, <1>1 DEF RoundRejects
  <2>2. batchState' \in StoredBatch /\ evidence' \in Evidence
    <3>1. batchState' \in StoredBatch
      BY <2>1 DEF StoredBatch, WorkStates
    <3>2. evidence' \in Evidence
      BY <2>1, <1>3 DEF Evidence
    <3> QED
      BY <3>1, <3>2
  <2>3. /\ Standing' = "NEEDS_REVISION"
        /\ evidence'.ready = evidence.ready /\ evidence'.reviews = n
        /\ evidence'.approved = evidence.approved
    BY <2>1 DEF Standing, StoredBatch, Evidence
  <2>4. evidence.ready <= 1 + n
    BY <1>3, <1>4, StagesAssumption DEF Evidence
  <2> QED
    BY <2>1, <2>2, <2>3, <2>4, <1>4, <1>5, <1>6
       DEF StagesInv, StagesTypeOK, Progressed, RepeatsNothing
<1> QED
  BY <1>7, <1>8

(* The gate's side, and the operator.                                      *)
LEMMA GatekeeperKeeps ==
  ASSUME StagesInv, Attests \/ Audits \/ GatePasses
  PROVE  StagesInv' /\ RepeatsNothing
<1> /\ counters \in Counters /\ runRow \in RowRecord /\ worker \in Worker /\ StagesTypeOK
    /\ batchState \in StoredBatch /\ evidence \in Evidence /\ Progressed
  BY DEF StagesInv, StagesTypeOK
<1>1. CASE Attests
  <2>1. /\ evidence' = [evidence EXCEPT !.accepted = evidence.accepted \cup {worker.check}]
        /\ UNCHANGED <<batchState, counters, runRow>>
    BY <1>1 DEF Attests
  <2>2. worker' \in Worker /\ worker'.ran = worker.ran
    BY <1>1, VerifiedTyped DEF Attests
  <2>3. evidence' \in Evidence
    BY <2>1 DEF Evidence, Worker
  <2>4. /\ evidence'.ready = evidence.ready /\ evidence'.reviews = evidence.reviews
        /\ evidence'.approved = evidence.approved /\ evidence'.audit = evidence.audit
    BY <2>1 DEF Evidence
  <2> QED
    BY <2>1, <2>2, <2>3, <2>4 DEF StagesInv, StagesTypeOK, Progressed, Standing, RepeatsNothing
<1>2. CASE Audits
  <2>1. PICK verdict \in Verdicts :
          /\ evidence' = [evidence EXCEPT !.audit = verdict]
          /\ batchState' = IF verdict \in {"APPROVED", evidence.audit} THEN batchState
                           ELSE [at |-> "BLOCKED", resumes |-> "VERIFYING"]
          /\ IF verdict = "APPROVED" THEN GoesTo("GATE") /\ UNCHANGED runRow
                                     ELSE StopsWith("FAILED")
    BY <1>2 DEF Audits
  <2>2. /\ verdict \in {"APPROVED", "NEEDS_REVISION"}
        /\ evidence.audit # "NONE" => verdict = evidence.audit
        /\ evidence.audit = "NONE" => batchState.at = "VERIFYING"
    BY <2>1 DEF Verdicts, Evidence
  <2>3. runRow' \in RowRecord /\ worker' \in Worker /\ (worker'.ran => worker.ran)
    <3>1. CASE verdict = "APPROVED"
      BY <2>1, <3>1, GoesTyped DEF Stages
    <3>2. CASE verdict # "APPROVED"
      BY <2>1, <3>2, StopsTyped DEF NoWorkerHere
    <3> QED
      BY <3>1, <3>2
  <2>4. batchState' \in StoredBatch /\ evidence' \in Evidence
    BY <2>1, <2>2 DEF StoredBatch, WorkStates, Evidence
  <2>5. Standing' = Standing
    BY <2>1, <2>2 DEF Standing
  <2>6. /\ evidence'.ready = evidence.ready /\ evidence'.reviews = evidence.reviews
        /\ evidence'.approved = evidence.approved /\ evidence'.audit = verdict
    BY <2>1 DEF Evidence
  <2>7. counters' = counters
    BY <1>2 DEF Audits
  <2> QED
    BY <2>2, <2>3, <2>4, <2>5, <2>6, <2>7 DEF StagesInv, StagesTypeOK, Progressed, RepeatsNothing
<1>3. CASE GatePasses
  <2>1. /\ batchState' = [batchState EXCEPT !.at = "APPROVED_FOR_MERGE"]
        /\ UNCHANGED <<evidence, counters, runRow>>
    BY <1>3 DEF GatePasses, MovesTo
  <2>2. worker' \in Worker /\ worker'.ran = worker.ran
    BY <1>3, GoesTyped DEF GatePasses, Stages
  <2>3. batchState' \in StoredBatch /\ Standing' = "APPROVED_FOR_MERGE"
    BY <2>1 DEF StoredBatch, WorkStates, Standing
  <2> QED
    BY <2>1, <2>2, <2>3 DEF StagesInv, StagesTypeOK, Progressed, RepeatsNothing
<1> QED
  BY <1>1, <1>2, <1>3

LEMMA OperatorKeeps ==
  ASSUME StagesInv, FixAgainDecided \/ RiskAccepted
  PROVE  StagesInv' /\ RepeatsNothing
<1> /\ counters \in Counters /\ runRow \in RowRecord /\ worker \in Worker /\ StagesTypeOK
    /\ batchState \in StoredBatch /\ evidence \in Evidence /\ Progressed
  BY DEF StagesInv, StagesTypeOK
<1>1. runRow' \in RowRecord /\ UNCHANGED <<counters, worker>>
  BY DEF FixAgainDecided, RiskAccepted, RunsAgain, RowRecord
<1>2. CASE UNCHANGED batchVars
  BY <1>1, <1>2, QuietKeeps
<1>3. CASE FixAgainDecided /\ ~UNCHANGED batchVars
  <2>1. PICK n : n = evidence.grants + 1
    OBVIOUS
  <2>2. /\ batchState.at = "BLOCKED" /\ evidence.grants < MaxGrants
        /\ batchState' = [batchState EXCEPT !.at = batchState.resumes]
        /\ evidence' = [evidence EXCEPT !.grants = n]
    BY <1>3, <2>1 DEF FixAgainDecided, MovesTo
  <2>3. n \in 0..MaxGrants
    BY <2>1, <2>2, StagesAssumption DEF Evidence
  <2>4. batchState' \in StoredBatch /\ evidence' \in Evidence
    BY <2>2, <2>3 DEF StoredBatch, Evidence
  <2>5. Standing' = Standing
    BY <2>2 DEF Standing, StoredBatch, WorkStates
  <2>6. /\ evidence'.ready = evidence.ready /\ evidence'.reviews = evidence.reviews
        /\ evidence'.approved = evidence.approved /\ evidence'.audit = evidence.audit
    BY <2>2 DEF Evidence
  <2> QED
    BY <1>1, <2>4, <2>5, <2>6 DEF StagesInv, StagesTypeOK, Progressed, RepeatsNothing
<1>4. CASE RiskAccepted
  <2>1. batchState' = [batchState EXCEPT !.at = "VERIFYING"] /\ UNCHANGED evidence
    BY <1>4 DEF RiskAccepted, MovesTo
  <2>2. batchState' \in StoredBatch /\ Standing' = "VERIFYING"
    BY <2>1 DEF StoredBatch, WorkStates, Standing
  <2> QED
    BY <1>1, <2>1, <2>2 DEF StagesInv, StagesTypeOK, Progressed, RepeatsNothing
<1> QED
  BY <1>2, <1>3, <1>4

LEMMA StagesStart == StagesInit => StagesInv
<1> SUFFICES ASSUME StagesInit PROVE StagesInv
  OBVIOUS
<1>1. batchState \in StoredBatch /\ evidence \in Evidence
  BY StagesAssumption DEF StagesInit, StoredBatch, WorkStates, Evidence
<1>2. counters \in Counters /\ runRow \in RowRecord /\ worker \in Worker
  BY NobodyHere, StagesAssumption DEF StagesInit, Counters, RowRecord
<1>3. Progressed
  BY DEF StagesInit, Progressed, Standing
<1> QED
  BY <1>1, <1>2, <1>3 DEF StagesInv, StagesTypeOK

LEMMA StagesStep ==
  ASSUME StagesInv, [StagesNext]_stageVars
  PROVE  StagesInv' /\ (StagesNext => RepeatsNothing)
<1>1. CASE StagesNext
  BY <1>1, WorkerStepKeeps, LoopStepKeeps, RestKeeps, ImplementerKeeps, ReviewerKeeps,
     GatekeeperKeeps, OperatorKeeps
     DEF StagesNext, ReviewStep, GateStep
<1>2. CASE UNCHANGED stageVars
  BY <1>2, QuietKeeps DEF StagesInv, StagesTypeOK, stageVars, batchVars
<1> QED
  BY <1>1, <1>2

(* The stages keep their types: no counter passes its limit, grants        *)
(* included (runBatch, syncPacing).                                        *)
THEOREM StagesTyped == StagesSpec => []StagesTypeOK
<1>1. StagesInv => StagesTypeOK
  BY DEF StagesInv
<1>2. StagesInv /\ [StagesNext]_stageVars => StagesInv'
  BY StagesStep
<1> QED
  BY StagesStart, <1>1, <1>2, PTL DEF StagesSpec

(* What is completed is not made again (runBatch, resumeStage), through    *)
(* any order of deaths, pauses, stops, grants and accepted risks.          *)
THEOREM CompletedStays == StagesSpec => CompletedNeverRepeated
<1>1. StagesInv /\ [StagesNext]_stageVars => StagesInv'
  BY StagesStep
<1>2. StagesInv /\ [StagesNext]_stageVars => [RepeatsNothing]_stageVars
  BY StagesStep
<1>3. StagesSpec => [][RepeatsNothing]_stageVars
  BY StagesStart, <1>1, <1>2, PTL DEF StagesSpec
<1> QED
  BY <1>3 DEF CompletedNeverRepeated, RepeatsNothing

(***************************************************************************)
(* The phase as it is checked: a behaviour picks one of six sides.         *)
(***************************************************************************)
(* Whichever side is picked, what happens is a behaviour of each model:    *)
(* the sides share no variable, so the others stutter.  All that is proved *)
(* of the six models is thereby true of the specification that is checked. *)
THEOREM SidesAreBehaviours ==
  PhaseSpec => /\ RunsSpec /\ GateSpec /\ StagesSpec
               /\ CaptureSpec /\ BaselineSpec /\ AuditSpec
<1>1. PhaseInit => /\ RunsInit /\ GateInit /\ StagesInit
                   /\ CaptureInit /\ BaselineInit /\ AuditInit
  BY DEF PhaseInit
<1>2. ASSUME [PhaseNext]_phaseVars
      PROVE  /\ [RunsNext]_runVars /\ [GateNext]_gateVars /\ [StagesNext]_stageVars
             /\ [CaptureNext]_captureVars /\ [BaselineNext]_baselineVars /\ [AuditNext]_auditVars
  BY <1>2 DEF PhaseNext, ReceiptsSide, EvidenceSide, StagesSide, CaptureSide, BaselineSide,
              WholeSide, phaseVars
<1> QED
  BY <1>1, <1>2, PTL
  DEF PhaseSpec, RunsSpec, GateSpec, StagesSpec, CaptureSpec, BaselineSpec, AuditSpec

(* The side that is explored keeps its types, and there is one.            *)
THEOREM PhaseTyped == PhaseSpec => []PhaseTypeOK
<1> DEFINE Picked ==
      side \in {"RECEIPTS", "EVIDENCE", "STAGES", "CAPTURE", "BASELINE", "WHOLE"}
<1>1. PhaseInit => Picked
  BY DEF PhaseInit
<1>2. Picked /\ [PhaseNext]_phaseVars => Picked'
  BY DEF PhaseNext, ReceiptsSide, EvidenceSide, StagesSide, CaptureSide, BaselineSide,
         WholeSide, phaseVars
<1>3. PhaseSpec => []Picked
  BY <1>1, <1>2, PTL DEF PhaseSpec
<1>4. /\ Picked /\ RunsTypeOK /\ GateTypeOK /\ StagesTypeOK
      /\ EvidenceTypeOK /\ BaselineTypeOK /\ AuditTypeOK
      => PhaseTypeOK
  BY DEF PhaseTypeOK
<1> QED
  BY SidesAreBehaviours, ServicesTyped, GateTyped, StagesTyped, EvidenceTyped, BaselineTyped,
     WorkflowTyped, <1>3, <1>4, PTL
=============================================================================
