------------------------------- MODULE Baseline -------------------------------
(* Baselines (review-workflow-baseline): the findings one verification     *)
(* record reported are captured, approved by the reviewer, and a later     *)
(* record is compared with them; the reviewer may attest the comparison.   *)
(* Findings are written to a file, then the row is saved: a process may    *)
(* die between the two.  Records and their logs never change               *)
(* (VerificationEvidence): they are taken as they were saved.              *)
EXTENDS Naturals

CONSTANTS
  Tip,          \* commits HEAD may name
  Tooling,       \* a command with its tool version and configuration
  Report,        \* what a run may report: how often each finding occurs
  Reported,      \* saved verification records
  BaselineId,
  ComparisonId,
  NoBaseline, NoFindings, NoComparison

ASSUME BaselineAssumption ==
  \A r, s \in Report : DOMAIN r = DOMAIN s /\ \A f \in DOMAIN r : r[f] \in Nat

VARIABLES
  tip,          \* HEAD of the repository
  reported,      \* what each record says
  artifacts,     \* the findings file of each baseline and comparison
  baselines,     \* the record each baseline was captured from
  rulings,       \* the reviewer's <<baseline, accepted>> decisions
  comparisons,
  endorsed       \* comparisons with an accepted attestation

baselineVars == <<tip, reported, artifacts, baselines, rulings, comparisons, endorsed>>

(* Seeded fault: occurrences of the same finding are not told apart.       *)
FirstOccurrences(report) == {<<f, 1>> : f \in {g \in DOMAIN report : report[g] > 0}}

(* A finding is known by what it says and where, and its occurrences are   *)
(* numbered, not placed: moved lines do not make it another finding.       *)
Fingerprints(report) == UNION {{f} \X (1..report[f]) : f \in DOMAIN report}

Occurrence == UNION {Fingerprints(r) : r \in Report}

Saved == [commit: Tip, tooling: Tooling, exited: BOOLEAN, report: Report]

Comparison ==
  [baseline: BaselineId, capture: Reported, result: {"PASSED", "FAILED", "INCOMPARABLE"}]

ASSUME NoBaselineAssumption == NoBaseline \notin Reported /\ NoComparison \notin Comparison

BaselineTypeOK ==
  /\ tip \in Tip
  /\ reported \in [Reported -> Saved]
  /\ artifacts \in [BaselineId \cup ComparisonId -> (SUBSET Occurrence) \cup {NoFindings}]
  /\ baselines \in [BaselineId -> Reported \cup {NoBaseline}]
  /\ rulings \subseteq BaselineId \X BOOLEAN
  /\ comparisons \in [ComparisonId -> Comparison \cup {NoComparison}]
  /\ endorsed \subseteq {m \in ComparisonId : comparisons[m] # NoComparison}

BaselineInit ==
  /\ tip \in Tip
  /\ reported \in [Reported -> Saved]
  /\ artifacts = [a \in BaselineId \cup ComparisonId |-> NoFindings]
  /\ baselines = [b \in BaselineId |-> NoBaseline]
  /\ rulings = {}
  /\ comparisons = [m \in ComparisonId |-> NoComparison]
  /\ endorsed = {}

(* The log is read back, checked against the record and normalised.        *)
FindingsOf(c) == Fingerprints(reported[c].report)

BranchMoves ==
  /\ tip' \in Tip
  /\ UNCHANGED <<reported, artifacts, baselines, rulings, comparisons, endorsed>>

(* Created exclusively, or the same already.                               *)
StoresFindings(a, found) ==
  /\ artifacts[a] \in {NoFindings, found}
  /\ artifacts' = [artifacts EXCEPT ![a] = found]

(* An exited record and an accepted baseline: with another command, tool   *)
(* version or configuration nothing is compared.                           *)
MayCompare(b, c) == <<b, TRUE>> \in rulings /\ reported[c].exited

Comparable(b, c) == reported[c].tooling = reported[baselines[b]].tooling

(* A record is the baseline of one id only.                                *)
SavesBaseline(b, c) ==
  /\ baselines[b] = NoBaseline /\ \A other \in BaselineId : baselines[other] # c
  /\ baselines' = [baselines EXCEPT ![b] = c]

CapturesBaseline(b, c) ==
  /\ reported[c].exited /\ StoresFindings(b, FindingsOf(c))
  /\ SavesBaseline(b, c)
  /\ UNCHANGED <<tip, reported, rulings, comparisons, endorsed>>

(* The process dies, or the row is refused, after the file was written.    *)
LeavesFindings(a, c) ==
  /\ reported[c].exited
  /\ a \in ComparisonId => \E b \in BaselineId : <<b, TRUE>> \in rulings /\ Comparable(b, c)
  /\ StoresFindings(a, FindingsOf(c))
  /\ UNCHANGED <<tip, reported, baselines, rulings, comparisons, endorsed>>

RulesOnBaseline(b, accepted) ==
  /\ baselines[b] # NoBaseline
  /\ rulings' = rulings \cup {<<b, accepted>>}
  /\ UNCHANGED <<tip, reported, artifacts, baselines, comparisons, endorsed>>

Introduced(b, c) == FindingsOf(c) \ FindingsOf(baselines[b])

SavesComparison(m, b, c, result) ==
  /\ comparisons[m] = NoComparison
  /\ comparisons' = [comparisons EXCEPT ![m] =
       [baseline |-> b, capture |-> c, result |-> result]]
  /\ UNCHANGED <<tip, reported, baselines, rulings, endorsed>>

ComparesFindings(m, b, c) ==
  /\ MayCompare(b, c) /\ Comparable(b, c)
  /\ StoresFindings(m, FindingsOf(c))
  /\ SavesComparison(m, b, c, IF Introduced(b, c) = {} THEN "PASSED" ELSE "FAILED")

FindsIncomparable(m, b, c) ==
  /\ MayCompare(b, c) /\ ~Comparable(b, c)
  /\ SavesComparison(m, b, c, "INCOMPARABLE")
  /\ UNCHANGED artifacts

Endorsable(m) == comparisons[m] # NoComparison /\ comparisons[m].result = "PASSED"

Endorses(m) ==
  /\ Endorsable(m)
  /\ tip = reported[comparisons[m].capture].commit
  /\ endorsed' = endorsed \cup {m}
  /\ UNCHANGED <<tip, reported, artifacts, baselines, rulings, comparisons>>

BaselineNext ==
  \/ BranchMoves
  \/ \E b \in BaselineId :
       \/ \E c \in Reported : CapturesBaseline(b, c)
       \/ \E accepted \in BOOLEAN : RulesOnBaseline(b, accepted)
  \/ \E a \in BaselineId \cup ComparisonId, c \in Reported : LeavesFindings(a, c)
  \/ \E m \in ComparisonId, b \in BaselineId, c \in Reported :
       ComparesFindings(m, b, c) \/ FindsIncomparable(m, b, c)
  \/ \E m \in ComparisonId : Endorses(m)

BaselineSpec == BaselineInit /\ [][BaselineNext]_baselineVars

(***************************************************************************)
(* Properties.                                                             *)
(***************************************************************************)
(* An endorsed comparison introduces nothing: whatever the tool reported   *)
(* at the compared commit, it reported at least as often in the run the    *)
(* reviewer accepted as the baseline, with the same command, version and   *)
(* configuration.                                                          *)
EndorsedIntroducesNothing ==
  \A m \in endorsed :
    LET now == reported[comparisons[m].capture]
        then == reported[baselines[comparisons[m].baseline]]
    IN  /\ <<comparisons[m].baseline, TRUE>> \in rulings
        /\ now.tooling = then.tooling
        /\ \A f \in DOMAIN now.report : now.report[f] <= then.report[f]
=============================================================================
