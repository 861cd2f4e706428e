------------------------- MODULE VerificationEvidence -------------------------
(* Verification evidence (review-workflow-verification): a command is run   *)
(* at HEAD, or a result is ingested; its log is written to a file of the   *)
(* record's id, the record is saved in the database, and an attestor       *)
(* accepts it.  Log and record are two writes: processes race and die      *)
(* between them, and retry under the same id.                              *)
EXTENDS Naturals

CONSTANTS
  Revision,    \* a commit HEAD may name, with the configuration in force there
  Capture,     \* verification record ids
  Verifier,    \* processes that capture evidence
  MaxRuns,     \* executions, each with timestamps of its own
  NoLog, NoCapture

ASSUME EvidenceAssumption == MaxRuns \in Nat

VARIABLES
  checkout,    \* HEAD
  runs,        \* executions so far
  logs,        \* the log file of each record id
  captured,    \* the saved verification records
  attested,    \* records with an accepted attestation
  verifier     \* what each process is doing

captureVars == <<checkout, runs, logs, captured, attested, verifier>>

(* Executed by CodeMoot, for the implementer or for someone else, or       *)
(* ingested, from trusted CI or from elsewhere.                            *)
Origins == {"EXECUTED", "IMPLEMENTER", "CI", "EXTERNAL"}

(* Ingested evidence carries the timestamps it came with: 0.               *)
Log == [at: 0..MaxRuns, succeeded: BOOLEAN]

CaptureRecord == [origin: Origins, revision: Revision, log: Log]

ASSUME NoEvidenceAssumption == NoLog \notin Log /\ NoCapture \notin CaptureRecord

Quiet == [pc |-> "IDLE"]

Verifying ==
  {Quiet}
    \cup [pc: {"RUNNING"}, capture: Capture, origin: Origins, at: 0..MaxRuns,
          revision: Revision]
    \cup [pc: {"LOGGED"}, capture: Capture, record: CaptureRecord]

EvidenceTypeOK ==
  /\ checkout \in Revision
  /\ runs \in 0..MaxRuns
  /\ logs \in [Capture -> Log \cup {NoLog}]
  /\ captured \in [Capture -> CaptureRecord \cup {NoCapture}]
  /\ attested \subseteq {c \in Capture : captured[c] # NoCapture}
  /\ verifier \in [Verifier -> Verifying]

CaptureInit ==
  /\ checkout \in Revision
  /\ runs = 0
  /\ logs = [c \in Capture |-> NoLog]
  /\ captured = [c \in Capture |-> NoCapture]
  /\ attested = {}
  /\ verifier = [v \in Verifier |-> Quiet]

CheckoutMoves ==
  /\ checkout' \in Revision
  /\ UNCHANGED <<runs, logs, captured, attested, verifier>>

Goes(v, state) == verifier' = [verifier EXCEPT ![v] = state]

(***************************************************************************)
(* Capture.                                                                *)
(***************************************************************************)
Executes(v, c, origin) ==
  /\ verifier[v] = Quiet /\ origin \in {"EXECUTED", "IMPLEMENTER"}
  /\ runs < MaxRuns /\ runs' = runs + 1
  /\ Goes(v, [pc |-> "RUNNING", capture |-> c, origin |-> origin, at |-> runs + 1,
              revision |-> checkout])
  /\ UNCHANGED <<checkout, logs, captured, attested>>

(* Ingested evidence names the commit it was made at.                      *)
Ingests(v, c, origin, revision) ==
  /\ verifier[v] = Quiet /\ origin \in {"CI", "EXTERNAL"}
  /\ Goes(v, [pc |-> "RUNNING", capture |-> c, origin |-> origin, at |-> 0,
              revision |-> revision])
  /\ UNCHANGED <<checkout, runs, logs, captured, attested>>

(* Seeded fault: an existing log is written over.                          *)
AnyLog(log, existing) == TRUE

(* The file is created exclusively, or holds the same log already.         *)
LogStorable(log, existing) == existing \in {NoLog, log}

WritesLog(v, succeeded) ==
  /\ verifier[v].pc = "RUNNING"
  /\ LET run == verifier[v]
         log == [at |-> run.at, succeeded |-> succeeded]
         stored == LogStorable(log, logs[run.capture])
     IN  /\ logs' = IF stored THEN [logs EXCEPT ![run.capture] = log] ELSE logs
         /\ Goes(v, IF stored
                    THEN [pc |-> "LOGGED", capture |-> run.capture,
                          record |-> [origin |-> run.origin, revision |-> run.revision,
                                      log |-> log]]
                    ELSE Quiet)
  /\ UNCHANGED <<checkout, runs, captured, attested>>

(* insertImmutable: a record that differs is refused, the same is kept.    *)
SavesRecord(v) ==
  /\ verifier[v].pc = "LOGGED"
  /\ LET c == verifier[v].capture
     IN  captured' = [captured EXCEPT ![c] = IF @ = NoCapture THEN verifier[v].record ELSE @]
  /\ Goes(v, Quiet)
  /\ UNCHANGED <<checkout, runs, logs, attested>>

VerifierDies(v) ==
  /\ verifier[v] # Quiet
  /\ Goes(v, Quiet)
  /\ UNCHANGED <<checkout, runs, logs, captured, attested>>

(***************************************************************************)
(* Attestation: automatic policy (SYSTEM), trusted CI, reviewer or human.  *)
(***************************************************************************)
NeedsJudgment(saved) ==
  saved.origin \in {"IMPLEMENTER", "EXTERNAL"} \/ ~saved.log.succeeded

MayAccept(attestor, saved) ==
  /\ saved.revision = checkout
  /\ NeedsJudgment(saved) => attestor \in {"REVIEWER", "HUMAN"}

AttestsCapture(c, attestor) ==
  /\ captured[c] # NoCapture /\ MayAccept(attestor, captured[c])
  /\ attested' = attested \cup {c}
  /\ UNCHANGED <<checkout, runs, logs, captured, verifier>>

CaptureNext ==
  \/ CheckoutMoves
  \/ \E v \in Verifier :
       \/ \E c \in Capture, origin \in Origins, revision \in Revision :
            Executes(v, c, origin) \/ Ingests(v, c, origin, revision)
       \/ \E succeeded \in BOOLEAN : WritesLog(v, succeeded)
       \/ SavesRecord(v) \/ VerifierDies(v)
  \/ \E c \in Capture, attestor \in {"SYSTEM", "CI", "REVIEWER", "HUMAN"} : AttestsCapture(c, attestor)

CaptureSpec == CaptureInit /\ [][CaptureNext]_captureVars

(***************************************************************************)
(* Properties.                                                             *)
(***************************************************************************)
(* The log a verification record points to is the log of the run the       *)
(* record describes, whatever raced, died or was retried under its id:     *)
(* what an attestor judges is what was observed.                           *)
RecordedLogIsItsRun ==
  \A c \in Capture : captured[c] # NoCapture => logs[c] = captured[c].log
=============================================================================
