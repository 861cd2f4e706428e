------------------------------ MODULE MCMergeGate ------------------------------
(* The way of one batch to its gate, from six sides: the stages its        *)
(* runner takes it through (RunnerStages), the receipts of a verification  *)
(* and of the final audit (MCGate), the evidence as it is captured         *)
(* (VerificationEvidence) and compared with a baseline (Baseline), and the *)
(* evidence, approvals and commits the gate decides about (MergeGate); and *)
(* from the gates of all batches to a workflow that is READY               *)
(* (WorkflowAudit).  The six models share no variable: a behaviour picks   *)
(* one side.                                                               *)
EXTENDS MCGate, MergeGate, RunnerStages, VerificationEvidence, Baseline, WorkflowAudit

CONSTANTS c1, c2, unit, works, f1, r1, r2, g1, g2, b1, x1, e1, e2, k1, t1, t2, v1, v2

VARIABLE side

phaseVars == <<runVars, gateVars, stageVars, captureVars, baselineVars, auditVars, side>>

MCAncestors == [c \in Commit |-> IF c = c1 THEN {c1} ELSE {c1, c2}]
MCCriteriaOf == [p \in PlanCommand |-> {works}]

(* One finding occurs always once, the other once or twice.                *)
MCReport == {[f \in {f1, works} |-> IF f = f1 THEN n ELSE 1] : n \in 1..2}

MCGateSymmetry == Permutations(Process) \cup Permutations(GateCommand)

PhaseInit ==
  /\ side \in {"RECEIPTS", "EVIDENCE", "STAGES", "CAPTURE", "BASELINE", "WHOLE"}
  /\ RunsInit /\ GateInit /\ StagesInit /\ CaptureInit /\ BaselineInit /\ AuditInit
  /\ side # "CAPTURE" => checkout = c1
  /\ side # "BASELINE" =>
       /\ tip = c1 /\ \A d, e \in Reported : reported[d] = reported[e]
       /\ \A e \in Reported :
            /\ reported[e].commit = c1 /\ reported[e].tooling = t1
            /\ reported[e].exited /\ reported[e].report[f1] = 1

ReceiptsSide ==
  /\ side = "RECEIPTS" /\ RunsNext
  /\ UNCHANGED <<gateVars, stageVars, captureVars, baselineVars, auditVars, side>>

EvidenceSide ==
  /\ side = "EVIDENCE" /\ GateNext
  /\ UNCHANGED <<runVars, stageVars, captureVars, baselineVars, auditVars, side>>

StagesSide ==
  /\ side = "STAGES" /\ StagesNext
  /\ UNCHANGED <<runVars, gateVars, captureVars, baselineVars, auditVars, side>>

CaptureSide ==
  /\ side = "CAPTURE" /\ CaptureNext
  /\ UNCHANGED <<runVars, gateVars, stageVars, baselineVars, auditVars, side>>

BaselineSide ==
  /\ side = "BASELINE" /\ BaselineNext
  /\ UNCHANGED <<runVars, gateVars, stageVars, captureVars, auditVars, side>>

WholeSide ==
  /\ side = "WHOLE" /\ AuditNext
  /\ UNCHANGED <<runVars, gateVars, stageVars, captureVars, baselineVars, side>>

PhaseNext ==
  ReceiptsSide \/ EvidenceSide \/ StagesSide \/ CaptureSide \/ BaselineSide \/ WholeSide

PhaseSpec == PhaseInit /\ [][PhaseNext]_phaseVars

(* The side that is explored keeps its types.                              *)
PhaseTypeOK ==
  CASE side = "RECEIPTS" -> RunsTypeOK
    [] side = "EVIDENCE" -> GateTypeOK
    [] side = "STAGES" -> StagesTypeOK
    [] side = "CAPTURE" -> EvidenceTypeOK
    [] side = "BASELINE" -> BaselineTypeOK
    [] side = "WHOLE" -> AuditTypeOK
=============================================================================
