---------------------------- MODULE MCAcceptedRisk ----------------------------
(* One process drives the gate of one batch to its end.                    *)
EXTENDS MergeGate

CONSTANTS c1, c2, unit, works, f1, r1, g1, s1, p1

MCAncestors == [c \in Commit |-> IF c = c1 THEN {c1} ELSE {c1, c2}]
MCCriteriaOf == [p \in PlanCommand |-> {works}]
=============================================================================
