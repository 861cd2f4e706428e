------------------------------- MODULE MCAgents -------------------------------
(* What surrounds an agent's answer before the implementation: the session *)
(* it must come from, the call of a command line that fetches it, and the  *)
(* plan rounds and refinements it serves.  The four components share no    *)
(* state here: a behaviour picks one of them and leaves the others where   *)
(* they start.                                                             *)
EXTENDS RoleSessions, CliCall, PlanReview, PlanRefinement, TLC

CONSTANTS b1, i1, i2, i3, i4, v1, v2

VARIABLE served

PlainCall ==
  [adapter |-> "CODEX", resumes |-> FALSE, strict |-> FALSE, probing |-> FALSE,
   status |-> "READY"]

agentVars == <<sessionVars, cliVars, planVars, refinementVars, served>>

MCSymmetry == Permutations(Invocation) \cup Permutations(Vendor)

AgentsInit ==
  /\ served \in {"SESSION", "CALL", "PLAN", "REFINEMENT"}
  /\ SessionInit /\ CliInit /\ PlanInit /\ RefinementInit
  /\ served # "REFINEMENT" => StagedOrdinals = {}
  /\ served # "CALL" => call = PlainCall

SessionServed ==
  /\ served = "SESSION" /\ SessionNext
  /\ UNCHANGED <<cliVars, planVars, refinementVars, served>>

CallServed ==
  /\ served = "CALL" /\ CliNext
  /\ UNCHANGED <<sessionVars, planVars, refinementVars, served>>

PlanServed ==
  /\ served = "PLAN" /\ PlanNext
  /\ UNCHANGED <<sessionVars, cliVars, refinementVars, served>>

RefinementServed ==
  /\ served = "REFINEMENT" /\ RefinementNext
  /\ UNCHANGED <<sessionVars, cliVars, planVars, served>>

AgentsNext == SessionServed \/ CallServed \/ PlanServed \/ RefinementServed

AgentsSpec == AgentsInit /\ [][AgentsNext]_agentVars

(* The component that runs keeps its types.                                *)
AgentsTypeOK ==
  CASE served = "SESSION" -> SessionTypeOK
    [] served = "CALL" -> CliTypeOK
    [] served = "PLAN" -> PlanTypeOK
    [] served = "REFINEMENT" -> RefinementTypeOK
=============================================================================
