------------------------------- MODULE MCTools -------------------------------
(* The two drivers beside the review workflow, the relay and the review    *)
(* controller.  They share no state: a behaviour picks one of them and     *)
(* leaves the other where it starts.                                       *)
EXTENDS Relay, ReviewController, TLC

CONSTANTS t1, t2, t3, y1, y2, x, y

VARIABLE tool

toolVars == <<relayVars, controllerVars, tool>>

MCAutomation ==
  {[commit |-> on, push |-> on, advance |-> on] : on \in BOOLEAN}

MCSymmetry == Permutations(RelayProcess) \cup Permutations(Controller)

ToolsInit ==
  /\ tool \in {"RELAY", "CONTROLLER"}
  /\ RelayInit /\ ControllerInit
  /\ tool = "CONTROLLER" => \A p \in RelayProcess : relayer[p] = Fresh
  /\ tool = "RELAY" => ~automation.commit

RelayRuns == tool = "RELAY" /\ RelayNext /\ UNCHANGED <<controllerVars, tool>>

ControllerRuns == tool = "CONTROLLER" /\ ControllerNext /\ UNCHANGED <<relayVars, tool>>

ToolsSpec == ToolsInit /\ [][RelayRuns \/ ControllerRuns]_toolVars

(* The component that runs keeps its types.                                *)
ToolsTypeOK == IF tool = "RELAY" THEN RelayTypeOK ELSE ControllerTypeOK
=============================================================================
