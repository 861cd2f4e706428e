--------------------------- MODULE MCCommandStore ---------------------------
(* A batch with four commands: it is created, accepted as is, its          *)
(* implementation starts behind an agent invocation, and it is blocked.    *)
EXTENDS CommandStore, TLC

CONSTANTS create, accept, start, block

MCCommandType ==
  [c \in Command |->
    CASE c = create -> "CREATE_BATCH"
      [] c = accept -> "ACCEPT_PLAN_AS_IS"
      [] c = start -> "START_IMPLEMENTATION"
      [] c = block -> "BLOCK_BATCH"]

MCKindsOf ==
  [c \in Command |-> IF c = start THEN {"AGENT_INVOCATION"} ELSE {NoKind}]

MCSymmetry == Permutations(Identity)
=============================================================================
