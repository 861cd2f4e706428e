-------------------------- MODULE MCImplementation --------------------------
(* The implementation phase, from two sides.  Its receipts: the batch is   *)
(* created and accepted by a human, started behind a preflight invocation, *)
(* executed behind the agent's work and reviewed behind the reviewer's; a  *)
(* human may block it meanwhile.  And what the receipts are about: the     *)
(* commits, review rounds and corrections of a batch (CorrectionRounds).   *)
(* The two share no variable: a behaviour picks one side.                  *)
EXTENDS InvocationRuns, CorrectionRounds

CONSTANTS create, accept, start, execute, ready, blocker, complete, review,
          approved, rejected, escalate, hold, unblock, a1, a2, a3, a4, human, s1, p1, p2

VARIABLE phase

MCCommandType ==
  [c \in Command |->
    CASE c = create -> "CREATE_BATCH"
      [] c = accept -> "ACCEPT_PLAN_AS_IS"
      [] c = start -> "START_IMPLEMENTATION"
      [] c = execute -> "RESUME_IMPLEMENTATION"
      [] c = ready -> "MARK_IMPLEMENTATION_READY"
      [] c = unblock -> "RESUME_BATCH"
      [] c = complete -> "COMPLETE_IMPLEMENTATION"
      [] c = review -> "START_CODE_REVIEW"
      [] c = approved -> "APPROVE_CODE_REVIEW"
      [] c = rejected -> "REJECT_CODE_REVIEW"
      [] c \in {blocker, escalate, hold} -> "BLOCK_BATCH"]

MCKindsOf ==
  [c \in Command |-> IF c \in Runs THEN {"AGENT_INVOCATION"} ELSE {NoKind}]

Settles(s, companions) == [settle |-> s, companions |-> companions]

MCScripts ==
  [c \in Runs |->
    CASE c = start -> {Settles("FAIL", <<>>), Settles("TRANSITION", <<>>)}
      [] c = execute ->
           {Settles("FAIL", <<>>), Settles("FAIL", <<blocker>>),
            Settles("EVIDENCE", <<ready>>)}
      [] c = review ->
           {Settles("FAIL", <<>>), Settles("TRANSITION", <<approved>>),
            Settles("TRANSITION", <<rejected>>),
            Settles("TRANSITION", <<rejected, escalate>>)}]

MCStableIdentity == [c \in Runs |-> NoIdentity]
MCAttemptSeq == <<a1, a2, a3, a4>>
MCSymmetry == Permutations(Process)

ImplementationInit == phase \in {"RECEIPTS", "ROUNDS"} /\ RunsInit /\ RoundsInit

ReceiptsPhase == phase = "RECEIPTS" /\ RunsNext /\ UNCHANGED <<roundVars, phase>>

RoundsPhase == phase = "ROUNDS" /\ RoundsNext /\ UNCHANGED <<runVars, phase>>

ImplementationNext == ReceiptsPhase \/ RoundsPhase

ImplementationSpec ==
  ImplementationInit /\ [][ImplementationNext]_<<runVars, roundVars, phase>>
=============================================================================
