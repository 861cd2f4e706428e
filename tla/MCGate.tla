------------------------------- MODULE MCGate -------------------------------
(* The gate phase: an implementation that succeeds and whose findings a    *)
(* human accepts brings the batch to VERIFYING, where a verification and   *)
(* the single final audit race, crash and are retried.                     *)
EXTENDS InvocationRuns

CONSTANTS create, accept, start, execute, ready, complete, risk, verify, audit,
          auditblock, a1, a2, a3, a4, a5, record, human, s1, p1, p2

MCCommandType ==
  [c \in Command |->
    CASE c = create -> "CREATE_BATCH"
      [] c = accept -> "ACCEPT_PLAN_AS_IS"
      [] c = start -> "START_IMPLEMENTATION"
      [] c = execute -> "RESUME_IMPLEMENTATION"
      [] c = ready -> "MARK_IMPLEMENTATION_READY"
      [] c = complete -> "COMPLETE_IMPLEMENTATION"
      [] c = risk -> "ACCEPT_FINDINGS_RISK"
      [] c \in {verify, audit} -> "START_CODE_REVIEW"
      [] c = auditblock -> "BLOCK_BATCH"]

MCKindsOf ==
  [c \in Command |->
    CASE c = verify -> {"VERIFICATION_EXECUTION"}
      [] c \in Runs \ {verify} -> {"AGENT_INVOCATION"}
      [] OTHER -> {NoKind}]

Settles(s, companions) == [settle |-> s, companions |-> companions]

MCScripts ==
  [c \in Runs |->
    CASE c = start -> {Settles("TRANSITION", <<>>)}
      [] c = execute -> {Settles("EVIDENCE", <<ready>>)}
      [] c = verify -> {Settles("FAIL", <<>>), Settles("EVIDENCE", <<>>)}
      [] c = audit ->
           {Settles("FAIL", <<>>), Settles("EVIDENCE", <<>>),
            Settles("EVIDENCE", <<auditblock>>)}]

MCStableIdentity == [c \in Runs |-> IF c = verify THEN record ELSE NoIdentity]
MCAttemptSeq == <<a1, a2, a3, a4, a5>>
MCSymmetry == Permutations(Process)
=============================================================================
