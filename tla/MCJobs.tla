-------------------------------- MODULE MCJobs --------------------------------
(* A verification and a final audit of a batch in VERIFYING, run as        *)
(* background jobs by two processes that may also run them directly.       *)
EXTENDS JobQueue

CONSTANTS create, accept, start, execute, ready, complete, risk, verify, audit,
          a1, a2, a3, a4, record, derived, human, s1, p1, p2, vjob, ajob

MCCommandType ==
  [c \in Command |->
    CASE c = create -> "CREATE_BATCH"
      [] c = accept -> "ACCEPT_PLAN_AS_IS"
      [] c = start -> "START_IMPLEMENTATION"
      [] c = execute -> "RESUME_IMPLEMENTATION"
      [] c = ready -> "MARK_IMPLEMENTATION_READY"
      [] c = complete -> "COMPLETE_IMPLEMENTATION"
      [] c = risk -> "ACCEPT_FINDINGS_RISK"
      [] c \in {verify, audit} -> "START_CODE_REVIEW"]

MCKindsOf ==
  [c \in Command |->
    CASE c = verify -> {"VERIFICATION_EXECUTION"}
      [] c \in Runs \ {verify} -> {"AGENT_INVOCATION"}
      [] OTHER -> {NoKind}]

Settles(s, companions) == [settle |-> s, companions |-> companions]

MCScripts ==
  [c \in Runs |->
    CASE c = start -> {Settles("TRANSITION", <<>>)}
      [] c = execute -> {Settles("EVIDENCE", <<ready>>)}
      [] c \in {verify, audit} -> {Settles("FAIL", <<>>), Settles("EVIDENCE", <<>>)}]

MCStableIdentity == [c \in Runs |-> IF c = verify THEN record ELSE NoIdentity]
MCAttemptSeq == <<a1, a2, a3, a4>>
MCJobCommand == [j \in Job |-> IF j = vjob THEN verify ELSE audit]
MCExpectedKind ==
  [j \in Job |-> IF j = vjob THEN "VERIFICATION_EXECUTION" ELSE "AGENT_INVOCATION"]
MCExpectedIdentity == [j \in Job |-> IF j = vjob THEN record ELSE derived]
=============================================================================
