------------------------ MODULE WorkflowRunnerProofs ------------------------
(***************************************************************************)
(* The safety properties of the autonomous runner hold for any number of   *)
(* processes, batches and crashes.                                         *)
(***************************************************************************)
EXTENDS WorkflowRunner, TLAPS

(***************************************************************************)
(* Types.                                                                  *)
(***************************************************************************)
LEMMA IdleTyped == Idle \in ProcState
BY RunnerAssumption DEF Idle, ProcState, PCs

LEMMA GotoTyped == ASSUME proc \in [Process -> ProcState], NEW p \in Process, NEW pc \in PCs,
Goto(p, pc)
  PROVE proc' \in [Process -> ProcState]
BY DEF Goto, ProcState

LEMMA ReturnTyped == ASSUME proc \in [Process -> ProcState], NEW p \in Process, Return(p)
  PROVE proc' \in [Process -> ProcState]
BY IdleTyped DEF Return

LEMMA StatusTyped == ASSUME NEW r \in Row, NEW s \in Statuses PROVE [r EXCEPT !.status = s] \in Row
BY DEF Row

LEMMA LeaseTyped == ASSUME NEW r \in Row, NEW w \in Process \cup {NoWorker, Launcher, Gone},
NEW l \in BOOLEAN
  PROVE [r EXCEPT !.worker = w, !.leased = l] \in Row
BY DEF Row

LEMMA ClaimTyped == ASSUME NEW r \in Row, NEW s \in Statuses, NEW w \in Process \cup {NoWorker,
Launcher, Gone}, NEW l \in BOOLEAN
  PROVE [r EXCEPT !.status = s, !.worker = w, !.leased = l] \in Row
BY DEF Row

LEMMA CountersTyped == ASSUME NEW r \in Row, NEW d \in Decisions \cup {NoDecision},
NEW n \in 0..Batches
  PROVE [r EXCEPT !.decision = d, !.done = n] \in Row
BY DEF Row

LEMMA InvocationTyped == ASSUME NEW r \in Row, NEW i \in Invocation \cup {NoInvocation}
  PROVE [r EXCEPT !.invocation = i] \in Row
BY DEF Row

LEMMA HandTyped == ASSUME NEW s \in ProcState, NEW pc \in PCs,
NEW d \in Decisions \cup {NoDecision}, NEW n \in 0..Batches
  PROVE [s EXCEPT !.pc = pc, !.decision = d, !.done = n] \in ProcState
BY DEF ProcState

LEMMA BeatenTyped == ASSUME NEW r \in Row, NEW b \in BOOLEAN PROVE [r EXCEPT !.beaten = b] \in Row
BY DEF Row

LEMMA ForgetTyped == ASSUME proc \in [Process -> ProcState], NEW p \in Process, NEW pc \in PCs,
Forget(p, pc)
  PROVE proc' \in [Process -> ProcState]
<1>1. proc[p] \in ProcState
  OBVIOUS
<1>2. 0 \in 0..Batches
  BY RunnerAssumption
<1>3. [proc[p] EXCEPT !.pc = pc, !.decision = NoDecision, !.done = 0] \in ProcState
  BY <1>1, <1>2, HandTyped
<1> QED
  BY <1>3 DEF Forget

LEMMA RowStep == ASSUME RunnerTypeOK, [RunnerNext]_runnerVars PROVE row' \in Row
<1> USE RunnerAssumption DEF RunnerTypeOK
<1>1. ASSUME NEW p \in Process, AcquireLease(p) PROVE row' \in Row
  <2>1. TRUE \in BOOLEAN
    OBVIOUS
  <2>2. [row EXCEPT !.worker = p, !.leased = TRUE] \in Row
    BY <2>1, LeaseTyped
  <2> QED
    BY <1>1, <2>2 DEF AcquireLease
<1>2. ASSUME NEW p \in Process, ReadDecision(p) PROVE row' \in Row
  BY <1>2 DEF ReadDecision, Row, Statuses, Decisions, Invocation, NoInvocation, ProcState
<1>3. ASSUME NEW p \in Process, ConsumeCancel(p) PROVE row' \in Row
  BY <1>3 DEF ConsumeCancel, Row, Statuses, Decisions, Invocation, NoInvocation, ProcState, Consumed
<1>4. ASSUME NEW p \in Process, ConsumeStale(p) PROVE row' \in Row
  BY <1>4 DEF ConsumeStale, Row, Statuses, Decisions, Invocation, NoInvocation, ProcState, Consumed
<1>5. ASSUME NEW p \in Process, ConsumeDecision(p) PROVE row' \in Row
  BY <1>5 DEF ConsumeDecision, Row, Statuses, Decisions, Invocation, NoInvocation, ProcState,
    Consumed
<1>6. ASSUME NEW p \in Process, ApplyDecision(p) PROVE row' \in Row
  BY <1>6 DEF ApplyDecision, Row, Statuses, Decisions, Invocation, NoInvocation, ProcState
<1>7. ASSUME NEW p \in Process, ReconcileInvocation(p) PROVE row' \in Row
  BY <1>7 DEF ReconcileInvocation, Row, Statuses, Decisions, Invocation, NoInvocation, ProcState
<1>8. ASSUME NEW p \in Process, NextBatch(p) PROVE row' \in Row
  BY <1>8 DEF NextBatch, Row, Statuses, Decisions, Invocation, NoInvocation, ProcState, Within
<1>9. ASSUME NEW p \in Process, ScopeReached(p) PROVE row' \in Row
  BY <1>9 DEF ScopeReached, Row, Statuses, Decisions, Invocation, NoInvocation, ProcState,
    Within, RequestedPause
<1>10. ASSUME NEW p \in Process, BeginPhase(p) PROVE row' \in Row
  <2>1. TRUE \in BOOLEAN
    OBVIOUS
  <2> QED
    BY <1>10, <2>1, BeatenTyped DEF BeginPhase
<1>11. ASSUME NEW p \in Process, LimitReached(p) PROVE row' \in Row
  BY <1>11 DEF LimitReached, Row, Statuses, Decisions, Invocation, NoInvocation, ProcState
<1>12. ASSUME NEW p \in Process, FinishBatch(p) PROVE row' \in Row
  BY <1>12 DEF FinishBatch, Row, Statuses, Decisions, Invocation, NoInvocation, ProcState
<1>13. ASSUME NEW p \in Process, StartInvocation(p) PROVE row' \in Row
  BY <1>13 DEF StartInvocation, Row, Statuses, Decisions, Invocation, NoInvocation, ProcState
<1>14. ASSUME NEW p \in Process, RefuseInvocation(p) PROVE row' \in Row
  BY <1>14 DEF RefuseInvocation, Row, Statuses, Decisions, Invocation, NoInvocation, ProcState
<1>15. ASSUME NEW p \in Process, SpawnAgent(p) PROVE row' \in Row
  BY <1>15 DEF SpawnAgent, Row, Statuses, Decisions, Invocation, NoInvocation, ProcState
<1>16. ASSUME NEW p \in Process, AgentReturns(p) PROVE row' \in Row
  BY <1>16 DEF AgentReturns, Row, Statuses, Decisions, Invocation, NoInvocation, ProcState
<1>17. ASSUME NEW p \in Process, AgentUnsettled(p) PROVE row' \in Row
  BY <1>17 DEF AgentUnsettled, Row, Statuses, Decisions, Invocation, NoInvocation, ProcState
<1>18. ASSUME NEW p \in Process, EndPhase(p) PROVE row' \in Row
  BY <1>18 DEF EndPhase, Row, Statuses, Decisions, Invocation, NoInvocation, ProcState, Completing
<1>19. ASSUME NEW p \in Process, Complete(p) PROVE row' \in Row
  BY <1>19 DEF Complete, Row, Statuses, Decisions, Invocation, NoInvocation, ProcState
<1>20. ASSUME NEW p \in Process, SettlePause(p) PROVE row' \in Row
  BY <1>20 DEF SettlePause, Row, Statuses, Decisions, Invocation, NoInvocation, ProcState,
    SettledPause
<1>21. ASSUME NEW p \in Process, Stop(p) PROVE row' \in Row
  BY <1>21 DEF Stop, Row, Statuses, Decisions, Invocation, NoInvocation, ProcState
<1>22. ASSUME NEW p \in Process, ReleaseLease(p) PROVE row' \in Row
  BY <1>22 DEF ReleaseLease, Row, Statuses, Decisions, Invocation, NoInvocation, ProcState
<1>23. ASSUME NEW p \in Process, PauseCommand(p) PROVE row' \in Row
  BY <1>23 DEF PauseCommand, Row, Statuses, Decisions, Invocation, NoInvocation, ProcState,
    RequestedPause
<1>24. ASSUME NEW p \in Process, InterruptSignal(p) PROVE row' \in Row
  BY <1>24 DEF InterruptSignal, Row, Statuses, Decisions, Invocation, NoInvocation, ProcState,
    RequestedPause
<1>25. ASSUME NEW p \in Process, SettleCommand(p) PROVE row' \in Row
  BY <1>25 DEF SettleCommand, Row, Statuses, Decisions, Invocation, NoInvocation, ProcState,
    SettleDeadPause, SettledPause
<1>26. ASSUME NEW p \in Process, ClaimResume(p) PROVE row' \in Row
  <2>1. TRUE \in BOOLEAN /\ "RUNNING" \in Statuses
    BY DEF Statuses
  <2>2. [row EXCEPT !.status = "RUNNING", !.worker = Launcher, !.leased = TRUE] \in Row
    BY <2>1, ClaimTyped
  <2> QED
    BY <1>26, <2>2 DEF ClaimResume
<1>27. ASSUME NEW p \in Process, Launched(p) PROVE row' \in Row
  BY <1>27 DEF Launched, Row, Statuses, Decisions, Invocation, NoInvocation, ProcState
<1>28. ASSUME NEW p \in Process, RevertResume(p) PROVE row' \in Row
  BY <1>28 DEF RevertResume, Row, Statuses, Decisions, Invocation, NoInvocation, ProcState
<1>29. ASSUME NEW p \in Process, CancelCommand(p) PROVE row' \in Row
  BY <1>29 DEF CancelCommand, Row, Statuses, Decisions, Invocation, NoInvocation, ProcState
<1>30. ASSUME NEW p \in Process, WriteCancelled(p) PROVE row' \in Row
  BY <1>30 DEF WriteCancelled, Row, Statuses, Decisions, Invocation, NoInvocation, ProcState,
    HoldsRow
<1>31. ASSUME NEW p \in Process, WriteDecision(p) PROVE row' \in Row
  BY <1>31 DEF WriteDecision, Row, Statuses, Decisions, Invocation, NoInvocation, ProcState
<1>32. ASSUME NEW p \in Process, ReconcileStalled(p) PROVE row' \in Row
  BY <1>32 DEF ReconcileStalled, Row, Statuses, Decisions, Invocation, NoInvocation, ProcState
<1>33. ASSUME NEW p \in Process, StopStalled(p) PROVE row' \in Row
  BY <1>33 DEF StopStalled, Row, Statuses, Decisions, Invocation, NoInvocation, ProcState
<1>34. ASSUME NEW p \in Process, Heartbeat(p) PROVE row' \in Row
  BY <1>34 DEF Heartbeat, Row, Statuses, Decisions, Invocation, NoInvocation, ProcState, InPhase
<1>35. ASSUME NEW p \in Process, Crash(p) PROVE row' \in Row
  <2> DEFINE w == IF row.worker = p THEN Gone ELSE row.worker
             by == IF row.invocation.by = p THEN Gone ELSE row.invocation.by
             i == [row.invocation EXCEPT !.by = by]
  <2>1. /\ row.invocation \in Invocation \cup {NoInvocation}
        /\ w \in Process \cup {NoWorker, Launcher, Gone}
    BY DEF Row
  <2>2. i \in Invocation \cup {NoInvocation}
    <3>1. CASE row.invocation \in Invocation
      BY <3>1 DEF Invocation
    <3>2. CASE row.invocation = NoInvocation
      BY <3>2 DEF NoInvocation
    <3> QED
      BY <2>1, <3>1, <3>2
  <2>3. [row EXCEPT !.worker = w, !.invocation = i] \in Row
    BY <2>1, <2>2 DEF Row
  <2> QED
    BY <1>35, <2>3 DEF Crash
<1>36. ASSUME NEW p \in Process, NEW requested \in Requests, RunResume(p, requested)
      PROVE row' \in Row
  BY <1>36 DEF RunResume, Row, Statuses, Decisions, Invocation, NoInvocation, ProcState,
    RequestedScope, Within, Requests
<1>37. ASSUME NEW p \in Process, NEW requested \in Requests, ResumeCommand(p, requested)
      PROVE row' \in Row
  BY <1>37 DEF ResumeCommand, Row, Statuses, Decisions, Invocation, NoInvocation, ProcState,
    SettleDeadPause, SettledPause, RequestedScope, Within, Requests
<1>38. ASSUME NEW p \in Process, NEW action \in Decisions, DecideCommand(p, action)
      PROVE row' \in Row
  BY <1>38 DEF DecideCommand, Row, Statuses, Decisions, Invocation, NoInvocation, ProcState
<1>39. CASE LeaseExpires
  BY <1>39 DEF LeaseExpires, Row
<1>40. CASE UNCHANGED runnerVars
  BY <1>40 DEF runnerVars
<1> QED
  BY <1>1, <1>2, <1>3, <1>4, <1>5, <1>6, <1>7, <1>8, <1>9, <1>10, <1>11, <1>12, <1>13, <1>14,
    <1>15, <1>16, <1>17, <1>18, <1>19, <1>20, <1>21, <1>22, <1>23, <1>24, <1>25, <1>26, <1>27,
    <1>28, <1>29, <1>30, <1>31, <1>32, <1>33, <1>34, <1>35, <1>36, <1>37, <1>38, <1>39,
    <1>40 DEF RunnerNext, WorkerStep, CommandStep, Requests

LEMMA ProcStep == ASSUME RunnerTypeOK, [RunnerNext]_runnerVars
     PROVE proc' \in [Process -> ProcState]
<1> USE RunnerAssumption DEF RunnerTypeOK
<1>1. ASSUME NEW p \in Process, AcquireLease(p) PROVE proc' \in [Process -> ProcState]
  BY <1>1, GotoTyped, ReturnTyped DEF AcquireLease, PCs, WorkingPCs, CommandPCs, ProcState, Row,
    LeaseFree
<1>2. ASSUME NEW p \in Process, ReadDecision(p) PROVE proc' \in [Process -> ProcState]
  BY <1>2, GotoTyped, ReturnTyped DEF ReadDecision, PCs, WorkingPCs, CommandPCs, ProcState, Row
<1>3. ASSUME NEW p \in Process, ConsumeCancel(p) PROVE proc' \in [Process -> ProcState]
  BY <1>3, ForgetTyped DEF ConsumeCancel, PCs
<1>4. ASSUME NEW p \in Process, ConsumeStale(p) PROVE proc' \in [Process -> ProcState]
  BY <1>4, ForgetTyped DEF ConsumeStale, PCs, WorkingPCs
<1>5. ASSUME NEW p \in Process, ConsumeDecision(p) PROVE proc' \in [Process -> ProcState]
  BY <1>5, ForgetTyped DEF ConsumeDecision, PCs, WorkingPCs
<1>6. ASSUME NEW p \in Process, ApplyDecision(p) PROVE proc' \in [Process -> ProcState]
  BY <1>6, GotoTyped, ReturnTyped DEF ApplyDecision, PCs, WorkingPCs, CommandPCs, ProcState, Row
<1>7. ASSUME NEW p \in Process, ReconcileInvocation(p) PROVE proc' \in [Process -> ProcState]
  BY <1>7, GotoTyped, ReturnTyped DEF ReconcileInvocation, PCs, WorkingPCs, CommandPCs,
    ProcState, Row
<1>8. ASSUME NEW p \in Process, NextBatch(p) PROVE proc' \in [Process -> ProcState]
  BY <1>8, GotoTyped, ReturnTyped DEF NextBatch, PCs, WorkingPCs, CommandPCs, ProcState, Row, Within
<1>9. ASSUME NEW p \in Process, ScopeReached(p) PROVE proc' \in [Process -> ProcState]
  BY <1>9, GotoTyped, ReturnTyped DEF ScopeReached, PCs, WorkingPCs, CommandPCs, ProcState, Row,
    Within
<1>10. ASSUME NEW p \in Process, BeginPhase(p) PROVE proc' \in [Process -> ProcState]
  BY <1>10, GotoTyped, ReturnTyped DEF BeginPhase, PCs, WorkingPCs, CommandPCs, ProcState, Row
<1>11. ASSUME NEW p \in Process, LimitReached(p) PROVE proc' \in [Process -> ProcState]
  BY <1>11, GotoTyped, ReturnTyped DEF LimitReached, PCs, WorkingPCs, CommandPCs, ProcState, Row
<1>12. ASSUME NEW p \in Process, FinishBatch(p) PROVE proc' \in [Process -> ProcState]
  BY <1>12, GotoTyped, ReturnTyped DEF FinishBatch, PCs, WorkingPCs, CommandPCs, ProcState, Row
<1>13. ASSUME NEW p \in Process, StartInvocation(p) PROVE proc' \in [Process -> ProcState]
  BY <1>13, GotoTyped, ReturnTyped DEF StartInvocation, PCs, WorkingPCs, CommandPCs, ProcState, Row
<1>14. ASSUME NEW p \in Process, RefuseInvocation(p) PROVE proc' \in [Process -> ProcState]
  BY <1>14, GotoTyped, ReturnTyped DEF RefuseInvocation, PCs, WorkingPCs, CommandPCs, ProcState, Row
<1>15. ASSUME NEW p \in Process, SpawnAgent(p) PROVE proc' \in [Process -> ProcState]
  BY <1>15, GotoTyped, ReturnTyped DEF SpawnAgent, PCs, WorkingPCs, CommandPCs, ProcState, Row
<1>16. ASSUME NEW p \in Process, AgentReturns(p) PROVE proc' \in [Process -> ProcState]
  BY <1>16, GotoTyped, ReturnTyped DEF AgentReturns, PCs, WorkingPCs, CommandPCs, ProcState, Row
<1>17. ASSUME NEW p \in Process, AgentUnsettled(p) PROVE proc' \in [Process -> ProcState]
  BY <1>17, GotoTyped, ReturnTyped DEF AgentUnsettled, PCs, WorkingPCs, CommandPCs, ProcState, Row
<1>18. ASSUME NEW p \in Process, EndPhase(p) PROVE proc' \in [Process -> ProcState]
  BY <1>18, GotoTyped, ReturnTyped DEF EndPhase, PCs, WorkingPCs, CommandPCs, ProcState, Row,
    Completing
<1>19. ASSUME NEW p \in Process, Complete(p) PROVE proc' \in [Process -> ProcState]
  BY <1>19, GotoTyped, ReturnTyped DEF Complete, PCs, WorkingPCs, CommandPCs, ProcState, Row
<1>20. ASSUME NEW p \in Process, SettlePause(p) PROVE proc' \in [Process -> ProcState]
  BY <1>20, GotoTyped, ReturnTyped DEF SettlePause, PCs, WorkingPCs, CommandPCs, ProcState, Row
<1>21. ASSUME NEW p \in Process, Stop(p) PROVE proc' \in [Process -> ProcState]
  BY <1>21, GotoTyped, ReturnTyped DEF Stop, PCs, WorkingPCs, CommandPCs, ProcState, Row
<1>22. ASSUME NEW p \in Process, ReleaseLease(p) PROVE proc' \in [Process -> ProcState]
  BY <1>22, GotoTyped, ReturnTyped DEF ReleaseLease, PCs, WorkingPCs, CommandPCs, ProcState, Row
<1>23. ASSUME NEW p \in Process, PauseCommand(p) PROVE proc' \in [Process -> ProcState]
  BY <1>23, GotoTyped, ReturnTyped DEF PauseCommand, PCs, WorkingPCs, CommandPCs, ProcState, Row
<1>24. ASSUME NEW p \in Process, InterruptSignal(p) PROVE proc' \in [Process -> ProcState]
  BY <1>24, GotoTyped, ReturnTyped DEF InterruptSignal, PCs, WorkingPCs, CommandPCs, ProcState, Row
<1>25. ASSUME NEW p \in Process, SettleCommand(p) PROVE proc' \in [Process -> ProcState]
  BY <1>25, GotoTyped, ReturnTyped DEF SettleCommand, PCs, WorkingPCs, CommandPCs, ProcState, Row
<1>26. ASSUME NEW p \in Process, ClaimResume(p) PROVE proc' \in [Process -> ProcState]
  BY <1>26, GotoTyped, ReturnTyped DEF ClaimResume, PCs, WorkingPCs, CommandPCs, ProcState, Row
<1>27. ASSUME NEW p \in Process, Launched(p) PROVE proc' \in [Process -> ProcState]
  BY <1>27, GotoTyped, ReturnTyped DEF Launched, PCs, WorkingPCs, CommandPCs, ProcState, Row
<1>28. ASSUME NEW p \in Process, RevertResume(p) PROVE proc' \in [Process -> ProcState]
  BY <1>28, GotoTyped, ReturnTyped DEF RevertResume, PCs, WorkingPCs, CommandPCs, ProcState, Row
<1>29. ASSUME NEW p \in Process, CancelCommand(p) PROVE proc' \in [Process -> ProcState]
  BY <1>29, GotoTyped, ReturnTyped DEF CancelCommand, PCs, WorkingPCs, CommandPCs, ProcState, Row
<1>30. ASSUME NEW p \in Process, WriteCancelled(p) PROVE proc' \in [Process -> ProcState]
  BY <1>30, GotoTyped, ReturnTyped DEF WriteCancelled, PCs, WorkingPCs, CommandPCs, ProcState,
    Row, HoldsRow
<1>31. ASSUME NEW p \in Process, WriteDecision(p) PROVE proc' \in [Process -> ProcState]
  BY <1>31, GotoTyped, ReturnTyped DEF WriteDecision, PCs, WorkingPCs, CommandPCs, ProcState, Row
<1>32. ASSUME NEW p \in Process, ReconcileStalled(p) PROVE proc' \in [Process -> ProcState]
  BY <1>32, GotoTyped, ReturnTyped DEF ReconcileStalled, PCs, WorkingPCs, CommandPCs, ProcState, Row
<1>33. ASSUME NEW p \in Process, StopStalled(p) PROVE proc' \in [Process -> ProcState]
  BY <1>33, GotoTyped, ReturnTyped DEF StopStalled, PCs, WorkingPCs, CommandPCs, ProcState, Row
<1>34. ASSUME NEW p \in Process, Heartbeat(p) PROVE proc' \in [Process -> ProcState]
  BY <1>34, GotoTyped, ReturnTyped DEF Heartbeat, PCs, WorkingPCs, CommandPCs, ProcState, Row,
    InPhase
<1>35. ASSUME NEW p \in Process, Crash(p) PROVE proc' \in [Process -> ProcState]
  BY <1>35, GotoTyped, ReturnTyped DEF Crash, PCs, WorkingPCs, CommandPCs, ProcState, Row
<1>36. ASSUME NEW p \in Process, NEW requested \in Requests, RunResume(p, requested)
      PROVE proc' \in [Process -> ProcState]
  <2>1. At(p, "LAUNCHING") \in BOOLEAN
    BY DEF At
  <2>2. ASSUME NEW r \in BOOLEAN PROVE [Idle EXCEPT !.pc = "CHECKED", !.resumed = r] \in ProcState
    BY IdleTyped DEF ProcState, PCs, CommandPCs
  <2> QED
    BY <1>36, <2>1, <2>2, GotoTyped, ReturnTyped DEF RunResume, PCs, CommandPCs
<1>37. ASSUME NEW p \in Process, NEW requested \in Requests, ResumeCommand(p, requested)
      PROVE proc' \in [Process -> ProcState]
  BY <1>37, GotoTyped, ReturnTyped DEF ResumeCommand, PCs, WorkingPCs, CommandPCs, ProcState,
    Row, RequestedScope, Within
<1>38. ASSUME NEW p \in Process, NEW action \in Decisions, DecideCommand(p, action)
      PROVE proc' \in [Process -> ProcState]
  <2>1. proc[p] \in ProcState /\ row.done \in 0..Batches /\ "DECIDING" \in PCs
    BY DEF PCs, CommandPCs, Row
  <2>2. [proc[p] EXCEPT !.pc = "DECIDING", !.decision = action, !.done = row.done] \in ProcState
    BY <2>1, HandTyped
  <2> QED
    BY <1>38, <2>2 DEF DecideCommand
<1>39. CASE LeaseExpires
  BY <1>39 DEF LeaseExpires, Row
<1>40. CASE UNCHANGED runnerVars
  BY <1>40 DEF runnerVars
<1> QED
  BY <1>1, <1>2, <1>3, <1>4, <1>5, <1>6, <1>7, <1>8, <1>9, <1>10, <1>11, <1>12, <1>13, <1>14,
    <1>15, <1>16, <1>17, <1>18, <1>19, <1>20, <1>21, <1>22, <1>23, <1>24, <1>25, <1>26, <1>27,
    <1>28, <1>29, <1>30, <1>31, <1>32, <1>33, <1>34, <1>35, <1>36, <1>37, <1>38, <1>39,
    <1>40 DEF RunnerNext, WorkerStep, CommandStep, Requests

LEMMA FlagStep ==
  ASSUME RunnerTypeOK, [RunnerNext]_runnerVars
  PROVE  lost' \in BOOLEAN /\ outrun' \in BOOLEAN /\ crashes' \in 0..MaxCrashes
<1> USE RunnerAssumption DEF RunnerTypeOK
<1>1. CASE Quietly \/ UNCHANGED runnerVars
  BY <1>1 DEF Quietly, runnerVars
<1>2. ASSUME NEW p \in Process, ConsumeDecision(p) \/ AgentUnsettled(p)
      PROVE  lost' \in BOOLEAN /\ outrun' \in BOOLEAN /\ crashes' \in 0..MaxCrashes
  BY <1>2 DEF ConsumeDecision, AgentUnsettled
<1>3. ASSUME NEW p \in Process, WriteCancelled(p)
      PROVE  lost' \in BOOLEAN /\ outrun' \in BOOLEAN /\ crashes' \in 0..MaxCrashes
  BY <1>3 DEF WriteCancelled
<1>4. ASSUME NEW p \in Process, Crash(p)
      PROVE  lost' \in BOOLEAN /\ outrun' \in BOOLEAN /\ crashes' \in 0..MaxCrashes
  BY <1>4 DEF Crash
<1>5. CASE LeaseExpires
  BY <1>5 DEF LeaseExpires
<1>6. CASE RunnerNext
  <2>1. ASSUME NEW p \in Process, WorkerStep(p) \/ CommandStep(p) \/ Heartbeat(p),
               ~ConsumeDecision(p), ~AgentUnsettled(p), ~WriteCancelled(p)
        PROVE  Quietly
    BY <2>1 DEF WorkerStep, CommandStep,
      AcquireLease, ReadDecision, ConsumeCancel, ConsumeStale, ApplyDecision, ReconcileInvocation,
      NextBatch, ScopeReached, BeginPhase, LimitReached, FinishBatch, StartInvocation,
      RefuseInvocation, SpawnAgent, AgentReturns, EndPhase, Complete, SettlePause,
      Stop, ReleaseLease, PauseCommand, InterruptSignal, SettleCommand, ClaimResume,
      Launched, RevertResume, CancelCommand, WriteDecision, ReconcileStalled, StopStalled,
      Heartbeat, RunResume, ResumeCommand, DecideCommand
  <2> QED
    BY <1>1, <1>2, <1>3, <1>4, <1>5, <1>6, <2>1 DEF RunnerNext
<1> QED
  BY <1>1, <1>6

LEMMA TypesStep == ASSUME RunnerTypeOK, [RunnerNext]_runnerVars PROVE RunnerTypeOK'
BY RowStep, ProcStep, FlagStep DEF RunnerTypeOK

(***************************************************************************)
(* The inductive invariant.                                                *)
(***************************************************************************)
\* A working process is named by the row under a live lease, and a paused workflow has none.
Tenure == ~outrun =>
  /\ \A p \in Process : Working(p) => row.worker = p /\ row.leased
  /\ row.status = "PAUSED_BY_USER" => \A p \in Process : ~Working(p)

\* A worker consumes a decision that is still recorded on a stopped workflow.
Consuming == ~outrun =>
  \A p \in Process : At(p, "CONSUMING") =>
    row.status = "HUMAN_DECISION_REQUIRED" /\ row.decision # NoDecision

\* The row records the invocation a worker prepares or awaits, with its stage.
InFlight == ~outrun =>
  \A p \in Process :
    /\ At(p, "PREPARING") => row.invocation = [by |-> p, stage |-> "PREPARING"]
    /\ At(p, "INVOKING") => row.invocation = [by |-> p, stage |-> "AGENT_RUNNING"]

\* A lost outcome stays on record, and no worker gets past its reconciliation.
LostIsMarked == lost /\ ~outrun =>
  /\ row.invocation.stage = "AGENT_RUNNING"
  /\ \A p \in Process : Working(p) =>
       proc[p].pc \in {"LEASED", "CONSUMING", "RECONCILING", "STOPPING"}

\* A human who decides has decided something.
Decided == \A p \in Process : At(p, "DECIDING") => proc[p].decision # NoDecision

RunnerInv ==
  /\ RunnerTypeOK /\ Tenure /\ Decided /\ Consuming /\ InFlight /\ LostIsMarked

(***************************************************************************)
(* What the commands with several outcomes do to the row and the process.  *)
(***************************************************************************)
LEMMA RunResumeEffect ==
  ASSUME RunnerTypeOK, NEW p \in Process, NEW requested \in Requests, RunResume(p, requested)
  PROVE  /\ row'.status = row.status /\ row'.worker = row.worker /\ row'.leased = row.leased
         /\ row'.invocation = row.invocation /\ row'.decision = row.decision
         /\ proc'[p].pc \in {"IDLE", "CHECKED", "REVERTING"}
         /\ \A q \in Process : q # p => proc'[q] = proc[q]
         /\ UNCHANGED <<lost, outrun>>
<1>1. row' = [row EXCEPT !.scope = RequestedScope(requested)]
  BY DEF RunResume
<1>2. /\ proc'[p].pc \in {"IDLE", "CHECKED", "REVERTING"}
      /\ \A q \in Process : q # p => proc'[q] = proc[q]
  <2>1. CASE Goto(p, "REVERTING")
    BY <2>1 DEF Goto, RunnerTypeOK, ProcState
  <2>2. CASE proc' = [proc EXCEPT ![p] = [Idle EXCEPT !.pc = "CHECKED", !.resumed = At(p,
  "LAUNCHING")]]
    <3>1. [Idle EXCEPT !.pc = "CHECKED", !.resumed = At(p, "LAUNCHING")].pc = "CHECKED"
      BY DEF Idle
    <3> QED
      BY <2>2, <3>1 DEF RunnerTypeOK
  <2>3. CASE Return(p)
    BY <2>3 DEF Return, Idle, RunnerTypeOK
  <2> QED
    BY <2>1, <2>2, <2>3 DEF RunResume
<1> QED
  BY <1>1, <1>2 DEF RunResume, RunnerTypeOK, Row, Quietly

LEMMA AcquireLeaseEffect ==
  ASSUME RunnerTypeOK, NEW p \in Process, AcquireLease(p)
  PROVE  /\ row'.status = row.status /\ row'.invocation = row.invocation
         /\ row'.decision = row.decision
         /\ \A q \in Process : q # p => proc'[q] = proc[q]
         /\ UNCHANGED <<lost, outrun>>
         /\ \/ /\ row.status \in {"RUNNING", "HUMAN_DECISION_REQUIRED"} /\ LeaseFree
               /\ row'.worker = p /\ row'.leased = TRUE /\ proc'[p].pc = "LEASED"
            \/ row' = row /\ proc'[p].pc \in {"IDLE", "REVERTING"}
<1>1. CASE row.status \in {"RUNNING", "HUMAN_DECISION_REQUIRED"} /\ LeaseFree
  <2>1. row' = [row EXCEPT !.worker = p, !.leased = TRUE]
    BY <1>1 DEF AcquireLease
  <2>2. proc' = [proc EXCEPT ![p].pc = "LEASED", ![p].resumed = FALSE]
    BY <1>1 DEF AcquireLease
  <2>3. row'.status = row.status /\ row'.invocation = row.invocation /\ row'.decision = row.decision
        /\ row'.worker = p /\ row'.leased = TRUE
    BY <2>1 DEF RunnerTypeOK, Row
  <2>4. proc'[p].pc = "LEASED" /\ \A q \in Process : q # p => proc'[q] = proc[q]
    BY <2>2 DEF RunnerTypeOK, ProcState
  <2> QED
    BY <1>1, <2>3, <2>4 DEF AcquireLease, Quietly
<1>2. CASE ~(row.status \in {"RUNNING", "HUMAN_DECISION_REQUIRED"} /\ LeaseFree)
  <2>1. row' = row /\ (Goto(p, "REVERTING") \/ Return(p))
    BY <1>2 DEF AcquireLease
  <2>2. proc'[p].pc \in {"IDLE", "REVERTING"} /\ \A q \in Process : q # p => proc'[q] = proc[q]
    BY <2>1 DEF Goto, Return, Idle, RunnerTypeOK, ProcState
  <2> QED
    BY <2>1, <2>2 DEF AcquireLease, Quietly
<1> QED
  BY <1>1, <1>2

LEMMA ClaimResumeEffect ==
  ASSUME RunnerTypeOK, NEW p \in Process, ClaimResume(p)
  PROVE  /\ row'.invocation = row.invocation /\ row'.decision = row.decision
         /\ proc'[p].pc \in {"IDLE", "LAUNCHING"}
         /\ \A q \in Process : q # p => proc'[q] = proc[q]
         /\ UNCHANGED <<lost, outrun>>
         /\ \/ /\ row.status = "PAUSED_BY_USER" \/ (row.status = "RUNNING" /\ ~row.leased)
               /\ row'.status = "RUNNING" /\ row'.worker = Launcher /\ row'.leased = TRUE
            \/ row' = row
<1>1. CASE row' = [row EXCEPT !.status = "RUNNING", !.worker = Launcher,
!.leased = TRUE] /\ Goto(p, "LAUNCHING")
  BY <1>1 DEF ClaimResume, RunnerTypeOK, Row, ProcState, Goto, Quietly
<1>2. CASE row' = row /\ Return(p)
  BY <1>2 DEF ClaimResume, RunnerTypeOK, ProcState, Return, Idle, Quietly
<1> QED
  BY <1>1, <1>2 DEF ClaimResume

LEMMA ResumeEffect ==
  ASSUME RunnerTypeOK, NEW p \in Process, NEW requested \in Requests, ResumeCommand(p, requested)
  PROVE  /\ row'.worker = row.worker /\ row'.leased = row.leased
         /\ row'.invocation = row.invocation /\ row'.decision = row.decision
         /\ \/ row'.status = row.status
            \/ row.status = "PAUSE_REQUESTED" /\ row'.status = "PAUSED_BY_USER" /\ ~row.leased
         /\ proc'[p].pc \in {"IDLE", "CLAIMING"}
         /\ \A q \in Process : q # p => proc'[q] = proc[q]
         /\ UNCHANGED <<lost, outrun>>
<1>1. CASE row' = [SettleDeadPause EXCEPT !.scope = RequestedScope(requested)] /\ Goto(p,
"CLAIMING")
  BY <1>1 DEF ResumeCommand, SettleDeadPause, SettledPause, RunnerTypeOK, Row, ProcState, Goto,
    Quietly
<1>2. CASE row' = [row EXCEPT !.scope = RequestedScope(requested)] /\ UNCHANGED proc
  BY <1>2 DEF ResumeCommand, RunnerTypeOK, Row, At, Quietly
<1> QED
  BY <1>1, <1>2 DEF ResumeCommand

(***************************************************************************)
(* Every step preserves the invariant.                                     *)
(***************************************************************************)
LEMMA TenureStep == ASSUME RunnerInv, [RunnerNext]_runnerVars PROVE Tenure'
<1> USE RunnerAssumption DEF RunnerInv, RunnerTypeOK, Working, At, WorkingPCs, Tenure, ProcState,
  PCs, CommandPCs
<1>1. ASSUME NEW p \in Process, AcquireLease(p) PROVE Tenure'
  <2>1. CASE row' = row /\ proc'[p].pc \in {"IDLE", "REVERTING"}
    BY <1>1, <2>1, AcquireLeaseEffect
  <2>2. CASE /\ row.status \in {"RUNNING", "HUMAN_DECISION_REQUIRED"} /\ LeaseFree
             /\ row'.worker = p /\ row'.leased = TRUE /\ proc'[p].pc = "LEASED"
    <3>1. ~outrun => \A q \in Process : ~Working(q)
      BY <2>2 DEF LeaseFree
    <3> QED
      BY <1>1, <2>2, <3>1, AcquireLeaseEffect
  <2> QED
    BY <1>1, <2>1, <2>2, AcquireLeaseEffect
<1>2. ASSUME NEW p \in Process, ReadDecision(p) PROVE Tenure'
  BY <1>2 DEF ReadDecision, Goto, Return, Quietly, Idle
<1>3. ASSUME NEW p \in Process, ConsumeCancel(p) PROVE Tenure'
  BY <1>3 DEF ConsumeCancel, Goto, Return, Quietly, Idle, Consumed, Forget
<1>4. ASSUME NEW p \in Process, ConsumeStale(p) PROVE Tenure'
  BY <1>4 DEF ConsumeStale, Goto, Return, Quietly, Idle, Consumed, Forget
<1>5. ASSUME NEW p \in Process, ConsumeDecision(p) PROVE Tenure'
  BY <1>5 DEF ConsumeDecision, Goto, Return, Quietly, Idle, Consumed, Forget
<1>6. ASSUME NEW p \in Process, ApplyDecision(p) PROVE Tenure'
  BY <1>6 DEF ApplyDecision, Goto, Return, Quietly, Idle
<1>7. ASSUME NEW p \in Process, ReconcileInvocation(p) PROVE Tenure'
  <2>1. row'.worker = row.worker /\ row'.leased = row.leased /\ row'.status = row.status
    BY <1>7 DEF ReconcileInvocation, Row
  <2>2. /\ proc'[p].pc \in {"STOPPING", "BOUNDARY"}
        /\ \A q \in Process : q # p => proc'[q] = proc[q]
    BY <1>7 DEF ReconcileInvocation, Goto
  <2> QED
    BY <1>7, <2>1, <2>2 DEF ReconcileInvocation, Quietly
<1>8. ASSUME NEW p \in Process, NextBatch(p) PROVE Tenure'
  BY <1>8 DEF NextBatch, Goto, Return, Quietly, Idle, Within
<1>9. ASSUME NEW p \in Process, ScopeReached(p) PROVE Tenure'
  BY <1>9 DEF ScopeReached, Goto, Return, Quietly, Idle, Within, RequestedPause
<1>10. ASSUME NEW p \in Process, BeginPhase(p) PROVE Tenure'
  <2>1. row'.worker = row.worker /\ row'.leased = row.leased /\ row'.status = row.status
    BY <1>10 DEF BeginPhase, Row
  <2>2. /\ proc'[p].pc \in {"PAUSING", "PHASE"}
        /\ \A q \in Process : q # p => proc'[q] = proc[q]
    BY <1>10 DEF BeginPhase, Goto
  <2> QED
    BY <1>10, <2>1, <2>2 DEF BeginPhase, Quietly
<1>11. ASSUME NEW p \in Process, LimitReached(p) PROVE Tenure'
  BY <1>11 DEF LimitReached, Goto, Return, Quietly, Idle
<1>12. ASSUME NEW p \in Process, FinishBatch(p) PROVE Tenure'
  BY <1>12 DEF FinishBatch, Goto, Return, Quietly, Idle
<1>13. ASSUME NEW p \in Process, StartInvocation(p) PROVE Tenure'
  BY <1>13 DEF StartInvocation, Goto, Return, Quietly, Idle
<1>14. ASSUME NEW p \in Process, RefuseInvocation(p) PROVE Tenure'
  BY <1>14 DEF RefuseInvocation, Goto, Return, Quietly, Idle
<1>15. ASSUME NEW p \in Process, SpawnAgent(p) PROVE Tenure'
  BY <1>15 DEF SpawnAgent, Goto, Return, Quietly, Idle
<1>16. ASSUME NEW p \in Process, AgentReturns(p) PROVE Tenure'
  BY <1>16 DEF AgentReturns, Goto, Return, Quietly, Idle
<1>17. ASSUME NEW p \in Process, AgentUnsettled(p) PROVE Tenure'
  BY <1>17 DEF AgentUnsettled, Goto, Return, Quietly, Idle
<1>18. ASSUME NEW p \in Process, EndPhase(p) PROVE Tenure'
  BY <1>18 DEF EndPhase, Goto, Return, Quietly, Idle, Completing
<1>19. ASSUME NEW p \in Process, Complete(p) PROVE Tenure'
  BY <1>19 DEF Complete, Goto, Return, Quietly, Idle
<1>20. ASSUME NEW p \in Process, SettlePause(p) PROVE Tenure'
  BY <1>20 DEF SettlePause, Goto, Return, Quietly, Idle, SettledPause
<1>21. ASSUME NEW p \in Process, Stop(p) PROVE Tenure'
  BY <1>21 DEF Stop, Goto, Return, Quietly, Idle
<1>22. ASSUME NEW p \in Process, ReleaseLease(p) PROVE Tenure'
  BY <1>22 DEF ReleaseLease, Goto, Return, Quietly, Idle
<1>23. ASSUME NEW p \in Process, PauseCommand(p) PROVE Tenure'
  BY <1>23 DEF PauseCommand, Goto, Return, Quietly, Idle, RequestedPause
<1>24. ASSUME NEW p \in Process, InterruptSignal(p) PROVE Tenure'
  BY <1>24 DEF InterruptSignal, Goto, Return, Quietly, Idle, RequestedPause
<1>25. ASSUME NEW p \in Process, SettleCommand(p) PROVE Tenure'
  BY <1>25 DEF SettleCommand, Goto, Return, Quietly, Idle, SettleDeadPause, SettledPause
<1>26. ASSUME NEW p \in Process, ClaimResume(p) PROVE Tenure'
  BY <1>26, ClaimResumeEffect
<1>27. ASSUME NEW p \in Process, Launched(p) PROVE Tenure'
  BY <1>27 DEF Launched, Goto, Return, Quietly, Idle
<1>28. ASSUME NEW p \in Process, RevertResume(p) PROVE Tenure'
  BY <1>28 DEF RevertResume, Goto, Return, Quietly, Idle
<1>29. ASSUME NEW p \in Process, CancelCommand(p) PROVE Tenure'
  BY <1>29 DEF CancelCommand, Goto, Return, Quietly, Idle
<1>30. ASSUME NEW p \in Process, WriteCancelled(p) PROVE Tenure'
  BY <1>30 DEF WriteCancelled, Goto, Return, Quietly, Idle, HoldsRow
<1>31. ASSUME NEW p \in Process, WriteDecision(p) PROVE Tenure'
  BY <1>31 DEF WriteDecision, Goto, Return, Quietly, Idle
<1>32. ASSUME NEW p \in Process, ReconcileStalled(p) PROVE Tenure'
  BY <1>32 DEF ReconcileStalled, Goto, Return, Quietly, Idle
<1>33. ASSUME NEW p \in Process, StopStalled(p) PROVE Tenure'
  BY <1>33 DEF StopStalled, Goto, Return, Quietly, Idle
<1>34. ASSUME NEW p \in Process, Heartbeat(p) PROVE Tenure'
  BY <1>34 DEF Heartbeat, Goto, Return, Quietly, Idle, InPhase
<1>35. ASSUME NEW p \in Process, Crash(p) PROVE Tenure'
  BY <1>35 DEF Crash, Goto, Return, Quietly, Idle
<1>36. ASSUME NEW p \in Process, NEW requested \in Requests, RunResume(p, requested) PROVE Tenure'
  BY <1>36, RunResumeEffect
<1>37. ASSUME NEW p \in Process, NEW requested \in Requests, ResumeCommand(p, requested)
      PROVE Tenure'
  BY <1>37, ResumeEffect
<1>38. ASSUME NEW p \in Process, NEW action \in Decisions, DecideCommand(p, action) PROVE Tenure'
  BY <1>38 DEF DecideCommand, Goto, Return, Quietly, Idle
<1>39. CASE LeaseExpires
  BY <1>39 DEF LeaseExpires, HoldsRow
<1>40. CASE UNCHANGED runnerVars
  BY <1>40 DEF runnerVars
<1> QED
  BY <1>1, <1>2, <1>3, <1>4, <1>5, <1>6, <1>7, <1>8, <1>9, <1>10, <1>11, <1>12, <1>13, <1>14,
    <1>15, <1>16, <1>17, <1>18, <1>19, <1>20, <1>21, <1>22, <1>23, <1>24, <1>25, <1>26, <1>27,
    <1>28, <1>29, <1>30, <1>31, <1>32, <1>33, <1>34, <1>35, <1>36, <1>37, <1>38, <1>39,
    <1>40 DEF RunnerNext, WorkerStep, CommandStep

LEMMA DecidedStep == ASSUME RunnerInv, [RunnerNext]_runnerVars PROVE (Decided /\ Consuming)'
<1> USE RunnerAssumption DEF RunnerInv, RunnerTypeOK, Working, At, WorkingPCs, Tenure, Decided,
  Consuming, ProcState, Row, Decisions, NoDecision
<1>1. ASSUME NEW p \in Process, AcquireLease(p) PROVE (Decided /\ Consuming)'
  <2>1. /\ row'.status = row.status /\ row'.decision = row.decision /\ UNCHANGED outrun
        /\ \A q \in Process : q # p => proc'[q] = proc[q]
        /\ proc'[p].pc \in {"LEASED", "IDLE", "REVERTING"}
    BY <1>1, AcquireLeaseEffect
  <2>2. Decided'
    BY <2>1
  <2>3. Consuming'
    BY <2>1
  <2> QED
    BY <2>2, <2>3
<1>2. ASSUME NEW p \in Process, ReadDecision(p) PROVE (Decided /\ Consuming)'
  BY <1>2 DEF ReadDecision, Goto, Return, Quietly, Idle
<1>3. ASSUME NEW p \in Process, ConsumeCancel(p) PROVE (Decided /\ Consuming)'
  BY <1>3 DEF ConsumeCancel, Goto, Return, Quietly, Idle, Consumed, Forget
<1>4. ASSUME NEW p \in Process, ConsumeStale(p) PROVE (Decided /\ Consuming)'
  BY <1>4 DEF ConsumeStale, Goto, Return, Quietly, Idle, Consumed, Forget
<1>5. ASSUME NEW p \in Process, ConsumeDecision(p) PROVE (Decided /\ Consuming)'
  BY <1>5 DEF ConsumeDecision, Goto, Return, Quietly, Idle, Consumed, Forget
<1>6. ASSUME NEW p \in Process, ApplyDecision(p) PROVE (Decided /\ Consuming)'
  BY <1>6 DEF ApplyDecision, Goto, Return, Quietly, Idle
<1>7. ASSUME NEW p \in Process, ReconcileInvocation(p) PROVE (Decided /\ Consuming)'
  BY <1>7 DEF ReconcileInvocation, Goto, Return, Quietly, Idle
<1>8. ASSUME NEW p \in Process, NextBatch(p) PROVE (Decided /\ Consuming)'
  BY <1>8 DEF NextBatch, Goto, Return, Quietly, Idle, Within
<1>9. ASSUME NEW p \in Process, ScopeReached(p) PROVE (Decided /\ Consuming)'
  BY <1>9 DEF ScopeReached, Goto, Return, Quietly, Idle, Within, RequestedPause
<1>10. ASSUME NEW p \in Process, BeginPhase(p) PROVE (Decided /\ Consuming)'
  BY <1>10 DEF BeginPhase, Goto, Return, Quietly, Idle
<1>11. ASSUME NEW p \in Process, LimitReached(p) PROVE (Decided /\ Consuming)'
  BY <1>11 DEF LimitReached, Goto, Return, Quietly, Idle
<1>12. ASSUME NEW p \in Process, FinishBatch(p) PROVE (Decided /\ Consuming)'
  BY <1>12 DEF FinishBatch, Goto, Return, Quietly, Idle
<1>13. ASSUME NEW p \in Process, StartInvocation(p) PROVE (Decided /\ Consuming)'
  BY <1>13 DEF StartInvocation, Goto, Return, Quietly, Idle
<1>14. ASSUME NEW p \in Process, RefuseInvocation(p) PROVE (Decided /\ Consuming)'
  BY <1>14 DEF RefuseInvocation, Goto, Return, Quietly, Idle
<1>15. ASSUME NEW p \in Process, SpawnAgent(p) PROVE (Decided /\ Consuming)'
  BY <1>15 DEF SpawnAgent, Goto, Return, Quietly, Idle
<1>16. ASSUME NEW p \in Process, AgentReturns(p) PROVE (Decided /\ Consuming)'
  BY <1>16 DEF AgentReturns, Goto, Return, Quietly, Idle
<1>17. ASSUME NEW p \in Process, AgentUnsettled(p) PROVE (Decided /\ Consuming)'
  BY <1>17 DEF AgentUnsettled, Goto, Return, Quietly, Idle
<1>18. ASSUME NEW p \in Process, EndPhase(p) PROVE (Decided /\ Consuming)'
  BY <1>18 DEF EndPhase, Goto, Return, Quietly, Idle, Completing
<1>19. ASSUME NEW p \in Process, Complete(p) PROVE (Decided /\ Consuming)'
  BY <1>19 DEF Complete, Goto, Return, Quietly, Idle
<1>20. ASSUME NEW p \in Process, SettlePause(p) PROVE (Decided /\ Consuming)'
  BY <1>20 DEF SettlePause, Goto, Return, Quietly, Idle, SettledPause
<1>21. ASSUME NEW p \in Process, Stop(p) PROVE (Decided /\ Consuming)'
  BY <1>21 DEF Stop, Goto, Return, Quietly, Idle
<1>22. ASSUME NEW p \in Process, ReleaseLease(p) PROVE (Decided /\ Consuming)'
  BY <1>22 DEF ReleaseLease, Goto, Return, Quietly, Idle
<1>23. ASSUME NEW p \in Process, PauseCommand(p) PROVE (Decided /\ Consuming)'
  BY <1>23 DEF PauseCommand, Goto, Return, Quietly, Idle, RequestedPause
<1>24. ASSUME NEW p \in Process, InterruptSignal(p) PROVE (Decided /\ Consuming)'
  BY <1>24 DEF InterruptSignal, Goto, Return, Quietly, Idle, RequestedPause
<1>25. ASSUME NEW p \in Process, SettleCommand(p) PROVE (Decided /\ Consuming)'
  BY <1>25 DEF SettleCommand, Goto, Return, Quietly, Idle, SettleDeadPause, SettledPause
<1>26. ASSUME NEW p \in Process, ClaimResume(p) PROVE (Decided /\ Consuming)'
  BY <1>26, ClaimResumeEffect
<1>27. ASSUME NEW p \in Process, Launched(p) PROVE (Decided /\ Consuming)'
  BY <1>27 DEF Launched, Goto, Return, Quietly, Idle
<1>28. ASSUME NEW p \in Process, RevertResume(p) PROVE (Decided /\ Consuming)'
  BY <1>28 DEF RevertResume, Goto, Return, Quietly, Idle
<1>29. ASSUME NEW p \in Process, CancelCommand(p) PROVE (Decided /\ Consuming)'
  BY <1>29 DEF CancelCommand, Goto, Return, Quietly, Idle
<1>30. ASSUME NEW p \in Process, WriteCancelled(p) PROVE (Decided /\ Consuming)'
  BY <1>30 DEF WriteCancelled, Goto, Return, Quietly, Idle, HoldsRow
<1>31. ASSUME NEW p \in Process, WriteDecision(p) PROVE (Decided /\ Consuming)'
  BY <1>31 DEF WriteDecision, Goto, Return, Quietly, Idle
<1>32. ASSUME NEW p \in Process, ReconcileStalled(p) PROVE (Decided /\ Consuming)'
  BY <1>32 DEF ReconcileStalled, Goto, Return, Quietly, Idle
<1>33. ASSUME NEW p \in Process, StopStalled(p) PROVE (Decided /\ Consuming)'
  BY <1>33 DEF StopStalled, Goto, Return, Quietly, Idle
<1>34. ASSUME NEW p \in Process, Heartbeat(p) PROVE (Decided /\ Consuming)'
  BY <1>34 DEF Heartbeat, Goto, Return, Quietly, Idle, InPhase
<1>35. ASSUME NEW p \in Process, Crash(p) PROVE (Decided /\ Consuming)'
  BY <1>35 DEF Crash, Goto, Return, Quietly, Idle
<1>36. ASSUME NEW p \in Process, NEW requested \in Requests, RunResume(p, requested)
      PROVE (Decided /\ Consuming)'
  BY <1>36, RunResumeEffect
<1>37. ASSUME NEW p \in Process, NEW requested \in Requests, ResumeCommand(p, requested)
      PROVE (Decided /\ Consuming)'
  BY <1>37, ResumeEffect
<1>38. ASSUME NEW p \in Process, NEW action \in Decisions, DecideCommand(p, action)
      PROVE (Decided /\ Consuming)'
  BY <1>38 DEF DecideCommand, Goto, Return, Quietly, Idle
<1>39. CASE LeaseExpires
  BY <1>39 DEF LeaseExpires, HoldsRow
<1>40. CASE UNCHANGED runnerVars
  BY <1>40 DEF runnerVars
<1> QED
  BY <1>1, <1>2, <1>3, <1>4, <1>5, <1>6, <1>7, <1>8, <1>9, <1>10, <1>11, <1>12, <1>13, <1>14,
    <1>15, <1>16, <1>17, <1>18, <1>19, <1>20, <1>21, <1>22, <1>23, <1>24, <1>25, <1>26, <1>27,
    <1>28, <1>29, <1>30, <1>31, <1>32, <1>33, <1>34, <1>35, <1>36, <1>37, <1>38, <1>39,
    <1>40 DEF RunnerNext, WorkerStep, CommandStep

LEMMA InFlightStep == ASSUME RunnerInv, [RunnerNext]_runnerVars PROVE InFlight'
<1> USE RunnerAssumption DEF RunnerInv, RunnerTypeOK, Working, At, WorkingPCs, Tenure, InFlight,
  ProcState, Row, Invocation
<1>1. ASSUME NEW p \in Process, AcquireLease(p) PROVE InFlight'
  BY <1>1, AcquireLeaseEffect DEF LeaseFree
<1>2. ASSUME NEW p \in Process, ReadDecision(p) PROVE InFlight'
  BY <1>2 DEF ReadDecision, Goto, Return, Quietly, Idle
<1>3. ASSUME NEW p \in Process, ConsumeCancel(p) PROVE InFlight'
  BY <1>3 DEF ConsumeCancel, Goto, Return, Quietly, Idle, Consumed, Forget
<1>4. ASSUME NEW p \in Process, ConsumeStale(p) PROVE InFlight'
  BY <1>4 DEF ConsumeStale, Goto, Return, Quietly, Idle, Consumed, Forget
<1>5. ASSUME NEW p \in Process, ConsumeDecision(p) PROVE InFlight'
  BY <1>5 DEF ConsumeDecision, Goto, Return, Quietly, Idle, Consumed, Forget
<1>6. ASSUME NEW p \in Process, ApplyDecision(p) PROVE InFlight'
  BY <1>6 DEF ApplyDecision, Goto, Return, Quietly, Idle
<1>7. ASSUME NEW p \in Process, ReconcileInvocation(p) PROVE InFlight'
  BY <1>7 DEF ReconcileInvocation, Goto, Return, Quietly, Idle
<1>8. ASSUME NEW p \in Process, NextBatch(p) PROVE InFlight'
  BY <1>8 DEF NextBatch, Goto, Return, Quietly, Idle, Within
<1>9. ASSUME NEW p \in Process, ScopeReached(p) PROVE InFlight'
  BY <1>9 DEF ScopeReached, Goto, Return, Quietly, Idle, Within, RequestedPause
<1>10. ASSUME NEW p \in Process, BeginPhase(p) PROVE InFlight'
  BY <1>10 DEF BeginPhase, Goto, Return, Quietly, Idle
<1>11. ASSUME NEW p \in Process, LimitReached(p) PROVE InFlight'
  BY <1>11 DEF LimitReached, Goto, Return, Quietly, Idle
<1>12. ASSUME NEW p \in Process, FinishBatch(p) PROVE InFlight'
  BY <1>12 DEF FinishBatch, Goto, Return, Quietly, Idle
<1>13. ASSUME NEW p \in Process, StartInvocation(p) PROVE InFlight'
  BY <1>13 DEF StartInvocation, Goto, Return, Quietly, Idle
<1>14. ASSUME NEW p \in Process, RefuseInvocation(p) PROVE InFlight'
  BY <1>14 DEF RefuseInvocation, Goto, Return, Quietly, Idle
<1>15. ASSUME NEW p \in Process, SpawnAgent(p) PROVE InFlight'
  BY <1>15 DEF SpawnAgent, Goto, Return, Quietly, Idle
<1>16. ASSUME NEW p \in Process, AgentReturns(p) PROVE InFlight'
  BY <1>16 DEF AgentReturns, Goto, Return, Quietly, Idle
<1>17. ASSUME NEW p \in Process, AgentUnsettled(p) PROVE InFlight'
  BY <1>17 DEF AgentUnsettled, Goto, Return, Quietly, Idle
<1>18. ASSUME NEW p \in Process, EndPhase(p) PROVE InFlight'
  BY <1>18 DEF EndPhase, Goto, Return, Quietly, Idle, Completing
<1>19. ASSUME NEW p \in Process, Complete(p) PROVE InFlight'
  BY <1>19 DEF Complete, Goto, Return, Quietly, Idle
<1>20. ASSUME NEW p \in Process, SettlePause(p) PROVE InFlight'
  BY <1>20 DEF SettlePause, Goto, Return, Quietly, Idle, SettledPause
<1>21. ASSUME NEW p \in Process, Stop(p) PROVE InFlight'
  BY <1>21 DEF Stop, Goto, Return, Quietly, Idle
<1>22. ASSUME NEW p \in Process, ReleaseLease(p) PROVE InFlight'
  BY <1>22 DEF ReleaseLease, Goto, Return, Quietly, Idle
<1>23. ASSUME NEW p \in Process, PauseCommand(p) PROVE InFlight'
  BY <1>23 DEF PauseCommand, Goto, Return, Quietly, Idle, RequestedPause
<1>24. ASSUME NEW p \in Process, InterruptSignal(p) PROVE InFlight'
  BY <1>24 DEF InterruptSignal, Goto, Return, Quietly, Idle, RequestedPause
<1>25. ASSUME NEW p \in Process, SettleCommand(p) PROVE InFlight'
  BY <1>25 DEF SettleCommand, Goto, Return, Quietly, Idle, SettleDeadPause, SettledPause
<1>26. ASSUME NEW p \in Process, ClaimResume(p) PROVE InFlight'
  BY <1>26, ClaimResumeEffect
<1>27. ASSUME NEW p \in Process, Launched(p) PROVE InFlight'
  BY <1>27 DEF Launched, Goto, Return, Quietly, Idle
<1>28. ASSUME NEW p \in Process, RevertResume(p) PROVE InFlight'
  BY <1>28 DEF RevertResume, Goto, Return, Quietly, Idle
<1>29. ASSUME NEW p \in Process, CancelCommand(p) PROVE InFlight'
  BY <1>29 DEF CancelCommand, Goto, Return, Quietly, Idle
<1>30. ASSUME NEW p \in Process, WriteCancelled(p) PROVE InFlight'
  BY <1>30 DEF WriteCancelled, Goto, Return, Quietly, Idle, HoldsRow
<1>31. ASSUME NEW p \in Process, WriteDecision(p) PROVE InFlight'
  BY <1>31 DEF WriteDecision, Goto, Return, Quietly, Idle
<1>32. ASSUME NEW p \in Process, ReconcileStalled(p) PROVE InFlight'
  BY <1>32 DEF ReconcileStalled, Goto, Return, Quietly, Idle
<1>33. ASSUME NEW p \in Process, StopStalled(p) PROVE InFlight'
  BY <1>33 DEF StopStalled, Goto, Return, Quietly, Idle
<1>34. ASSUME NEW p \in Process, Heartbeat(p) PROVE InFlight'
  BY <1>34 DEF Heartbeat, Goto, Return, Quietly, Idle, InPhase
<1>35. ASSUME NEW p \in Process, Crash(p) PROVE InFlight'
  BY <1>35 DEF Crash, Goto, Return, Quietly, Idle
<1>36. ASSUME NEW p \in Process, NEW requested \in Requests, RunResume(p, requested) PROVE InFlight'
  BY <1>36, RunResumeEffect
<1>37. ASSUME NEW p \in Process, NEW requested \in Requests, ResumeCommand(p, requested)
      PROVE InFlight'
  BY <1>37, ResumeEffect
<1>38. ASSUME NEW p \in Process, NEW action \in Decisions, DecideCommand(p, action) PROVE InFlight'
  BY <1>38 DEF DecideCommand, Goto, Return, Quietly, Idle
<1>39. CASE LeaseExpires
  BY <1>39 DEF LeaseExpires, HoldsRow
<1>40. CASE UNCHANGED runnerVars
  BY <1>40 DEF runnerVars
<1> QED
  BY <1>1, <1>2, <1>3, <1>4, <1>5, <1>6, <1>7, <1>8, <1>9, <1>10, <1>11, <1>12, <1>13, <1>14,
    <1>15, <1>16, <1>17, <1>18, <1>19, <1>20, <1>21, <1>22, <1>23, <1>24, <1>25, <1>26, <1>27,
    <1>28, <1>29, <1>30, <1>31, <1>32, <1>33, <1>34, <1>35, <1>36, <1>37, <1>38, <1>39,
    <1>40 DEF RunnerNext, WorkerStep, CommandStep

LEMMA LostStep == ASSUME RunnerInv, [RunnerNext]_runnerVars PROVE LostIsMarked'
<1> USE RunnerAssumption DEF RunnerInv, RunnerTypeOK, Working, At, WorkingPCs, Tenure, Consuming,
  InFlight, LostIsMarked, ProcState, Row
<1>1. ASSUME NEW p \in Process, AcquireLease(p) PROVE LostIsMarked'
  BY <1>1, AcquireLeaseEffect DEF LeaseFree
<1>2. ASSUME NEW p \in Process, ReadDecision(p) PROVE LostIsMarked'
  BY <1>2 DEF ReadDecision, Goto, Return, Quietly, Idle
<1>3. ASSUME NEW p \in Process, ConsumeCancel(p) PROVE LostIsMarked'
  BY <1>3 DEF ConsumeCancel, Goto, Return, Quietly, Idle, Consumed, Forget
<1>4. ASSUME NEW p \in Process, ConsumeStale(p) PROVE LostIsMarked'
  BY <1>4 DEF ConsumeStale, Goto, Return, Quietly, Idle, Consumed, Forget
<1>5. ASSUME NEW p \in Process, ConsumeDecision(p) PROVE LostIsMarked'
  BY <1>5 DEF ConsumeDecision, Goto, Return, Quietly, Idle, Consumed, Forget
<1>6. ASSUME NEW p \in Process, ApplyDecision(p) PROVE LostIsMarked'
  BY <1>6 DEF ApplyDecision, Goto, Return, Quietly, Idle
<1>7. ASSUME NEW p \in Process, ReconcileInvocation(p) PROVE LostIsMarked'
  BY <1>7 DEF ReconcileInvocation, Goto, Return, Quietly, Idle
<1>8. ASSUME NEW p \in Process, NextBatch(p) PROVE LostIsMarked'
  BY <1>8 DEF NextBatch, Goto, Return, Quietly, Idle, Within
<1>9. ASSUME NEW p \in Process, ScopeReached(p) PROVE LostIsMarked'
  BY <1>9 DEF ScopeReached, Goto, Return, Quietly, Idle, Within, RequestedPause
<1>10. ASSUME NEW p \in Process, BeginPhase(p) PROVE LostIsMarked'
  BY <1>10 DEF BeginPhase, Goto, Return, Quietly, Idle
<1>11. ASSUME NEW p \in Process, LimitReached(p) PROVE LostIsMarked'
  BY <1>11 DEF LimitReached, Goto, Return, Quietly, Idle
<1>12. ASSUME NEW p \in Process, FinishBatch(p) PROVE LostIsMarked'
  BY <1>12 DEF FinishBatch, Goto, Return, Quietly, Idle
<1>13. ASSUME NEW p \in Process, StartInvocation(p) PROVE LostIsMarked'
  BY <1>13 DEF StartInvocation, Goto, Return, Quietly, Idle
<1>14. ASSUME NEW p \in Process, RefuseInvocation(p) PROVE LostIsMarked'
  BY <1>14 DEF RefuseInvocation, Goto, Return, Quietly, Idle
<1>15. ASSUME NEW p \in Process, SpawnAgent(p) PROVE LostIsMarked'
  BY <1>15 DEF SpawnAgent, Goto, Return, Quietly, Idle
<1>16. ASSUME NEW p \in Process, AgentReturns(p) PROVE LostIsMarked'
  BY <1>16 DEF AgentReturns, Goto, Return, Quietly, Idle
<1>17. ASSUME NEW p \in Process, AgentUnsettled(p) PROVE LostIsMarked'
  BY <1>17 DEF AgentUnsettled, Goto, Return, Quietly, Idle
<1>18. ASSUME NEW p \in Process, EndPhase(p) PROVE LostIsMarked'
  BY <1>18 DEF EndPhase, Goto, Return, Quietly, Idle, Completing
<1>19. ASSUME NEW p \in Process, Complete(p) PROVE LostIsMarked'
  BY <1>19 DEF Complete, Goto, Return, Quietly, Idle
<1>20. ASSUME NEW p \in Process, SettlePause(p) PROVE LostIsMarked'
  BY <1>20 DEF SettlePause, Goto, Return, Quietly, Idle, SettledPause
<1>21. ASSUME NEW p \in Process, Stop(p) PROVE LostIsMarked'
  BY <1>21 DEF Stop, Goto, Return, Quietly, Idle
<1>22. ASSUME NEW p \in Process, ReleaseLease(p) PROVE LostIsMarked'
  BY <1>22 DEF ReleaseLease, Goto, Return, Quietly, Idle
<1>23. ASSUME NEW p \in Process, PauseCommand(p) PROVE LostIsMarked'
  BY <1>23 DEF PauseCommand, Goto, Return, Quietly, Idle, RequestedPause
<1>24. ASSUME NEW p \in Process, InterruptSignal(p) PROVE LostIsMarked'
  BY <1>24 DEF InterruptSignal, Goto, Return, Quietly, Idle, RequestedPause
<1>25. ASSUME NEW p \in Process, SettleCommand(p) PROVE LostIsMarked'
  BY <1>25 DEF SettleCommand, Goto, Return, Quietly, Idle, SettleDeadPause, SettledPause
<1>26. ASSUME NEW p \in Process, ClaimResume(p) PROVE LostIsMarked'
  BY <1>26, ClaimResumeEffect
<1>27. ASSUME NEW p \in Process, Launched(p) PROVE LostIsMarked'
  BY <1>27 DEF Launched, Goto, Return, Quietly, Idle
<1>28. ASSUME NEW p \in Process, RevertResume(p) PROVE LostIsMarked'
  BY <1>28 DEF RevertResume, Goto, Return, Quietly, Idle
<1>29. ASSUME NEW p \in Process, CancelCommand(p) PROVE LostIsMarked'
  BY <1>29 DEF CancelCommand, Goto, Return, Quietly, Idle
<1>30. ASSUME NEW p \in Process, WriteCancelled(p) PROVE LostIsMarked'
  BY <1>30 DEF WriteCancelled, Goto, Return, Quietly, Idle, HoldsRow
<1>31. ASSUME NEW p \in Process, WriteDecision(p) PROVE LostIsMarked'
  BY <1>31 DEF WriteDecision, Goto, Return, Quietly, Idle
<1>32. ASSUME NEW p \in Process, ReconcileStalled(p) PROVE LostIsMarked'
  BY <1>32 DEF ReconcileStalled, Goto, Return, Quietly, Idle
<1>33. ASSUME NEW p \in Process, StopStalled(p) PROVE LostIsMarked'
  BY <1>33 DEF StopStalled, Goto, Return, Quietly, Idle
<1>34. ASSUME NEW p \in Process, Heartbeat(p) PROVE LostIsMarked'
  BY <1>34 DEF Heartbeat, Goto, Return, Quietly, Idle, InPhase
<1>35. ASSUME NEW p \in Process, Crash(p) PROVE LostIsMarked'
  <2>1. /\ row'.invocation.stage = row.invocation.stage
        /\ proc'[p].pc = "IDLE" /\ \A q \in Process : q # p => proc'[q] = proc[q]
        /\ outrun' = outrun /\ lost' = (lost \/ At(p, "INVOKING"))
    BY <1>35 DEF Crash, Return, Idle, Invocation, NoInvocation
  <2>2. CASE lost
    BY <2>1, <2>2
  <2>3. CASE At(p, "INVOKING")
    <3>1. ~outrun => \A q \in Process : Working(q) => q = p
      BY <2>3
    <3> QED
      BY <2>1, <2>3, <3>1
  <2> QED
    BY <2>1, <2>2, <2>3
<1>36. ASSUME NEW p \in Process, NEW requested \in Requests, RunResume(p, requested)
      PROVE LostIsMarked'
  BY <1>36, RunResumeEffect
<1>37. ASSUME NEW p \in Process, NEW requested \in Requests, ResumeCommand(p, requested)
      PROVE LostIsMarked'
  BY <1>37, ResumeEffect
<1>38. ASSUME NEW p \in Process, NEW action \in Decisions, DecideCommand(p, action)
      PROVE LostIsMarked'
  BY <1>38 DEF DecideCommand, Goto, Return, Quietly, Idle
<1>39. CASE LeaseExpires
  BY <1>39 DEF LeaseExpires, HoldsRow
<1>40. CASE UNCHANGED runnerVars
  BY <1>40 DEF runnerVars
<1> QED
  BY <1>1, <1>2, <1>3, <1>4, <1>5, <1>6, <1>7, <1>8, <1>9, <1>10, <1>11, <1>12, <1>13, <1>14,
    <1>15, <1>16, <1>17, <1>18, <1>19, <1>20, <1>21, <1>22, <1>23, <1>24, <1>25, <1>26, <1>27,
    <1>28, <1>29, <1>30, <1>31, <1>32, <1>33, <1>34, <1>35, <1>36, <1>37, <1>38, <1>39,
    <1>40 DEF RunnerNext, WorkerStep, CommandStep

\* The bodies of PauseIsKept and StoppedUntilDecided.
PauseStep == ~outrun /\ row.status = "PAUSE_REQUESTED" =>
  row'.status \notin {"RUNNING", "READY_FOR_HUMAN_VERIFICATION"}

DecisionStep ==
  ~outrun /\ row.status = "HUMAN_DECISION_REQUIRED"
    /\ row'.status \notin {"HUMAN_DECISION_REQUIRED", "CANCELLED"} =>
    row.decision # NoDecision /\ row'.decision = NoDecision

LEMMA StatusStep == ASSUME RunnerInv, [RunnerNext]_runnerVars PROVE PauseStep /\ DecisionStep
<1> USE RunnerAssumption DEF RunnerInv, RunnerTypeOK, Working, At, WorkingPCs, Consuming, Row,
  PauseStep, DecisionStep
<1>1. ASSUME NEW p \in Process, AcquireLease(p) PROVE PauseStep /\ DecisionStep
  BY <1>1, AcquireLeaseEffect DEF LeaseFree
<1>2. ASSUME NEW p \in Process, ReadDecision(p) PROVE PauseStep /\ DecisionStep
  BY <1>2 DEF ReadDecision, Goto, Return, Quietly, Idle
<1>3. ASSUME NEW p \in Process, ConsumeCancel(p) PROVE PauseStep /\ DecisionStep
  BY <1>3 DEF ConsumeCancel, Goto, Return, Quietly, Idle, Consumed, Forget
<1>4. ASSUME NEW p \in Process, ConsumeStale(p) PROVE PauseStep /\ DecisionStep
  BY <1>4 DEF ConsumeStale, Goto, Return, Quietly, Idle, Consumed, Forget
<1>5. ASSUME NEW p \in Process, ConsumeDecision(p) PROVE PauseStep /\ DecisionStep
  BY <1>5 DEF ConsumeDecision, Goto, Return, Quietly, Idle, Consumed, Forget
<1>6. ASSUME NEW p \in Process, ApplyDecision(p) PROVE PauseStep /\ DecisionStep
  BY <1>6 DEF ApplyDecision, Goto, Return, Quietly, Idle
<1>7. ASSUME NEW p \in Process, ReconcileInvocation(p) PROVE PauseStep /\ DecisionStep
  BY <1>7 DEF ReconcileInvocation, Goto, Return, Quietly, Idle
<1>8. ASSUME NEW p \in Process, NextBatch(p) PROVE PauseStep /\ DecisionStep
  BY <1>8 DEF NextBatch, Goto, Return, Quietly, Idle, Within
<1>9. ASSUME NEW p \in Process, ScopeReached(p) PROVE PauseStep /\ DecisionStep
  BY <1>9 DEF ScopeReached, Goto, Return, Quietly, Idle, Within, RequestedPause
<1>10. ASSUME NEW p \in Process, BeginPhase(p) PROVE PauseStep /\ DecisionStep
  BY <1>10 DEF BeginPhase, Goto, Return, Quietly, Idle
<1>11. ASSUME NEW p \in Process, LimitReached(p) PROVE PauseStep /\ DecisionStep
  BY <1>11 DEF LimitReached, Goto, Return, Quietly, Idle
<1>12. ASSUME NEW p \in Process, FinishBatch(p) PROVE PauseStep /\ DecisionStep
  BY <1>12 DEF FinishBatch, Goto, Return, Quietly, Idle
<1>13. ASSUME NEW p \in Process, StartInvocation(p) PROVE PauseStep /\ DecisionStep
  BY <1>13 DEF StartInvocation, Goto, Return, Quietly, Idle
<1>14. ASSUME NEW p \in Process, RefuseInvocation(p) PROVE PauseStep /\ DecisionStep
  BY <1>14 DEF RefuseInvocation, Goto, Return, Quietly, Idle
<1>15. ASSUME NEW p \in Process, SpawnAgent(p) PROVE PauseStep /\ DecisionStep
  BY <1>15 DEF SpawnAgent, Goto, Return, Quietly, Idle
<1>16. ASSUME NEW p \in Process, AgentReturns(p) PROVE PauseStep /\ DecisionStep
  BY <1>16 DEF AgentReturns, Goto, Return, Quietly, Idle
<1>17. ASSUME NEW p \in Process, AgentUnsettled(p) PROVE PauseStep /\ DecisionStep
  BY <1>17 DEF AgentUnsettled, Goto, Return, Quietly, Idle
<1>18. ASSUME NEW p \in Process, EndPhase(p) PROVE PauseStep /\ DecisionStep
  BY <1>18 DEF EndPhase, Goto, Return, Quietly, Idle, Completing
<1>19. ASSUME NEW p \in Process, Complete(p) PROVE PauseStep /\ DecisionStep
  BY <1>19 DEF Complete, Goto, Return, Quietly, Idle
<1>20. ASSUME NEW p \in Process, SettlePause(p) PROVE PauseStep /\ DecisionStep
  BY <1>20 DEF SettlePause, Goto, Return, Quietly, Idle, SettledPause
<1>21. ASSUME NEW p \in Process, Stop(p) PROVE PauseStep /\ DecisionStep
  BY <1>21 DEF Stop, Goto, Return, Quietly, Idle
<1>22. ASSUME NEW p \in Process, ReleaseLease(p) PROVE PauseStep /\ DecisionStep
  BY <1>22 DEF ReleaseLease, Goto, Return, Quietly, Idle
<1>23. ASSUME NEW p \in Process, PauseCommand(p) PROVE PauseStep /\ DecisionStep
  BY <1>23 DEF PauseCommand, Goto, Return, Quietly, Idle, RequestedPause
<1>24. ASSUME NEW p \in Process, InterruptSignal(p) PROVE PauseStep /\ DecisionStep
  BY <1>24 DEF InterruptSignal, Goto, Return, Quietly, Idle, RequestedPause
<1>25. ASSUME NEW p \in Process, SettleCommand(p) PROVE PauseStep /\ DecisionStep
  BY <1>25 DEF SettleCommand, Goto, Return, Quietly, Idle, SettleDeadPause, SettledPause
<1>26. ASSUME NEW p \in Process, ClaimResume(p) PROVE PauseStep /\ DecisionStep
  BY <1>26, ClaimResumeEffect
<1>27. ASSUME NEW p \in Process, Launched(p) PROVE PauseStep /\ DecisionStep
  BY <1>27 DEF Launched, Goto, Return, Quietly, Idle
<1>28. ASSUME NEW p \in Process, RevertResume(p) PROVE PauseStep /\ DecisionStep
  BY <1>28 DEF RevertResume, Goto, Return, Quietly, Idle
<1>29. ASSUME NEW p \in Process, CancelCommand(p) PROVE PauseStep /\ DecisionStep
  BY <1>29 DEF CancelCommand, Goto, Return, Quietly, Idle
<1>30. ASSUME NEW p \in Process, WriteCancelled(p) PROVE PauseStep /\ DecisionStep
  BY <1>30 DEF WriteCancelled, Goto, Return, Quietly, Idle, HoldsRow
<1>31. ASSUME NEW p \in Process, WriteDecision(p) PROVE PauseStep /\ DecisionStep
  BY <1>31 DEF WriteDecision, Goto, Return, Quietly, Idle
<1>32. ASSUME NEW p \in Process, ReconcileStalled(p) PROVE PauseStep /\ DecisionStep
  BY <1>32 DEF ReconcileStalled, Goto, Return, Quietly, Idle
<1>33. ASSUME NEW p \in Process, StopStalled(p) PROVE PauseStep /\ DecisionStep
  BY <1>33 DEF StopStalled, Goto, Return, Quietly, Idle
<1>34. ASSUME NEW p \in Process, Heartbeat(p) PROVE PauseStep /\ DecisionStep
  BY <1>34 DEF Heartbeat, Goto, Return, Quietly, Idle, InPhase
<1>35. ASSUME NEW p \in Process, Crash(p) PROVE PauseStep /\ DecisionStep
  BY <1>35 DEF Crash, Goto, Return, Quietly, Idle
<1>36. ASSUME NEW p \in Process, NEW requested \in Requests, RunResume(p, requested)
      PROVE PauseStep /\ DecisionStep
  BY <1>36, RunResumeEffect
<1>37. ASSUME NEW p \in Process, NEW requested \in Requests, ResumeCommand(p, requested)
      PROVE PauseStep /\ DecisionStep
  BY <1>37, ResumeEffect
<1>38. ASSUME NEW p \in Process, NEW action \in Decisions, DecideCommand(p, action)
      PROVE PauseStep /\ DecisionStep
  BY <1>38 DEF DecideCommand, Goto, Return, Quietly, Idle
<1>39. CASE LeaseExpires
  BY <1>39 DEF LeaseExpires, HoldsRow
<1>40. CASE UNCHANGED runnerVars
  BY <1>40 DEF runnerVars
<1> QED
  BY <1>1, <1>2, <1>3, <1>4, <1>5, <1>6, <1>7, <1>8, <1>9, <1>10, <1>11, <1>12, <1>13, <1>14,
    <1>15, <1>16, <1>17, <1>18, <1>19, <1>20, <1>21, <1>22, <1>23, <1>24, <1>25, <1>26, <1>27,
    <1>28, <1>29, <1>30, <1>31, <1>32, <1>33, <1>34, <1>35, <1>36, <1>37, <1>38, <1>39,
    <1>40 DEF RunnerNext, WorkerStep, CommandStep

LEMMA InitInv == RunnerInit => RunnerInv
<1> SUFFICES ASSUME RunnerInit PROVE RunnerInv
  OBVIOUS
<1>1. Idle \in ProcState
  BY IdleTyped
<1>2. RunnerTypeOK
  <2>1. row \in Row
    BY RunnerAssumption DEF RunnerInit, Row, Statuses
  <2>2. proc \in [Process -> ProcState]
    BY <1>1 DEF RunnerInit
  <2>3. lost \in BOOLEAN /\ outrun \in BOOLEAN
    BY DEF RunnerInit
  <2>4. 0 \in 0..MaxCrashes
    BY RunnerAssumption
  <2> QED
    BY <2>1, <2>2, <2>3, <2>4 DEF RunnerInit, RunnerTypeOK
<1>3. \A p \in Process : proc[p].pc = "IDLE"
  BY DEF RunnerInit, Idle
<1> QED
  BY <1>2, <1>3 DEF RunnerInit, RunnerInv, Tenure, Decided, Consuming, InFlight, LostIsMarked,
    Working, WorkingPCs, At

LEMMA Invariance == RunnerSpec => []RunnerInv
<1>1. RunnerInv /\ [RunnerNext]_runnerVars => RunnerInv'
  <2> SUFFICES ASSUME RunnerInv, [RunnerNext]_runnerVars PROVE RunnerInv'
    OBVIOUS
  <2>1. RunnerTypeOK'
    BY TypesStep DEF RunnerInv
  <2> QED
    BY <2>1, TenureStep, DecidedStep, InFlightStep, LostStep DEF RunnerInv
<1> QED
  BY InitInv, <1>1, PTL DEF RunnerSpec

(***************************************************************************)
(* The theorems.                                                           *)
(***************************************************************************)
(* The runner row and the processes keep their types.                      *)
THEOREM RunnerTyped == RunnerSpec => []RunnerTypeOK
<1>1. RunnerInv => RunnerTypeOK
  BY DEF RunnerInv
<1> QED
  BY Invariance, <1>1, PTL

(* At most one worker works on a workflow, under a live lease in its name, *)
(* as long as no worker has lost its lease: acquireLease, claimResume and  *)
(* releaseLease exclude each other.                                        *)
THEOREM OneWorker == RunnerSpec => []SoleWorker
<1>1. RunnerInv => SoleWorker
  BY DEF RunnerInv, Tenure, SoleWorker
<1> QED
  BY Invariance, <1>1, PTL

(* No agent is started after one whose outcome was lost, before a human    *)
(* has decided: the record of the lost one stops every worker.             *)
THEOREM LostStopsWorkers == RunnerSpec => []UnknownNeverRepeated
<1>1. RunnerInv => UnknownNeverRepeated
  BY DEF RunnerInv, LostIsMarked, UnknownNeverRepeated, Working, WorkingPCs, At
<1> QED
  BY Invariance, <1>1, PTL

(* No resume, decision or completion overwrites a requested pause.         *)
THEOREM PauseKept == RunnerSpec => PauseIsKept
<1>1. RunnerInv /\ [RunnerNext]_runnerVars => [PauseStep]_runnerVars
  BY StatusStep
<1>2. [][PauseStep]_runnerVars => PauseIsKept
  BY PTL DEF PauseStep, PauseIsKept
<1> QED
  BY Invariance, <1>1, <1>2, PTL DEF RunnerSpec

(* A stopped workflow goes on only by consuming a human decision.          *)
THEOREM StopsForHuman == RunnerSpec => StoppedUntilDecided
<1>1. RunnerInv /\ [RunnerNext]_runnerVars => [DecisionStep]_runnerVars
  BY StatusStep
<1>2. [][DecisionStep]_runnerVars => StoppedUntilDecided
  BY PTL DEF DecisionStep, StoppedUntilDecided
<1> QED
  BY Invariance, <1>1, <1>2, PTL DEF RunnerSpec


(***************************************************************************)
(* The runner keeps its promise.                                           *)
(***************************************************************************)
\* A worker that goes to settle a pause leaves no running workflow.
Pausing == ~outrun => \A p \in Process : At(p, "PAUSING") => row.status # "RUNNING"

ContractInv == RunnerInv /\ Pausing

AtWork == {p \in Process : Working(p)}

AtAgent == {p \in Process : At(p, "INVOKING")}

HasDecided == row.decision # NoDecision

Seen == <<row.status, HasDecided, AtWork, AtAgent, lost, outrun>>

\* Whom the promise sees at work and waiting after a step of one process.
LEMMA SeenAfter ==
  ASSUME NEW p \in Process, \A q \in Process : q # p => proc'[q] = proc[q]
  PROVE  /\ proc'[p].pc \in WorkingPCs => AtWork' = AtWork \cup {p}
         /\ proc'[p].pc \notin WorkingPCs => AtWork' = AtWork \ {p}
         /\ proc'[p].pc = "INVOKING" => AtAgent' = AtAgent \cup {p}
         /\ proc'[p].pc # "INVOKING" => AtAgent' = AtAgent \ {p}
BY DEF AtWork, AtAgent, Working, At

\* A process that neither starts, asks, is answered nor leaves, and only the columns the
\* promise does not speak of.
Unseen(p) ==
  /\ \A q \in Process : q # p => proc'[q] = proc[q]
  /\ proc'[p].pc \in WorkingPCs <=> proc[p].pc \in WorkingPCs
  /\ proc'[p].pc = "INVOKING" <=> proc[p].pc = "INVOKING"
  /\ proc'[p].pc = "PAUSING" => proc[p].pc = "PAUSING" \/ row.status # "RUNNING"
  /\ row'.status = row.status /\ row'.decision = row.decision
  /\ UNCHANGED <<lost, outrun>>

LEMMA UnseenStutters ==
  ASSUME NEW p \in Process, Unseen(p), Pausing
  PROVE  UNCHANGED Seen /\ Pausing'
<1>1. AtWork' = AtWork /\ AtAgent' = AtAgent
  BY DEF Unseen, AtWork, AtAgent, Working, At
<1>2. Pausing'
  BY DEF Unseen, Pausing, At
<1> QED
  BY <1>1, <1>2 DEF Unseen, Seen, HasDecided

LEMMA WorkersUnseen ==
  ASSUME RunnerTypeOK, NEW p \in Process,
         \/ ApplyDecision(p) \/ ReconcileInvocation(p) \/ NextBatch(p) \/ BeginPhase(p)
         \/ LimitReached(p) \/ FinishBatch(p) \/ StartInvocation(p) \/ RefuseInvocation(p)
         \/ EndPhase(p) \/ ReleaseLease(p) \/ Heartbeat(p)
  PROVE  Unseen(p)
<1> USE DEF RunnerTypeOK, ProcState, Row, At, WorkingPCs, Goto, Return, Quietly, Unseen
<1>1. CASE ApplyDecision(p)
  BY <1>1 DEF ApplyDecision
<1>2. CASE ReconcileInvocation(p)
  BY <1>2 DEF ReconcileInvocation
<1>3. CASE NextBatch(p)
  BY <1>3 DEF NextBatch
<1>4. CASE BeginPhase(p)
  BY <1>4 DEF BeginPhase
<1>5. CASE LimitReached(p) \/ FinishBatch(p)
  BY <1>5 DEF LimitReached, FinishBatch
<1>6. CASE StartInvocation(p) \/ RefuseInvocation(p)
  BY <1>6 DEF StartInvocation, RefuseInvocation
<1>7. CASE EndPhase(p)
  BY <1>7 DEF EndPhase
<1>8. CASE ReleaseLease(p)
  BY <1>8 DEF ReleaseLease, Idle
<1>9. CASE Heartbeat(p)
  BY <1>9 DEF Heartbeat
<1> QED
  BY <1>1, <1>2, <1>3, <1>4, <1>5, <1>6, <1>7, <1>8, <1>9

LEMMA CommandsUnseen ==
  ASSUME RunnerTypeOK, NEW p \in Process,
         \/ \E requested \in Requests : RunResume(p, requested)
         \/ Launched(p) \/ CancelCommand(p) \/ ReconcileStalled(p)
         \/ \E action \in Decisions : DecideCommand(p, action)
  PROVE  Unseen(p)
<1>1. ASSUME NEW requested \in Requests, RunResume(p, requested)
      PROVE  Unseen(p)
  <2>1. proc[p].pc \in {"IDLE", "LAUNCHING"}
    BY <1>1 DEF RunResume, At
  <2> QED
    BY <1>1, <2>1, RunResumeEffect DEF Unseen, WorkingPCs
<1> USE DEF RunnerTypeOK, ProcState, Idle, At, WorkingPCs, Goto, Return, Quietly, Unseen
<1>2. CASE Launched(p)
  BY <1>2 DEF Launched
<1>3. CASE CancelCommand(p)
  BY <1>3 DEF CancelCommand
<1>4. CASE ReconcileStalled(p)
  BY <1>4 DEF ReconcileStalled
<1> HIDE DEF RunnerTypeOK, ProcState, Idle, At, WorkingPCs, Goto, Return, Quietly, Unseen
<1>5. ASSUME NEW action \in Decisions, DecideCommand(p, action)
      PROVE  Unseen(p)
  <2>1. /\ proc[p].pc = "IDLE" /\ row' = row /\ UNCHANGED <<lost, outrun>>
        /\ proc' = [proc EXCEPT ![p].pc = "DECIDING", ![p].decision = action, ![p].done = row.done]
    BY <1>5 DEF DecideCommand, At, Quietly
  <2>2. proc'[p].pc = "DECIDING" /\ \A q \in Process : q # p => proc'[q] = proc[q]
    BY <2>1 DEF RunnerTypeOK, ProcState
  <2> QED
    BY <2>1, <2>2 DEF Unseen, WorkingPCs
<1> QED
  BY <1>1, <1>2, <1>3, <1>4, <1>5

\* Only one process is at work, and nobody is while the lease is nobody's.
LEMMA AloneAtWork ==
  ASSUME RunnerInv, ~outrun, NEW p \in Process, Working(p)
  PROVE  AtWork = {p} /\ AtAgent \subseteq {p} /\ row.worker = p /\ row.leased
BY DEF RunnerInv, Tenure, AtWork, AtAgent, Working, At, WorkingPCs

LEMMA NobodyAtWork ==
  ASSUME RunnerInv, ~outrun, ~row.leased \/ row.worker \notin Process \/ row.status = "PAUSED_BY_USER"
  PROVE  AtWork = {} /\ AtAgent = {}
BY DEF RunnerInv, Tenure, AtWork, AtAgent, Working, At, WorkingPCs

LEMMA OutrunStays ==
  ASSUME outrun, [RunnerNext]_runnerVars
  PROVE  outrun'
<1>1. ASSUME NEW p \in Process, WorkerStep(p) \/ CommandStep(p) \/ Heartbeat(p) \/ Crash(p)
      PROVE  outrun'
  BY <1>1 DEF WorkerStep, CommandStep, Heartbeat, Crash,
      AcquireLease, ReadDecision, ConsumeCancel, ConsumeStale, ConsumeDecision, ApplyDecision,
      ReconcileInvocation, NextBatch, ScopeReached, BeginPhase, LimitReached, FinishBatch,
      StartInvocation, RefuseInvocation, SpawnAgent, AgentReturns, AgentUnsettled, EndPhase,
      Complete, SettlePause, Stop, ReleaseLease, PauseCommand, InterruptSignal, SettleCommand,
      ClaimResume, Launched, RevertResume, CancelCommand, WriteCancelled, WriteDecision,
      ReconcileStalled, StopStalled, RunResume, ResumeCommand, DecideCommand, Quietly
<1> QED
  BY <1>1 DEF RunnerNext, LeaseExpires, runnerVars

(***************************************************************************)
(* Each remaining step is one of the promise's.                            *)
(***************************************************************************)
LEMMA StartsStep ==
  ASSUME ContractInv, ~outrun, NEW p \in Process, AcquireLease(p)
  PROVE  (Promised!Starts(p) \/ UNCHANGED Seen) /\ Pausing'
<1>1. RunnerTypeOK /\ At(p, "CHECKED")
  BY DEF ContractInv, RunnerInv, AcquireLease
<1>2. CASE row' = row /\ proc'[p].pc \in {"IDLE", "REVERTING"}
  <2>1. Unseen(p)
    BY <1>1, <1>2, AcquireLeaseEffect DEF Unseen, WorkingPCs, At
  <2> QED
    BY <2>1, UnseenStutters DEF ContractInv
<1>3. CASE /\ row.status \in {"RUNNING", "HUMAN_DECISION_REQUIRED"} /\ LeaseFree
           /\ row'.worker = p /\ row'.leased = TRUE /\ proc'[p].pc = "LEASED"
  <2>1. AtWork = {} /\ AtAgent = {}
    BY <1>3, NobodyAtWork, RunnerAssumption DEF ContractInv, LeaseFree
  <2>2. AtWork' = {p} /\ AtAgent' = {}
    BY <1>1, <1>3, <2>1, AcquireLeaseEffect, SeenAfter DEF WorkingPCs
  <2>3. Promised!Starts(p)
    BY <1>1, <1>3, <2>1, <2>2, AcquireLeaseEffect DEF Promised!Starts, AtWork, AtAgent
  <2>4. Pausing'
    BY <1>1, <1>3, AcquireLeaseEffect DEF ContractInv, Pausing, At
  <2> QED
    BY <2>3, <2>4
<1> QED
  BY <1>1, <1>2, <1>3, AcquireLeaseEffect

\* A worker stops working: what it writes is one of the ways to leave.
LEMMA LeavesStep ==
  ASSUME ContractInv, ~outrun, NEW p \in Process, Working(p), ~At(p, "INVOKING"),
         proc'[p].pc = "RELEASING", \A q \in Process : q # p => proc'[q] = proc[q],
         Promised!Over(row'.status), row'.decision \in {row.decision, NoDecision},
         UNCHANGED <<lost, outrun>>
  PROVE  Promised!Leaves(p) /\ Pausing'
<1>1. AtWork' = AtWork \ {p} /\ AtAgent' = AtAgent \ {p}
  BY SeenAfter DEF WorkingPCs
<1>2. p \in AtWork /\ p \notin AtAgent
  BY DEF AtWork, AtAgent
<1>3. Promised!Leaves(p)
  BY <1>1, <1>2 DEF Promised!Leaves, AtWork, AtAgent
<1>4. AtWork' = {}
  BY <1>1, AloneAtWork DEF ContractInv
<1>5. Pausing'
  BY <1>4 DEF Pausing, AtWork, Working, At, WorkingPCs
<1> QED
  BY <1>3, <1>5

LEMMA ReadingStep ==
  ASSUME ContractInv, ~outrun, NEW p \in Process, ReadDecision(p)
  PROVE  (Promised!Leaves(p) \/ UNCHANGED Seen) /\ Pausing'
<1>1. /\ RunnerTypeOK /\ At(p, "LEASED") /\ row' = row
      /\ UNCHANGED <<lost, outrun>>
  BY DEF ContractInv, RunnerInv, ReadDecision, Quietly
<1>2. CASE row.status = "HUMAN_DECISION_REQUIRED" /\ row.decision = NoDecision
  <2>1. Goto(p, "RELEASING")
    BY <1>2 DEF ReadDecision
  <2>2. proc'[p].pc = "RELEASING" /\ \A q \in Process : q # p => proc'[q] = proc[q]
    BY <1>1, <2>1 DEF Goto, RunnerTypeOK, ProcState
  <2>3. Promised!Over(row'.status)
    BY <1>1, <1>2 DEF Promised!Over
  <2>4. Working(p) /\ ~At(p, "INVOKING")
    BY <1>1 DEF Working, At, WorkingPCs
  <2> QED
    BY <1>1, <2>2, <2>3, <2>4, LeavesStep
<1>3. CASE ~(row.status = "HUMAN_DECISION_REQUIRED" /\ row.decision = NoDecision)
  <2>1. \/ Goto(p, "RECONCILING")
        \/ proc' = [proc EXCEPT ![p].pc = "CONSUMING", ![p].decision = row.decision,
                                ![p].done = row.done]
    BY <1>3 DEF ReadDecision
  <2>2. /\ proc'[p].pc \in {"RECONCILING", "CONSUMING"}
        /\ \A q \in Process : q # p => proc'[q] = proc[q]
    BY <1>1, <2>1 DEF Goto, RunnerTypeOK, ProcState
  <2>3. Unseen(p)
    BY <1>1, <2>2 DEF Unseen, WorkingPCs, At
  <2> QED
    BY <2>3, UnseenStutters DEF ContractInv
<1> QED
  BY <1>2, <1>3

\* What consuming a decision does to the row and the process.
LEMMA ForgetEffect ==
  ASSUME RunnerTypeOK, NEW p \in Process, NEW pc, Forget(p, pc)
  PROVE  proc'[p].pc = pc /\ \A q \in Process : q # p => proc'[q] = proc[q]
BY DEF Forget, RunnerTypeOK, ProcState

LEMMA ConsumingStep ==
  ASSUME ContractInv, ~outrun, NEW p \in Process,
         ConsumeCancel(p) \/ ConsumeStale(p) \/ ConsumeDecision(p)
  PROVE  (Promised!Leaves(p) \/ Promised!GoesOn(p)) /\ Pausing'
<1>1. RunnerTypeOK /\ At(p, "CONSUMING")
  BY DEF ContractInv, RunnerInv, ConsumeCancel, ConsumeStale, ConsumeDecision
<1>2. row.status = "HUMAN_DECISION_REQUIRED" /\ row.decision # NoDecision
  BY <1>1 DEF ContractInv, RunnerInv, Consuming
<1>3. Working(p) /\ ~At(p, "INVOKING")
  BY <1>1 DEF Working, At, WorkingPCs
<1>4. AtWork = {p} /\ AtAgent = {}
  BY <1>3, AloneAtWork DEF ContractInv, AtAgent
<1>5. CASE ConsumeCancel(p)
  <2>1. row'.status = "CANCELLED" /\ row'.decision = NoDecision /\ UNCHANGED <<lost, outrun>>
    BY <1>1, <1>5 DEF ConsumeCancel, Consumed, Quietly, RunnerTypeOK, Row
  <2>2. Promised!Over(row'.status)
    BY <1>2, <2>1 DEF Promised!Over
  <2>3. proc'[p].pc = "RELEASING" /\ \A q \in Process : q # p => proc'[q] = proc[q]
    BY <1>1, <1>5, ForgetEffect DEF ConsumeCancel
  <2> QED
    BY <1>3, <2>1, <2>2, <2>3, LeavesStep
<1>6. CASE ConsumeStale(p)
  <2>1. /\ row'.status = "HUMAN_DECISION_REQUIRED" /\ row'.decision = NoDecision
        /\ UNCHANGED <<lost, outrun>>
    BY <1>1, <1>2, <1>6 DEF ConsumeStale, Consumed, Quietly, RunnerTypeOK, Row
  <2>2. Promised!Over(row'.status)
    BY <2>1 DEF Promised!Over
  <2>3. Forget(p, "RELEASING")
    BY <1>2, <1>6 DEF ConsumeStale
  <2>4. proc'[p].pc = "RELEASING" /\ \A q \in Process : q # p => proc'[q] = proc[q]
    BY <1>1, <2>3, ForgetEffect
  <2> QED
    BY <1>3, <2>1, <2>2, <2>4, LeavesStep
<1>7. CASE ConsumeDecision(p)
  <2>1. /\ row'.status = "RUNNING" /\ row'.decision = NoDecision /\ lost' = FALSE
        /\ outrun' = outrun
    BY <1>1, <1>7 DEF ConsumeDecision, Consumed, RunnerTypeOK, Row
  <2>2. proc'[p].pc = "APPLYING" /\ \A q \in Process : q # p => proc'[q] = proc[q]
    BY <1>1, <1>7, ForgetEffect DEF ConsumeDecision
  <2>3. AtWork' = {p} /\ AtAgent' = {}
    BY <1>4, <2>2, SeenAfter DEF WorkingPCs
  <2>4. Promised!GoesOn(p)
    BY <1>2, <1>4, <2>1, <2>3 DEF Promised!GoesOn, AtWork, AtAgent
  <2>5. Pausing'
    BY <2>2, <2>3 DEF Pausing, AtWork, Working, At, WorkingPCs
  <2> QED
    BY <2>4, <2>5
<1> QED
  BY <1>5, <1>6, <1>7

\* Around an agent: it is asked only while no earlier answer is lost.
LEMMA AskingStep ==
  ASSUME ContractInv, ~outrun, NEW p \in Process,
         SpawnAgent(p) \/ AgentReturns(p) \/ AgentUnsettled(p)
  PROVE  (Promised!Asks(p) \/ Promised!Settles(p) \/ Promised!Loses(p)) /\ Pausing'
<1>1. RunnerTypeOK
  BY DEF ContractInv, RunnerInv
<1>2. CASE SpawnAgent(p)
  <2>1. At(p, "PREPARING") /\ Working(p) /\ ~At(p, "INVOKING")
    BY <1>2 DEF SpawnAgent, Working, At, WorkingPCs
  <2>2. AtWork = {p} /\ AtAgent = {}
    BY <2>1, AloneAtWork DEF ContractInv, AtAgent
  <2>3. ~lost
    BY <2>1 DEF ContractInv, RunnerInv, LostIsMarked, At
  <2>4. row'.status = row.status /\ row'.decision = row.decision /\ UNCHANGED <<lost, outrun>>
    BY <1>1, <1>2 DEF SpawnAgent, Quietly, RunnerTypeOK, Row
  <2>5. proc'[p].pc = "INVOKING" /\ \A q \in Process : q # p => proc'[q] = proc[q]
    BY <1>1, <1>2 DEF SpawnAgent, Goto, RunnerTypeOK, ProcState
  <2>6. AtWork' = {p} /\ AtAgent' = {p}
    BY <2>2, <2>5, SeenAfter DEF WorkingPCs
  <2>7. Promised!Asks(p)
    BY <2>2, <2>3, <2>4, <2>6 DEF Promised!Asks, AtWork, AtAgent
  <2>8. Pausing'
    BY <2>5, <2>6 DEF Pausing, AtWork, Working, At, WorkingPCs
  <2> QED
    BY <2>7, <2>8
<1>3. CASE AgentReturns(p) \/ AgentUnsettled(p)
  <2>1. At(p, "INVOKING") /\ Working(p)
    BY <1>3 DEF AgentReturns, AgentUnsettled, Working, At, WorkingPCs
  <2>2. AtWork = {p} /\ p \in AtAgent
    BY <2>1, AloneAtWork DEF ContractInv, AtAgent
  <2>3. row'.status = row.status /\ row'.decision = row.decision /\ outrun' = outrun
    BY <1>1, <1>3 DEF AgentReturns, AgentUnsettled, Quietly, RunnerTypeOK, Row
  <2>4. /\ proc'[p].pc \in {"SETTLED", "STOPPING"}
        /\ \A q \in Process : q # p => proc'[q] = proc[q]
    BY <1>1, <1>3 DEF AgentReturns, AgentUnsettled, Goto, RunnerTypeOK, ProcState
  <2>5. AtWork' = AtWork /\ AtAgent' = AtAgent \ {p}
    BY <2>2, <2>4, SeenAfter DEF WorkingPCs
  <2>6. lost' = lost \/ lost' = TRUE
    BY <1>3 DEF AgentReturns, AgentUnsettled, Quietly
  <2>7. Promised!Settles(p) \/ Promised!Loses(p)
    BY <2>2, <2>3, <2>5, <2>6 DEF Promised!Settles, Promised!Loses, AtWork, AtAgent
  <2>8. Pausing'
    BY <2>4, <2>2, <2>5 DEF Pausing, AtWork, Working, At, WorkingPCs
  <2> QED
    BY <2>7, <2>8
<1> QED
  BY <1>2, <1>3

\* The end of a worker: it completes, settles a pause or stops.
LEMMA EndingStep ==
  ASSUME ContractInv, ~outrun, NEW p \in Process, Complete(p) \/ SettlePause(p) \/ Stop(p)
  PROVE  (Promised!Leaves(p) \/ UNCHANGED Seen) /\ Pausing'
<1>1. RunnerTypeOK /\ Working(p) /\ ~At(p, "INVOKING") /\ UNCHANGED <<lost, outrun>>
  BY DEF ContractInv, RunnerInv, Complete, SettlePause, Stop, Quietly, Working, At, WorkingPCs
<1>2. row'.decision = row.decision
  BY <1>1 DEF Complete, SettlePause, Stop, SettledPause, RunnerTypeOK, Row
<1>3. CASE Complete(p) /\ row.status = "PAUSE_REQUESTED"
  <2>1. Goto(p, "PAUSING") /\ row' = row /\ At(p, "COMPLETING")
    BY <1>3 DEF Complete
  <2>2. Unseen(p)
    BY <1>1, <1>3, <2>1 DEF Unseen, Goto, At, WorkingPCs, RunnerTypeOK, ProcState
  <2> QED
    BY <2>2, UnseenStutters DEF ContractInv
<1>4. CASE ~(Complete(p) /\ row.status = "PAUSE_REQUESTED")
  <2>1. Goto(p, "RELEASING")
    BY <1>4 DEF Complete, SettlePause, Stop
  <2>2. proc'[p].pc = "RELEASING" /\ \A q \in Process : q # p => proc'[q] = proc[q]
    BY <1>1, <2>1 DEF Goto, RunnerTypeOK, ProcState
  <2>3. Promised!Over(row'.status)
    <3>1. CASE Complete(p)
      BY <1>1, <1>4, <3>1 DEF Complete, Promised!Over, RunnerTypeOK, Row
    <3>2. CASE SettlePause(p)
      <4>1. row.status # "RUNNING"
        BY <3>2 DEF SettlePause, ContractInv, Pausing
      <4> QED
        BY <1>1, <3>2, <4>1 DEF SettlePause, SettledPause, Promised!Over, RunnerTypeOK, Row
    <3>3. CASE Stop(p)
      BY <1>1, <3>3 DEF Stop, Promised!Over, RunnerTypeOK, Row
    <3> QED
      BY <3>1, <3>2, <3>3
  <2> QED
    BY <1>1, <1>2, <2>2, <2>3, LeavesStep
<1> QED
  BY <1>3, <1>4

\* A command moves no process into or out of work.
LEMMA Aside ==
  ASSUME NEW p \in Process, ~Working(p), proc'[p].pc \notin WorkingPCs,
         \A q \in Process : q # p => proc'[q] = proc[q]
  PROVE  AtWork' = AtWork /\ AtAgent' = AtAgent /\ (row'.status # "RUNNING" \/ AtWork = {} => Pausing')
<1>1. AtWork' = AtWork /\ AtAgent' = AtAgent
  BY DEF AtWork, AtAgent, Working, At, WorkingPCs
<1>2. \A q \in Process : At(q, "PAUSING")' => q \in AtWork'
  BY DEF AtWork, Working, At, WorkingPCs
<1> QED
  BY <1>1, <1>2 DEF Pausing

\* A pause is requested of whoever is at work.
LEMMA RequestStep ==
  ASSUME ContractInv, ~outrun, NEW p \in Process,
         ScopeReached(p) \/ PauseCommand(p) \/ InterruptSignal(p)
  PROVE  (Promised!PauseRequested \/ UNCHANGED Seen) /\ Pausing'
<1>1. RunnerTypeOK /\ row' = RequestedPause /\ UNCHANGED <<lost, outrun>>
  BY DEF ContractInv, RunnerInv, ScopeReached, PauseCommand, InterruptSignal, Quietly
<1>2. /\ row'.status # "RUNNING" /\ row'.decision = row.decision
      /\ \/ row.status = "RUNNING" /\ row'.status = "PAUSE_REQUESTED"
         \/ row'.status = row.status
  BY <1>1 DEF RequestedPause, RunnerTypeOK, Row
<1>3. /\ proc'[p].pc \in WorkingPCs <=> proc[p].pc \in WorkingPCs
      /\ proc'[p].pc = "INVOKING" <=> proc[p].pc = "INVOKING"
      /\ \A q \in Process : q # p => proc'[q] = proc[q]
  BY <1>1 DEF ScopeReached, PauseCommand, InterruptSignal, Goto, At, RunnerTypeOK, ProcState,
    WorkingPCs
<1>4. AtWork' = AtWork /\ AtAgent' = AtAgent
  BY <1>3 DEF AtWork, AtAgent, Working, At
<1>5. Promised!PauseRequested \/ UNCHANGED Seen
  BY <1>1, <1>2, <1>4 DEF Promised!PauseRequested, Seen, HasDecided, AtWork, AtAgent
<1> QED
  BY <1>2, <1>5 DEF Pausing

\* What settles, resumes or reverts: it finds nobody at work, or changes nothing.
LEMMA IdleStep ==
  ASSUME ContractInv, ~outrun, NEW p \in Process,
         \/ SettleCommand(p) \/ ClaimResume(p) \/ RevertResume(p)
         \/ \E requested \in Requests : ResumeCommand(p, requested)
  PROVE  (Promised!MovesIdle \/ UNCHANGED Seen) /\ Pausing'
<1>1. RunnerTypeOK /\ RunnerInv /\ Pausing
  BY DEF ContractInv, RunnerInv
<1>2. ~Working(p) /\ ~At(p, "INVOKING")
  BY DEF SettleCommand, ClaimResume, RevertResume, ResumeCommand, Working, At, WorkingPCs
<1>3. /\ proc'[p].pc \notin WorkingPCs /\ row'.decision = row.decision /\ UNCHANGED <<lost, outrun>>
      /\ \A q \in Process : q # p => proc'[q] = proc[q]
      /\ \/ row'.status = row.status
         \/ row'.status = row.status /\ row.status = "RUNNING" /\ ~row.leased
         \/ /\ ~row.leased \/ row.status = "PAUSED_BY_USER" \/ row.worker = Launcher
            /\ \/ row.status = "PAUSE_REQUESTED" /\ row'.status = "PAUSED_BY_USER"
               \/ row.status = "PAUSED_BY_USER" /\ row'.status = "RUNNING"
               \/ row.status = "RUNNING" /\ row'.status = "PAUSED_BY_USER"
  <2>1. CASE SettleCommand(p)
    BY <1>1, <2>1 DEF SettleCommand, SettleDeadPause, SettledPause, Return, Idle, Quietly,
      RunnerTypeOK, Row, WorkingPCs
  <2>2. CASE ClaimResume(p)
    BY <1>1, <2>2, ClaimResumeEffect DEF WorkingPCs
  <2>3. CASE RevertResume(p)
    BY <1>1, <2>3 DEF RevertResume, Return, Idle, Quietly, RunnerTypeOK, Row, WorkingPCs
  <2>4. ASSUME NEW requested \in Requests, ResumeCommand(p, requested)
        PROVE  /\ proc'[p].pc \notin WorkingPCs /\ row'.decision = row.decision
               /\ UNCHANGED <<lost, outrun>>
               /\ \A q \in Process : q # p => proc'[q] = proc[q]
               /\ \/ row'.status = row.status
                  \/ row.status = "PAUSE_REQUESTED" /\ row'.status = "PAUSED_BY_USER" /\ ~row.leased
    BY <1>1, <2>4, ResumeEffect DEF WorkingPCs
  <2> QED
    BY <2>1, <2>2, <2>3, <2>4
<1>4. CASE row'.status = row.status
  <2>1. Unseen(p)
    BY <1>2, <1>3, <1>4 DEF Unseen, Working, At, WorkingPCs
  <2> QED
    BY <1>1, <2>1, UnseenStutters
<1>5. CASE row'.status # row.status
  <2>1. AtWork = {} /\ AtAgent = {}
    BY <1>1, <1>3, <1>5, NobodyAtWork, RunnerAssumption
  <2>2. AtWork' = AtWork /\ AtAgent' = AtAgent /\ Pausing'
    BY <1>2, <1>3, <2>1, Aside
  <2>3. Promised!MovesIdle
    BY <1>3, <1>5, <2>1, <2>2 DEF Promised!MovesIdle, AtWork, AtAgent
  <2> QED
    BY <2>2, <2>3
<1> QED
  BY <1>4, <1>5

\* A cancellation finds nobody at work, or ends the promise.
LEMMA CancelStep ==
  ASSUME ContractInv, ~outrun, NEW p \in Process, WriteCancelled(p)
  PROVE  (Promised!MovesIdle \/ Promised!Voided) /\ Pausing'
<1>1. RunnerTypeOK /\ RunnerInv
  BY DEF ContractInv, RunnerInv
<1>2. CASE \E q \in Process : HoldsRow(q)
  BY <1>2 DEF WriteCancelled, Promised!Voided, Pausing
<1>3. CASE ~\E q \in Process : HoldsRow(q)
  <2>1. AtWork = {} /\ AtAgent = {}
    BY <1>1, <1>3 DEF RunnerInv, Tenure, HoldsRow, AtWork, AtAgent, Working, At, WorkingPCs
  <2>2. row'.status = "CANCELLED" /\ row'.decision = row.decision /\ UNCHANGED lost
    BY <1>1 DEF WriteCancelled, RunnerTypeOK, Row
  <2>3. outrun' = outrun
    BY <1>1, <1>3 DEF WriteCancelled, RunnerTypeOK
  <2>4. proc'[p].pc = "IDLE" /\ \A q \in Process : q # p => proc'[q] = proc[q]
    BY <1>1 DEF WriteCancelled, Return, Idle, RunnerTypeOK
  <2>5. ~Working(p)
    BY DEF WriteCancelled, Working, At, WorkingPCs
  <2>6. AtWork' = AtWork /\ AtAgent' = AtAgent /\ Pausing'
    BY <2>1, <2>4, <2>5, Aside DEF WorkingPCs
  <2>7. Promised!MovesIdle
    BY <2>1, <2>2, <2>3, <2>6 DEF Promised!MovesIdle, AtWork, AtAgent
  <2> QED
    BY <2>6, <2>7
<1> QED
  BY <1>2, <1>3

\* A human decides, or an observer writes the workflow off.
LEMMA VerdictStep ==
  ASSUME ContractInv, ~outrun, NEW p \in Process, WriteDecision(p) \/ StopStalled(p)
  PROVE  (Promised!Decides \/ Promised!WrittenOff) /\ Pausing'
<1>1. RunnerTypeOK /\ UNCHANGED <<lost, outrun>>
  BY DEF ContractInv, RunnerInv, WriteDecision, StopStalled, Quietly
<1>2. /\ ~Working(p) /\ proc'[p].pc = "IDLE"
      /\ \A q \in Process : q # p => proc'[q] = proc[q]
  BY <1>1 DEF WriteDecision, StopStalled, Return, Idle, RunnerTypeOK, Working, At, WorkingPCs
<1>3. AtWork' = AtWork /\ AtAgent' = AtAgent /\ (row'.status # "RUNNING" => Pausing')
  BY <1>2, Aside DEF WorkingPCs
<1>4. CASE WriteDecision(p)
  <2>1. proc[p].decision # NoDecision
    BY <1>4 DEF WriteDecision, ContractInv, RunnerInv, Decided
  <2>2. row'.decision # NoDecision /\ row'.status = row.status
    BY <1>1, <1>4, <2>1 DEF WriteDecision, RunnerTypeOK, Row
  <2>3. Promised!Decides
    BY <1>1, <1>3, <2>2 DEF Promised!Decides, AtWork, AtAgent
  <2>4. Pausing'
    BY <1>2, <2>2 DEF ContractInv, Pausing, At
  <2> QED
    BY <2>3, <2>4
<1>5. CASE StopStalled(p)
  <2>1. row'.status = "HUMAN_DECISION_REQUIRED" /\ row'.decision = row.decision
    BY <1>1, <1>5 DEF StopStalled, RunnerTypeOK, Row
  <2>2. Promised!WrittenOff
    BY <1>1, <1>3, <2>1 DEF Promised!WrittenOff, AtWork, AtAgent
  <2> QED
    BY <1>3, <2>1, <2>2
<1> QED
  BY <1>4, <1>5

LEMMA CrashStep ==
  ASSUME ContractInv, ~outrun, NEW p \in Process, Crash(p)
  PROVE  (Promised!Dies(p) \/ UNCHANGED Seen) /\ Pausing'
<1>1. RunnerTypeOK
  BY DEF ContractInv, RunnerInv
<1>2. row'.status = row.status /\ row'.decision = row.decision /\ UNCHANGED outrun
  BY <1>1 DEF Crash, RunnerTypeOK, Row
<1>3. proc'[p].pc = "IDLE" /\ \A q \in Process : q # p => proc'[q] = proc[q]
  BY <1>1 DEF Crash, Return, Idle, RunnerTypeOK
<1>4. lost' = (lost \/ At(p, "INVOKING"))
  BY DEF Crash
<1>5. AtWork' = AtWork \ {p} /\ AtAgent' = AtAgent \ {p}
  BY <1>3, SeenAfter DEF WorkingPCs
<1>6. Pausing'
  BY <1>2, <1>3 DEF ContractInv, Pausing, At
<1>7. CASE Working(p)
  <2>1. p \in AtWork /\ (p \in AtAgent <=> At(p, "INVOKING"))
    BY <1>7 DEF AtWork, AtAgent
  <2>2. Promised!Dies(p)
    BY <1>2, <1>4, <1>5, <2>1 DEF Promised!Dies, AtWork, AtAgent
  <2> QED
    BY <1>6, <2>2
<1>8. CASE ~Working(p)
  <2>1. ~At(p, "INVOKING") /\ p \notin AtWork /\ p \notin AtAgent
    BY <1>8 DEF AtWork, AtAgent, Working, At, WorkingPCs
  <2>2. lost' = lost
    BY <1>1, <1>4, <2>1 DEF RunnerTypeOK
  <2> QED
    BY <1>2, <1>5, <1>6, <2>1, <2>2 DEF Seen, HasDecided
<1> QED
  BY <1>7, <1>8

LEMMA ExpiryStep ==
  ASSUME ContractInv, ~outrun, LeaseExpires
  PROVE  (Promised!Voided \/ UNCHANGED Seen) /\ Pausing'
<1>1. /\ RunnerTypeOK /\ UNCHANGED <<proc, lost>>
      /\ row'.status = row.status /\ row'.decision = row.decision
  BY DEF ContractInv, RunnerInv, LeaseExpires, RunnerTypeOK, Row
<1>2. CASE \E p \in Process : HoldsRow(p)
  BY <1>2 DEF LeaseExpires, Promised!Voided, Pausing
<1>3. CASE ~\E p \in Process : HoldsRow(p)
  <2>1. outrun' = outrun
    BY <1>1, <1>3 DEF LeaseExpires, RunnerTypeOK
  <2> QED
    BY <1>1, <2>1 DEF ContractInv, Pausing, Seen, HasDecided, AtWork, AtAgent, Working, At
<1> QED
  BY <1>2, <1>3

LEMMA ContractStep ==
  ASSUME ContractInv, [RunnerNext]_runnerVars
  PROVE  [Promised!Next]_Promised!contract /\ Pausing'
<1>1. CASE outrun
  BY <1>1, OutrunStays DEF Promised!Next, Promised!Voided, Pausing
<1>2. CASE ~outrun /\ UNCHANGED runnerVars
  BY <1>2 DEF runnerVars, Promised!contract, ContractInv, Pausing, Working, At
<1>3. ASSUME UNCHANGED Seen
      PROVE  UNCHANGED Promised!contract
  BY <1>3 DEF Seen, HasDecided, AtWork, AtAgent, Promised!contract
<1>4. ASSUME ~outrun, NEW p \in Process, WorkerStep(p) \/ Heartbeat(p)
      PROVE  /\ \/ Promised!Starts(p) \/ Promised!GoesOn(p) \/ Promised!Asks(p)
                \/ Promised!Settles(p) \/ Promised!Loses(p) \/ Promised!Leaves(p)
                \/ Promised!PauseRequested \/ UNCHANGED Seen
             /\ Pausing'
  <2>1. CASE \/ ApplyDecision(p) \/ ReconcileInvocation(p) \/ NextBatch(p) \/ BeginPhase(p)
             \/ LimitReached(p) \/ FinishBatch(p) \/ StartInvocation(p) \/ RefuseInvocation(p)
             \/ EndPhase(p) \/ ReleaseLease(p) \/ Heartbeat(p)
    BY <2>1, WorkersUnseen, UnseenStutters DEF ContractInv, RunnerInv
  <2>2. CASE AcquireLease(p)
    BY <1>4, <2>2, StartsStep
  <2>3. CASE ReadDecision(p)
    BY <1>4, <2>3, ReadingStep
  <2>4. CASE ConsumeCancel(p) \/ ConsumeStale(p) \/ ConsumeDecision(p)
    BY <1>4, <2>4, ConsumingStep
  <2>5. CASE SpawnAgent(p) \/ AgentReturns(p) \/ AgentUnsettled(p)
    BY <1>4, <2>5, AskingStep
  <2>6. CASE Complete(p) \/ SettlePause(p) \/ Stop(p)
    BY <1>4, <2>6, EndingStep
  <2>7. CASE ScopeReached(p)
    BY <1>4, <2>7, RequestStep
  <2> QED
    BY <1>4, <2>1, <2>2, <2>3, <2>4, <2>5, <2>6, <2>7 DEF WorkerStep
<1>5. ASSUME ~outrun, NEW p \in Process, CommandStep(p)
      PROVE  /\ \/ Promised!PauseRequested \/ Promised!MovesIdle \/ Promised!Voided
                \/ Promised!Decides \/ Promised!WrittenOff \/ UNCHANGED Seen
             /\ Pausing'
  <2>1. CASE \/ \E requested \in Requests : RunResume(p, requested)
             \/ Launched(p) \/ CancelCommand(p) \/ ReconcileStalled(p)
             \/ \E action \in Decisions : DecideCommand(p, action)
    BY <2>1, CommandsUnseen, UnseenStutters DEF ContractInv, RunnerInv
  <2>2. CASE PauseCommand(p) \/ InterruptSignal(p)
    BY <1>5, <2>2, RequestStep
  <2>3. CASE \/ SettleCommand(p) \/ ClaimResume(p) \/ RevertResume(p)
             \/ \E requested \in Requests : ResumeCommand(p, requested)
    BY <1>5, <2>3, IdleStep
  <2>4. CASE WriteCancelled(p)
    BY <1>5, <2>4, CancelStep
  <2>5. CASE WriteDecision(p) \/ StopStalled(p)
    BY <1>5, <2>5, VerdictStep
  <2> QED
    BY <1>5, <2>1, <2>2, <2>3, <2>4, <2>5 DEF CommandStep
<1>6. CASE ~outrun /\ RunnerNext
  BY <1>3, <1>4, <1>5, <1>6, CrashStep, ExpiryStep DEF RunnerNext, Promised!Next
<1> QED
  BY <1>1, <1>2, <1>6

LEMMA ContractInit == RunnerInit => Promised!Init /\ Pausing
<1> SUFFICES ASSUME RunnerInit PROVE Promised!Init /\ Pausing
  OBVIOUS
<1>1. /\ row.status = "RUNNING" /\ row.decision = NoDecision
      /\ \A p \in Process : proc[p].pc = "IDLE"
      /\ lost = FALSE /\ outrun = FALSE
  BY DEF RunnerInit, Idle
<1> QED
  BY <1>1 DEF Promised!Init, Pausing, Working, At, WorkingPCs

(* The runner implements its contract: every statement of a worker, a      *)
(* command or an observer is a step of RunnerContract or changes nothing   *)
(* it speaks of, as long as no worker is outrun.                           *)
THEOREM RunnerKeepsContract == RunnerSpec => ImplementsContract
<1>1. RunnerInit => Promised!Init /\ Pausing
  BY ContractInit
<1>2. RunnerInv /\ Pausing /\ [RunnerNext]_runnerVars =>
        [Promised!Next]_Promised!contract /\ Pausing'
  BY ContractStep DEF ContractInv
<1> QED
  BY <1>1, <1>2, Invariance, PTL DEF RunnerSpec, ImplementsContract, Promised!Spec

(***************************************************************************)
(* What the contract alone gives.                                          *)
(***************************************************************************)
ContractHolds == Promised!OneAtWork /\ Promised!NobodyAtRest /\ Promised!LostIsFollowedByNone

LEMMA ContractHoldsStep ==
  ASSUME ContractHolds, [Promised!Next]_Promised!contract
  PROVE  ContractHolds'
<1> USE DEF ContractHolds, Promised!OneAtWork, Promised!NobodyAtRest, Promised!LostIsFollowedByNone
<1>1. CASE UNCHANGED Promised!contract
  BY <1>1 DEF Promised!contract
<1>2. CASE Promised!Voided
  BY <1>2 DEF Promised!Voided
<1>3. ASSUME NEW p \in Process, Promised!Starts(p) \/ Promised!Asks(p) \/ Promised!Settles(p)
      PROVE  ContractHolds'
  BY <1>3 DEF Promised!Starts, Promised!Asks, Promised!Settles
<1>4. ASSUME NEW p \in Process, Promised!GoesOn(p)
      PROVE  ContractHolds'
  BY <1>4 DEF Promised!GoesOn
<1>5. ASSUME NEW p \in Process, Promised!Loses(p) \/ Promised!Dies(p)
      PROVE  ContractHolds'
  BY <1>5 DEF Promised!Loses, Promised!Dies
<1>6. ASSUME NEW p \in Process, Promised!Leaves(p)
      PROVE  ContractHolds'
  BY <1>6 DEF Promised!Leaves, Promised!Over
<1>7. CASE Promised!PauseRequested \/ Promised!MovesIdle
  BY <1>7 DEF Promised!PauseRequested, Promised!MovesIdle
<1>8. CASE Promised!WrittenOff \/ Promised!Decides
  BY <1>8 DEF Promised!WrittenOff, Promised!Decides
<1> QED
  BY <1>1, <1>2, <1>3, <1>4, <1>5, <1>6, <1>7, <1>8 DEF Promised!Next

(* The contract suffices: whatever keeps it has one worker at a time, none *)
(* on a workflow that is paused, cancelled or ready, and asks no agent     *)
(* while the answer of an earlier one is lost.                             *)
THEOREM ContractSuffices == ImplementsContract =>
  [](Promised!OneAtWork /\ Promised!NobodyAtRest /\ Promised!LostIsFollowedByNone)
<1>1. Promised!Init => ContractHolds
  BY DEF Promised!Init, ContractHolds, Promised!OneAtWork, Promised!NobodyAtRest,
    Promised!LostIsFollowedByNone
<1>2. ContractHolds /\ [Promised!Next]_Promised!contract => ContractHolds'
  BY ContractHoldsStep
<1>3. ContractHolds <=>
        Promised!OneAtWork /\ Promised!NobodyAtRest /\ Promised!LostIsFollowedByNone
  BY DEF ContractHolds
<1> QED
  BY <1>1, <1>2, <1>3, PTL DEF ImplementsContract, Promised!Spec
=============================================================================
