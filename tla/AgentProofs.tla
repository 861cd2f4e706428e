------------------------------ MODULE AgentProofs ------------------------------
(***************************************************************************)
(* What an agent's answer stands on: one vendor session per batch and role *)
(* (RoleSessions), an approval of the plan its reviewer was shown          *)
(* (PlanReview), a refinement that captures one decomposition              *)
(* (PlanRefinement), an acceptance of the code that was approved           *)
(* (CorrectionRounds), and a call that ends what no longer works           *)
(* (CliCall); for any number of invocations, sessions, planners, refiners, *)
(* batches, rounds and children, however they overlap.                     *)
(***************************************************************************)
EXTENDS MCAgents, CorrectionRounds, FiniteSetTheorems, SequenceTheorems, TLAPS

(***************************************************************************)
(* The inductive invariant.                                                *)
(***************************************************************************)
(* As much of the types as the argument needs; the rest is counted below.  *)
SessionShape ==
  /\ bindings \in [Slot -> Vendors]
  /\ continuity \in [Invocation -> ContinuityRow \cup {NoInvocation}]
  /\ DOMAIN invocations = Invocation
  /\ \A i \in Invocation :
       /\ invocations[i].requested \in Vendors /\ invocations[i].returned \in Vendors
       /\ invocations[i].pc # "NEW" => SlotOf(i) \in Slot

(* A vendor session is bound to one slot.                                  *)
BoundOnce ==
  \A s, t \in Slot : bindings[s] # NoVendor /\ bindings[s] = bindings[t] => s = t

(* What an attempt in flight asked for is still bound, and an accepted     *)
(* answer came from it.                                                    *)
AsksForBound ==
  \A i \in Invocation :
    /\ Resuming(i) => InvocationAt(i, "AGENT") \/ InvocationAt(i, "ANSWERED")
    /\ Resuming(i) => bindings[SlotOf(i)] = invocations[i].requested
    /\ InvocationAt(i, "ANSWERED") => invocations[i].returned \in Vendor
    /\ InvocationAt(i, "ANSWERED") /\ Resuming(i) =>
         invocations[i].returned = invocations[i].requested

(* A success is the end of its attempt, and its session stays bound.       *)
SuccessBound ==
  \A i \in Invocation : Succeeded(i) =>
    /\ InvocationAt(i, "ENDED")
    /\ continuity[i].returned \in Vendor
    /\ bindings[SlotOf(i)] = continuity[i].returned

(* Two sessions were never created for one slot.                           *)
Created(i) == continuity[i] # NoInvocation /\ continuity[i].outcome = "CREATED"

CreatedOnce ==
  \A i, j \in Invocation : Created(i) /\ Created(j) /\ i # j => SlotOf(i) # SlotOf(j)

BindingInv == SessionShape /\ BoundOnce /\ AsksForBound /\ SuccessBound /\ CreatedOnce

(***************************************************************************)
(* What the helpers do to an attempt.                                      *)
(***************************************************************************)
LEMMA DropsAttempt ==
  ASSUME SessionShape, NEW i \in Invocation, NEW pc \in InvocationPCs, NEW b, NEW v,
         Drops(i, pc, b, v)
  PROVE  /\ DOMAIN invocations' = Invocation
         /\ invocations'[i].pc = pc /\ invocations'[i].slot = invocations[i].slot
         /\ invocations'[i].requested = NoVendor /\ invocations'[i].returned = NoVendor
         /\ \A j \in Invocation \ {i} : invocations'[j] = invocations[j]
BY DEF Drops, SessionShape, NewSessionAttempt, SlotOf

(* Attempts that only drop what they asked, or change nothing of it, leave *)
(* the bindings and the successes as they are.                             *)
SparesSessions(i) ==
  /\ DOMAIN invocations' = Invocation
  /\ invocations'[i].slot \in Slot
  /\ \/ /\ invocations'[i].requested = invocations[i].requested
        /\ invocations'[i].returned = invocations[i].returned
        /\ \/ invocations'[i].pc = invocations[i].pc
           \/ invocations[i].requested = NoVendor /\ invocations'[i].pc # "ANSWERED"
     \/ /\ invocations'[i].requested = NoVendor /\ invocations'[i].returned = NoVendor
        /\ invocations'[i].pc # "ANSWERED"
  /\ invocations'[i].pc # "NEW"
  /\ ~InvocationAt(i, "ENDED")
  /\ invocations[i].pc = "NEW" \/ invocations'[i].slot = invocations[i].slot
  /\ \A j \in Invocation \ {i} : invocations'[j] = invocations[j]
  /\ bindings' = bindings
  /\ \/ continuity' = continuity
     \/ continuity' =
          [continuity EXCEPT ![i] = [outcome |-> "FAILED", returned |-> NoVendor]]

LEMMA SparedStep ==
  ASSUME BindingInv, NEW i \in Invocation, SparesSessions(i)
  PROVE  BindingInv'
<1> USE DEF SparesSessions, SlotOf, InvocationAt, Resuming, Succeeded
<1>1. [outcome |-> "FAILED", returned |-> NoVendor] \in ContinuityRow
  BY DEF ContinuityRow, Vendors
<1>2. SessionShape'
  BY <1>1 DEF BindingInv, SessionShape, Vendors
<1>3. BoundOnce'
  BY DEF BindingInv, BoundOnce
<1>4. AsksForBound'
  BY DEF BindingInv, SessionShape, AsksForBound
<1>5. \A j \in Invocation : Succeeded(j)' => Succeeded(j) /\ j # i /\ continuity'[j] = continuity[j]
  BY DEF BindingInv, SessionShape, SuccessBound
<1>6. SuccessBound'
  BY <1>5 DEF BindingInv, SuccessBound
<1>7. \A j \in Invocation : Created(j)' => Created(j) /\ j # i
  BY <1>5 DEF Created
<1>8. CreatedOnce'
  BY <1>7 DEF BindingInv, CreatedOnce
<1> QED
  BY <1>2, <1>3, <1>4, <1>6, <1>8 DEF BindingInv

(***************************************************************************)
(* The steps that matter: the call, its answer, and what is persisted.     *)
(***************************************************************************)
LEMMA SpawnStep ==
  ASSUME BindingInv, NEW i \in Invocation, SpawnsAgent(i)
  PROVE  BindingInv'
<1> USE DEF SlotOf, InvocationAt, Resuming, Succeeded
<1>1. /\ DOMAIN invocations' = Invocation
      /\ invocations'[i].pc = "AGENT" /\ invocations'[i].slot = invocations[i].slot
      /\ invocations'[i].requested = bindings[invocations[i].slot]
      /\ invocations'[i].returned = invocations[i].returned
      /\ \A j \in Invocation \ {i} : invocations'[j] = invocations[j]
      /\ bindings' = bindings /\ continuity' = continuity
  BY DEF SpawnsAgent, BindingInv, SessionShape
<1>2. invocations[i].pc = "PREPARING" /\ invocations[i].slot \in Slot
  BY DEF SpawnsAgent, BindingInv, SessionShape
<1>3. SessionShape'
  BY <1>1, <1>2 DEF BindingInv, SessionShape
<1>4. BoundOnce' /\ CreatedOnce'
  BY <1>1 DEF BindingInv, BoundOnce, CreatedOnce, Created
<1>5. AsksForBound'
  BY <1>1, <1>2 DEF BindingInv, AsksForBound
<1>6. SuccessBound'
  BY <1>1, <1>2 DEF BindingInv, SuccessBound
<1> QED
  BY <1>3, <1>4, <1>5, <1>6 DEF BindingInv

LEMMA AnswerStep ==
  ASSUME BindingInv, NEW i \in Invocation, NEW v \in Vendor, AgentAnswers(i, v)
  PROVE  BindingInv'
<1> USE DEF SlotOf, InvocationAt, Resuming, Succeeded
<1>1. /\ DOMAIN invocations' = Invocation
      /\ invocations'[i].pc = "ANSWERED" /\ invocations'[i].slot = invocations[i].slot
      /\ invocations'[i].requested = invocations[i].requested
      /\ invocations'[i].returned = v
      /\ \A j \in Invocation \ {i} : invocations'[j] = invocations[j]
      /\ bindings' = bindings /\ continuity' = continuity
  BY DEF AgentAnswers, BindingInv, SessionShape
<1>2. invocations[i].pc = "AGENT" /\ (Resuming(i) => v = invocations[i].requested)
  BY DEF AgentAnswers, Continuous
<1>3. SessionShape'
  BY <1>1, <1>2 DEF BindingInv, SessionShape, Vendors
<1>4. BoundOnce' /\ CreatedOnce'
  BY <1>1 DEF BindingInv, BoundOnce, CreatedOnce, Created
<1>5. AsksForBound'
  BY <1>1, <1>2 DEF BindingInv, AsksForBound
<1>6. SuccessBound'
  BY <1>1, <1>2 DEF BindingInv, SuccessBound
<1> QED
  BY <1>3, <1>4, <1>5, <1>6 DEF BindingInv

(* The slot is free and the session nobody's, or both are as they were     *)
(* when the agent was asked: other slots and successes keep theirs.        *)
LEMMA PersistStep ==
  ASSUME BindingInv, NEW i \in Invocation, Persists(i)
  PROVE  BindingInv'
<1> DEFINE v == invocations[i].returned
           s == invocations[i].slot
<1> USE DEF SlotOf, InvocationAt, Succeeded
<1>1. /\ v \in Vendor /\ v # NoVendor /\ s \in Slot /\ bindings \in [Slot -> Vendors]
      /\ i \in DOMAIN continuity /\ invocations[i].pc = "ANSWERED"
  BY SessionAssumption DEF Persists, BindingInv, SessionShape, AsksForBound
<1>2. /\ DOMAIN invocations' = Invocation
      /\ invocations'[i].pc = "ENDED" /\ invocations'[i].slot = s
      /\ invocations'[i].requested = NoVendor /\ invocations'[i].returned = NoVendor
      /\ \A j \in Invocation \ {i} : invocations'[j] = invocations[j]
  BY DropsAttempt DEF Persists, BindingInv, InvocationPCs
<1>3. /\ bindings' = [bindings EXCEPT ![s] = v]
      /\ continuity' = [continuity EXCEPT ![i] =
           [outcome |-> IF Resuming(i) THEN "RESUMED" ELSE "CREATED", returned |-> v]]
  BY DEF Persists
<1>4. \/ Resuming(i) /\ bindings[s] = v
      \/ ~Resuming(i) /\ bindings[s] = NoVendor /\ \A t \in Slot : bindings[t] # v
  BY DEF Persists, Persistable, Bindable, Claimed, BindingInv, AsksForBound
<1>5. \A t \in Slot :
        \/ bindings'[t] = bindings[t]
        \/ t = s /\ bindings[s] = NoVendor /\ bindings'[s] = v
  <2> SUFFICES ASSUME NEW t \in Slot
               PROVE  \/ bindings'[t] = bindings[t]
                      \/ t = s /\ bindings[s] = NoVendor /\ bindings'[s] = v
    OBVIOUS
  <2>1. CASE t = s
    <3>1. bindings'[s] = v
      BY <1>1, <1>3
    <3>2. bindings[s] = v \/ bindings[s] = NoVendor
      BY <1>4
    <3> QED
      BY <2>1, <3>1, <3>2, Zenon
  <2>2. CASE t # s
    BY <2>2, <1>1, <1>3
  <2> QED
    BY <2>1, <2>2
<1>6. SessionShape'
  <2>1. [outcome |-> IF Resuming(i) THEN "RESUMED" ELSE "CREATED", returned |-> v]
          \in ContinuityRow
    BY <1>1 DEF ContinuityRow, Vendors
  <2> QED
    BY <1>1, <1>2, <1>3, <2>1 DEF BindingInv, SessionShape, Vendors
<1>7. BoundOnce'
  BY <1>1, <1>3, <1>4 DEF BindingInv, BoundOnce
<1>8. AsksForBound'
  BY <1>2, <1>5 DEF BindingInv, AsksForBound, Resuming, SessionShape
<1>9. \A j \in Invocation \ {i} : continuity'[j] = continuity[j]
  BY <1>3 DEF BindingInv, SessionShape
<1>10. continuity'[i] =
         [outcome |-> IF Resuming(i) THEN "RESUMED" ELSE "CREATED", returned |-> v]
  BY <1>1, <1>3
<1>11. SuccessBound'
  BY <1>1, <1>2, <1>3, <1>5, <1>9, <1>10, SessionAssumption
     DEF BindingInv, SuccessBound, SessionShape
<1>12. ASSUME NEW j \in Invocation \ {i}, Created(i)', Created(j)' PROVE SlotOf(j) # s
  <2>1. bindings[s] = NoVendor
    BY <1>4, <1>10, <1>12 DEF Created
  <2>2. Succeeded(j)
    BY <1>9, <1>12 DEF Created
  <2> QED
    BY <2>1, <2>2, SessionAssumption DEF BindingInv, SuccessBound
<1>13. CreatedOnce'
  BY <1>2, <1>9, <1>12 DEF BindingInv, CreatedOnce, Created
<1> QED
  BY <1>6, <1>7, <1>8, <1>11, <1>13 DEF BindingInv

(***************************************************************************)
(* Every other step spares the sessions.                                   *)
(***************************************************************************)
LEMMA ReachesSpares ==
  ASSUME BindingInv, NEW i \in Invocation, NEW pc \in InvocationPCs \ {"NEW", "ANSWERED"},
         invocations[i].pc \in InvocationPCs \ {"NEW", "AGENT", "ANSWERED", "ENDED"},
         \/ Reaches(i, pc)
         \/ \E v \in {BatchOf(i).version} :
              invocations' = [invocations EXCEPT ![i].pc = pc, ![i].version = v],
         UNCHANGED <<bindings, continuity>>
  PROVE  SparesSessions(i)
<1>1. invocations[i].requested = NoVendor
  BY DEF BindingInv, AsksForBound, Resuming, InvocationAt
<1>2. /\ DOMAIN invocations' = Invocation
      /\ invocations'[i].pc = pc /\ invocations'[i].slot = invocations[i].slot
      /\ invocations'[i].requested = invocations[i].requested
      /\ invocations'[i].returned = invocations[i].returned
      /\ \A j \in Invocation \ {i} : invocations'[j] = invocations[j]
  <2>1. CASE Reaches(i, pc)
    BY <2>1 DEF Reaches, BindingInv, SessionShape
  <2>2. CASE \E v \in {BatchOf(i).version} :
               invocations' = [invocations EXCEPT ![i].pc = pc, ![i].version = v]
    BY <2>2 DEF BindingInv, SessionShape
  <2> QED
    BY <2>1, <2>2
<1>3. invocations[i].slot \in Slot
  BY DEF BindingInv, SessionShape, SlotOf
<1> QED
  BY <1>1, <1>2, <1>3 DEF SparesSessions, SlotOf, InvocationAt

LEMMA DropsSpares ==
  ASSUME BindingInv, NEW i \in Invocation, NEW pc \in {"FAILING", "ENDED"}, NEW b, NEW v,
         invocations[i].pc \notin {"NEW", "ENDED"}, Drops(i, pc, b, v), bindings' = bindings,
         \/ continuity' = continuity
         \/ continuity' = [continuity EXCEPT ![i] = [outcome |-> "FAILED", returned |-> NoVendor]]
  PROVE  SparesSessions(i)
BY DropsAttempt DEF SparesSessions, BindingInv, SessionShape, SlotOf, InvocationAt, InvocationPCs

LEMMA StartSpares ==
  ASSUME BindingInv, NEW i \in Invocation, NEW s \in Slot, StartsInvocation(i, s)
  PROVE  SparesSessions(i)
<1>1. invocations[i].requested = NoVendor
  BY DEF StartsInvocation, BindingInv, AsksForBound, Resuming, InvocationAt
<1> QED
  BY <1>1 DEF StartsInvocation, SparesSessions, BindingInv, SessionShape, InvocationAt

LEMMA BindingStep ==
  ASSUME BindingInv, [SessionNext]_sessionVars
  PROVE  BindingInv'
<1>1. ASSUME NEW i \in Invocation, NEW s \in Slot, StartsInvocation(i, s) PROVE BindingInv'
  BY <1>1, StartSpares, SparedStep
<1>2. ASSUME NEW i \in Invocation,
             \/ RefusesBinding(i) \/ AnswerBreaks(i) \/ CallFails(i) \/ EvidenceRefused(i)
             \/ PersistRollsBack(i) \/ InvocationDies(i)
      PROVE  BindingInv'
  <2>1. SparesSessions(i)
    BY <1>2, DropsSpares DEF RefusesBinding, AnswerBreaks, CallFails, EvidenceRefused,
       PersistRollsBack, InvocationDies, Breaks, InvocationAt, InFlight
  <2> QED
    BY <2>1, SparedStep
<1>3. ASSUME NEW i \in Invocation, SpawnsAgent(i) PROVE BindingInv'
  BY <1>3, SpawnStep
<1>4. ASSUME NEW i \in Invocation, NEW v \in Vendor, AgentAnswers(i, v) PROVE BindingInv'
  BY <1>4, AnswerStep
<1>5. ASSUME NEW i \in Invocation, Persists(i) PROVE BindingInv'
  BY <1>5, PersistStep
<1>6. ASSUME NEW i \in Invocation, NEW written \in BOOLEAN, AuditsFailure(i, written)
      PROVE  BindingInv'
  <2>1. SparesSessions(i)
    BY <1>6, ReachesSpares DEF AuditsFailure, InvocationAt, InvocationPCs
  <2> QED
    BY <2>1, SparedStep
<1>7. ASSUME NEW i \in Invocation,
             \/ SettlesFailure(i) \/ Reports(i) \/ ReservesEscalation(i) \/ BlocksBatch(i)
             \/ EscalationSwallowed(i)
      PROVE  BindingInv'
  <2>1. SparesSessions(i)
    BY <1>7, ReachesSpares DEF SettlesFailure, Reports, ReservesEscalation, BlocksBatch,
       EscalationSwallowed, InvocationAt, InvocationPCs
  <2> QED
    BY <2>1, SparedStep
<1>8. ASSUME \/ \E b \in SessionBatch : BatchMoves(b)
             \/ UNCHANGED sessionVars
      PROVE  BindingInv'
  <2>1. UNCHANGED <<bindings, continuity, invocations>>
    BY <1>8 DEF BatchMoves, sessionVars
  <2> QED
    BY <2>1 DEF BindingInv, SessionShape, BoundOnce, AsksForBound, SuccessBound, CreatedOnce,
       Created, Succeeded, Resuming, SlotOf, InvocationAt
<1> QED
  BY <1>1, <1>2, <1>3, <1>4, <1>5, <1>6, <1>7, <1>8 DEF SessionNext

LEMMA BindingStarts == SessionInit => BindingInv
BY DEF SessionInit, NewSessionAttempt, BindingInv, SessionShape, BoundOnce, AsksForBound,
   SuccessBound, CreatedOnce, Created, Succeeded, Resuming, SlotOf, InvocationAt, Vendors

(***************************************************************************)
(* The theorem.                                                            *)
(***************************************************************************)
(* Whatever invocations of a batch and role overlap, die or break their    *)
(* continuity, every accepted answer is from the one session bound there,  *)
(* one invocation created it, and no session serves two batches or roles:  *)
(* the binding is written where the answer is persisted, under the primary *)
(* key and the unique index, and never replaced.                           *)
THEOREM OneSessionBound == SessionSpec => []OneSessionPerRole
<1>1. BindingInv => OneSessionPerRole
  <2> SUFFICES ASSUME BindingInv PROVE OneSessionPerRole
    OBVIOUS
  <2>1. \A i \in Invocation : Succeeded(i) => continuity[i].returned = bindings[SlotOf(i)]
    BY DEF BindingInv, SuccessBound
  <2>2. ASSUME NEW i \in Invocation, NEW j \in Invocation, Succeeded(i), Succeeded(j), i # j,
               continuity[i].outcome = "CREATED", continuity[j].outcome = "CREATED"
        PROVE  SlotOf(i) # SlotOf(j) /\ bindings[SlotOf(i)] # bindings[SlotOf(j)]
    <3>1. SlotOf(i) # SlotOf(j)
      BY <2>2 DEF BindingInv, CreatedOnce, Created, Succeeded
    <3>2. SlotOf(i) \in Slot /\ SlotOf(j) \in Slot /\ bindings[SlotOf(i)] # NoVendor
      BY <2>2, SessionAssumption DEF BindingInv, SuccessBound, SessionShape, InvocationAt
    <3> QED
      BY <3>1, <3>2 DEF BindingInv, BoundOnce
  <2> QED
    BY <2>1, <2>2 DEF OneSessionPerRole
<1> QED
  BY BindingStarts, BindingStep, <1>1, PTL DEF SessionSpec

(***************************************************************************)
(* The marker.  An attempt that has spawned no agent yet is marked as      *)
(* preparing; one that was audited needs no marker any more.               *)
(***************************************************************************)
Marked(i, stage) == marker = [invocation |-> i, stage |-> stage]

MarkKept(i) ==
  /\ InvocationAt(i, "NEW") => ~invocations[i].spawned
  /\ InvocationAt(i, "SETTLING") => audits[i] = "FAILED"
  /\ i \notin overtaken =>
       /\ InvocationAt(i, "PREPARING") => Marked(i, "PREPARING")
       /\ invocations[i].spawned /\ audits[i] = "NONE" => Marked(i, "AGENT_RUNNING")

MarksKept == \A i \in Invocation : MarkKept(i)

MarkInv == BindingInv /\ DOMAIN audits = Invocation /\ MarksKept

(* What a step of i leaves to the others.                                  *)
OthersStay(i) ==
  \A j \in Invocation \ {i} : invocations'[j] = invocations[j] /\ audits'[j] = audits[j]

LEMMA DropsKeepsAgent ==
  ASSUME SessionShape, NEW i \in Invocation, NEW pc, NEW b, NEW v, Drops(i, pc, b, v)
  PROVE  /\ invocations'[i].pc = pc /\ invocations'[i].spawned = invocations[i].spawned
         /\ invocations'[i].broken = b /\ invocations'[i].version = v
         /\ invocations'[i].slot = invocations[i].slot
         /\ \A j \in Invocation \ {i} : invocations'[j] = invocations[j]
BY DEF Drops, SessionShape, NewSessionAttempt, SlotOf

(* The marker stays, and so does what is known of the agent.               *)
LEMMA MarkerStays ==
  ASSUME MarkInv, NEW i \in Invocation, OthersStay(i), UNCHANGED <<marker, overtaken>>,
         invocations'[i].spawned = invocations[i].spawned,
         invocations'[i].pc \notin {"NEW", "PREPARING"},
         \/ audits'[i] = audits[i] /\ invocations'[i].pc # "SETTLING"
         \/ audits'[i] = "FAILED"
  PROVE  MarksKept'
<1> SUFFICES ASSUME NEW j \in Invocation PROVE MarkKept(j)'
  BY DEF MarksKept
<1>1. MarkKept(j)
  BY DEF MarkInv, MarksKept
<1>2. CASE j = i
  BY <1>1, <1>2 DEF MarkKept, InvocationAt, Marked
<1>3. CASE j # i
  BY <1>1, <1>3 DEF MarkKept, InvocationAt, Marked, OthersStay
<1> QED
  BY <1>2, <1>3

(* Who loses the marker is overtaken.                                      *)
LEMMA MarkerMoves ==
  ASSUME MarkInv, NEW i \in Invocation, NEW next, OthersStay(i), MarkerBecomes(i, next),
         MarkKept(i)'
  PROVE  MarksKept'
<1> SUFFICES ASSUME NEW j \in Invocation \ {i} PROVE MarkKept(j)'
  BY DEF MarksKept
<1>1. MarkKept(j) /\ invocations'[j] = invocations[j] /\ audits'[j] = audits[j]
  BY DEF MarkInv, MarksKept, OthersStay
<1>2. \A stage \in {"PREPARING", "AGENT_RUNNING"} :
        Marked(j, stage) => marker # NoInvocation /\ marker.invocation = j
  BY NoMarkerAssumption DEF Marked
<1>3. j \notin overtaken' =>
        j \notin overtaken /\ ~Marked(j, "PREPARING") /\ ~Marked(j, "AGENT_RUNNING")
  BY <1>2 DEF MarkerBecomes
<1> QED
  BY <1>1, <1>3 DEF MarkKept, InvocationAt

LEMMA MarkStep ==
  ASSUME MarkInv, [SessionNext]_sessionVars
  PROVE  MarkInv'
<1>1. BindingInv' /\ SessionShape
  BY BindingStep DEF MarkInv, BindingInv
<1>2. \A i \in Invocation : MarkKept(i)
  BY DEF MarkInv, MarksKept
<1>3. ASSUME NEW i \in Invocation,
             \/ RefusesBinding(i) \/ AnswerBreaks(i) \/ CallFails(i) \/ EvidenceRefused(i)
             \/ PersistRollsBack(i) \/ InvocationDies(i)
      PROVE  MarksKept'
  <2>1. PICK pc \in {"FAILING", "ENDED"}, b \in BOOLEAN : Drops(i, pc, b, 0)
    BY <1>3 DEF RefusesBinding, AnswerBreaks, CallFails, EvidenceRefused, PersistRollsBack,
       InvocationDies, Breaks
  <2>2. UNCHANGED <<audits, marker, overtaken>>
    BY <1>3 DEF RefusesBinding, AnswerBreaks, CallFails, EvidenceRefused, PersistRollsBack,
       InvocationDies
  <2>3. /\ OthersStay(i) /\ invocations'[i].pc = pc
        /\ invocations'[i].spawned = invocations[i].spawned
    BY <1>1, <2>1, <2>2, DropsKeepsAgent DEF OthersStay
  <2> QED
    BY <2>2, <2>3, MarkerStays
<1>4. ASSUME NEW i \in Invocation,
             \/ Reports(i) \/ ReservesEscalation(i) \/ BlocksBatch(i) \/ EscalationSwallowed(i)
             \/ \E v \in Vendor : AgentAnswers(i, v)
      PROVE  MarksKept'
  <2>1. UNCHANGED <<audits, marker, overtaken>>
    BY <1>4 DEF Reports, ReservesEscalation, BlocksBatch, EscalationSwallowed, AgentAnswers
  <2>2. /\ OthersStay(i) /\ invocations'[i].spawned = invocations[i].spawned
        /\ invocations'[i].pc \in {"ENDED", "ESCALATING", "BLOCKING", "ANSWERED"}
    <3>1. CASE Reports(i)
      <4>1. PICK pc \in {"ESCALATING", "ENDED"} :
              \E v : invocations' = [invocations EXCEPT ![i].pc = pc, ![i].version = v]
        BY <3>1 DEF Reports
      <4> QED
        BY <1>1, <2>1, <4>1 DEF SessionShape, OthersStay
    <3>2. CASE ReservesEscalation(i) \/ BlocksBatch(i) \/ EscalationSwallowed(i)
      <4>1. PICK pc \in {"BLOCKING", "ENDED"} : Reaches(i, pc)
        BY <3>2 DEF ReservesEscalation, BlocksBatch, EscalationSwallowed
      <4> QED
        BY <1>1, <2>1, <4>1 DEF SessionShape, OthersStay, Reaches
    <3>3. CASE \E v \in Vendor : AgentAnswers(i, v)
      BY <1>1, <2>1, <3>3 DEF SessionShape, OthersStay, AgentAnswers
    <3> QED
      BY <1>4, <3>1, <3>2, <3>3
  <2> QED
    BY <2>1, <2>2, MarkerStays
<1>5. ASSUME NEW i \in Invocation, NEW written \in BOOLEAN, AuditsFailure(i, written)
      PROVE  MarksKept'
  <2>1. /\ OthersStay(i) /\ UNCHANGED <<marker, overtaken>>
        /\ invocations'[i].spawned = invocations[i].spawned
        /\ \/ audits'[i] = audits[i] /\ invocations'[i].pc = "REPORTED"
           \/ audits'[i] = "FAILED" /\ invocations'[i].pc = "SETTLING"
    BY <1>1, <1>5 DEF MarkInv, SessionShape, OthersStay, AuditsFailure, SettlesWhen, Reaches
  <2> QED
    BY <2>1, MarkerStays
<1>6. ASSUME NEW i \in Invocation, NEW s \in Slot, StartsInvocation(i, s)
      PROVE  MarksKept'
  <2>1. /\ OthersStay(i) /\ invocations'[i].spawned = invocations[i].spawned
        /\ invocations'[i].pc = "PREPARING" /\ InvocationAt(i, "NEW")
        /\ MarkerBecomes(i, [invocation |-> i, stage |-> "PREPARING"])
    BY <1>1, <1>6 DEF SessionShape, OthersStay, StartsInvocation
  <2>2. MarkKept(i)'
    BY <1>2, <2>1 DEF MarkKept, InvocationAt, Marked, MarkerBecomes
  <2> QED
    BY <2>1, <2>2, MarkerMoves
<1>7. ASSUME NEW i \in Invocation, SettlesFailure(i)
      PROVE  MarksKept'
  <2>1. /\ OthersStay(i) /\ audits'[i] = audits[i]
        /\ invocations'[i].pc = "REPORTED" /\ InvocationAt(i, "SETTLING")
        /\ MarkerBecomes(i, NoInvocation)
    BY <1>1, <1>7 DEF SessionShape, OthersStay, SettlesFailure, Reaches
  <2>2. MarkKept(i)'
    BY <1>2, <2>1 DEF MarkKept, InvocationAt
  <2> QED
    BY <2>1, <2>2, MarkerMoves
<1>8. ASSUME NEW i \in Invocation, Persists(i)
      PROVE  MarksKept'
  <2>1. Drops(i, "ENDED", FALSE, 0) /\ MarkerBecomes(i, NoInvocation)
        /\ audits' = [audits EXCEPT ![i] = "SUCCEEDED"]
    BY <1>8 DEF Persists
  <2>2. OthersStay(i) /\ invocations'[i].pc = "ENDED" /\ audits'[i] = "SUCCEEDED"
    BY <1>1, <2>1, DropsKeepsAgent DEF MarkInv, OthersStay
  <2>3. MarkKept(i)'
    BY <2>2 DEF MarkKept, InvocationAt
  <2> QED
    BY <2>1, <2>2, <2>3, MarkerMoves
<1>9. ASSUME NEW i \in Invocation, SpawnsAgent(i)
      PROVE  MarksKept'
  <2>1. /\ OthersStay(i) /\ UNCHANGED <<audits, overtaken>> /\ InvocationAt(i, "PREPARING")
        /\ invocations'[i].pc = "AGENT"
    BY <1>1, <1>9 DEF SessionShape, OthersStay, SpawnsAgent
  <2>2. Marked(i, "PREPARING") => Marked(i, "AGENT_RUNNING")'
    BY <1>9, NoMarkerAssumption DEF SpawnsAgent, Marked
  <2>3. ASSUME NEW j \in Invocation \ {i}, NEW stage \in {"PREPARING", "AGENT_RUNNING"},
               Marked(j, stage)
        PROVE  Marked(j, stage)'
    BY <1>9, <2>3 DEF SpawnsAgent, Marked
  <2>4. MarkKept(i)'
    BY <1>2, <2>1, <2>2 DEF MarkKept, InvocationAt
  <2>5. ASSUME NEW j \in Invocation \ {i} PROVE MarkKept(j)'
    <3>1. MarkKept(j) /\ invocations'[j] = invocations[j] /\ audits'[j] = audits[j]
      BY <1>2, <2>1 DEF OthersStay
    <3>2. /\ Marked(j, "PREPARING") => Marked(j, "PREPARING")'
          /\ Marked(j, "AGENT_RUNNING") => Marked(j, "AGENT_RUNNING")'
      BY <2>3
    <3> QED
      BY <2>1, <3>1, <3>2 DEF MarkKept, InvocationAt
  <2> QED
    BY <2>4, <2>5 DEF MarksKept
<1>10. ASSUME UNCHANGED sessionVars \/ \E b \in SessionBatch : BatchMoves(b)
       PROVE  MarksKept'
  <2>1. UNCHANGED <<audits, marker, invocations, overtaken>>
    BY <1>10 DEF sessionVars, BatchMoves
  <2> QED
    BY <1>2, <2>1 DEF MarksKept, MarkKept, InvocationAt, Marked
<1>11. DOMAIN audits' = Invocation
  BY DEF MarkInv, SessionNext, sessionVars, BatchMoves, RefusesBinding, AnswerBreaks, CallFails,
     EvidenceRefused, PersistRollsBack, InvocationDies, Reports, ReservesEscalation, BlocksBatch,
     EscalationSwallowed, AgentAnswers, AuditsFailure, StartsInvocation, SettlesFailure, Persists,
     SpawnsAgent
<1>12. MarksKept'
  BY <1>3, <1>4, <1>5, <1>6, <1>7, <1>8, <1>9, <1>10 DEF SessionNext
<1> QED
  BY <1>1, <1>11, <1>12 DEF MarkInv

(* For any number of invocations that overlap, die, or fail to write their *)
(* audit: an agent whose outcome is not durable stays marked as running,   *)
(* unless another invocation took the marker (role-invocation.ts).         *)
THEOREM AgentsStayMarked == SessionSpec => []UnsettledStaysMarked
<1>1. SessionInit => MarkInv
  <2> SUFFICES ASSUME SessionInit PROVE MarkInv
    OBVIOUS
  <2>1. BindingInv
    BY BindingStarts
  <2> QED
    BY <2>1 DEF SessionInit, NewSessionAttempt, MarkInv, MarksKept, MarkKept, InvocationAt, Marked
<1>2. ASSUME MarkInv PROVE UnsettledStaysMarked
  BY <1>2 DEF MarkInv, MarksKept, MarkKept, Marked, UnsettledStaysMarked
<1> QED
  BY <1>1, <1>2, MarkStep, PTL DEF SessionSpec

(***************************************************************************)
(* A broken continuity.  An attempt knows a version its batch had; an      *)
(* escalation that is done is of an earlier one.                           *)
(***************************************************************************)
GatedBatch ==
  [version: Nat, blocked: BOOLEAN, escalations: SUBSET [key: Nat, done: BOOLEAN]]

Stopped(i) ==
  \/ BatchOf(i).blocked \/ BatchOf(i).version > invocations[i].version
  \/ [key |-> BatchOf(i).version + 1, done |-> FALSE] \in BatchOf(i).escalations

BreakKept(i) ==
  /\ InvocationAt(i, "NEW") => invocations[i].version = 0
  /\ ~InvocationAt(i, "NEW") =>
       /\ invocations[i].version \in Nat /\ invocations[i].version <= BatchOf(i).version
       /\ InvocationAt(i, "ENDED") /\ invocations[i].broken => Stopped(i)

BreaksKept == \A i \in Invocation : BreakKept(i)

DoneIsPast ==
  \A b \in SessionBatch : \A e \in gated[b].escalations : e.done => e.key <= gated[b].version

BreaksHeld == gated \in [SessionBatch -> GatedBatch] /\ BreaksKept /\ DoneIsPast

BreakInv == BindingInv /\ BreaksHeld

LEMMA StartedSlot ==
  ASSUME BreakInv, NEW i \in Invocation, ~InvocationAt(i, "NEW")
  PROVE  SlotOf(i)[1] \in SessionBatch /\ BatchOf(i) \in GatedBatch
BY DEF BreakInv, BreaksHeld, BindingInv, SessionShape, InvocationAt, BatchOf, Slot

(* A batch that moves on, is blocked, or has one more escalation reserved: *)
(* who had stopped it has still.                                           *)
LEMMA BatchesMove ==
  ASSUME BreakInv, NEW b \in SessionBatch, gated' \in [SessionBatch -> GatedBatch],
         \A c \in SessionBatch \ {b} : gated'[c] = gated[c],
         \/ gated'[b].version = gated[b].version + 1
         \/ /\ gated'[b].version = gated[b].version /\ gated'[b].blocked = gated[b].blocked
            /\ gated[b].escalations \subseteq gated'[b].escalations,
         NEW i \in Invocation, invocations'[i] = invocations[i]
  PROVE  BreakKept(i)'
<1> SUFFICES ASSUME ~InvocationAt(i, "NEW") PROVE BreakKept(i)'
  BY DEF BreakInv, BreaksHeld, BreaksKept, BreakKept, InvocationAt
<1>1. /\ BreakKept(i) /\ SlotOf(i)[1] \in SessionBatch
      /\ SlotOf(i)' = SlotOf(i) /\ BatchOf(i)' = gated'[SlotOf(i)[1]]
      /\ BatchOf(i) \in GatedBatch
  BY StartedSlot DEF BreakInv, BreaksHeld, BreaksKept, SlotOf, BatchOf
<1>2. CASE SlotOf(i)[1] # b
  BY <1>1, <1>2 DEF BreakKept, Stopped, BatchOf, InvocationAt
<1>3. CASE SlotOf(i)[1] = b
  <2>1. invocations[i].version \in Nat /\ gated[b].version \in Nat
        /\ invocations[i].version <= gated[b].version
    BY <1>1, <1>3 DEF BreakKept, BatchOf, GatedBatch
  <2>2. CASE gated'[b].version = gated[b].version + 1
    BY <1>1, <1>3, <2>1, <2>2 DEF BreakKept, Stopped, BatchOf, InvocationAt
  <2>3. CASE /\ gated'[b].version = gated[b].version /\ gated'[b].blocked = gated[b].blocked
             /\ gated[b].escalations \subseteq gated'[b].escalations
    BY <1>1, <1>3, <2>3 DEF BreakKept, Stopped, BatchOf, InvocationAt
  <2> QED
    BY <2>2, <2>3
<1> QED
  BY <1>2, <1>3

(* The batches stay; the attempt takes no version that is yet to come.     *)
LEMMA BatchesStay ==
  ASSUME BreakInv, NEW i \in Invocation, UNCHANGED gated, invocations'[i].slot \in Slot,
         \A j \in Invocation \ {i} : invocations'[j] = invocations[j],
         invocations'[i].pc # "NEW", invocations'[i].version \in Nat,
         invocations'[i].version <= (BatchOf(i)').version,
         invocations'[i].pc = "ENDED" /\ invocations'[i].broken => Stopped(i)'
  PROVE  BreaksKept' /\ DoneIsPast'
<1>1. BreakKept(i)'
  BY DEF BreakKept, InvocationAt
<1>2. ASSUME NEW j \in Invocation \ {i} PROVE BreakKept(j)'
  BY DEF BreakInv, BreaksHeld, BreaksKept, BreakKept, InvocationAt, Stopped, BatchOf, SlotOf
<1> QED
  BY <1>1, <1>2 DEF BreaksKept, BreakInv, BreaksHeld, DoneIsPast

LEMMA BreakStep ==
  ASSUME BreakInv, [SessionNext]_sessionVars
  PROVE  BreakInv'
<1>1. BindingInv' /\ SessionShape
  BY BindingStep DEF BreakInv, BreaksHeld, BindingInv
<1>2. \A i \in Invocation : BreakKept(i)
  BY DEF BreakInv, BreaksHeld, BreaksKept
<1>3. gated \in [SessionBatch -> GatedBatch] /\ DoneIsPast
  BY DEF BreakInv, BreaksHeld
<1>4. \A i \in Invocation : ~InvocationAt(i, "NEW") =>
        /\ SlotOf(i) \in Slot /\ SlotOf(i)[1] \in SessionBatch
        /\ BatchOf(i) = gated[SlotOf(i)[1]] /\ BatchOf(i) \in GatedBatch
        /\ BatchOf(i).version \in Nat
  BY <1>1, StartedSlot DEF SessionShape, InvocationAt, BatchOf, GatedBatch
<1>5. ASSUME NEW i \in Invocation,
             \/ RefusesBinding(i) \/ AnswerBreaks(i) \/ CallFails(i) \/ EvidenceRefused(i)
             \/ Persists(i) \/ PersistRollsBack(i) \/ InvocationDies(i)
      PROVE  BreaksHeld'
  <2>1. PICK pc \in {"FAILING", "ENDED"} :
          \E b \in BOOLEAN : Drops(i, pc, b, 0) /\ (pc = "ENDED" => ~b)
    BY <1>5 DEF RefusesBinding, AnswerBreaks, CallFails, EvidenceRefused, Persists,
       PersistRollsBack, InvocationDies, Breaks
  <2>2. PICK b \in BOOLEAN : Drops(i, pc, b, 0) /\ (pc = "ENDED" => ~b)
    BY <2>1
  <2>3. UNCHANGED gated /\ ~InvocationAt(i, "NEW")
    BY <1>5 DEF RefusesBinding, AnswerBreaks, CallFails, EvidenceRefused, Persists,
       PersistRollsBack, InvocationDies, InvocationAt, InFlight
  <2>4. /\ invocations'[i].pc = pc /\ invocations'[i].broken = b /\ invocations'[i].version = 0
        /\ invocations'[i].slot = invocations[i].slot
        /\ \A j \in Invocation \ {i} : invocations'[j] = invocations[j]
    BY <1>1, <2>2, DropsKeepsAgent
  <2>5. invocations'[i].slot \in Slot /\ 0 <= (BatchOf(i)').version
    BY <1>4, <2>3, <2>4 DEF SlotOf, BatchOf
  <2>6. invocations'[i].version \in Nat /\ invocations'[i].version <= (BatchOf(i)').version
        /\ ~(invocations'[i].pc = "ENDED" /\ invocations'[i].broken) /\ invocations'[i].pc # "NEW"
    BY <2>2, <2>4, <2>5
  <2>7. BreaksKept' /\ DoneIsPast'
    BY <2>3, <2>4, <2>5, <2>6, BatchesStay
  <2> QED
    BY <1>3, <2>3, <2>7 DEF BreaksHeld
<1>6. ASSUME NEW i \in Invocation,
             \/ \E s \in Slot : StartsInvocation(i, s)
             \/ SpawnsAgent(i) \/ SettlesFailure(i)
             \/ \E v \in Vendor : AgentAnswers(i, v)
             \/ \E written \in BOOLEAN : AuditsFailure(i, written)
      PROVE  BreaksHeld'
  <2>1. UNCHANGED gated
    BY <1>6 DEF StartsInvocation, SpawnsAgent, SettlesFailure, AgentAnswers, AuditsFailure
  <2>2. /\ invocations'[i].version = invocations[i].version /\ invocations'[i].slot \in Slot
        /\ invocations'[i].pc \notin {"NEW", "ENDED"}
        /\ ~InvocationAt(i, "NEW") => invocations'[i].slot = invocations[i].slot
        /\ \A j \in Invocation \ {i} : invocations'[j] = invocations[j]
    <3>1. CASE \E s \in Slot : StartsInvocation(i, s)
      BY <1>1, <3>1 DEF SessionShape, StartsInvocation, InvocationAt
    <3>2. CASE SpawnsAgent(i)
      BY <1>1, <1>4, <3>2 DEF SessionShape, SpawnsAgent, InvocationAt, SlotOf
    <3>3. CASE SettlesFailure(i)
      BY <1>1, <1>4, <3>3 DEF SessionShape, SettlesFailure, Reaches, InvocationAt, SlotOf
    <3>4. CASE \E v \in Vendor : AgentAnswers(i, v)
      BY <1>1, <1>4, <3>4 DEF SessionShape, AgentAnswers, InvocationAt, SlotOf
    <3>5. CASE \E written \in BOOLEAN : AuditsFailure(i, written)
      <4>1. PICK pc \in {"SETTLING", "REPORTED"} : Reaches(i, pc) /\ InvocationAt(i, "FAILING")
        BY <3>5 DEF AuditsFailure
      <4> QED
        BY <1>1, <1>4, <4>1 DEF SessionShape, Reaches, InvocationAt, SlotOf
    <3> QED
      BY <1>6, <3>1, <3>2, <3>3, <3>4, <3>5
  <2>3. (BatchOf(i)').version \in Nat
    BY <1>3, <2>1, <2>2 DEF BatchOf, SlotOf, Slot, GatedBatch
  <2>4. /\ invocations'[i].version \in Nat /\ invocations'[i].version <= (BatchOf(i)').version
    <3>1. CASE InvocationAt(i, "NEW")
      BY <1>2, <2>2, <2>3, <3>1 DEF BreakKept
    <3>2. CASE ~InvocationAt(i, "NEW")
      BY <1>2, <2>1, <2>2, <3>2 DEF BreakKept, BatchOf, SlotOf
    <3> QED
      BY <3>1, <3>2
  <2>5. BreaksKept' /\ DoneIsPast'
    BY <2>1, <2>2, <2>4, BatchesStay
  <2> QED
    BY <1>3, <2>1, <2>5 DEF BreaksHeld
<1>7. ASSUME NEW i \in Invocation, Reports(i) PROVE BreaksHeld'
  <2>1. UNCHANGED gated /\ ~InvocationAt(i, "NEW")
    BY <1>7 DEF Reports, InvocationAt
  <2>2. PICK pc, n : /\ pc = IF invocations[i].broken /\ ~BatchOf(i).blocked
                             THEN "ESCALATING" ELSE "ENDED"
                     /\ n = BatchOf(i).version
    OBVIOUS
  <2>3. invocations' = [invocations EXCEPT ![i].pc = pc, ![i].version = n]
    BY <1>7, <2>2 DEF Reports
  <2>4. /\ invocations'[i].pc = pc /\ invocations'[i].version = n
        /\ invocations'[i].slot = invocations[i].slot
        /\ invocations'[i].broken = invocations[i].broken
        /\ \A j \in Invocation \ {i} : invocations'[j] = invocations[j]
    BY <1>1, <2>3 DEF SessionShape
  <2>5. BatchOf(i)' = BatchOf(i) /\ invocations'[i].slot \in Slot /\ n \in Nat
    BY <1>4, <2>1, <2>2, <2>4 DEF BatchOf, SlotOf
  <2>6. invocations'[i].pc = "ENDED" /\ invocations'[i].broken => Stopped(i)'
    BY <2>2, <2>4, <2>5 DEF Stopped
  <2>7. BreaksKept' /\ DoneIsPast'
    BY <2>1, <2>2, <2>4, <2>5, <2>6, BatchesStay
  <2> QED
    BY <1>3, <2>1, <2>7 DEF BreaksHeld
<1>8. ASSUME NEW i \in Invocation, EscalationSwallowed(i) PROVE BreaksHeld'
  <2>1. UNCHANGED gated /\ ~InvocationAt(i, "NEW") /\ Reaches(i, "ENDED")
    BY <1>8 DEF EscalationSwallowed, InvocationAt
  <2>2. /\ invocations'[i].pc = "ENDED" /\ invocations'[i].version = invocations[i].version
        /\ invocations'[i].slot = invocations[i].slot
        /\ \A j \in Invocation \ {i} : invocations'[j] = invocations[j]
    BY <1>1, <2>1 DEF SessionShape, Reaches
  <2>3. BatchOf(i)' = BatchOf(i) /\ invocations'[i].slot \in Slot
    BY <1>4, <2>1, <2>2 DEF BatchOf, SlotOf
  <2>4. invocations[i].version \in Nat /\ invocations[i].version <= BatchOf(i).version
    BY <1>2, <2>1 DEF BreakKept
  <2>5. Stopped(i)
    <3>1. CASE ~BatchUnmoved(i)
      BY <1>4, <2>1, <2>4, <3>1 DEF BatchUnmoved, Stopped
    <3>2. CASE BatchUnmoved(i)
      <4>1. PICK e \in BatchOf(i).escalations : e.key = BatchOf(i).version + 1
        BY <1>8, <3>2 DEF EscalationSwallowed, EscalationReservable, EscalationKey
      <4>2. e \in [key: Nat, done: BOOLEAN] /\ (e.done => e.key <= BatchOf(i).version)
        BY <1>3, <1>4, <2>1 DEF GatedBatch, DoneIsPast
      <4>3. ~e.done
        BY <1>4, <2>1, <4>1, <4>2
      <4>4. e = [key |-> BatchOf(i).version + 1, done |-> FALSE]
        BY <4>1, <4>2, <4>3
      <4> QED
        BY <4>4 DEF Stopped
    <3> QED
      BY <3>1, <3>2
  <2>6. Stopped(i)'
    BY <2>2, <2>3, <2>5 DEF Stopped
  <2>7. BreaksKept' /\ DoneIsPast'
    BY <2>1, <2>2, <2>3, <2>4, <2>6, BatchesStay
  <2> QED
    BY <1>3, <2>1, <2>7 DEF BreaksHeld
<1>9. ASSUME NEW i \in Invocation, ReservesEscalation(i) PROVE BreaksHeld'
  <2>1. ~InvocationAt(i, "NEW") /\ Reaches(i, "BLOCKING")
    BY <1>9 DEF ReservesEscalation, InvocationAt
  <2>2. /\ invocations'[i].pc = "BLOCKING" /\ invocations'[i].version = invocations[i].version
        /\ invocations'[i].slot = invocations[i].slot
        /\ \A j \in Invocation \ {i} : invocations'[j] = invocations[j]
    BY <1>1, <2>1 DEF SessionShape, Reaches
  <2>3. PICK b, n : b = SlotOf(i)[1] /\ n = gated[b].version
    OBVIOUS
  <2>4. b \in SessionBatch /\ gated[b] \in GatedBatch /\ n \in Nat /\ BatchOf(i) = gated[b]
    BY <1>4, <2>1, <2>3
  <2>5. PICK more, next :
          /\ more = gated[b].escalations \cup {[key |-> n + 1, done |-> FALSE]}
          /\ next = [gated[b] EXCEPT !.escalations = more]
    OBVIOUS
  <2>6. gated' = [gated EXCEPT ![b] = next]
    BY <1>9, <2>3, <2>4, <2>5 DEF ReservesEscalation, EscalationKey
  <2>7. more \subseteq [key: Nat, done: BOOLEAN]
    <3>1. n + 1 \in Nat /\ gated[b].escalations \subseteq [key: Nat, done: BOOLEAN]
      BY <2>4 DEF GatedBatch
    <3>2. [key |-> n + 1, done |-> FALSE] \in [key: Nat, done: BOOLEAN]
      BY <3>1
    <3> QED
      BY <2>5, <3>1, <3>2
  <2>8. /\ next \in GatedBatch /\ next.version = n /\ next.blocked = gated[b].blocked
         /\ next.escalations = more
    BY <2>3, <2>4, <2>5, <2>7 DEF GatedBatch
  <2>9. /\ gated' \in [SessionBatch -> GatedBatch]
        /\ \A c \in SessionBatch \ {b} : gated'[c] = gated[c]
        /\ gated'[b].version = n /\ gated'[b].blocked = gated[b].blocked
        /\ gated'[b].escalations = gated[b].escalations \cup {[key |-> n + 1, done |-> FALSE]}
    BY <1>3, <2>4, <2>5, <2>6, <2>8
  <2>10. \A j \in Invocation \ {i} : BreakKept(j)'
    BY <2>2, <2>3, <2>4, <2>9, BatchesMove
  <2>11. BreakKept(i)'
    BY <1>2, <2>1, <2>2, <2>3, <2>4, <2>9 DEF BreakKept, InvocationAt, BatchOf, SlotOf
  <2>12. DoneIsPast'
    BY <1>3, <2>3, <2>4, <2>9 DEF DoneIsPast
  <2> QED
    BY <2>9, <2>10, <2>11, <2>12 DEF BreaksHeld, BreaksKept
<1>10. ASSUME NEW i \in Invocation, BlocksBatch(i) PROVE BreaksHeld'
  <2>1. ~InvocationAt(i, "NEW") /\ Reaches(i, "ENDED")
    BY <1>10 DEF BlocksBatch, InvocationAt
  <2>2. /\ invocations'[i].pc = "ENDED" /\ invocations'[i].version = invocations[i].version
        /\ invocations'[i].slot = invocations[i].slot
        /\ \A j \in Invocation \ {i} : invocations'[j] = invocations[j]
    BY <1>1, <2>1 DEF SessionShape, Reaches
  <2>3. PICK b, n : b = SlotOf(i)[1] /\ n = gated[b].version
    OBVIOUS
  <2>4. b \in SessionBatch /\ gated[b] \in GatedBatch /\ n \in Nat /\ BatchOf(i) = gated[b]
    BY <1>4, <2>1, <2>3
  <2>5. PICK left : left = {e \in gated[b].escalations : e.key # n + 1}
                             \cup {[key |-> n + 1, done |-> TRUE]}
    OBVIOUS
  <2>6. gated' = [gated EXCEPT ![b] = [version |-> n + 1, blocked |-> TRUE, escalations |-> left]]
    BY <1>10, <2>3, <2>4, <2>5 DEF BlocksBatch, EscalationKey
  <2>7. left \subseteq [key: Nat, done: BOOLEAN] /\ n + 1 \in Nat
    <3>1. n + 1 \in Nat /\ gated[b].escalations \subseteq [key: Nat, done: BOOLEAN]
      BY <2>4 DEF GatedBatch
    <3>2. [key |-> n + 1, done |-> TRUE] \in [key: Nat, done: BOOLEAN]
      BY <3>1
    <3> QED
      BY <2>5, <3>1, <3>2
  <2>8. /\ gated' \in [SessionBatch -> GatedBatch]
        /\ \A c \in SessionBatch \ {b} : gated'[c] = gated[c]
        /\ gated'[b].version = n + 1 /\ gated'[b].blocked = TRUE /\ gated'[b].escalations = left
    BY <1>3, <2>4, <2>6, <2>7 DEF GatedBatch
  <2>9. \A j \in Invocation \ {i} : BreakKept(j)'
    BY <2>2, <2>3, <2>4, <2>8, BatchesMove
  <2>10. BreakKept(i)'
    <3>1. invocations[i].version \in Nat /\ invocations[i].version <= n
      BY <1>2, <2>1, <2>3, <2>4 DEF BreakKept
    <3>2. BatchOf(i)' = gated'[b]
      BY <2>2, <2>3 DEF BatchOf, SlotOf
    <3> QED
      BY <2>2, <2>4, <2>8, <3>1, <3>2 DEF BreakKept, InvocationAt, Stopped
  <2>11. DoneIsPast'
    <3>1. \A e \in left : e.done => e.key <= n + 1
      BY <1>3, <2>3, <2>4, <2>5 DEF DoneIsPast, GatedBatch
    <3>2. \A c \in SessionBatch \ {b} : \A e \in gated'[c].escalations :
            e.done => e.key <= gated'[c].version
      BY <1>3, <2>8 DEF DoneIsPast
    <3> QED
      BY <2>8, <3>1, <3>2 DEF DoneIsPast
  <2> QED
    BY <2>8, <2>9, <2>10, <2>11 DEF BreaksHeld, BreaksKept
<1>11. ASSUME NEW b \in SessionBatch, BatchMoves(b) PROVE BreaksHeld'
  <2>1. gated[b] \in GatedBatch /\ UNCHANGED invocations
        /\ gated' = [gated EXCEPT ![b].version = @ + 1, ![b].blocked = FALSE]
    BY <1>3, <1>11 DEF BatchMoves
  <2>2. PICK n, next : /\ n = gated[b].version + 1
                       /\ next = [gated[b] EXCEPT !.version = n, !.blocked = FALSE]
    OBVIOUS
  <2>3. n \in Nat
    BY <2>1, <2>2 DEF GatedBatch
  <2>4. /\ next \in GatedBatch /\ next.version = gated[b].version + 1
        /\ next.escalations = gated[b].escalations
    BY <2>1, <2>2, <2>3 DEF GatedBatch
  <2>5. gated' = [gated EXCEPT ![b] = next]
    BY <2>1, <2>2
  <2>6. /\ gated' \in [SessionBatch -> GatedBatch] /\ gated'[b] = next
        /\ \A c \in SessionBatch \ {b} : gated'[c] = gated[c]
    BY <1>3, <2>4, <2>5
  <2>7. \A j \in Invocation : BreakKept(j)'
    BY <2>1, <2>4, <2>6, BatchesMove
  <2>8. DoneIsPast'
    <3>1. \A e \in gated[b].escalations : e.done => e.key <= gated[b].version + 1
      BY <1>3, <2>1 DEF DoneIsPast, GatedBatch
    <3> QED
      BY <1>3, <2>4, <2>6, <3>1 DEF DoneIsPast
  <2> QED
    BY <2>6, <2>7, <2>8 DEF BreaksHeld, BreaksKept
<1>12. CASE UNCHANGED sessionVars
  BY <1>1, <1>12
     DEF sessionVars, BreakInv, BreaksHeld, BreaksKept, BreakKept, DoneIsPast, InvocationAt, Stopped,
         BatchOf, SlotOf
<1>13. ASSUME SessionNext PROVE BreaksHeld'
  BY <1>5, <1>6, <1>7, <1>8, <1>9, <1>10, <1>11, <1>13 DEF SessionNext
<1> QED
  BY <1>1, <1>12, <1>13 DEF BreakInv

(* For any number of batches and invocations: when an invocation that      *)
(* found its continuity broken has ended, its batch was blocked or moved   *)
(* on, or an escalation of that version was interrupted                    *)
(* (blockBatchForContinuityFailure).                                       *)
THEOREM BrokenContinuityStops == SessionSpec => []BrokenContinuityBlocks
<1>1. SessionInit => BreakInv
  <2> SUFFICES ASSUME SessionInit PROVE BreakInv
    OBVIOUS
  <2>1. BindingInv
    BY BindingStarts
  <2>2. gated \in [SessionBatch -> GatedBatch] /\ DoneIsPast
    BY DEF SessionInit, GatedBatch, DoneIsPast
  <2>3. BreaksKept
    BY DEF SessionInit, NewSessionAttempt, BreaksKept, BreakKept, InvocationAt
  <2> QED
    BY <2>1, <2>2, <2>3 DEF BreakInv, BreaksHeld
<1>2. ASSUME BreakInv PROVE BrokenContinuityBlocks
  BY <1>2 DEF BreakInv, BreaksHeld, BreaksKept, BreakKept, Stopped, BrokenContinuityBlocks,
     InvocationAt
<1> QED
  BY <1>1, <1>2, BreakStep, PTL DEF SessionSpec

(***************************************************************************)
(* Types of the sessions.  The clock ticks once for every invocation whose *)
(* agent is behind it, and there are only so many.                         *)
(***************************************************************************)
BehindAgent ==
  {i \in Invocation : invocations[i].pc \notin {"NEW", "PREPARING", "AGENT"}}

SessionRest ==
  /\ audits \in [Invocation -> {"NONE", "SUCCEEDED", "FAILED"}]
  /\ marker \in [invocation: Invocation, stage: {"PREPARING", "AGENT_RUNNING"}]
                  \cup {NoInvocation}
  /\ overtaken \subseteq Invocation

GatesTyped ==
  gated \in [SessionBatch ->
    [version: Versions, blocked: BOOLEAN,
     escalations: SUBSET [key: 0..(MaxMoves + 1), done: BOOLEAN]]]

AttemptsTyped == invocations \in [Invocation -> SessionAttempt]

TicksCounted ==
  /\ clock \in Nat /\ clock <= Cardinality(BehindAgent)
  /\ lastUsed \in [Vendor -> Ticks]

SessionsWithin == SessionShape /\ SessionRest /\ GatesTyped /\ AttemptsTyped /\ TicksCounted

LEMMA NewAttemptTyped == NewSessionAttempt \in SessionAttempt
<1>1. (CHOOSE s \in Slot : TRUE) \in Slot
  <2>1. PICK b : b \in SessionBatch
    BY SessionAssumption
  <2>2. <<b, "REVIEWER">> \in Slot
    BY <2>1 DEF Slot, SessionRoles
  <2> QED
    BY <2>2
<1>2. 0 \in Ticks /\ 0 \in Versions
  BY SessionAssumption, FS_CardinalityType DEF Ticks, Versions
<1> QED
  BY <1>1, <1>2 DEF NewSessionAttempt, SessionAttempt, InvocationPCs, Vendors

LEMMA BehindCount ==
  /\ IsFiniteSet(BehindAgent) /\ Cardinality(BehindAgent) \in Nat /\ Cardinality(Invocation) \in Nat
  /\ Cardinality(BehindAgent) <= Cardinality(Invocation)
<1>1. BehindAgent \subseteq Invocation
  BY DEF BehindAgent
<1> QED
  BY <1>1, SessionAssumption, FS_Subset, FS_CardinalityType

LEMMA ClockInRange ==
  ASSUME TicksCounted
  PROVE  clock \in Ticks
BY BehindCount DEF TicksCounted, Ticks

(* An attempt moves, and never back before its agent.                      *)
LEMMA AttemptMoves ==
  ASSUME SessionsWithin, NEW i \in Invocation, NEW next \in SessionAttempt,
         invocations' = [invocations EXCEPT ![i] = next],
         i \in BehindAgent => next.pc \notin {"NEW", "PREPARING", "AGENT"}
  PROVE  /\ AttemptsTyped' /\ BehindAgent \subseteq BehindAgent'
         /\ IsFiniteSet(BehindAgent') /\ Cardinality(BehindAgent') \in Nat
         /\ Cardinality(BehindAgent) <= Cardinality(BehindAgent')
<1>1. AttemptsTyped'
  BY DEF SessionsWithin, AttemptsTyped
<1>2. BehindAgent \subseteq BehindAgent'
  BY DEF BehindAgent, SessionsWithin, AttemptsTyped
<1>3. BehindAgent' \subseteq Invocation
  BY DEF BehindAgent
<1>4. IsFiniteSet(BehindAgent')
  BY <1>3, SessionAssumption, FS_Subset
<1> QED
  BY <1>1, <1>2, <1>4, FS_Subset, FS_CardinalityType

LEMMA ClockStays ==
  ASSUME SessionsWithin, NEW i \in Invocation, NEW next \in SessionAttempt,
         invocations' = [invocations EXCEPT ![i] = next], UNCHANGED <<clock, lastUsed>>,
         i \in BehindAgent => next.pc \notin {"NEW", "PREPARING", "AGENT"}
  PROVE  AttemptsTyped' /\ TicksCounted'
<1>1. /\ AttemptsTyped' /\ Cardinality(BehindAgent') \in Nat
      /\ Cardinality(BehindAgent) <= Cardinality(BehindAgent')
  BY AttemptMoves
<1>2. clock \in Nat /\ clock <= Cardinality(BehindAgent) /\ lastUsed \in [Vendor -> Ticks]
  BY DEF SessionsWithin, TicksCounted
<1>3. clock <= Cardinality(BehindAgent')
  BY <1>1, <1>2, BehindCount
<1> QED
  BY <1>1, <1>2, <1>3 DEF TicksCounted

LEMMA MarkerTyped ==
  ASSUME SessionRest,
         NEW next \in [invocation: Invocation, stage: {"PREPARING", "AGENT_RUNNING"}] \cup {NoInvocation},
         MarkerBecomes(NoInvocation, next) \/ \E i \in Invocation : MarkerBecomes(i, next)
  PROVE  marker' = next /\ overtaken' \subseteq Invocation
BY DEF SessionRest, MarkerBecomes

LEMMA DropsWithin ==
  ASSUME SessionsWithin, NEW i \in Invocation, NEW pc \in {"FAILING", "ENDED"}, NEW broken \in BOOLEAN,
         Drops(i, pc, broken, 0)
  PROVE  \E next \in SessionAttempt : next.pc = pc /\ invocations' = [invocations EXCEPT ![i] = next]
<1>1. PICK next : next = [NewSessionAttempt EXCEPT !.pc = pc, !.slot = SlotOf(i),
                            !.spawned = invocations[i].spawned, !.broken = broken, !.version = 0]
  OBVIOUS
<1>2. invocations[i] \in SessionAttempt /\ 0 \in Versions
  BY SessionAssumption DEF SessionsWithin, AttemptsTyped, Versions
<1>3. next \in SessionAttempt /\ next.pc = pc
  BY <1>1, <1>2, NewAttemptTyped DEF SessionAttempt, InvocationPCs, SlotOf
<1> QED
  BY <1>1, <1>3 DEF Drops

LEMMA ReachesWithin ==
  ASSUME SessionsWithin, NEW i \in Invocation, NEW pc \in InvocationPCs, Reaches(i, pc)
  PROVE  \E next \in SessionAttempt : next.pc = pc /\ invocations' = [invocations EXCEPT ![i] = next]
<1>1. PICK next : next = [invocations[i] EXCEPT !.pc = pc]
  OBVIOUS
<1>2. invocations[i] \in SessionAttempt
  BY DEF SessionsWithin, AttemptsTyped
<1>3. next \in SessionAttempt /\ next.pc = pc
  BY <1>1, <1>2 DEF SessionAttempt
<1> QED
  BY <1>1, <1>3 DEF Reaches

(* The call and its end: one attempt moves, and no batch does.             *)
LEMMA CallWithin ==
  ASSUME SessionsWithin, SessionShape', NEW i \in Invocation,
         \/ RefusesBinding(i) \/ AnswerBreaks(i) \/ CallFails(i) \/ EvidenceRefused(i)
         \/ PersistRollsBack(i) \/ InvocationDies(i)
  PROVE  SessionsWithin'
<1>1. PICK pc \in {"FAILING", "ENDED"}, broken \in BOOLEAN : Drops(i, pc, broken, 0)
  BY DEF RefusesBinding, AnswerBreaks, CallFails, EvidenceRefused, PersistRollsBack, InvocationDies,
     Breaks
<1>2. AttemptsTyped' /\ TicksCounted'
  <2>1. UNCHANGED <<clock, lastUsed>>
    BY DEF RefusesBinding, AnswerBreaks, CallFails, EvidenceRefused, PersistRollsBack, InvocationDies
  <2> QED
    BY <1>1, <2>1, DropsWithin, ClockStays
<1>3. UNCHANGED <<audits, marker, overtaken, gated>>
  BY DEF RefusesBinding, AnswerBreaks, CallFails, EvidenceRefused, PersistRollsBack, InvocationDies
<1> QED
  BY <1>2, <1>3 DEF SessionsWithin, SessionRest, GatesTyped

LEMMA AnswerWithin ==
  ASSUME SessionsWithin, SessionShape', NEW i \in Invocation, NEW v \in Vendor, AgentAnswers(i, v)
  PROVE  SessionsWithin'
<1>1. PICK next : next = [invocations[i] EXCEPT !.pc = "ANSWERED", !.returned = v,
                                               !.finishedAt = clock + 1]
  OBVIOUS
<1>2. /\ invocations[i] \in SessionAttempt /\ InvocationAt(i, "AGENT") /\ clock' = clock + 1
      /\ UNCHANGED <<audits, marker, gated, overtaken, lastUsed>>
      /\ invocations' = [invocations EXCEPT ![i] = next]
  BY <1>1 DEF SessionsWithin, AttemptsTyped, AgentAnswers
<1>3. i \notin BehindAgent
  BY <1>2 DEF BehindAgent, InvocationAt
<1>4. BehindAgent \cup {i} \subseteq Invocation
  BY DEF BehindAgent
<1>5. Cardinality(BehindAgent \cup {i}) = Cardinality(BehindAgent) + 1
  BY <1>3, BehindCount, FS_AddElement
<1>6. Cardinality(BehindAgent) + 1 <= Cardinality(Invocation)
  BY <1>4, <1>5, SessionAssumption, FS_Subset
<1>7. clock + 1 \in Ticks
  BY <1>6, BehindCount DEF Ticks, SessionsWithin, TicksCounted
<1>8. next \in SessionAttempt /\ next.pc = "ANSWERED"
  BY <1>1, <1>2, <1>7 DEF SessionAttempt, InvocationPCs, Vendors
<1>9. AttemptsTyped' /\ BehindAgent \subseteq BehindAgent'
  BY <1>2, <1>8, AttemptMoves
<1>10. BehindAgent' = BehindAgent \cup {i}
  BY <1>2, <1>8, <1>9 DEF BehindAgent, SessionsWithin, AttemptsTyped
<1>11. TicksCounted'
  BY <1>2, <1>5, <1>10, BehindCount DEF TicksCounted, SessionsWithin
<1> QED
  BY <1>2, <1>9, <1>11 DEF SessionsWithin, SessionRest, GatesTyped

LEMMA PersistWithin ==
  ASSUME SessionsWithin, SessionShape', NEW i \in Invocation, Persists(i)
  PROVE  SessionsWithin'
<1>1. PICK next \in SessionAttempt :
        next.pc = "ENDED" /\ invocations' = [invocations EXCEPT ![i] = next]
  BY DropsWithin DEF Persists
<1>2. AttemptsTyped' /\ IsFiniteSet(BehindAgent') /\ Cardinality(BehindAgent') \in Nat
      /\ Cardinality(BehindAgent) <= Cardinality(BehindAgent')
  BY <1>1, AttemptMoves
<1>3. TicksCounted'
  <2>1. invocations[i].finishedAt \in Ticks
    BY DEF SessionsWithin, AttemptsTyped, SessionAttempt
  <2>2. lastUsed' = [lastUsed EXCEPT ![invocations[i].returned] = invocations[i].finishedAt]
        /\ UNCHANGED clock
    BY DEF Persists
  <2>3. lastUsed' \in [Vendor -> Ticks]
    BY <2>1, <2>2 DEF SessionsWithin, TicksCounted
  <2>4. clock \in Nat /\ clock <= Cardinality(BehindAgent)
    BY DEF SessionsWithin, TicksCounted
  <2>5. clock <= Cardinality(BehindAgent')
    BY <1>2, <2>4, BehindCount
  <2> QED
    BY <2>2, <2>3, <2>4, <2>5 DEF TicksCounted
<1>4. SessionRest'
  <2>1. marker' = NoInvocation /\ overtaken' \subseteq Invocation
    BY MarkerTyped DEF Persists, SessionsWithin
  <2> QED
    BY <2>1 DEF Persists, SessionsWithin, SessionRest
<1> QED
  BY <1>2, <1>3, <1>4 DEF Persists, SessionsWithin, GatesTyped

LEMMA StartWithin ==
  ASSUME SessionsWithin, SessionShape', NEW i \in Invocation,
         SpawnsAgent(i) \/ \E s \in Slot : StartsInvocation(i, s)
  PROVE  SessionsWithin'
<1>1. invocations[i] \in SessionAttempt /\ bindings \in [Slot -> Vendors]
  BY DEF SessionsWithin, AttemptsTyped, SessionShape
<1>2. i \notin BehindAgent /\ UNCHANGED <<clock, lastUsed, gated, audits>>
  BY DEF SpawnsAgent, StartsInvocation, InvocationAt, BehindAgent
<1>3. \E next \in SessionAttempt : invocations' = [invocations EXCEPT ![i] = next]
  <2>1. CASE SpawnsAgent(i)
    <3>1. PICK next : next = [invocations[i] EXCEPT !.pc = "AGENT", !.requested = bindings[SlotOf(i)],
                                                   !.spawned = TRUE]
      OBVIOUS
    <3>2. next \in SessionAttempt
      BY <1>1, <3>1 DEF SessionAttempt, InvocationPCs, SlotOf
    <3>3. invocations' = [invocations EXCEPT ![i] = next]
      BY <2>1, <3>1 DEF SpawnsAgent
    <3> QED
      BY <3>2, <3>3
  <2>2. CASE \E s \in Slot : StartsInvocation(i, s)
    <3>1. PICK s \in Slot : StartsInvocation(i, s)
      BY <2>2
    <3>2. PICK next : next = [invocations[i] EXCEPT !.pc = "PREPARING", !.slot = s]
      OBVIOUS
    <3>3. next \in SessionAttempt
      BY <1>1, <3>2 DEF SessionAttempt, InvocationPCs
    <3>4. invocations' = [invocations EXCEPT ![i] = next]
      BY <3>1, <3>2 DEF StartsInvocation
    <3> QED
      BY <3>3, <3>4
  <2> QED
    BY <2>1, <2>2
<1>4. AttemptsTyped' /\ TicksCounted'
  BY <1>2, <1>3, ClockStays
<1>5. SessionRest'
  <2>1. CASE SpawnsAgent(i)
    BY <2>1 DEF SpawnsAgent, SessionsWithin, SessionRest
  <2>2. CASE \E s \in Slot : StartsInvocation(i, s)
    BY <1>2, <2>2, MarkerTyped DEF StartsInvocation, SessionsWithin, SessionRest
  <2> QED
    BY <2>1, <2>2
<1> QED
  BY <1>2, <1>4, <1>5 DEF SessionsWithin, GatesTyped

(* What follows a failure, up to the block of its batch.                   *)
LEMMA SettleWithin ==
  ASSUME SessionsWithin, SessionShape', NEW i \in Invocation,
         \/ \E written \in BOOLEAN : AuditsFailure(i, written)
         \/ SettlesFailure(i) \/ Reports(i)
         \/ ReservesEscalation(i) \/ BlocksBatch(i) \/ EscalationSwallowed(i)
  PROVE  SessionsWithin'
<1>1. /\ invocations[i] \in SessionAttempt /\ BatchOf(i).version \in Versions
      /\ SlotOf(i)[1] \in SessionBatch
  BY DEF SessionsWithin, AttemptsTyped, SessionAttempt, Slot, SlotOf, BatchOf, GatesTyped
<1>2. AttemptsTyped' /\ TicksCounted'
  <2>1. UNCHANGED <<clock, lastUsed>>
    BY DEF AuditsFailure, SettlesFailure, Reports, ReservesEscalation, BlocksBatch, EscalationSwallowed
  <2>2. PICK next \in SessionAttempt :
          /\ next.pc \in {"SETTLING", "REPORTED", "ESCALATING", "BLOCKING", "ENDED"}
          /\ invocations' = [invocations EXCEPT ![i] = next]
    <3>1. CASE Reports(i)
      <4>1. PICK next : next = [invocations[i] EXCEPT
              !.pc = IF invocations[i].broken /\ ~BatchOf(i).blocked THEN "ESCALATING" ELSE "ENDED",
              !.version = BatchOf(i).version]
        OBVIOUS
      <4>2. next \in SessionAttempt /\ next.pc \in {"ESCALATING", "ENDED"}
        BY <1>1, <4>1 DEF SessionAttempt, InvocationPCs
      <4>3. invocations' = [invocations EXCEPT ![i] = next]
        BY <3>1, <4>1 DEF Reports
      <4> QED
        BY <4>2, <4>3
    <3>2. CASE ~Reports(i)
      <4>1. PICK pc \in {"SETTLING", "REPORTED", "BLOCKING", "ENDED"} : Reaches(i, pc)
        BY <3>2 DEF AuditsFailure, SettlesFailure, ReservesEscalation, BlocksBatch, EscalationSwallowed
      <4>2. pc \in InvocationPCs
        BY DEF InvocationPCs
      <4> QED
        BY <4>1, <4>2, ReachesWithin
    <3> QED
      BY <3>1, <3>2
  <2> QED
    BY <2>1, <2>2, ClockStays
<1>3. SessionRest'
  <2>1. CASE SettlesFailure(i)
    <3>1. marker' = NoInvocation /\ overtaken' \subseteq Invocation
      BY <2>1, MarkerTyped DEF SettlesFailure, SessionsWithin
    <3> QED
      BY <2>1, <3>1 DEF SettlesFailure, SessionsWithin, SessionRest
  <2>2. CASE ~SettlesFailure(i)
    <3>1. UNCHANGED <<marker, overtaken>>
      BY <2>2 DEF AuditsFailure, Reports, ReservesEscalation, BlocksBatch, EscalationSwallowed
    <3>2. audits' = audits \/ audits' = [audits EXCEPT ![i] = "FAILED"]
      BY <2>2 DEF AuditsFailure, Reports, ReservesEscalation, BlocksBatch, EscalationSwallowed
    <3> QED
      BY <3>1, <3>2 DEF SessionsWithin, SessionRest
  <2> QED
    BY <2>1, <2>2
<1>4. GatesTyped'
  <2>1. PICK b : b = SlotOf(i)[1]
    OBVIOUS
  <2>2. /\ b \in SessionBatch /\ BatchOf(i) = gated[b]
        /\ gated[b] \in [version: Versions, blocked: BOOLEAN,
                          escalations: SUBSET [key: 0..(MaxMoves + 1), done: BOOLEAN]]
    BY <1>1, <2>1 DEF BatchOf, SessionsWithin, GatesTyped
  <2>3. PICK key : key = EscalationKey(BatchOf(i).version)
    OBVIOUS
  <2>4. key \in 0..(MaxMoves + 1)
    BY <1>1, <2>3, SessionAssumption DEF EscalationKey, Versions
  <2>5. \A done \in BOOLEAN :
          {[key |-> key, done |-> done]} \in SUBSET [key: 0..(MaxMoves + 1), done: BOOLEAN]
    BY <2>4
  <2>6. CASE ReservesEscalation(i)
    <3>1. PICK batch : batch = [gated[b] EXCEPT
            !.escalations = gated[b].escalations \cup {[key |-> key, done |-> FALSE]}]
      OBVIOUS
    <3>2. batch \in [version: Versions, blocked: BOOLEAN,
                     escalations: SUBSET [key: 0..(MaxMoves + 1), done: BOOLEAN]]
      BY <2>2, <3>1, <2>5
    <3>3. gated' = [gated EXCEPT ![b] = batch]
      BY <2>1, <2>3, <2>6, <3>1 DEF ReservesEscalation
    <3> QED
      BY <2>2, <3>2, <3>3 DEF SessionsWithin, GatesTyped
  <2>7. CASE BlocksBatch(i)
    <3>1. PICK batch : batch = [version |-> gated[b].version + 1, blocked |-> TRUE,
            escalations |-> {e \in gated[b].escalations : e.key # key}
                              \cup {[key |-> key, done |-> TRUE]}]
      OBVIOUS
    <3>2. gated[b].version + 1 \in Versions
      BY <1>1, <2>2, <2>7, SessionAssumption DEF BlocksBatch, Versions
    <3>3. {e \in gated[b].escalations : e.key # key}
            \in SUBSET [key: 0..(MaxMoves + 1), done: BOOLEAN]
      BY <2>2
    <3>4. batch \in [version: Versions, blocked: BOOLEAN,
                     escalations: SUBSET [key: 0..(MaxMoves + 1), done: BOOLEAN]]
      BY <2>5, <3>1, <3>2, <3>3
    <3>5. gated' = [gated EXCEPT ![b] = batch]
      BY <2>1, <2>3, <2>7, <3>1 DEF BlocksBatch
    <3> QED
      BY <2>2, <3>5, <3>4 DEF SessionsWithin, GatesTyped
  <2>8. CASE ~ReservesEscalation(i) /\ ~BlocksBatch(i)
    BY <2>8 DEF AuditsFailure, SettlesFailure, Reports, EscalationSwallowed, SessionsWithin, GatesTyped
  <2> QED
    BY <2>6, <2>7, <2>8
<1> QED
  BY <1>2, <1>3, <1>4 DEF SessionsWithin

LEMMA SessionsWithinStep ==
  ASSUME SessionsWithin, SessionShape', [SessionNext]_sessionVars
  PROVE  SessionsWithin'
<1>1. ASSUME NEW b \in SessionBatch, BatchMoves(b) PROVE SessionsWithin'
  <2>1. PICK batch : batch = [gated[b] EXCEPT !.version = gated[b].version + 1, !.blocked = FALSE]
    OBVIOUS
  <2>2. gated[b].version + 1 \in Versions
    BY <1>1, SessionAssumption DEF BatchMoves, SessionsWithin, GatesTyped, Versions
  <2>3. batch \in [version: Versions, blocked: BOOLEAN,
                   escalations: SUBSET [key: 0..(MaxMoves + 1), done: BOOLEAN]]
    BY <2>1, <2>2 DEF SessionsWithin, GatesTyped
  <2>4. gated' = [gated EXCEPT ![b] = batch]
    BY <1>1, <2>1 DEF BatchMoves
  <2>5. GatesTyped'
    BY <2>3, <2>4 DEF SessionsWithin, GatesTyped
  <2> QED
    BY <1>1, <2>5 DEF BatchMoves, SessionsWithin, SessionRest, AttemptsTyped, TicksCounted, BehindAgent
<1>2. CASE UNCHANGED sessionVars
  BY <1>2 DEF sessionVars, SessionsWithin, SessionRest, GatesTyped, AttemptsTyped, TicksCounted,
     BehindAgent
<1>3. ASSUME NEW i \in Invocation, ~UNCHANGED sessionVars, ~\E b \in SessionBatch : BatchMoves(b),
             \/ \E s \in Slot : StartsInvocation(i, s)
             \/ RefusesBinding(i) \/ SpawnsAgent(i)
             \/ \E v \in Vendor : AgentAnswers(i, v) \/ AnswerBreaks(i)
             \/ CallFails(i) \/ EvidenceRefused(i)
             \/ \E written \in BOOLEAN : AuditsFailure(i, written)
             \/ SettlesFailure(i) \/ Persists(i) \/ PersistRollsBack(i)
             \/ Reports(i) \/ ReservesEscalation(i) \/ BlocksBatch(i) \/ EscalationSwallowed(i)
             \/ InvocationDies(i)
      PROVE  SessionsWithin'
  BY <1>3, CallWithin, AnswerWithin, PersistWithin, StartWithin, SettleWithin
<1> QED
  BY <1>1, <1>2, <1>3 DEF SessionNext

LEMMA SessionsWithinInitially == SessionInit => SessionsWithin
<1> SUFFICES ASSUME SessionInit PROVE SessionsWithin
  OBVIOUS
<1>1. SessionShape
  BY BindingStarts DEF BindingInv
<1>2. BehindAgent = {}
  BY DEF SessionInit, NewSessionAttempt, BehindAgent
<1>3. TicksCounted
  BY <1>2, BehindCount DEF SessionInit, TicksCounted, Ticks
<1>4. GatesTyped
  BY SessionAssumption DEF SessionInit, GatesTyped, Versions
<1> QED
  BY <1>1, <1>3, <1>4, NewAttemptTyped DEF SessionInit, SessionsWithin, SessionRest, AttemptsTyped

(* The time of an answer is that of an invocation that had one             *)
(* (role-invocation.ts): for any number of invocations, batches and        *)
(* sessions, the rows, the marker and the clock stay within their types.   *)
THEOREM SessionsOfRolesTyped == SessionSpec => []SessionTypeOK
<1>1. BindingInv => SessionShape
  BY DEF BindingInv
<1>2. SessionsWithin => SessionTypeOK
  BY ClockInRange DEF SessionsWithin, SessionShape, SessionRest, GatesTyped, AttemptsTyped, TicksCounted,
     SessionTypeOK
<1> QED
  BY BindingStarts, BindingStep, SessionsWithinInitially, SessionsWithinStep, <1>1, <1>2, PTL
     DEF SessionSpec

(***************************************************************************)
(* The plan of a batch.                                                    *)
(***************************************************************************)
(* Bounds of versions and rounds are left out: the argument needs the      *)
(* fields only.                                                            *)
PlanShape == /\ plan = [state |-> plan.state, version |-> plan.version, rounds |-> plan.rounds]
             /\ planners = [p \in Planner |-> planners[p]]

PlanInv == PlanShape /\ ApprovedPlanWasReviewed

(* A plan changes in four ways, none of which touches an approved one.     *)
LEMMA PlanStep ==
  ASSUME PlanInv, [PlanNext]_planVars
  PROVE  PlanInv'
<1> USE DEF PlanInv, PlanShape, ApprovedPlanWasReviewed
<1>1. ASSUME NEW p \in Planner, AcceptsPlanAsIs(p) PROVE PlanInv'
  BY <1>1 DEF AcceptsPlanAsIs, PlannerEnds
<1>2. ASSUME NEW p \in Planner, PlanApproved(p) PROVE PlanInv'
  BY <1>2 DEF PlanApproved, ReviewsCurrentPlan, PlannerEnds
<1>3. ASSUME NEW p \in Planner, PlanNeedsRevision(p) PROVE PlanInv'
  BY <1>3 DEF PlanNeedsRevision, PlanReviewRefused, PlannerGoes, PlannerFails, PlannerEnds
<1>4. ASSUME NEW p \in Planner, PlanRevised(p) PROVE PlanInv'
  BY <1>4 DEF PlanRevised, PlanRevisionRefused, PlannerGoes
<1>5. ASSUME NEW p \in Planner,
             \/ WorkerStarts(p) \/ FindsPlanApproved(p) \/ PlanRoundsExhausted(p)
             \/ InvokesPlanReview(p) \/ InvokesPendingRevision(p)
             \/ \E round \in 1..MaxRounds : ForegroundReview(p, round)
             \/ PlanReviewLost(p) \/ PlanContextMoved(p) \/ PlanReviewRejected(p)
             \/ StopsAfterRejection(p) \/ PlanRevisionLost(p) \/ PlanRevisionInvalid(p)
             \/ PlannerDies(p)
      PROVE  PlanInv'
  BY <1>5
     DEF WorkerStarts, FindsPlanApproved, PlanRoundsExhausted, InvokesPlanReview,
         InvokesPendingRevision, ForegroundReview, PlanReviewLost, PlanContextMoved,
         PlanReviewRejected, StopsAfterRejection, PlanRevisionLost, PlanRevisionInvalid,
         PlannerDies, WorkerStops, LosesAnswer, PlannerFails, PlannerEnds, PlannerGoes
<1>6. CASE HumanContinues \/ UNCHANGED planVars
  BY <1>6 DEF HumanContinues, planVars
<1> QED
  BY <1>1, <1>2, <1>3, <1>4, <1>5, <1>6 DEF PlanNext, PlannerStep

(* Whoever reviews, revises, dies or is overtaken: an approval is of the   *)
(* version in the approving reviewer's prompt, and that version stays.     *)
THEOREM ApprovalIsOfShownPlan == PlanSpec => []ApprovedPlanWasReviewed
<1>1. PlanInit => PlanInv
  BY DEF PlanInit, PlanInv, PlanShape, ApprovedPlanWasReviewed
<1>2. PlanInv /\ [PlanNext]_planVars => PlanInv'
  BY PlanStep
<1>3. PlanInv => ApprovedPlanWasReviewed
  BY DEF PlanInv
<1> QED
  BY <1>1, <1>2, <1>3, PTL DEF PlanSpec

(***************************************************************************)
(* The answers of the runner.  As long as no foreground command has taken  *)
(* part and no stop was lost, one worker is busy at most, its round        *)
(* follows the recorded reviews, and so do the receipts.                   *)
(***************************************************************************)
PlannerRecord == [pc: PlannerPCs, worker: BOOLEAN, round: Nat, shown: Nat \cup {NoPlan}]

PlanTyped ==
  /\ plan \in [state: PlanStates, version: Nat, rounds: Nat]
  /\ planReceipts \in [PlanReceiptId -> {"NONE", "FAILED_FINAL", "SUCCEEDED"}]
  /\ planners \in [Planner -> PlannerRecord]
  /\ \A p \in Planner : PlannerAt(p, "NEW") => ~planners[p].worker

Undisturbed == ~Overlapped /\ "STOP_LOST" \notin wasted

Sole(p) == \A q \in Planner \ {p} : ~PlannerBusy(q)

Alone == \A p \in Planner : PlannerBusy(p) => Sole(p)

PlannerKnows(p) ==
  PlannerBusy(p) =>
    /\ ~planStop
    /\ RoundOf(p) = IF PlannerAt(p, "REVISE") THEN plan.rounds ELSE plan.rounds + 1
    /\ PlannerAt(p, "REVIEW") =>
         RoundOf(p) <= MaxRounds /\ plan.state = "DRAFT" /\ ReviewsCurrentPlan(p)
    /\ Revising(p) => plan.state = "PLAN_NEEDS_REVISION" /\ ReviewsCurrentPlan(p)

StopPending == planStop \/ \E p \in Planner : PlannerAt(p, "STOPPING")

(* A review receipt past the recorded rounds failed for good, and a        *)
(* decision will release it; the pending revision has no receipt yet.      *)
ReceiptFollows(n) ==
  /\ n > plan.rounds /\ planReceipts[<<"review", n>>] # "NONE" =>
       /\ n = plan.rounds + 1 /\ planReceipts[<<"review", n>>] = "FAILED_FINAL"
       /\ StopPending
  /\ planReceipts[<<"revise", n>>] # "NONE" =>
       n < plan.rounds \/ (n = plan.rounds /\ plan.state # "PLAN_NEEDS_REVISION")

ReceiptsFollow ==
  /\ plan.rounds <= MaxRounds
  /\ plan.state = "PLAN_NEEDS_REVISION" => plan.rounds > 0
  /\ \A n \in Rounds : ReceiptFollows(n)

RunnerKept == Alone /\ (\A p \in Planner : PlannerKnows(p)) /\ ReceiptsFollow

RunnerInv == PlanTyped /\ RunnerAnswersKept /\ (Undisturbed => RunnerKept)

(***************************************************************************)
(* How a planner moves.                                                    *)
(***************************************************************************)
PlannerBecomes(p, pc, round, shown) ==
  /\ planners' \in [Planner -> PlannerRecord]
  /\ planners'[p].pc = pc /\ planners'[p].round = round /\ planners'[p].shown = shown
  /\ planners'[p].worker = planners[p].worker
  /\ \A q \in Planner \ {p} : planners'[q] = planners[q]

LEMMA PlannerGoesOn ==
  ASSUME PlanTyped, NEW p \in Planner, NEW pc \in PlannerPCs, NEW round \in Nat,
         NEW shown \in Nat \cup {NoPlan}, PlannerGoes(p, pc, round, shown)
  PROVE  PlannerBecomes(p, pc, round, shown)
<1>1. PICK next : next = [planners[p] EXCEPT !.pc = pc, !.round = round, !.shown = shown]
  OBVIOUS
<1>2. planners' = [planners EXCEPT ![p] = next]
  BY <1>1 DEF PlannerGoes
<1>3. /\ next \in PlannerRecord /\ next.pc = pc /\ next.round = round /\ next.shown = shown
      /\ next.worker = planners[p].worker
  BY <1>1 DEF PlanTyped, PlannerRecord
<1> QED
  BY <1>2, <1>3 DEF PlanTyped, PlannerBecomes

LEMMA PlannerLeaves ==
  ASSUME PlanTyped, NEW p \in Planner, PlannerEnds(p)
  PROVE  PlannerBecomes(p, "GONE", 1, NoPlan)
<1>1. PlannerGoes(p, "GONE", 1, NoPlan)
  BY DEF PlannerEnds, PlannerGoes
<1> QED
  BY <1>1, PlannerGoesOn DEF PlannerPCs

(* What was not disturbed had not been.                                    *)
LEMMA StillUndisturbed ==
  ASSUME NEW p \in Planner, NEW pc, NEW round, NEW shown, PlannerBecomes(p, pc, round, shown),
         pc # "NEW", wasted \subseteq wasted', Undisturbed'
  PROVE  Undisturbed /\ planners[p].worker
BY DEF Undisturbed, Overlapped, PlannerBecomes, PlannerAt

(* A step of the one busy planner: what it knows next is what matters.     *)
LEMMA SoleStep ==
  ASSUME RunnerKept, NEW p \in Planner, Sole(p), NEW pc, NEW round, NEW shown,
         PlannerBecomes(p, pc, round, shown), PlannerKnows(p)', ReceiptsFollow'
  PROVE  RunnerKept'
<1>1. \A q \in Planner \ {p} : ~PlannerBusy(q)'
  BY DEF Sole, PlannerBecomes, PlannerBusy
<1>2. Alone'
  BY <1>1 DEF Alone, Sole
<1>3. \A q \in Planner : PlannerKnows(q)'
  BY <1>1 DEF PlannerKnows
<1> QED
  BY <1>2, <1>3 DEF RunnerKept

(* The receipts and the rounds stay, and no pending stop is forgotten.     *)
LEMMA ReceiptsStay ==
  ASSUME ReceiptsFollow, UNCHANGED planReceipts, plan'.rounds = plan.rounds,
         plan'.state = "PLAN_NEEDS_REVISION" => plan.state = "PLAN_NEEDS_REVISION",
         StopPending => StopPending'
  PROVE  ReceiptsFollow'
BY DEF ReceiptsFollow, ReceiptFollows

(* Whoever ends is not busy any more; it was not about to stop, or has.    *)
LEMMA EndsQuietly ==
  ASSUME PlanTyped, RunnerKept, NEW p \in Planner, PlannerBusy(p), PlannerEnds(p),
         UNCHANGED planReceipts, plan'.rounds = plan.rounds,
         plan'.state = "PLAN_NEEDS_REVISION" => plan.state = "PLAN_NEEDS_REVISION",
         planStop' \/ (~PlannerAt(p, "STOPPING") /\ planStop' = planStop)
  PROVE  RunnerKept'
<1>1. Sole(p) /\ ReceiptsFollow /\ PlannerKnows(p)
  BY DEF RunnerKept, Alone
<1>2. PlannerBecomes(p, "GONE", 1, NoPlan)
  BY PlannerLeaves
<1>3. StopPending => StopPending'
  <2>1. ~PlannerAt(p, "STOPPING") => ~StopPending
    BY <1>1 DEF StopPending, PlannerKnows, Sole, PlannerBusy, PlannerAt
  <2> QED
    BY <2>1 DEF StopPending
<1>4. ReceiptsFollow'
  BY <1>1, <1>3, ReceiptsStay
<1>5. PlannerKnows(p)'
  BY <1>2 DEF PlannerBecomes, PlannerKnows, PlannerBusy
<1> QED
  BY <1>1, <1>2, <1>4, <1>5, SoleStep

(***************************************************************************)
(* A busy planner is not refused.                                          *)
(***************************************************************************)
LEMMA NoReviewRefused ==
  ASSUME PlanTyped, RunnerKept, NEW p \in Planner, PlannerAt(p, "REVIEW")
  PROVE  ~PlanReviewRefused(p) /\ RoundOf(p) \in Rounds /\ RoundOf(p) = plan.rounds + 1
         /\ RoundOf(p) <= MaxRounds
<1>1. /\ PlannerBusy(p) /\ PlannerKnows(p) /\ Sole(p) /\ ReceiptsFollow
      /\ ~PlannerAt(p, "REVISE")
  BY DEF RunnerKept, Alone, PlannerAt, PlannerBusy
<1>2. /\ RoundOf(p) = plan.rounds + 1 /\ RoundOf(p) <= MaxRounds /\ plan.state = "DRAFT"
      /\ ~planStop
  BY <1>1 DEF PlannerKnows
<1>3. plan.rounds \in Nat
  BY DEF PlanTyped
<1>4. RoundOf(p) \in Rounds /\ RoundOf(p) > plan.rounds
  BY <1>2, <1>3, PlanAssumption DEF Rounds
<1>5. ~StopPending
  BY <1>1, <1>2 DEF StopPending, Sole, PlannerBusy, PlannerAt
<1>6. planReceipts[<<"review", RoundOf(p)>>] = "NONE"
  BY <1>1, <1>4, <1>5 DEF ReceiptsFollow, ReceiptFollows
<1> QED
  BY <1>2, <1>4, <1>6 DEF PlanReviewRefused

LEMMA NoRevisionRefused ==
  ASSUME PlanTyped, RunnerKept, NEW p \in Planner, Revising(p)
  PROVE  ~PlanRevisionRefused(p) /\ RevisionRound(p) = plan.rounds /\ plan.rounds \in Rounds
<1>1. /\ PlannerBusy(p) /\ PlannerKnows(p) /\ ReceiptsFollow
      /\ PlannerAt(p, "REVISE") => ~PlannerAt(p, "REVISE_FIRST")
      /\ PlannerAt(p, "REVISE") \/ PlannerAt(p, "REVISE_FIRST")
  BY DEF RunnerKept, PlannerAt, PlannerBusy, Revising
<1>2. /\ plan.state = "PLAN_NEEDS_REVISION" /\ ReviewsCurrentPlan(p)
      /\ RoundOf(p) = IF PlannerAt(p, "REVISE") THEN plan.rounds ELSE plan.rounds + 1
  BY <1>1 DEF PlannerKnows
<1>3. plan.rounds \in Nat /\ plan.rounds > 0 /\ plan.rounds <= MaxRounds
  BY <1>1, <1>2 DEF PlanTyped, ReceiptsFollow
<1>4. plan.rounds \in Rounds
  BY <1>3, PlanAssumption DEF Rounds
<1>5. RevisionRound(p) = plan.rounds
  BY <1>1, <1>2, <1>3 DEF RevisionRound
<1>6. planReceipts[<<"revise", plan.rounds>>] = "NONE"
  <2>1. ReceiptFollows(plan.rounds)
    BY <1>1, <1>4 DEF ReceiptsFollow
  <2> QED
    BY <1>2, <1>3, <2>1 DEF ReceiptFollows
<1> QED
  BY <1>2, <1>4, <1>5, <1>6 DEF PlanRevisionRefused

(***************************************************************************)
(* The steps.                                                              *)
(***************************************************************************)
(* Who ends leaves the receipts; what it lost was not lost to itself.      *)
LEMMA RunnerEnds ==
  ASSUME RunnerInv, NEW p \in Planner,
         \/ AcceptsPlanAsIs(p) \/ FindsPlanApproved(p) \/ PlanRoundsExhausted(p)
         \/ PlanReviewLost(p) \/ PlanContextMoved(p) \/ StopsAfterRejection(p)
         \/ PlanRevisionLost(p) \/ PlanRevisionInvalid(p) \/ PlannerDies(p)
  PROVE  RunnerInv'
<1>1. PlannerBusy(p) /\ PlannerEnds(p) /\ UNCHANGED planReceipts
  BY DEF AcceptsPlanAsIs, FindsPlanApproved, PlanRoundsExhausted, PlanReviewLost, PlanContextMoved,
     StopsAfterRejection, PlanRevisionLost, PlanRevisionInvalid, PlannerDies, WorkerStops,
     LosesAnswer, PlannerFails, PlannerBusy, PlannerAt, Revising
<1>2. PlannerBecomes(p, "GONE", 1, NoPlan)
  BY <1>1, PlannerLeaves DEF RunnerInv
<1>3. /\ plan' \in [state: PlanStates, version: Nat, rounds: Nat] /\ plan'.rounds = plan.rounds
      /\ plan'.state = "PLAN_NEEDS_REVISION" => plan.state = "PLAN_NEEDS_REVISION"
  <2>1. CASE AcceptsPlanAsIs(p)
    <3>1. plan' = plan \/ plan' = [plan EXCEPT !.state = "APPROVED_FOR_IMPLEMENTATION"]
      BY <2>1 DEF AcceptsPlanAsIs
    <3> QED
      BY <3>1 DEF RunnerInv, PlanTyped, PlanStates
  <2>2. CASE ~AcceptsPlanAsIs(p)
    <3>1. UNCHANGED plan
      BY <2>2 DEF FindsPlanApproved, PlanRoundsExhausted, PlanReviewLost, PlanContextMoved,
         StopsAfterRejection, PlanRevisionLost, PlanRevisionInvalid, PlannerDies, LosesAnswer
    <3> QED
      BY <3>1 DEF RunnerInv, PlanTyped
  <2> QED
    BY <2>1, <2>2
<1>4. PlanTyped'
  BY <1>1, <1>2, <1>3 DEF RunnerInv, PlanTyped, PlannerBecomes, PlannerAt
<1>5. wasted \subseteq wasted'
  BY DEF AcceptsPlanAsIs, FindsPlanApproved, PlanRoundsExhausted, PlanReviewLost, PlanContextMoved,
     StopsAfterRejection, PlanRevisionLost, PlanRevisionInvalid, PlannerDies, LosesAnswer
<1>6. "UNEXPECTED" \notin wasted'
  <2>1. CASE PlanReviewLost(p)
    <3>1. ~Undisturbed
      BY <2>1, NoReviewRefused DEF PlanReviewLost, RunnerInv
    <3> QED
      BY <2>1, <3>1 DEF PlanReviewLost, LosesAnswer, WasteCause, Undisturbed, RunnerInv,
         RunnerAnswersKept
  <2>2. CASE PlanRevisionLost(p)
    <3>1. ~Undisturbed
      BY <2>2, NoRevisionRefused DEF PlanRevisionLost, RunnerInv
    <3> QED
      BY <2>2, <3>1 DEF PlanRevisionLost, LosesAnswer, WasteCause, Undisturbed, RunnerInv,
         RunnerAnswersKept
  <2>3. CASE ~PlanReviewLost(p) /\ ~PlanRevisionLost(p)
    BY <2>3 DEF AcceptsPlanAsIs, FindsPlanApproved, PlanRoundsExhausted, PlanContextMoved,
       StopsAfterRejection, PlanRevisionInvalid, PlannerDies, LosesAnswer, RunnerInv,
       RunnerAnswersKept
  <2> QED
    BY <2>1, <2>2, <2>3
<1>7. ASSUME Undisturbed' PROVE RunnerKept'
  <2>1. Undisturbed /\ planners[p].worker
    BY <1>2, <1>5, <1>7, StillUndisturbed
  <2>2. planStop' \/ (~PlannerAt(p, "STOPPING") /\ planStop' = planStop)
    BY <1>7, <2>1
       DEF AcceptsPlanAsIs, FindsPlanApproved, PlanRoundsExhausted, PlanReviewLost, PlanContextMoved,
       StopsAfterRejection, PlanRevisionLost, PlanRevisionInvalid, PlannerDies, WorkerStops,
       LosesAnswer, PlannerFails, PlannerAt, Undisturbed
  <2> QED
    BY <1>1, <1>3, <2>1, <2>2, EndsQuietly DEF RunnerInv
<1> QED
  BY <1>4, <1>6, <1>7 DEF RunnerInv, RunnerAnswersKept

(* A planner that goes on with the receipts and the plan as they are.      *)
LEMMA RunnerGoesOn ==
  ASSUME RunnerInv, NEW p \in Planner, PlannerAt(p, "ROUND"), RoundsLeft(p),
         \/ plan.state = "DRAFT" /\ PlannerGoes(p, "REVIEW", RoundOf(p), plan.version)
         \/ /\ plan.state = "PLAN_NEEDS_REVISION"
            /\ PlannerGoes(p, "REVISE_FIRST", RoundOf(p), plan.version),
         UNCHANGED <<plan, planReceipts, planStop, wasted>>
  PROVE  RunnerInv'
<1>1. PICK pc \in {"REVIEW", "REVISE_FIRST"} :
        /\ PlannerGoes(p, pc, RoundOf(p), plan.version)
        /\ pc = "REVIEW" => plan.state = "DRAFT"
        /\ pc = "REVISE_FIRST" => plan.state = "PLAN_NEEDS_REVISION"
  OBVIOUS
<1>2. PICK round, shown : round = RoundOf(p) /\ shown = plan.version
  OBVIOUS
<1>3. PlannerBecomes(p, pc, round, shown)
  BY <1>1, <1>2, PlannerGoesOn DEF RunnerInv, PlanTyped, PlannerRecord, PlannerPCs, RoundOf
<1>4. PlanTyped'
  BY <1>1, <1>3 DEF RunnerInv, PlanTyped, PlannerBecomes, PlannerAt
<1>5. ASSUME Undisturbed' PROVE RunnerKept'
  <2>1. RunnerKept
    BY <1>3, <1>5, StillUndisturbed DEF RunnerInv
  <2>2. PlannerBusy(p) /\ Sole(p) /\ PlannerKnows(p) /\ ReceiptsFollow
    BY <2>1 DEF RunnerKept, Alone, PlannerAt, PlannerBusy
  <2>3. ~planStop /\ RoundOf(p) = plan.rounds + 1
    BY <2>2 DEF PlannerKnows, PlannerAt
  <2>4. PlannerKnows(p)'
    BY <1>1, <1>2, <1>3, <2>3
       DEF PlannerKnows, PlannerBecomes, PlannerAt, RoundOf, RoundsLeft, ReviewsCurrentPlan, Revising
  <2>5. ~StopPending
    BY <2>2, <2>3 DEF StopPending, Sole, PlannerBusy, PlannerAt
  <2>6. ReceiptsFollow'
    BY <2>2, <2>5, ReceiptsStay
  <2> QED
    BY <1>3, <2>1, <2>2, <2>4, <2>6, SoleStep
<1> QED
  BY <1>4, <1>5 DEF RunnerInv, RunnerAnswersKept

LEMMA RunnerStarts ==
  ASSUME RunnerInv, NEW p \in Planner, WorkerStarts(p)
  PROVE  RunnerInv'
<1>1. PICK mode \in {"AS_IS", "ROUND"} :
        planners' = [planners EXCEPT ![p].pc = mode, ![p].worker = TRUE,
                                     ![p].round = plan.rounds + 1]
  BY DEF WorkerStarts
<1>2. PICK n, next : /\ n = plan.rounds + 1
                     /\ next = [planners[p] EXCEPT !.pc = mode, !.worker = TRUE, !.round = n]
  OBVIOUS
<1>3. n \in Nat /\ planners[p] \in PlannerRecord
  <2>1. plan.rounds \in Nat
    BY DEF RunnerInv, PlanTyped
  <2> QED
    BY <1>2, <2>1 DEF RunnerInv, PlanTyped
<1>4. planners' = [planners EXCEPT ![p] = next]
  BY <1>1, <1>2
<1>5. next \in PlannerRecord /\ next.pc = mode /\ next.round = n /\ next.worker = TRUE
  BY <1>2, <1>3 DEF PlannerRecord, PlannerPCs
<1>6. /\ planners' \in [Planner -> PlannerRecord] /\ planners'[p] = next
      /\ \A q \in Planner \ {p} : planners'[q] = planners[q]
  BY <1>5, <1>4 DEF RunnerInv, PlanTyped
<1>7. UNCHANGED <<plan, planReceipts, planStop, wasted>> /\ PlannerAt(p, "NEW") /\ ~planStop
  BY DEF WorkerStarts
<1>8. PlanTyped'
  BY <1>5, <1>6, <1>7 DEF RunnerInv, PlanTyped, PlannerAt
<1>9. ASSUME Undisturbed' PROVE RunnerKept'
  <2>1. Undisturbed
    BY <1>6, <1>7, <1>9 DEF Undisturbed, Overlapped, PlannerAt
  <2>2. \A q \in Planner : ~PlannerBusy(q)
    BY <2>1 DEF WorkerStarts, Undisturbed, Overlapped, PlannerBusy, PlannerAt
  <2>3. \A q \in Planner \ {p} : ~PlannerBusy(q)'
    BY <1>6, <2>2 DEF PlannerBusy
  <2>4. Alone'
    BY <2>3 DEF Alone, Sole
  <2>5. PlannerKnows(p)'
    BY <1>2, <1>5, <1>6, <1>7 DEF PlannerKnows, PlannerAt, RoundOf, Revising
  <2>6. \A q \in Planner : PlannerKnows(q)'
    BY <2>3, <2>5 DEF PlannerKnows
  <2>7. ~StopPending
    BY <1>7, <2>2 DEF StopPending, PlannerBusy, PlannerAt
  <2>8. ReceiptsFollow'
    BY <1>7, <2>1, <2>7, ReceiptsStay DEF RunnerInv, RunnerKept
  <2> QED
    BY <2>4, <2>6, <2>8 DEF RunnerKept
<1> QED
  BY <1>7, <1>8, <1>9 DEF RunnerInv, RunnerAnswersKept

(* A foreground command disturbs the runner.                               *)
LEMMA ForegroundDisturbs ==
  ASSUME RunnerInv, NEW p \in Planner, NEW round \in 1..MaxRounds, ForegroundReview(p, round)
  PROVE  RunnerInv'
<1>1. round \in Nat /\ plan.version \in Nat /\ "REVIEW" \in PlannerPCs
  BY PlanAssumption DEF RunnerInv, PlanTyped, PlannerPCs
<1>2. PICK shown \in Nat : shown = plan.version
  BY <1>1
<1>3. PlannerBecomes(p, "REVIEW", round, shown)
  BY <1>1, <1>2, PlannerGoesOn DEF RunnerInv, ForegroundReview
<1>4. PlanTyped'
  BY <1>3 DEF RunnerInv, PlanTyped, PlannerBecomes, ForegroundReview, PlannerAt
<1>5. ~Undisturbed'
  <2>1. ~planners[p].worker
    BY DEF RunnerInv, PlanTyped, ForegroundReview
  <2> QED
    BY <1>3, <2>1 DEF Undisturbed, Overlapped, PlannerBecomes, PlannerAt
<1> QED
  BY <1>4, <1>5 DEF RunnerInv, RunnerAnswersKept, ForegroundReview

(* A receipt is written, the others stay.                                  *)
LEMMA ReceiptWritten ==
  ASSUME PlanTyped, NEW c \in PlanReceiptId, NEW status \in {"NONE", "FAILED_FINAL", "SUCCEEDED"},
         PlanReceipt(c, status)
  PROVE  /\ planReceipts' \in [PlanReceiptId -> {"NONE", "FAILED_FINAL", "SUCCEEDED"}]
         /\ planReceipts'[c] = status
         /\ \A d \in PlanReceiptId \ {c} : planReceipts'[d] = planReceipts[d]
BY DEF PlanTyped, PlanReceipt

LEMMA ReviewIds ==
  ASSUME NEW n \in Rounds
  PROVE  /\ <<"review", n>> \in PlanReceiptId /\ <<"revise", n>> \in PlanReceiptId
         /\ \A m \in Rounds : <<"review", n>> # <<"revise", m>>
         /\ \A m \in Rounds : m # n => /\ <<"review", m>> # <<"review", n>>
                                       /\ <<"revise", m>> # <<"revise", n>>
BY DEF PlanReceiptId

LEMMA RunnerRejects ==
  ASSUME RunnerInv, NEW p \in Planner, PlanReviewRejected(p)
  PROVE  RunnerInv'
<1>1. PICK round : round = RoundOf(p)
  OBVIOUS
<1>2. round \in Nat /\ NoPlan \in Nat \cup {NoPlan} /\ "STOPPING" \in PlannerPCs
  BY <1>1 DEF RunnerInv, PlanTyped, PlannerRecord, RoundOf, PlannerPCs
<1>3. PlannerBecomes(p, "STOPPING", round, NoPlan)
  BY <1>1, <1>2, PlannerGoesOn DEF RunnerInv, PlanReviewRejected
<1>4. /\ UNCHANGED <<plan, planStop, wasted>> /\ PlannerAt(p, "REVIEW")
      /\ planReceipts' = [planReceipts EXCEPT ![<<"review", round>>] = "FAILED_FINAL"]
  BY <1>1 DEF PlanReviewRejected, PlanReceipt
<1>5. planReceipts' \in [PlanReceiptId -> {"NONE", "FAILED_FINAL", "SUCCEEDED"}]
  BY <1>4 DEF RunnerInv, PlanTyped
<1>6. PlanTyped'
  BY <1>3, <1>4, <1>5 DEF RunnerInv, PlanTyped, PlannerBecomes, PlannerAt
<1>7. ASSUME Undisturbed' PROVE RunnerKept'
  <2>1. RunnerKept
    BY <1>3, <1>4, <1>7, StillUndisturbed DEF RunnerInv
  <2>2. PlannerBusy(p) /\ Sole(p) /\ PlannerKnows(p) /\ ReceiptsFollow
    BY <1>4, <2>1 DEF RunnerKept, Alone, PlannerAt, PlannerBusy
  <2>3. ~planStop /\ round = plan.rounds + 1 /\ plan.state = "DRAFT"
    BY <1>1, <1>4, <2>2 DEF PlannerKnows, PlannerAt
  <2>4. round \in Rounds /\ plan.rounds \in Nat
    BY <1>1, <1>4, <2>1, NoReviewRefused DEF RunnerInv, PlanTyped
  <2>5. PlannerKnows(p)'
    BY <1>3, <1>4, <2>3 DEF PlannerKnows, PlannerBecomes, PlannerAt, RoundOf, Revising
  <2>6. StopPending'
    BY <1>3 DEF StopPending, PlannerBecomes, PlannerAt
  <2>7. ASSUME NEW n \in Rounds PROVE ReceiptFollows(n)'
    <3>1. ReceiptFollows(n)
      BY <2>2 DEF ReceiptsFollow
    <3>2. planReceipts'[<<"revise", n>>] = planReceipts[<<"revise", n>>]
      BY <1>4, <2>4, ReviewIds DEF RunnerInv, PlanTyped
    <3>3. n # round => planReceipts'[<<"review", n>>] = planReceipts[<<"review", n>>]
      BY <1>4, <2>4, ReviewIds DEF RunnerInv, PlanTyped
    <3>4. n = round => planReceipts'[<<"review", n>>] = "FAILED_FINAL"
      BY <1>4, <2>4, ReviewIds DEF RunnerInv, PlanTyped
    <3> QED
      BY <1>4, <2>3, <2>6, <3>1, <3>2, <3>3, <3>4 DEF ReceiptFollows
  <2>8. ReceiptsFollow'
    BY <1>4, <2>2, <2>7 DEF ReceiptsFollow, Rounds
  <2> QED
    BY <1>3, <2>1, <2>2, <2>5, <2>8, SoleStep
<1> QED
  BY <1>4, <1>6, <1>7 DEF RunnerInv, RunnerAnswersKept

(* A recorded verdict: its round is the next, and its receipt succeeded.   *)
LEMMA VerdictRecorded ==
  ASSUME PlanTyped, RunnerKept, NEW p \in Planner, PlannerAt(p, "REVIEW"),
         NEW round \in Rounds, round = plan.rounds + 1, round <= MaxRounds,
         planReceipts' = [planReceipts EXCEPT ![<<"review", round>>] = "SUCCEEDED"],
         plan'.rounds = round
  PROVE  ReceiptsFollow'
<1>1. PlannerBusy(p) /\ Sole(p) /\ PlannerKnows(p) /\ ReceiptsFollow /\ plan.rounds \in Nat
  BY DEF RunnerKept, Alone, PlannerAt, PlannerBusy, PlanTyped
<1>2. ~StopPending
  BY <1>1 DEF StopPending, Sole, PlannerBusy, PlannerAt, PlannerKnows
<1>3. ASSUME NEW n \in Rounds PROVE ReceiptFollows(n)'
  <2>1. ReceiptFollows(n)
    BY <1>1 DEF ReceiptsFollow
  <2>2. planReceipts'[<<"revise", n>>] = planReceipts[<<"revise", n>>]
    BY ReviewIds DEF PlanTyped
  <2>3. n # round => planReceipts'[<<"review", n>>] = planReceipts[<<"review", n>>]
    BY ReviewIds DEF PlanTyped
  <2>4. n \in Nat
    BY PlanAssumption DEF Rounds
  <2> QED
    BY <1>1, <1>2, <2>1, <2>2, <2>3, <2>4 DEF ReceiptFollows
<1> QED
  BY <1>1, <1>3 DEF ReceiptsFollow, Rounds

LEMMA RunnerDecides ==
  ASSUME RunnerInv, NEW p \in Planner, PlanApproved(p) \/ PlanNeedsRevision(p)
  PROVE  RunnerInv'
<1>1. PICK round, version : round = RoundOf(p) /\ version = plan.version
  OBVIOUS
<1>2. /\ round \in Nat /\ version \in Nat /\ plan.rounds \in Nat /\ NoPlan \in Nat \cup {NoPlan}
      /\ "REVISE" \in PlannerPCs
  BY <1>1 DEF RunnerInv, PlanTyped, PlannerRecord, RoundOf, PlannerPCs
<1>3. /\ UNCHANGED wasted /\ PlannerAt(p, "REVIEW") /\ ~PlanReviewRefused(p)
      /\ planReceipts' = [planReceipts EXCEPT ![<<"review", round>>] = "SUCCEEDED"]
  BY <1>1 DEF PlanApproved, PlanNeedsRevision, PlanReceipt
<1>4. PICK state \in {"APPROVED_FOR_IMPLEMENTATION", "PLAN_NEEDS_REVISION"} :
        plan' = [plan EXCEPT !.state = state, !.rounds = plan.rounds + 1]
  BY DEF PlanApproved, PlanNeedsRevision
<1>5. PICK held : held = plan.rounds + 1
  OBVIOUS
<1>6. plan' = [plan EXCEPT !.state = state, !.rounds = held]
  BY <1>4, <1>5
<1>7. /\ plan'.state = state /\ plan'.rounds = held /\ plan'.version = version
      /\ plan' \in [state: PlanStates, version: Nat, rounds: Nat]
  <2>1. plan \in [state: PlanStates, version: Nat, rounds: Nat] /\ held \in Nat
        /\ state \in PlanStates
    BY <1>2, <1>5 DEF RunnerInv, PlanTyped, PlanStates
  <2> QED
    BY <1>1, <1>6, <2>1
<1>8. \/ PlannerBecomes(p, "GONE", 1, NoPlan)
      \/ PlannerBecomes(p, "REVISE", round, version) /\ planStop' = planStop /\ PlanNeedsRevision(p)
  <2>1. CASE PlannerEnds(p)
    BY <2>1, PlannerLeaves DEF RunnerInv
  <2>2. CASE PlannerGoes(p, "REVISE", round, version) /\ planStop' = planStop /\ PlanNeedsRevision(p)
    <3>1. PlannerBecomes(p, "REVISE", round, version)
      BY <1>2, <2>2, PlannerGoesOn DEF RunnerInv
    <3> QED
      BY <2>2, <3>1
  <2>3. PlanNeedsRevision(p) =>
          \/ PlannerEnds(p)
          \/ PlannerGoes(p, "REVISE", round, version) /\ planStop' = planStop
    BY <1>1 DEF PlanNeedsRevision, PlannerFails
  <2>4. PlanApproved(p) => PlannerEnds(p)
    BY DEF PlanApproved
  <2> QED
    BY <2>1, <2>2, <2>3, <2>4
<1>9. PICK pc, next, shown : pc \in {"GONE", "REVISE"} /\ PlannerBecomes(p, pc, next, shown)
  BY <1>8
<1>10. planReceipts' \in [PlanReceiptId -> {"NONE", "FAILED_FINAL", "SUCCEEDED"}]
  BY <1>3 DEF RunnerInv, PlanTyped
<1>11. PlanTyped'
  BY <1>7, <1>9, <1>10 DEF RunnerInv, PlanTyped, PlannerBecomes, PlannerAt
<1>12. ASSUME Undisturbed' PROVE RunnerKept'
  <2>1. RunnerKept
    BY <1>3, <1>9, <1>12, StillUndisturbed DEF RunnerInv
  <2>2. PlannerBusy(p) /\ Sole(p) /\ PlannerKnows(p)
    BY <1>3, <2>1 DEF RunnerKept, Alone, PlannerAt, PlannerBusy
  <2>3. round \in Rounds /\ round = plan.rounds + 1 /\ round <= MaxRounds
    BY <1>1, <1>3, <2>1, NoReviewRefused DEF RunnerInv
  <2>4. ReceiptsFollow'
    BY <1>3, <1>5, <1>7, <2>1, <2>3, VerdictRecorded DEF RunnerInv
  <2>5. CASE PlannerBecomes(p, "GONE", 1, NoPlan)
    <3>1. PlannerKnows(p)'
      BY <2>5 DEF PlannerBecomes, PlannerKnows, PlannerBusy
    <3> QED
      BY <2>1, <2>2, <2>4, <2>5, <3>1, SoleStep
  <2>6. CASE /\ PlannerBecomes(p, "REVISE", round, version) /\ planStop' = planStop
             /\ PlanNeedsRevision(p)
    <3>1. plan'.state = "PLAN_NEEDS_REVISION"
      <4>1. plan \in [state: PlanStates, version: Nat, rounds: Nat]
        BY DEF RunnerInv, PlanTyped
      <4> QED
        BY <2>6, <4>1 DEF PlanNeedsRevision
    <3>2. PlannerKnows(p)'
      BY <1>5, <1>7, <2>2, <2>3, <2>6, <3>1
         DEF PlannerBecomes, PlannerKnows, PlannerAt, RoundOf, Revising, ReviewsCurrentPlan
    <3> QED
      BY <2>1, <2>2, <2>4, <2>6, <3>2, SoleStep
  <2> QED
    BY <1>8, <2>5, <2>6
<1> QED
  BY <1>3, <1>11, <1>12 DEF RunnerInv, RunnerAnswersKept

(* A revision answers the last review under its number.                    *)
LEMMA RunnerRevises ==
  ASSUME RunnerInv, NEW p \in Planner, PlanRevised(p)
  PROVE  RunnerInv'
<1>1. PICK round, next, c :
        /\ round = RoundOf(p) /\ next = (IF PlannerAt(p, "REVISE") THEN round + 1 ELSE round)
        /\ c = <<"revise", RevisionRound(p)>>
  OBVIOUS
<1>2. /\ round \in Nat /\ next \in Nat /\ plan.rounds \in Nat /\ plan.version \in Nat
      /\ NoPlan \in Nat \cup {NoPlan} /\ "ROUND" \in PlannerPCs
  BY <1>1 DEF RunnerInv, PlanTyped, PlannerRecord, RoundOf, PlannerPCs
<1>3. PlannerGoes(p, "ROUND", next, NoPlan)
  BY <1>1 DEF PlanRevised
<1>4. PlannerBecomes(p, "ROUND", next, NoPlan)
  BY <1>2, <1>3, PlannerGoesOn DEF RunnerInv
<1>5. PICK version : version = plan.version + 1 /\ version \in Nat
  BY <1>2
<1>6. /\ UNCHANGED <<planStop, wasted>> /\ Revising(p) /\ ~PlanRevisionRefused(p)
      /\ planReceipts' = [planReceipts EXCEPT ![c] = "SUCCEEDED"]
      /\ plan' = [plan EXCEPT !.state = "DRAFT", !.version = version]
  BY <1>1, <1>5 DEF PlanRevised, PlanReceipt
<1>7. /\ plan'.state = "DRAFT" /\ plan'.rounds = plan.rounds
      /\ plan' \in [state: PlanStates, version: Nat, rounds: Nat]
  BY <1>5, <1>6 DEF RunnerInv, PlanTyped, PlanStates
<1>8. planReceipts' \in [PlanReceiptId -> {"NONE", "FAILED_FINAL", "SUCCEEDED"}]
  BY <1>6 DEF RunnerInv, PlanTyped
<1>9. PlanTyped'
  BY <1>4, <1>7, <1>8 DEF RunnerInv, PlanTyped, PlannerBecomes, PlannerAt
<1>10. ASSUME Undisturbed' PROVE RunnerKept'
  <2>1. RunnerKept
    BY <1>4, <1>6, <1>10, StillUndisturbed DEF RunnerInv
  <2>2. PlannerBusy(p) /\ Sole(p) /\ PlannerKnows(p) /\ ReceiptsFollow
    BY <1>6, <2>1 DEF RunnerKept, Alone, PlannerAt, PlannerBusy, Revising
  <2>3. c = <<"revise", plan.rounds>> /\ plan.rounds \in Rounds
    BY <1>1, <1>6, <2>1, NoRevisionRefused DEF RunnerInv
  <2>4. next = plan.rounds + 1 /\ ~planStop
    BY <1>1, <1>2, <1>6, <2>2 DEF PlannerKnows, Revising, PlannerAt
  <2>5. ~StopPending
    BY <1>6, <2>2, <2>4 DEF StopPending, Sole, PlannerBusy, PlannerAt, Revising
  <2>6. PlannerKnows(p)'
    BY <1>4, <1>6, <1>7, <2>4 DEF PlannerKnows, PlannerBecomes, PlannerAt, RoundOf, Revising
  <2>7. ASSUME NEW n \in Rounds PROVE ReceiptFollows(n)'
    <3>1. ReceiptFollows(n)
      BY <2>2 DEF ReceiptsFollow
    <3>2. planReceipts'[<<"review", n>>] = planReceipts[<<"review", n>>]
      BY <1>6, <2>3, ReviewIds DEF RunnerInv, PlanTyped
    <3>3. n # plan.rounds => planReceipts'[<<"revise", n>>] = planReceipts[<<"revise", n>>]
      BY <1>6, <2>3, ReviewIds DEF RunnerInv, PlanTyped
    <3> QED
      BY <1>7, <2>5, <3>1, <3>2, <3>3 DEF ReceiptFollows
  <2>8. ReceiptsFollow'
    BY <1>7, <2>2, <2>7 DEF ReceiptsFollow, Rounds
  <2> QED
    BY <1>4, <2>1, <2>2, <2>6, <2>8, SoleStep
<1> QED
  BY <1>6, <1>9, <1>10 DEF RunnerInv, RunnerAnswersKept

(* A decision releases what failed: nobody is busy while it is awaited.    *)
LEMMA HumanReleases ==
  ASSUME RunnerInv, HumanContinues
  PROVE  RunnerInv'
<1>1. /\ planStop /\ UNCHANGED <<plan, planners, wasted>>
      /\ planReceipts' =
           [c \in PlanReceiptId |-> IF Releasable(c) THEN "NONE" ELSE planReceipts[c]]
  BY DEF HumanContinues
<1>2. PlanTyped'
  BY <1>1 DEF RunnerInv, PlanTyped, PlannerAt
<1>3. ASSUME Undisturbed' PROVE RunnerKept'
  <2>1. RunnerKept
    BY <1>1, <1>3 DEF RunnerInv, Undisturbed, Overlapped, PlannerAt
  <2>2. \A p \in Planner : ~PlannerBusy(p)'
    BY <1>1, <2>1 DEF RunnerKept, PlannerKnows, PlannerBusy
  <2>3. Alone' /\ \A p \in Planner : PlannerKnows(p)'
    BY <2>2 DEF Alone, PlannerKnows
  <2>4. ASSUME NEW n \in Rounds PROVE ReceiptFollows(n)'
    <3>1. ReceiptFollows(n)
      BY <2>1 DEF RunnerKept, ReceiptsFollow
    <3> QED
      BY <1>1, <3>1, ReviewIds DEF ReceiptFollows, Releasable
  <2>5. ReceiptsFollow'
    BY <1>1, <2>1, <2>4 DEF RunnerKept, ReceiptsFollow, Rounds
  <2> QED
    BY <2>3, <2>5 DEF RunnerKept
<1> QED
  BY <1>1, <1>2, <1>3 DEF RunnerInv, RunnerAnswersKept

LEMMA RunnerInitially == PlanInit => RunnerInv
<1> SUFFICES ASSUME PlanInit PROVE RunnerInv
  OBVIOUS
<1>1. PlanTyped /\ RunnerAnswersKept
  BY DEF PlanInit, PlanTyped, PlannerRecord, PlannerPCs, PlanStates, PlannerAt, RunnerAnswersKept
<1>2. \A p \in Planner : ~PlannerBusy(p)
  BY DEF PlanInit, PlannerBusy
<1>3. Alone /\ \A p \in Planner : PlannerKnows(p)
  BY <1>2 DEF Alone, PlannerKnows
<1>4. \A n \in Rounds : ReceiptFollows(n)
  BY ReviewIds DEF PlanInit, ReceiptFollows
<1>5. ReceiptsFollow
  BY <1>4, PlanAssumption DEF ReceiptsFollow, PlanInit
<1> QED
  BY <1>1, <1>3, <1>5 DEF RunnerInv, RunnerKept

(* Every step of every planner, and the decision, keeps the invariant.      *)
LEMMA RunnerStep == RunnerInv /\ [PlanNext]_planVars => RunnerInv'
<1> SUFFICES ASSUME RunnerInv, [PlanNext]_planVars PROVE RunnerInv'
  OBVIOUS
<1>1. ASSUME NEW p \in Planner, PlannerStep(p) PROVE RunnerInv'
  <2>1. CASE \/ AcceptsPlanAsIs(p) \/ FindsPlanApproved(p) \/ PlanRoundsExhausted(p)
             \/ PlanReviewLost(p) \/ PlanContextMoved(p) \/ StopsAfterRejection(p)
             \/ PlanRevisionLost(p) \/ PlanRevisionInvalid(p) \/ PlannerDies(p)
    BY <2>1, RunnerEnds
  <2>2. CASE InvokesPlanReview(p) \/ InvokesPendingRevision(p)
    BY <2>2, RunnerGoesOn DEF InvokesPlanReview, InvokesPendingRevision
  <2>3. CASE WorkerStarts(p)
    BY <2>3, RunnerStarts
  <2>4. CASE \E round \in 1..MaxRounds : ForegroundReview(p, round)
    BY <2>4, ForegroundDisturbs
  <2>5. CASE PlanReviewRejected(p)
    BY <2>5, RunnerRejects
  <2>6. CASE PlanApproved(p) \/ PlanNeedsRevision(p)
    BY <2>6, RunnerDecides
  <2>7. CASE PlanRevised(p)
    BY <2>7, RunnerRevises
  <2> QED
    BY <1>1, <2>1, <2>2, <2>3, <2>4, <2>5, <2>6, <2>7 DEF PlannerStep
<1>2. CASE HumanContinues
  BY <1>2, HumanReleases
<1>3. CASE UNCHANGED planVars
  BY <1>3 DEF planVars, RunnerInv, PlanTyped, RunnerAnswersKept, Undisturbed, Overlapped, RunnerKept,
     Alone, Sole, PlannerKnows, PlannerBusy, PlannerAt, RoundOf, ReviewsCurrentPlan, Revising,
     ReceiptsFollow, ReceiptFollows, StopPending
<1> QED
  BY <1>1, <1>2, <1>3 DEF PlanNext

(* The runner never pays for an answer that its own receipts make it throw *)
(* away (planReviewStage, capturePlanReview and capturePlanRevision), for  *)
(* every number of rounds, workers and foreground commands.                *)
THEOREM RunnerLosesNoAnswer == PlanSpec => []RunnerAnswersKept
<1>1. RunnerInv => RunnerAnswersKept
  BY DEF RunnerInv
<1> QED
  BY <1>1, RunnerInitially, RunnerStep, PTL DEF PlanSpec

(***************************************************************************)
(* Types of the plan loop.  Every round that was started has a receipt of  *)
(* its own among the numbers a review may take, and a plan is revised once *)
(* for each at most.                                                       *)
(***************************************************************************)
ReviewedRounds == {n \in 1..MaxRounds : planReceipts[<<"review", n>>] = "SUCCEEDED"}

RoundsCounted ==
  /\ plan.rounds <= Cardinality(ReviewedRounds)
  /\ plan.version \in 1..(plan.rounds + 1)
  /\ plan.state = "PLAN_NEEDS_REVISION" => plan.version <= plan.rounds

PlannerWithin(planner) ==
  /\ planner \in [pc: PlannerPCs, worker: BOOLEAN, round: Rounds, shown: PlanVersions \cup {NoPlan}]
  /\ planner.pc \in {"REVIEW", "REVISE_FIRST"} => planner.round <= MaxRounds
  /\ planner.pc = "REVISE" => planner.round < MaxRounds

PlanRest ==
  /\ planStop \in BOOLEAN /\ approvedPlan \in PlanVersions \cup {NoPlan}
  /\ wasted \subseteq {"INVALID", "OVERTAKEN", "CRASHED", "STOP_LOST", "UNEXPECTED"}

PlanWithin ==
  PlanTyped /\ RoundsCounted /\ PlanRest /\ \A p \in Planner : PlannerWithin(planners[p])

LEMMA ReviewedCount ==
  /\ IsFiniteSet(ReviewedRounds) /\ Cardinality(ReviewedRounds) \in Nat
  /\ Cardinality(ReviewedRounds) <= MaxRounds
<1>1. IsFiniteSet(1..MaxRounds) /\ Cardinality(1..MaxRounds) = MaxRounds
  BY FS_Interval, PlanAssumption
<1>2. ReviewedRounds \subseteq 1..MaxRounds
  BY DEF ReviewedRounds
<1> QED
  BY <1>1, <1>2, FS_Subset, FS_CardinalityType

LEMMA PlanInRange ==
  ASSUME PlanWithin
  PROVE  plan.rounds \in 0..MaxRounds /\ plan.version \in PlanVersions
BY ReviewedCount, PlanAssumption DEF PlanWithin, PlanTyped, RoundsCounted, PlanVersions

(* The rounds, and the receipts that count for them, are as they were.     *)
LEMMA RoundsStay ==
  ASSUME RoundsCounted, plan'.rounds = plan.rounds, plan'.version = plan.version,
         plan'.state = plan.state \/ plan'.state # "PLAN_NEEDS_REVISION",
         \A n \in 1..MaxRounds :
           (planReceipts'[<<"review", n>>] = "SUCCEEDED") <=> planReceipts[<<"review", n>>] = "SUCCEEDED"
  PROVE  RoundsCounted'
<1>1. ReviewedRounds' = ReviewedRounds
  BY DEF ReviewedRounds
<1> QED
  BY <1>1 DEF RoundsCounted

LEMMA PlannerStays ==
  ASSUME \A q \in Planner : PlannerWithin(planners[q]), NEW p \in Planner,
         \A q \in Planner \ {p} : planners'[q] = planners[q], PlannerWithin(planners'[p])
  PROVE  \A q \in Planner : PlannerWithin(planners'[q])
  OBVIOUS

LEMMA EndsWithin ==
  ASSUME PlanWithin, NEW p \in Planner, PlannerEnds(p)
  PROVE  \A q \in Planner : PlannerWithin(planners'[q])
<1>1. PlannerBecomes(p, "GONE", 1, NoPlan)
  BY PlannerLeaves DEF PlanWithin
<1>2. PlannerWithin(planners'[p])
  BY <1>1, PlanAssumption DEF PlannerBecomes, PlannerRecord, PlannerWithin, PlannerPCs, Rounds
<1> QED
  BY <1>1, <1>2, PlannerStays DEF PlannerBecomes, PlanWithin

LEMMA GoesWithin ==
  ASSUME PlanWithin, NEW p \in Planner, NEW pc \in PlannerPCs, NEW round \in Rounds,
         NEW shown \in PlanVersions \cup {NoPlan}, PlannerGoes(p, pc, round, shown),
         pc \in {"REVIEW", "REVISE_FIRST"} => round <= MaxRounds, pc = "REVISE" => round < MaxRounds
  PROVE  \A q \in Planner : PlannerWithin(planners'[q])
<1>1. round \in Nat /\ shown \in Nat \cup {NoPlan}
  BY PlanAssumption DEF Rounds, PlanVersions
<1>2. PlannerBecomes(p, pc, round, shown)
  BY <1>1, PlannerGoesOn DEF PlanWithin
<1>3. PlannerWithin(planners'[p])
  BY <1>2 DEF PlannerBecomes, PlannerRecord, PlannerWithin
<1> QED
  BY <1>2, <1>3, PlannerStays DEF PlannerBecomes, PlanWithin

LEMMA WasteWithin == WasteCause \in {"OVERTAKEN", "CRASHED", "UNEXPECTED"}
BY DEF WasteCause

LEMMA EndingWithin ==
  ASSUME PlanWithin, PlanTyped', NEW p \in Planner,
         \/ AcceptsPlanAsIs(p) \/ FindsPlanApproved(p) \/ PlanRoundsExhausted(p)
         \/ PlanReviewLost(p) \/ PlanContextMoved(p) \/ StopsAfterRejection(p)
         \/ PlanRevisionLost(p) \/ PlanRevisionInvalid(p) \/ PlannerDies(p)
  PROVE  PlanWithin'
<1>1. PlannerEnds(p)
  BY DEF AcceptsPlanAsIs, FindsPlanApproved, PlanRoundsExhausted, PlanReviewLost, PlanContextMoved,
     StopsAfterRejection, PlanRevisionLost, PlanRevisionInvalid, PlannerDies, LosesAnswer,
     PlannerFails, WorkerStops
<1>2. RoundsCounted'
  <2>1. CASE AcceptsPlanAsIs(p)
    BY <2>1, RoundsStay DEF AcceptsPlanAsIs, PlanWithin, PlanTyped
  <2>2. CASE ~AcceptsPlanAsIs(p)
    <3>1. UNCHANGED <<plan, planReceipts>>
      BY <2>2 DEF FindsPlanApproved, PlanRoundsExhausted, PlanReviewLost, PlanContextMoved,
         StopsAfterRejection, PlanRevisionLost, PlanRevisionInvalid, PlannerDies, LosesAnswer
    <3> QED
      BY <3>1, RoundsStay DEF PlanWithin
  <2> QED
    BY <2>1, <2>2
<1>3. PlanRest'
  <2>1. planners[p].worker \in BOOLEAN /\ planStop \in BOOLEAN
    BY DEF PlanWithin, PlannerWithin, PlanRest
  <2>2. UNCHANGED approvedPlan /\ planStop' \in BOOLEAN
    BY <2>1 DEF AcceptsPlanAsIs, FindsPlanApproved, PlanRoundsExhausted, PlanReviewLost, PlanContextMoved,
       StopsAfterRejection, PlanRevisionLost, PlanRevisionInvalid, PlannerDies, LosesAnswer,
       PlannerFails, WorkerStops
  <2>3. \/ UNCHANGED wasted
        \/ \E cause \in {"INVALID", "OVERTAKEN", "CRASHED", "STOP_LOST", "UNEXPECTED"} :
             wasted' = wasted \cup {cause}
    BY WasteWithin DEF AcceptsPlanAsIs, FindsPlanApproved, PlanRoundsExhausted, PlanReviewLost,
       PlanContextMoved, StopsAfterRejection, PlanRevisionLost, PlanRevisionInvalid, PlannerDies,
       LosesAnswer
  <2> QED
    BY <2>2, <2>3 DEF PlanWithin, PlanRest
<1> QED
  BY <1>1, <1>2, <1>3, EndsWithin DEF PlanWithin

LEMMA StartingWithin ==
  ASSUME PlanWithin, PlanTyped', NEW p \in Planner,
         \/ WorkerStarts(p) \/ InvokesPlanReview(p) \/ InvokesPendingRevision(p)
         \/ \E round \in 1..MaxRounds : ForegroundReview(p, round)
         \/ PlanReviewRejected(p)
  PROVE  PlanWithin'
<1>1. plan.rounds \in 0..MaxRounds /\ plan.version \in PlanVersions /\ MaxRounds \in Nat
  BY PlanInRange, PlanAssumption
<1>2. RoundsCounted'
  <2>1. CASE PlanReviewRejected(p)
    <3>1. planReceipts[<<"review", RoundOf(p)>>] = "NONE"
      BY <2>1 DEF PlanReviewRejected, PlanReviewRefused
    <3>2. UNCHANGED plan
          /\ planReceipts' = [planReceipts EXCEPT ![<<"review", RoundOf(p)>>] = "FAILED_FINAL"]
      BY <2>1 DEF PlanReviewRejected, PlanReceipt
    <3>3. \A n \in 1..MaxRounds : <<"review", n>> \in DOMAIN planReceipts
      BY <1>1 DEF PlanWithin, PlanTyped, PlanReceiptId, Rounds
    <3> QED
      BY <3>1, <3>2, <3>3, RoundsStay DEF PlanWithin
  <2>2. CASE ~PlanReviewRejected(p)
    <3>1. UNCHANGED <<plan, planReceipts>>
      BY <2>2 DEF WorkerStarts, InvokesPlanReview, InvokesPendingRevision, ForegroundReview
    <3> QED
      BY <3>1, RoundsStay DEF PlanWithin
  <2> QED
    BY <2>1, <2>2
<1>3. PlanRest'
  BY DEF WorkerStarts, InvokesPlanReview, InvokesPendingRevision, ForegroundReview,
     PlanReviewRejected, PlanWithin, PlanRest
<1>4. \A q \in Planner : PlannerWithin(planners'[q])
  <2>1. RoundOf(p) \in Rounds /\ PlannerWithin(planners[p])
    BY DEF PlanWithin, PlannerWithin, RoundOf
  <2>2. CASE WorkerStarts(p)
    <3>1. PICK mode \in {"AS_IS", "ROUND"} :
            planners' = [planners EXCEPT ![p].pc = mode, ![p].worker = TRUE, ![p].round = plan.rounds + 1]
      BY <2>2 DEF WorkerStarts
    <3>2. plan.rounds + 1 \in Rounds
      BY <1>1 DEF Rounds
    <3>3. /\ planners'[p].pc = mode /\ planners'[p].worker = TRUE
          /\ planners'[p].round = plan.rounds + 1 /\ planners'[p].shown = planners[p].shown
          /\ planners'[p] \in PlannerRecord
          /\ \A q \in Planner \ {p} : planners'[q] = planners[q]
      BY <3>1 DEF PlanWithin, PlanTyped, PlannerRecord
    <3>4. PlannerWithin(planners'[p])
      BY <2>1, <3>2, <3>3 DEF PlannerWithin, PlannerRecord, PlannerPCs
    <3> QED
      BY <3>3, <3>4, PlannerStays DEF PlanWithin
  <2>3. CASE InvokesPlanReview(p)
    BY <1>1, <2>1, <2>3, GoesWithin DEF InvokesPlanReview, RoundsLeft, PlannerPCs
  <2>4. CASE InvokesPendingRevision(p)
    BY <1>1, <2>1, <2>4, GoesWithin DEF InvokesPendingRevision, RoundsLeft, PlannerPCs
  <2>5. CASE \E round \in 1..MaxRounds : ForegroundReview(p, round)
    <3>1. PICK round \in 1..MaxRounds : ForegroundReview(p, round)
      BY <2>5
    <3>2. round \in Rounds /\ round <= MaxRounds
      BY <1>1 DEF Rounds
    <3> QED
      BY <1>1, <3>1, <3>2, GoesWithin DEF ForegroundReview, PlannerPCs
  <2>6. CASE PlanReviewRejected(p)
    BY <2>1, <2>6, GoesWithin DEF PlanReviewRejected, PlannerPCs
  <2> QED
    BY <2>2, <2>3, <2>4, <2>5, <2>6
<1> QED
  BY <1>2, <1>3, <1>4 DEF PlanWithin

LEMMA DecidingWithin ==
  ASSUME PlanWithin, PlanTyped', NEW p \in Planner, PlanApproved(p) \/ PlanNeedsRevision(p)
  PROVE  PlanWithin'
<1>1. /\ plan.rounds \in Nat /\ plan.version \in PlanVersions /\ MaxRounds \in Nat
      /\ plan \in [state: PlanStates, version: Nat, rounds: Nat]
  BY PlanInRange, PlanAssumption DEF PlanWithin, PlanTyped
<1>2. RoundOf(p) \in 1..MaxRounds
  BY PlanAssumption DEF PlanApproved, PlanNeedsRevision, PlannerAt, PlanWithin, PlannerWithin, RoundOf, Rounds
<1>3. /\ planReceipts[<<"review", RoundOf(p)>>] = "NONE" /\ plan.state = "DRAFT"
      /\ planReceipts' = [planReceipts EXCEPT ![<<"review", RoundOf(p)>>] = "SUCCEEDED"]
  BY DEF PlanApproved, PlanNeedsRevision, PlanReviewRefused, PlanReceipt
<1>4. Cardinality(ReviewedRounds') = Cardinality(ReviewedRounds) + 1
  <2>1. \A n \in 1..MaxRounds : <<"review", n>> \in DOMAIN planReceipts
    BY <1>1 DEF PlanWithin, PlanTyped, PlanReceiptId, Rounds
  <2>2. ReviewedRounds' = ReviewedRounds \cup {RoundOf(p)} /\ RoundOf(p) \notin ReviewedRounds
    BY <1>2, <1>3, <2>1 DEF ReviewedRounds
  <2> QED
    BY <2>2, ReviewedCount, FS_AddElement
<1>5. plan'.rounds = plan.rounds + 1 /\ plan'.version = plan.version
  BY <1>1 DEF PlanApproved, PlanNeedsRevision
<1>6. RoundsCounted'
  BY <1>1, <1>4, <1>5, ReviewedCount DEF RoundsCounted, PlanWithin, PlanTyped
<1>7. PlanRest'
  <2>1. planners[p].worker \in BOOLEAN /\ planStop \in BOOLEAN
        /\ planners[p].shown \in PlanVersions \cup {NoPlan}
    BY DEF PlanWithin, PlannerWithin, PlanRest
  <2> QED
    BY <2>1 DEF PlanApproved, PlanNeedsRevision, PlannerFails, PlanWithin, PlanRest
<1>8. \A q \in Planner : PlannerWithin(planners'[q])
  <2>1. CASE PlannerEnds(p)
    BY <2>1, EndsWithin
  <2>2. CASE ~PlannerEnds(p)
    <3>1. RoundOf(p) < MaxRounds /\ PlannerGoes(p, "REVISE", RoundOf(p), plan.version)
      BY <2>2 DEF PlanApproved, PlanNeedsRevision, PlannerFails
    <3>2. RoundOf(p) \in Rounds
      BY <1>1, <1>2 DEF Rounds
    <3> QED
      BY <1>1, <3>1, <3>2, GoesWithin DEF PlannerPCs
  <2> QED
    BY <2>1, <2>2
<1> QED
  BY <1>6, <1>7, <1>8 DEF PlanWithin

LEMMA RevisingWithin ==
  ASSUME PlanWithin, PlanTyped', NEW p \in Planner, PlanRevised(p)
  PROVE  PlanWithin'
<1>1. /\ plan.rounds \in Nat /\ MaxRounds \in Nat
      /\ plan \in [state: PlanStates, version: Nat, rounds: Nat]
  BY PlanAssumption DEF PlanWithin, PlanTyped
<1>2. plan.state = "PLAN_NEEDS_REVISION"
  BY DEF PlanRevised, PlanRevisionRefused
<1>3. plan'.rounds = plan.rounds /\ plan'.version = plan.version + 1 /\ plan'.state = "DRAFT"
  BY <1>1 DEF PlanRevised
<1>4. ReviewedRounds' = ReviewedRounds
  <2>1. \A n : <<"review", n>> # <<"revise", RevisionRound(p)>>
    OBVIOUS
  <2>2. planReceipts' = [planReceipts EXCEPT ![<<"revise", RevisionRound(p)>>] = "SUCCEEDED"]
    BY DEF PlanRevised, PlanReceipt
  <2>3. \A n \in 1..MaxRounds : planReceipts'[<<"review", n>>] = planReceipts[<<"review", n>>]
    BY <2>1, <2>2, <1>1 DEF PlanWithin, PlanTyped, PlanReceiptId, Rounds
  <2> QED
    BY <2>3 DEF ReviewedRounds
<1>5. RoundsCounted'
  BY <1>1, <1>2, <1>3, <1>4 DEF RoundsCounted, PlanWithin
<1>6. PlanRest'
  BY DEF PlanRevised, PlanWithin, PlanRest
<1>7. \A q \in Planner : PlannerWithin(planners'[q])
  <2>1. PICK round : round = IF PlannerAt(p, "REVISE") THEN RoundOf(p) + 1 ELSE RoundOf(p)
    OBVIOUS
  <2>2. round \in Rounds
    BY <1>1, <2>1 DEF PlanWithin, PlannerWithin, PlannerAt, RoundOf, Rounds
  <2>3. PlannerGoes(p, "ROUND", round, NoPlan)
    BY <2>1 DEF PlanRevised
  <2> QED
    BY <2>2, <2>3, GoesWithin DEF PlannerPCs
<1> QED
  BY <1>5, <1>6, <1>7 DEF PlanWithin

LEMMA PlanWithinStep ==
  ASSUME PlanWithin, PlanTyped', [PlanNext]_planVars
  PROVE  PlanWithin'
<1>1. ASSUME NEW p \in Planner, PlannerStep(p) PROVE PlanWithin'
  BY <1>1, EndingWithin, StartingWithin, DecidingWithin, RevisingWithin DEF PlannerStep
<1>2. CASE HumanContinues
  <2>1. UNCHANGED <<plan, planners, approvedPlan, wasted>> /\ planStop' = FALSE
    BY <1>2 DEF HumanContinues
  <2>2. \A c \in PlanReceiptId :
          (planReceipts'[c] = "SUCCEEDED") <=> planReceipts[c] = "SUCCEEDED"
    BY <1>2 DEF HumanContinues, Releasable
  <2>3. \A n \in 1..MaxRounds : <<"review", n>> \in PlanReceiptId
    BY PlanAssumption DEF PlanReceiptId, Rounds
  <2>4. RoundsCounted'
    BY <2>1, <2>2, <2>3, RoundsStay DEF PlanWithin
  <2> QED
    BY <2>1, <2>4 DEF PlanWithin, PlanRest
<1>3. CASE UNCHANGED planVars
  BY <1>3, RoundsStay DEF planVars, PlanWithin, PlanRest
<1> QED
  BY <1>1, <1>2, <1>3 DEF PlanNext

LEMMA PlanWithinInitially == PlanInit => PlanWithin
<1> SUFFICES ASSUME PlanInit PROVE PlanWithin
  OBVIOUS
<1>1. PlanTyped
  BY RunnerInitially DEF RunnerInv
<1>2. RoundsCounted
  BY ReviewedCount DEF PlanInit, RoundsCounted
<1>3. \A p \in Planner : PlannerWithin(planners[p])
  BY PlanAssumption DEF PlanInit, PlannerWithin, PlannerPCs, Rounds
<1> QED
  BY <1>1, <1>2, <1>3 DEF PlanInit, PlanWithin, PlanRest

(* The plan loop ends by its limit: no history of runners, foreground      *)
(* commands, crashes and decisions starts more rounds or writes more       *)
(* versions of a plan than the policy allows (planReviewStage,             *)
(* capturePlanReview, capturePlanRevision).                                *)
THEOREM PlanLoopTyped == PlanSpec => []PlanTypeOK
<1>1. RunnerInv => PlanTyped
  BY DEF RunnerInv
<1>2. PlanWithin => PlanTypeOK
  BY PlanInRange DEF PlanWithin, PlanTyped, PlanRest, PlannerWithin, PlannerRecord, PlanTypeOK
<1> QED
  BY RunnerInitially, RunnerStep, PlanWithinInitially, PlanWithinStep, <1>1, <1>2, PTL DEF PlanSpec

(***************************************************************************)
(* Refinement: types.                                                      *)
(***************************************************************************)
RefinerRecord == [pc: RefinementPCs, outline: RefinedOutline \cup {NoOutline},
                  staged: [Ordinals -> Authors], next: 1..(MaxBatches + 1)]

LEMMA AdoptedTyped ==
  ASSUME StagedOrdinals # {}
  PROVE  Adopted \in RefinedOutline
<1>1. IsFiniteSet(Ordinals) /\ Cardinality(Ordinals) = MaxBatches
  BY FS_Interval, RefinementAssumption DEF Ordinals
<1>2. StagedOrdinals \subseteq Ordinals
  BY DEF StagedOrdinals
<1>3. IsFiniteSet(StagedOrdinals) /\ Cardinality(StagedOrdinals) <= MaxBatches
  BY <1>1, <1>2, FS_Subset
<1>4. Cardinality(StagedOrdinals) \in Nat /\ Cardinality(StagedOrdinals) # 0
  BY <1>3, FS_CardinalityType, FS_EmptySet
<1> QED
  BY <1>3, <1>4, RefinementAssumption DEF Adopted, RefinedOutline, Ordinals

LEMMA EndsTyped ==
  ASSUME RefinementTypeOK, NEW r \in Refiner, RefinerEnds(r)
  PROVE  refiners' \in [Refiner -> RefinerRecord]
<1>1. [NewRefiner EXCEPT !.pc = "GONE"] \in RefinerRecord
  BY RefinementAssumption DEF NewRefiner, RefinerRecord, RefinementPCs, Authors, Ordinals
<1> QED
  BY <1>1 DEF RefinerEnds, RefinementTypeOK, RefinerRecord

LEMMA RefinerTyped ==
  ASSUME RefinementTypeOK, NEW r \in Refiner
  PROVE  refiners \in [Refiner -> RefinerRecord] /\ refiners[r] \in RefinerRecord
BY DEF RefinementTypeOK, RefinerRecord

(* An outline is in hand from the moment it is pinned, and the drafts read *)
(* with it.                                                                *)
OutlineInHand ==
  \A r \in Refiner :
    RefinerAt(r, "DISCARD") \/ RefinerAt(r, "AUTHOR") => OutlineOf(r) \in RefinedOutline

RefinementTyped == RefinementTypeOK /\ OutlineInHand

LEMMA GoesTyped ==
  ASSUME RefinementTyped, NEW r \in Refiner, NEW pc \in RefinementPCs \ {"DISCARD", "AUTHOR"},
         refiners' = [refiners EXCEPT ![r].pc = pc]
  PROVE  refiners' \in [Refiner -> RefinerRecord] /\ OutlineInHand'
BY RefinerTyped DEF RefinementTyped, OutlineInHand, RefinerAt, OutlineOf, RefinerRecord

LEMMA PinsTyped ==
  ASSUME RefinementTyped, NEW r \in Refiner, NEW outline \in RefinedOutline,
         PinsOutline(r, outline)
  PROVE  RefinementTyped'
<1>1. refiners' \in [Refiner -> RefinerRecord] /\ OutlineInHand'
  BY RefinerTyped
     DEF PinsOutline, RefinementTyped, OutlineInHand, RefinerAt, OutlineOf, RefinerRecord,
         RefinementPCs
<1> QED
  BY <1>1 DEF PinsOutline, RefinementTyped, RefinementTypeOK, RefinerRecord

LEMMA NextTyped ==
  ASSUME RefinementTyped, NEW r \in Refiner, RefinerAt(r, "AUTHOR"),
         refiners[r].next <= OutlineOf(r).count
  PROVE  /\ refiners[r].next \in Ordinals
         /\ refiners[r].next + 1 \in 1..(MaxBatches + 1)
         /\ OutlineOf(r).author \in Refiner \cup {Legacy}
<1>1. OutlineOf(r) \in RefinedOutline /\ refiners[r].next \in 1..(MaxBatches + 1)
  BY RefinerTyped DEF RefinementTyped, OutlineInHand, RefinerRecord
<1> QED
  BY <1>1, RefinementAssumption DEF RefinedOutline, Ordinals

LEMMA RefinementTypes ==
  ASSUME RefinementTyped, [RefinementNext]_refinementVars
  PROVE  RefinementTyped'
<1>1. RefinementTypeOK
  BY DEF RefinementTyped
<1>2. ASSUME NEW r \in Refiner, RefinementStarts(r) \/ AsksForOutline(r) PROVE RefinementTyped'
  <2>1. refiners' \in [Refiner -> RefinerRecord] /\ OutlineInHand'
    BY <1>2, GoesTyped DEF RefinementStarts, AsksForOutline, RefinementPCs
  <2> QED
    BY <1>1, <1>2, <2>1
       DEF RefinementStarts, AsksForOutline, RefinementTyped, RefinementTypeOK, RefinerRecord
<1>3. ASSUME NEW r \in Refiner, ReusesOutline(r) PROVE RefinementTyped'
  <2>1. pinned \in RefinedOutline
    BY <1>1, <1>3 DEF ReusesOutline, PinnedOutline, RefinementTypeOK
  <2>2. PICK q \in RefinerRecord : /\ q.pc = "DISCARD" /\ q.outline = pinned
                                  /\ refiners' = [refiners EXCEPT ![r] = q]
    <3>1. refiners' = [refiners EXCEPT ![r] = [@ EXCEPT !.pc = "DISCARD", !.outline = pinned]]
      BY <1>3 DEF ReusesOutline, PinnedOutline
    <3> QED
      BY <1>1, <2>1, <3>1, RefinerTyped DEF RefinerRecord, RefinementPCs
  <2>3. refiners' \in [Refiner -> RefinerRecord]
    BY <1>1, <2>2, RefinerTyped
  <2>4. OutlineInHand'
    BY <1>1, <2>1, <2>2, RefinerTyped DEF RefinementTyped, OutlineInHand, RefinerAt, OutlineOf
  <2> QED
    BY <1>1, <1>3, <2>3, <2>4 DEF ReusesOutline, RefinementTyped, RefinementTypeOK, RefinerRecord
<1>4. ASSUME NEW r \in Refiner, NEW count \in Ordinals, AuthorsOutline(r, count)
      PROVE  RefinementTyped'
  <2>1. [author |-> r, count |-> count] \in RefinedOutline
    BY DEF RefinedOutline
  <2> QED
    BY <1>4, <2>1, PinsTyped DEF AuthorsOutline
<1>5. ASSUME NEW r \in Refiner, AdoptsDrafts(r) PROVE RefinementTyped'
  BY <1>5, PinsTyped, AdoptedTyped DEF AdoptsDrafts
<1>6. ASSUME NEW r \in Refiner, DiscardsResidue(r) PROVE RefinementTyped'
  <2>1. drafts' \in [Ordinals -> Authors]
    BY <1>1, <1>6 DEF DiscardsResidue, RefinementTypeOK, Authors
  <2>2. PICK q \in RefinerRecord : /\ q.pc = "AUTHOR" /\ q.outline = refiners[r].outline
                                  /\ refiners' = [refiners EXCEPT ![r] = q]
    <3>1. refiners' = [refiners EXCEPT ![r] = [@ EXCEPT !.pc = "AUTHOR", !.staged = drafts']]
      BY <1>6 DEF DiscardsResidue
    <3> QED
      BY <1>1, <2>1, <3>1, RefinerTyped DEF RefinerRecord, RefinementPCs
  <2>3. refiners' \in [Refiner -> RefinerRecord]
    BY <1>1, <2>2, RefinerTyped
  <2>4. OutlineOf(r) \in RefinedOutline
    BY <1>6 DEF DiscardsResidue, RefinementTyped, OutlineInHand
  <2>5. OutlineInHand'
    BY <1>1, <1>6, <2>2, <2>4, RefinerTyped
       DEF DiscardsResidue, RefinementTyped, OutlineInHand, RefinerAt, OutlineOf
  <2> QED
    BY <1>1, <1>6, <2>1, <2>3, <2>5
       DEF DiscardsResidue, RefinementTyped, RefinementTypeOK, RefinerRecord
<1>7. ASSUME NEW r \in Refiner, SkipsStaged(r) PROVE RefinementTyped'
  <2>1. refiners[r].next + 1 \in 1..(MaxBatches + 1)
    BY <1>7, NextTyped DEF SkipsStaged
  <2>2. refiners' \in [Refiner -> RefinerRecord] /\ OutlineInHand'
    BY <1>1, <1>7, <2>1, RefinerTyped
       DEF SkipsStaged, RefinementTyped, OutlineInHand, RefinerAt, OutlineOf, RefinerRecord
  <2> QED
    BY <1>1, <1>7, <2>2 DEF SkipsStaged, RefinementTyped, RefinementTypeOK, RefinerRecord
<1>8. ASSUME NEW r \in Refiner, AuthorsBatch(r) PROVE RefinementTyped'
  <2> DEFINE n == refiners[r].next
             author == OutlineOf(r).author
  <2>1. n \in Ordinals /\ n + 1 \in 1..(MaxBatches + 1) /\ author \in Authors
    BY <1>8, NextTyped DEF AuthorsBatch, Authors
  <2>2. drafts' = [drafts EXCEPT ![n] = author]
    BY <1>8 DEF AuthorsBatch
  <2>3. refiners' = [refiners EXCEPT ![r].staged[n] = author, ![r].next = n + 1]
    BY <1>8 DEF AuthorsBatch
  <2>4. drafts' \in [Ordinals -> Authors]
    BY <1>1, <2>1, <2>2 DEF RefinementTypeOK
  <2>5. refiners' \in [Refiner -> RefinerRecord]
    <3>1. refiners[r] \in RefinerRecord
      BY <1>1, RefinerTyped
    <3>2. [refiners[r] EXCEPT !.staged[n] = author, !.next = n + 1] \in RefinerRecord
      BY <2>1, <3>1 DEF RefinerRecord
    <3> QED
      BY <1>1, <2>3, <3>2, RefinerTyped
  <2>6. OutlineInHand'
    BY <1>1, <2>3, RefinerTyped DEF RefinementTyped, OutlineInHand, RefinerAt, OutlineOf, RefinerRecord
  <2> QED
    BY <1>1, <1>8, <2>4, <2>5, <2>6
       DEF AuthorsBatch, RefinementTyped, RefinementTypeOK, RefinerRecord
<1>9. ASSUME NEW r \in Refiner, RefinerEnds(r)
      PROVE  refiners' \in [Refiner -> RefinerRecord] /\ OutlineInHand'
  BY <1>1, <1>9, EndsTyped, RefinerTyped
     DEF RefinerEnds, NewRefiner, RefinementTyped, OutlineInHand, RefinerAt, OutlineOf
<1>10. ASSUME NEW r \in Refiner, RefinementCaptured(r) PROVE RefinementTyped'
  <2>1. OutlineOf(r) \in RefinedOutline
    BY <1>10 DEF RefinementCaptured, Captures, RefinementTyped, OutlineInHand
  <2>2. refined'.author \in Authors /\ DOMAIN refined'.batches \subseteq Ordinals
    BY <1>10, <2>1, RefinementAssumption
       DEF RefinementCaptured, RefinedOutline, Authors, Ordinals
  <2> QED
    BY <1>1, <1>9, <1>10, <2>2
       DEF RefinementCaptured, RefinementTyped, RefinementTypeOK, RefinerRecord
<1>11. ASSUME NEW r \in Refiner, RefinementRejected(r) \/ RefinerGone(r) PROVE RefinementTyped'
  BY <1>1, <1>9, <1>11
     DEF RefinementRejected, RefinerGone, RefinementTyped, RefinementTypeOK, RefinerRecord
<1>12. ASSUME NEW n \in Ordinals, OperatorDiscards(n) PROVE RefinementTyped'
  <2>1. drafts' \in [Ordinals -> Authors]
    BY <1>1, <1>12 DEF OperatorDiscards, RefinementTypeOK, Authors
  <2> QED
    BY <1>1, <1>12, <2>1
       DEF OperatorDiscards, RefinementTyped, RefinementTypeOK, OutlineInHand, RefinerAt, OutlineOf
<1>13. CASE UNCHANGED refinementVars
  BY <1>13
     DEF refinementVars, RefinementTyped, RefinementTypeOK, OutlineInHand, RefinerAt, OutlineOf
<1> QED
  BY <1>2, <1>3, <1>4, <1>5, <1>6, <1>7, <1>8, <1>10, <1>11, <1>12, <1>13 DEF RefinementNext

(***************************************************************************)
(* Refinement: the inductive invariant, for as long as refiners have run   *)
(* one after the other.                                                    *)
(***************************************************************************)
SoleRefiner == \A q, r \in Refiner : RefinerBusy(q) /\ RefinerBusy(r) => q = r

(* An outline is asked for before one is pinned; the one in hand is the    *)
(* pinned one.                                                             *)
HandIsPinned ==
  \A r \in Refiner :
    /\ RefinerAt(r, "OUTLINE") => pinned = NoOutline
    /\ RefinerAt(r, "DISCARD") \/ RefinerAt(r, "AUTHOR") =>
         pinned \in RefinedOutline /\ OutlineOf(r) = pinned
    /\ ~RefinerAt(r, "AUTHOR") => refiners[r].next = 1

(* No draft is of another decomposition than the pinned one; before there  *)
(* is one they are left over from an earlier release.                      *)
DraftsArePinned ==
  \A n \in Ordinals :
    drafts[n] = NoOutline \/ drafts[n] = IF pinned = NoOutline THEN Legacy ELSE pinned.author

(* Nor is a draft a refiner has read, and none is missing behind it.       *)
StagedArePinned ==
  \A r \in Refiner : RefinerAt(r, "AUTHOR") =>
    \A n \in Ordinals :
      /\ refiners[r].staged[n] \in {NoOutline, pinned.author}
      /\ n < refiners[r].next /\ n <= pinned.count => refiners[r].staged[n] = pinned.author

CaptureIsPinned ==
  refined # NoRefinement =>
    /\ pinned \in RefinedOutline /\ refined.author = pinned.author
    /\ DOMAIN refined.batches = 1..pinned.count
    /\ \A n \in DOMAIN refined.batches : refined.batches[n] = pinned.author

OneAfterTheOther ==
  SoleRefiner /\ HandIsPinned /\ DraftsArePinned /\ StagedArePinned /\ CaptureIsPinned

RefinementInv == RefinementTyped /\ (~contested => OneAfterTheOther)

LEMMA UnpinnedIsNoOutline == NoOutline \notin RefinedOutline
BY RefinementAssumption DEF RefinedOutline, Ordinals

(* The only refiner at work moves on; the others are not at work.          *)
LEMMA OthersRest ==
  ASSUME RefinementTyped, SoleRefiner, NEW r \in Refiner, RefinerBusy(r),
         NEW q \in Refiner \ {r}
  PROVE  ~RefinerBusy(q)
BY DEF SoleRefiner

LEMMA EndsAlone ==
  ASSUME RefinementTyped, OneAfterTheOther, NEW r \in Refiner, RefinerEnds(r),
         UNCHANGED pinned
  PROVE  SoleRefiner' /\ HandIsPinned' /\ StagedArePinned'
<1>1. /\ refiners'[r] = [NewRefiner EXCEPT !.pc = "GONE"]
      /\ \A q \in Refiner \ {r} : refiners'[q] = refiners[q]
  BY RefinerTyped DEF RefinerEnds, RefinementTyped
<1> QED
  BY <1>1 DEF OneAfterTheOther, SoleRefiner, HandIsPinned, StagedArePinned, RefinerBusy, RefinerAt,
     OutlineOf, NewRefiner

LEMMA PinsAlone ==
  ASSUME RefinementTyped, OneAfterTheOther, NEW r \in Refiner, RefinerAt(r, "OUTLINE"),
         NEW outline \in RefinedOutline, PinsOutline(r, outline),
         \A n \in Ordinals : drafts[n] = NoOutline \/ drafts[n] = outline.author
  PROVE  OneAfterTheOther'
<1>1. pinned = NoOutline /\ pinned' = outline /\ outline # NoOutline
  BY UnpinnedIsNoOutline DEF OneAfterTheOther, HandIsPinned, PinsOutline
<1>2. refined = NoRefinement
  BY <1>1, UnpinnedIsNoOutline DEF OneAfterTheOther, CaptureIsPinned
<1>3. /\ refiners'[r] = [refiners[r] EXCEPT !.pc = "DISCARD", !.outline = outline]
      /\ refiners[r] \in RefinerRecord
      /\ \A q \in Refiner \ {r} : refiners'[q] = refiners[q] /\ ~RefinerBusy(q)
  BY RefinerTyped, OthersRest DEF PinsOutline, RefinementTyped, OneAfterTheOther, RefinerBusy, RefinerAt
<1>4. /\ RefinerAt(r, "DISCARD")' /\ OutlineOf(r)' = pinned' /\ refiners'[r].next = 1
  <2>1. refiners[r].next = 1
    BY DEF RefinerAt, OneAfterTheOther, HandIsPinned
  <2> QED
    BY <1>1, <1>3, <2>1 DEF RefinerRecord, RefinerAt, OutlineOf
<1>5. SoleRefiner'
  BY <1>3 DEF SoleRefiner, RefinerBusy
<1>6. HandIsPinned'
  <2>1. \A q \in Refiner \ {r} :
          /\ ~RefinerAt(q, "OUTLINE")' /\ ~RefinerAt(q, "DISCARD")' /\ ~RefinerAt(q, "AUTHOR")'
          /\ refiners'[q].next = 1
    <3> TAKE q \in Refiner \ {r}
    <3>1. refiners'[q] = refiners[q] /\ ~RefinerBusy(q)
      BY <1>3
    <3>2. ~RefinerAt(q, "OUTLINE") /\ ~RefinerAt(q, "DISCARD") /\ ~RefinerAt(q, "AUTHOR")
      BY <3>1 DEF RefinerBusy, RefinerAt
    <3>3. refiners[q].next = 1
      BY <3>2 DEF OneAfterTheOther, HandIsPinned
    <3> QED
      BY <3>1, <3>2, <3>3 DEF RefinerAt
  <2>2. ~RefinerAt(r, "OUTLINE")' /\ ~RefinerAt(r, "AUTHOR")'
    BY <1>4 DEF RefinerAt
  <2> QED
    BY <1>1, <1>4, <2>1, <2>2 DEF HandIsPinned
<1>7. DraftsArePinned'
  BY <1>1 DEF DraftsArePinned, PinsOutline
<1>8. StagedArePinned'
  BY <1>3, <1>4 DEF StagedArePinned, RefinerBusy, RefinerAt
<1>9. CaptureIsPinned'
  BY <1>2 DEF CaptureIsPinned, PinsOutline
<1> QED
  BY <1>5, <1>6, <1>7, <1>8, <1>9 DEF OneAfterTheOther

LEMMA RefinementStep ==
  ASSUME RefinementInv, [RefinementNext]_refinementVars
  PROVE  RefinementInv'
<1>1. RefinementTyped /\ RefinementTyped' /\ RefinementTypeOK
  BY RefinementTypes DEF RefinementInv, RefinementTyped
<1> SUFFICES ASSUME ~contested' PROVE OneAfterTheOther'
  BY <1>1 DEF RefinementInv
<1>2. ~contested
  BY DEF RefinementNext, RefinementStarts, ReusesOutline, AsksForOutline, AuthorsOutline,
     AdoptsDrafts, PinsOutline, DiscardsResidue, SkipsStaged, AuthorsBatch, RefinementCaptured,
     RefinementRejected, RefinerGone, OperatorDiscards, refinementVars
<1>3. OneAfterTheOther
  BY <1>2 DEF RefinementInv
<1>4. \A r \in Refiner : refiners[r] \in RefinerRecord
  BY <1>1, RefinerTyped
<1>5. ASSUME NEW r \in Refiner, RefinementStarts(r) PROVE OneAfterTheOther'
  <2>1. \A q \in Refiner : ~RefinerBusy(q)
    BY <1>5 DEF RefinementStarts
  <2>2. /\ RefinerAt(r, "CHECK")' /\ refiners'[r].next = refiners[r].next
        /\ \A q \in Refiner \ {r} : refiners'[q] = refiners[q]
    BY <1>1, <1>4, <1>5, RefinerTyped DEF RefinementStarts, RefinerAt, RefinerRecord
  <2> QED
    BY <1>3, <1>5, <2>1, <2>2
       DEF RefinementStarts, OneAfterTheOther, SoleRefiner, HandIsPinned, DraftsArePinned,
           StagedArePinned, CaptureIsPinned, RefinerBusy, RefinerAt, OutlineOf
<1>6. ASSUME NEW r \in Refiner, ReusesOutline(r) \/ AsksForOutline(r) PROVE OneAfterTheOther'
  <2>1. /\ refiners'[r].next = refiners[r].next
        /\ \A q \in Refiner \ {r} : refiners'[q] = refiners[q] /\ ~RefinerBusy(q)
        /\ refiners[r].pc = "CHECK"
    BY <1>1, <1>3, <1>4, <1>6, RefinerTyped, OthersRest
       DEF ReusesOutline, AsksForOutline, RefinerAt, RefinerRecord, OneAfterTheOther, RefinerBusy
  <2>2. \/ refiners'[r].pc = "OUTLINE" /\ pinned = NoOutline
        \/ refiners'[r].pc = "DISCARD" /\ refiners'[r].outline = pinned /\ pinned \in RefinedOutline
    BY <1>1, <1>4, <1>6, RefinerTyped
       DEF ReusesOutline, AsksForOutline, PinnedOutline, RefinerRecord, RefinementTypeOK
  <2> QED
    BY <1>3, <1>6, <2>1, <2>2
       DEF ReusesOutline, AsksForOutline, OneAfterTheOther, SoleRefiner, HandIsPinned,
           DraftsArePinned, StagedArePinned, CaptureIsPinned, RefinerBusy, RefinerAt, OutlineOf
<1>7. ASSUME NEW r \in Refiner, NEW count \in Ordinals, AuthorsOutline(r, count)
      PROVE  OneAfterTheOther'
  <2>1. [author |-> r, count |-> count] \in RefinedOutline
    BY DEF RefinedOutline
  <2>2. \A n \in Ordinals : drafts[n] = NoOutline
    BY <1>7 DEF AuthorsOutline, StagedOrdinals
  <2> QED
    BY <1>1, <1>3, <1>7, <2>1, <2>2, PinsAlone DEF AuthorsOutline
<1>8. ASSUME NEW r \in Refiner, AdoptsDrafts(r) PROVE OneAfterTheOther'
  <2>1. Adopted \in RefinedOutline /\ Adopted.author = Legacy
    BY <1>8, AdoptedTyped DEF AdoptsDrafts, Adopted
  <2>2. \A n \in Ordinals : drafts[n] = NoOutline \/ drafts[n] = Legacy
    BY <1>3, <1>8 DEF AdoptsDrafts, OneAfterTheOther, DraftsArePinned, HandIsPinned
  <2> QED
    BY <1>1, <1>3, <1>8, <2>1, <2>2, PinsAlone DEF AdoptsDrafts
<1>9. ASSUME NEW r \in Refiner, DiscardsResidue(r) PROVE OneAfterTheOther'
  <2>1. /\ refiners'[r].pc = "AUTHOR" /\ refiners'[r].staged = drafts'
        /\ refiners'[r].next = 1 /\ refiners'[r].outline = pinned /\ pinned \in RefinedOutline
        /\ \A q \in Refiner \ {r} : refiners'[q] = refiners[q] /\ ~RefinerBusy(q)
    BY <1>1, <1>3, <1>4, <1>9, RefinerTyped, OthersRest
       DEF DiscardsResidue, RefinerAt, RefinerRecord, OneAfterTheOther, RefinerBusy, HandIsPinned,
           OutlineOf
  <2>2. \A n \in Ordinals : drafts'[n] \in {NoOutline, pinned.author}
    <3>1. \A n \in Ordinals : drafts'[n] = NoOutline \/ drafts'[n] = drafts[n]
      BY <1>9 DEF DiscardsResidue
    <3>2. \A n \in Ordinals : drafts[n] = NoOutline \/ drafts[n] = pinned.author
      BY <1>3, <2>1, UnpinnedIsNoOutline DEF OneAfterTheOther, DraftsArePinned
    <3> QED
      BY <3>1, <3>2
  <2>3. SoleRefiner' /\ HandIsPinned' /\ DraftsArePinned'
    <3>1. pinned' = pinned /\ pinned # NoOutline
      BY <1>9, <2>1, UnpinnedIsNoOutline DEF DiscardsResidue
    <3>2. SoleRefiner'
      BY <2>1 DEF SoleRefiner, RefinerBusy
    <3>3. HandIsPinned'
      BY <1>3, <2>1, <3>1 DEF OneAfterTheOther, HandIsPinned, RefinerBusy, RefinerAt, OutlineOf
    <3>4. DraftsArePinned'
      BY <2>2, <3>1 DEF DraftsArePinned
    <3> QED
      BY <3>2, <3>3, <3>4
  <2>4. StagedArePinned'
    <3>1. \A n \in Ordinals : ~(n < 1)
      BY DEF Ordinals
    <3> QED
      BY <1>9, <2>1, <2>2, <3>1 DEF DiscardsResidue, StagedArePinned, RefinerBusy, RefinerAt
  <2> QED
    BY <1>3, <1>9, <2>3, <2>4 DEF DiscardsResidue, OneAfterTheOther, CaptureIsPinned
<1>10. ASSUME NEW r \in Refiner, SkipsStaged(r) \/ AuthorsBatch(r) PROVE OneAfterTheOther'
  <2> DEFINE m == refiners[r].next
  <2>1. /\ RefinerAt(r, "AUTHOR") /\ m \in Ordinals
        /\ OutlineOf(r) = pinned /\ pinned \in RefinedOutline
        /\ \A q \in Refiner \ {r} : refiners'[q] = refiners[q] /\ ~RefinerBusy(q)
    BY <1>1, <1>3, <1>10, NextTyped, OthersRest, RefinerTyped
       DEF SkipsStaged, AuthorsBatch, OneAfterTheOther, HandIsPinned, RefinerBusy, RefinerAt
  <2>2. /\ refiners'[r].pc = "AUTHOR" /\ refiners'[r].outline = pinned /\ refiners'[r].next = m + 1
        /\ refiners'[r].staged = [refiners[r].staged EXCEPT ![m] = pinned.author]
    <3>1. CASE SkipsStaged(r)
      <4>1. refiners[r].staged[m] = pinned.author
        BY <1>3, <2>1, <3>1 DEF SkipsStaged, OneAfterTheOther, StagedArePinned
      <4>2. refiners[r].staged = [refiners[r].staged EXCEPT ![m] = pinned.author]
        BY <1>4, <4>1 DEF RefinerRecord
      <4>3. refiners'[r] = [refiners[r] EXCEPT !.next = m + 1]
        BY <1>1, <3>1, RefinerTyped DEF SkipsStaged
      <4> QED
        BY <1>4, <2>1, <4>2, <4>3 DEF RefinerRecord, RefinerAt, OutlineOf
    <3>2. CASE AuthorsBatch(r)
      <4>1. refiners'[r] = [refiners[r] EXCEPT !.staged[m] = pinned.author, !.next = m + 1]
        BY <1>1, <2>1, <3>2, RefinerTyped DEF AuthorsBatch
      <4> QED
        BY <1>4, <2>1, <4>1 DEF RefinerRecord, RefinerAt, OutlineOf
    <3> QED
      BY <1>10, <3>1, <3>2
  <2>3. UNCHANGED <<pinned, refined>>
    BY <1>10 DEF SkipsStaged, AuthorsBatch
  <2>4. drafts' = drafts \/ drafts' = [drafts EXCEPT ![m] = pinned.author]
    BY <1>10, <2>1 DEF SkipsStaged, AuthorsBatch
  <2>5. SoleRefiner' /\ HandIsPinned' /\ CaptureIsPinned'
    BY <1>3, <2>1, <2>2, <2>3
       DEF OneAfterTheOther, SoleRefiner, HandIsPinned, CaptureIsPinned, RefinerBusy, RefinerAt,
           OutlineOf
  <2>6. DraftsArePinned'
    BY <1>1, <1>3, <2>1, <2>3, <2>4, UnpinnedIsNoOutline
       DEF OneAfterTheOther, DraftsArePinned, RefinementTypeOK
  <2>7. \A n \in Ordinals :
          /\ refiners'[r].staged[n] \in {NoOutline, pinned.author}
          /\ n < m + 1 /\ n <= pinned.count => refiners'[r].staged[n] = pinned.author
    <3> SUFFICES ASSUME NEW n \in Ordinals
                 PROVE  /\ refiners'[r].staged[n] \in {NoOutline, pinned.author}
                        /\ n < m + 1 /\ n <= pinned.count =>
                             refiners'[r].staged[n] = pinned.author
      OBVIOUS
    <3>1. refiners[r].staged \in [Ordinals -> Authors]
      BY <1>4 DEF RefinerRecord
    <3>2. CASE n = m
      BY <2>1, <2>2, <3>1, <3>2
    <3>3. CASE n # m
      <4>1. refiners'[r].staged[n] = refiners[r].staged[n]
        BY <2>2, <3>1, <3>3
      <4>2. n < m + 1 => n < m
        BY <2>1, <3>3 DEF Ordinals
      <4> QED
        BY <1>3, <2>1, <4>1, <4>2 DEF OneAfterTheOther, StagedArePinned
    <3> QED
      BY <3>2, <3>3
  <2>8. StagedArePinned'
    BY <2>1, <2>2, <2>3, <2>7 DEF StagedArePinned, RefinerBusy, RefinerAt
  <2> QED
    BY <2>5, <2>6, <2>8 DEF OneAfterTheOther
<1>11. ASSUME NEW r \in Refiner, RefinementCaptured(r) PROVE OneAfterTheOther'
  <2>1. /\ RefinerAt(r, "AUTHOR") /\ OutlineOf(r) = pinned /\ pinned \in RefinedOutline
        /\ refiners[r].next > pinned.count /\ UNCHANGED <<pinned, drafts>> /\ RefinerEnds(r)
    BY <1>3, <1>11 DEF RefinementCaptured, Captures, OneAfterTheOther, HandIsPinned
  <2>2. refined' = [author |-> pinned.author,
                    batches |-> [n \in 1..pinned.count |-> refiners[r].staged[n]]]
    BY <1>11, <2>1 DEF RefinementCaptured
  <2>3. \A n \in 1..pinned.count : n \in Ordinals /\ n < refiners[r].next
    BY <1>4, <2>1, RefinementAssumption DEF RefinedOutline, Ordinals, RefinerRecord
  <2>4. \A n \in 1..pinned.count : refiners[r].staged[n] = pinned.author
    BY <1>3, <2>1, <2>3 DEF OneAfterTheOther, StagedArePinned
  <2>5. CaptureIsPinned'
    BY <2>1, <2>2, <2>4 DEF CaptureIsPinned
  <2> QED
    BY <1>1, <1>3, <2>1, <2>5, EndsAlone DEF OneAfterTheOther, DraftsArePinned
<1>12. ASSUME NEW r \in Refiner, RefinementRejected(r) \/ RefinerGone(r) PROVE OneAfterTheOther'
  <2>1. RefinerEnds(r) /\ UNCHANGED <<pinned, drafts, refined>>
    BY <1>12 DEF RefinementRejected, RefinerGone
  <2> QED
    BY <1>1, <1>3, <2>1, EndsAlone DEF OneAfterTheOther, DraftsArePinned, CaptureIsPinned
<1>13. ASSUME NEW n \in Ordinals, OperatorDiscards(n) PROVE OneAfterTheOther'
  <2>1. /\ UNCHANGED <<pinned, refined, refiners>>
        /\ \A m \in Ordinals : drafts'[m] \in {NoOutline, drafts[m]}
    BY <1>1, <1>13 DEF OperatorDiscards, RefinementTypeOK
  <2> QED
    BY <1>3, <2>1
       DEF OneAfterTheOther, SoleRefiner, HandIsPinned, DraftsArePinned, StagedArePinned,
           CaptureIsPinned, RefinerBusy, RefinerAt, OutlineOf
<1>14. CASE UNCHANGED refinementVars
  BY <1>3, <1>14
     DEF refinementVars, OneAfterTheOther, SoleRefiner, HandIsPinned, DraftsArePinned,
         StagedArePinned, CaptureIsPinned, RefinerBusy, RefinerAt, OutlineOf
<1> QED
  BY <1>5, <1>6, <1>7, <1>8, <1>9, <1>10, <1>11, <1>12, <1>13, <1>14 DEF RefinementNext

LEMMA RefinementInitially == RefinementInit => RefinementInv
<1> SUFFICES ASSUME RefinementInit PROVE RefinementInv
  OBVIOUS
<1>1. \A r \in Refiner : refiners[r] = NewRefiner
  BY DEF RefinementInit
<1>2. drafts \in [Ordinals -> {NoOutline, Legacy}]
  BY DEF RefinementInit
<1>3. refiners \in [Refiner -> RefinerRecord]
  <2>1. NewRefiner \in RefinerRecord
    BY RefinementAssumption DEF NewRefiner, RefinerRecord, RefinementPCs, Authors, Ordinals
  <2> QED
    BY <2>1 DEF RefinementInit
<1>4. RefinementTyped
  <2>1. drafts \in [Ordinals -> Authors]
    BY <1>2 DEF Authors
  <2>2. refined.author \in Authors /\ DOMAIN refined.batches \subseteq Ordinals
    BY DEF RefinementInit, NoRefinement, Authors
  <2>3. OutlineInHand
    BY <1>1 DEF NewRefiner, OutlineInHand, RefinerAt
  <2> QED
    BY <1>3, <2>1, <2>2, <2>3
       DEF RefinementInit, RefinementTyped, RefinementTypeOK, RefinerRecord
<1>5. OneAfterTheOther
  BY <1>1, <1>2
     DEF RefinementInit, NewRefiner, OneAfterTheOther, SoleRefiner, HandIsPinned, DraftsArePinned,
         StagedArePinned, CaptureIsPinned, RefinerBusy, RefinerAt, OutlineOf
<1> QED
  BY <1>4, <1>5 DEF RefinementInv

(***************************************************************************)
(* The theorems.                                                           *)
(***************************************************************************)
(* Outlines, drafts and refiners keep their types.                         *)
THEOREM RefinementIsTyped == RefinementSpec => []RefinementTypeOK
<1>1. RefinementInv /\ [RefinementNext]_refinementVars => RefinementInv'
  BY RefinementStep
<1>2. RefinementInv => RefinementTypeOK
  BY DEF RefinementInv, RefinementTyped
<1> QED
  BY RefinementInitially, <1>1, <1>2, PTL DEF RefinementSpec

(* Refiners that fail, die and are resumed by others capture the pinned    *)
(* decomposition and drafts of no other, unless two of them ran at once.   *)
THEOREM CapturesOneDecomposition == RefinementSpec => []OneDecomposition
<1>1. RefinementInv /\ [RefinementNext]_refinementVars => RefinementInv'
  BY RefinementStep
<1>2. RefinementInv => OneDecomposition
  BY DEF RefinementInv, OneAfterTheOther, CaptureIsPinned, OneDecomposition
<1> QED
  BY RefinementInitially, <1>1, <1>2, PTL DEF RefinementSpec

(***************************************************************************)
(* The inductive invariant.                                                *)
(***************************************************************************)
(* The agent in flight left room for what it will add, and a review runs   *)
(* on a complete implementation, where it found the batch.                 *)
AgentInPlace ==
  /\ agent.doing = "EXECUTE" => Len(handoffs) < MaxHandoffs
  /\ agent.doing = "REVIEW" =>
       /\ standing.at = "IMPLEMENTATION_COMPLETE"
       /\ Len(rounds) < MaxReviewRounds + grants

(* Nothing moves an approved batch: no agent works on it, and no block     *)
(* leads back to it.                                                       *)
ApprovedRests ==
  /\ standing.resumes # "VERIFYING"
  /\ standing.at = "VERIFYING" => agent.doing = "NOTHING"
  /\ \A a \in answers : a.decision = "ACCEPTED" => standing.at = "VERIFYING"

RoundsInv == RoundsTypeOK /\ AgentInPlace /\ ApprovedRests /\ AcceptedAtApproval

(***************************************************************************)
(* Types.                                                                  *)
(***************************************************************************)
LEMMA NoAgentTyped == NoAgent \in Agents
BY RoundsAssumption DEF NoAgent, Agents, Modes, Trees, Commits

LEMMA MovesTyped ==
  ASSUME standing \in Standing, NEW s \in BatchAt, MovesTo(s)
  PROVE  /\ standing' \in Standing
         /\ standing'.at = s /\ standing'.resumes = standing.resumes
BY DEF MovesTo, Standing, BatchAt

LEMMA BlocksTyped ==
  ASSUME NEW s \in BatchAt, HoldsBatch(s)
  PROVE  /\ standing' \in Standing
         /\ standing'.at = "BLOCKED" /\ standing'.resumes = s
BY DEF HoldsBatch, Standing

LEMMA BeginsTyped ==
  ASSUME tree \in Trees, NEW d \in {"EXECUTE", "RESUME", "REVIEW"}, NEW m \in Modes, Begins(d, m)
  PROVE  agent' \in Agents /\ agent'.doing = d
BY DEF Begins, Agents

LEMMA HandsOffTyped ==
  ASSUME RoundsTypeOK, NEW r \in Modes \cup {"NONE"}, Len(handoffs) < MaxHandoffs, HandsOff(r)
  PROVE  handoffs' \in Seq(Handoff) /\ Len(handoffs') <= MaxHandoffs
<1>1. [ready |-> r] \in Handoff
  BY DEF Handoff
<1> QED
  BY <1>1, RoundsAssumption DEF HandsOff, RoundsTypeOK

LEMMA DecidedTyped ==
  ASSUME RoundsTypeOK, NEW d \in {"ACCEPTED", "REJECTED"}
  PROVE  Decided(d) \subseteq Answer
<1>1. \A a \in Answer : Decide(a, d) \in Answer
  BY DEF Decide, Answer
<1> QED
  BY <1>1 DEF Decided, RoundsTypeOK

LEMMA BlockersTyped ==
  ASSUME RoundsTypeOK
  PROVE  PreviousBlockers \subseteq Severities
<1>1. CASE rounds = <<>>
  BY <1>1 DEF PreviousBlockers
<1>2. CASE rounds # <<>>
  <2> DEFINE Round == [commit: Commits, found: SUBSET Severities]
  <2>1. rounds \in Seq(Round)
    BY DEF RoundsTypeOK
  <2> HIDE DEF Round
  <2>2. rounds[Len(rounds)] \in Round
    BY <1>2, <2>1
  <2>3. rounds[Len(rounds)].found \subseteq Severities
    BY <2>2 DEF Round
  <2> QED
    BY <1>2, <2>3 DEF PreviousBlockers, Blocking
<1> QED
  BY <1>1, <1>2

LEMMA ConcludesTyped ==
  ASSUME RoundsTypeOK, Len(rounds) < MaxReviewRounds + grants, NEW f \in SUBSET Severities,
         Concludes(f)
  PROVE  /\ rounds' \in Seq([commit: Commits, found: SUBSET Severities])
         /\ Len(rounds') = Len(rounds) + 1 /\ Len(rounds') <= MaxReviewRounds + grants'
         /\ rounds'[Len(rounds')] = [commit |-> tree.head, found |-> f]
         /\ \A n \in 1..Len(rounds) : rounds'[n] = rounds[n]
         /\ agent' = NoAgent /\ agent' \in Agents
         /\ captured' = NoRange
         /\ UNCHANGED <<tree, grants, handoffs, credited>>
<1>1. [commit |-> tree.head, found |-> f] \in [commit: Commits, found: SUBSET Severities]
  BY DEF RoundsTypeOK, Trees
<1>2. grants \in Nat /\ MaxReviewRounds \in Nat
  BY RoundsAssumption DEF RoundsTypeOK
<1> QED
  BY <1>1, <1>2, NoAgentTyped DEF Concludes, RoundsTypeOK

LEMMA TypesStep ==
  ASSUME RoundsTypeOK, AgentInPlace, [RoundsNext]_roundVars
  PROVE  RoundsTypeOK'
<1> USE DEF RoundsTypeOK
<1>1. CASE TreeChanges
  <2>1. ASSUME tree.head < LastCommit, tree' = [head |-> tree.head + 1, dirty |-> FALSE]
        PROVE  tree' \in Trees
    <3>1. tree.head \in Commits
      BY DEF Trees
    <3> QED
      BY <2>1, <3>1, RoundsAssumption DEF Trees, Commits
  <2>2. ASSUME tree' = [tree EXCEPT !.dirty = ~@]
        PROVE  tree' \in Trees
    BY <2>2, Zenon DEF Trees
  <2>3. tree' \in Trees
    BY <1>1, <2>1, <2>2 DEF TreeChanges
  <2> QED
    BY <1>1, <2>3 DEF TreeChanges, records
<1>2. CASE AgentFails
  BY <1>2, NoAgentTyped DEF AgentFails, records
<1>3. CASE ContinuityFails
  BY <1>3, NoAgentTyped, BlocksTyped DEF ContinuityFails, records
<1>4. CASE ExecuteBegins
  BY <1>4, BeginsTyped DEF ExecuteBegins, records
<1>5. CASE HandoffRejected
  BY <1>5, NoAgentTyped, HandsOffTyped DEF HandoffRejected, AgentInPlace
<1>6. CASE HandoffBlocked
  BY <1>6, NoAgentTyped, HandsOffTyped, BlocksTyped DEF HandoffBlocked, AgentInPlace, BatchAt
<1>7. CASE HandoffReady
  BY <1>7, NoAgentTyped, HandsOffTyped, MovesTyped DEF HandoffReady, AgentInPlace, BatchAt, Agents
<1>8. CASE Completes
  BY <1>8, MovesTyped DEF Completes, Creditable, BatchAt, Trees
<1>9. CASE ResumeBegins
  BY <1>9, BeginsTyped DEF ResumeBegins, records, Modes
<1>10. CASE ResumeEnds
  BY <1>10, NoAgentTyped, MovesTyped DEF ResumeEnds, records, BatchAt
<1>11. CASE Answers
  <2>1. Len(rounds) \in Nat /\ Len(handoffs) \in Nat /\ tree.head \in Commits
    BY DEF Trees
  <2>2. PreviousBlockers \subseteq Severities
    BY BlockersTyped
  <2>3. answers' \subseteq Answer
    BY <1>11, <2>1, <2>2 DEF Answers, Answer
  <2> QED
    BY <1>11, <2>3 DEF Answers
<1>12. CASE ReviewBegins
  BY <1>12, BeginsTyped DEF ReviewBegins, records, Modes
<1>13. CASE ReviewUnusable
  BY <1>13, NoAgentTyped DEF ReviewUnusable, Trees
<1>14. CASE ReviewApproves
  BY <1>14, ConcludesTyped, DecidedTyped, MovesTyped
     DEF ReviewApproves, ReviewReturns, AgentInPlace, BatchAt
<1>15. CASE ReviewRejects
  <2>1. standing' \in Standing
    BY <1>15, MovesTyped, BlocksTyped DEF ReviewRejects, BatchAt
  <2> QED
    BY <1>15, <2>1, ConcludesTyped, DecidedTyped DEF ReviewRejects, ReviewReturns, AgentInPlace
<1>16. CASE FixAgainGranted
  <2>1. standing.resumes \in BatchAt
    BY DEF Standing
  <2> QED
    BY <1>16, <2>1, MovesTyped, RoundsAssumption DEF FixAgainGranted
<1>17. CASE UNCHANGED roundVars
  BY <1>17 DEF roundVars
<1> QED
  BY <1>1, <1>2, <1>3, <1>4, <1>5, <1>6, <1>7, <1>8, <1>9, <1>10, <1>11, <1>12, <1>13, <1>14,
     <1>15, <1>16, <1>17 DEF RoundsNext

(***************************************************************************)
(* The parts of the invariant.                                             *)
(***************************************************************************)
LEMMA InPlaceStep ==
  ASSUME RoundsTypeOK, AgentInPlace, [RoundsNext]_roundVars
  PROVE  AgentInPlace'
<1> USE DEF AgentInPlace, RoundsTypeOK
<1>1. CASE agent' = NoAgent
  BY <1>1 DEF NoAgent
<1>2. CASE TreeChanges
  BY <1>2 DEF TreeChanges, records
<1>3. CASE ExecuteBegins
  BY <1>3, BeginsTyped DEF ExecuteBegins, records
<1>4. CASE Completes
  BY <1>4, MovesTyped DEF Completes, BatchAt
<1>5. CASE ResumeBegins
  BY <1>5, BeginsTyped DEF ResumeBegins, records, Modes
<1>6. CASE Answers
  BY <1>6 DEF Answers
<1>7. CASE ReviewBegins
  <2>1. agent'.doing = "REVIEW"
    BY <1>7, BeginsTyped DEF ReviewBegins, Modes
  <2>2. Len(rounds) < MaxReviewRounds + grants
    BY <1>7, RoundsAssumption DEF ReviewBegins, NextReview
  <2> QED
    BY <1>7, <2>1, <2>2 DEF ReviewBegins, records
<1>8. CASE FixAgainGranted
  BY <1>8 DEF FixAgainGranted
<1>9. CASE UNCHANGED roundVars
  BY <1>9 DEF roundVars
<1> QED
  BY <1>1, <1>2, <1>3, <1>4, <1>5, <1>6, <1>7, <1>8, <1>9
     DEF RoundsNext, AgentFails, ContinuityFails, HandoffRejected, HandoffBlocked, HandoffReady,
         ResumeEnds, ReviewUnusable, ReviewApproves, ReviewRejects, Concludes

(* Only answers to the last review are decided, and only to this decision. *)
LEMMA DecidedAnswers ==
  ASSUME RoundsTypeOK, NEW d \in {"ACCEPTED", "REJECTED"}, NEW b \in Decided(d)
  PROVE  \/ b \in answers
         \/ b.decision = d /\ b.round = Len(rounds) /\ b.commit = tree.head
<1>1. PICK a \in answers :
        b = IF /\ a.round = Len(rounds) /\ a.severity \in PreviousBlockers
               /\ a.decision = "PENDING" /\ a.commit = tree.head
            THEN Decide(a, d) ELSE a
  BY DEF Decided
<1>2. a \in Answer
  BY DEF RoundsTypeOK
<1> QED
  BY <1>1, <1>2 DEF Decide, Answer

LEMMA RestStep ==
  ASSUME RoundsTypeOK, AgentInPlace, ApprovedRests, [RoundsNext]_roundVars
  PROVE  ApprovedRests'
<1> USE DEF ApprovedRests, RoundsTypeOK
<1>1. CASE TreeChanges
  BY <1>1 DEF TreeChanges, records
<1>2. CASE AgentFails
  BY <1>2 DEF AgentFails, NoAgent, records
<1>3. CASE ContinuityFails
  BY <1>3, BlocksTyped DEF ContinuityFails, records
<1>4. CASE ExecuteBegins
  BY <1>4 DEF ExecuteBegins, records
<1>5. CASE HandoffRejected
  BY <1>5 DEF HandoffRejected, NoAgent
<1>6. CASE HandoffBlocked
  BY <1>6, BlocksTyped DEF HandoffBlocked, BatchAt
<1>7. CASE HandoffReady
  BY <1>7, MovesTyped DEF HandoffReady, BatchAt
<1>8. CASE Completes
  BY <1>8, MovesTyped DEF Completes, BatchAt
<1>9. CASE ResumeBegins
  BY <1>9 DEF ResumeBegins, records
<1>10. CASE ResumeEnds
  BY <1>10, MovesTyped DEF ResumeEnds, records, BatchAt
<1>11. CASE Answers
  BY <1>11 DEF Answers
<1>12. CASE ReviewBegins
  BY <1>12 DEF ReviewBegins, records
<1>13. CASE ReviewUnusable
  BY <1>13 DEF ReviewUnusable, NoAgent
<1>14. CASE ReviewApproves
  <2>1. agent'.doing = "NOTHING"
    BY <1>14 DEF ReviewApproves, Concludes, NoAgent
  <2> QED
    BY <1>14, <2>1, MovesTyped DEF ReviewApproves, BatchAt
<1>15. CASE ReviewRejects
  <2>1. /\ standing'.at # "VERIFYING" /\ standing'.resumes # "VERIFYING"
    BY <1>15, MovesTyped, BlocksTyped DEF ReviewRejects, BatchAt
  <2>2. standing.at = "IMPLEMENTATION_COMPLETE"
    BY <1>15 DEF ReviewRejects, ReviewReturns, AgentInPlace
  <2>3. ASSUME NEW b \in answers' PROVE b.decision # "ACCEPTED"
    BY <1>15, <2>2, <2>3, DecidedAnswers DEF ReviewRejects
  <2> QED
    BY <2>1, <2>3
<1>16. CASE FixAgainGranted
  BY <1>16, MovesTyped DEF FixAgainGranted, Standing
<1>17. CASE UNCHANGED roundVars
  BY <1>17 DEF roundVars
<1> QED
  BY <1>1, <1>2, <1>3, <1>4, <1>5, <1>6, <1>7, <1>8, <1>9, <1>10, <1>11, <1>12, <1>13, <1>14,
     <1>15, <1>16, <1>17 DEF RoundsNext

(* An approval: the answers it accepts were given at the commit of the     *)
(* round it adds, and there is one to each finding of the round before.    *)
LEMMA ApprovalAccepts ==
  ASSUME RoundsTypeOK, AgentInPlace, ApprovedRests, ReviewApproves
  PROVE  AcceptedAtApproval'
<1>1. PICK found \in SUBSET Severities : Blocking(found, NextReview) = {} /\ Concludes(found)
  BY DEF ReviewApproves
<1>2. Len(rounds) < MaxReviewRounds + grants /\ standing.at = "IMPLEMENTATION_COMPLETE"
  BY DEF ReviewApproves, ReviewReturns, AgentInPlace
<1>3. /\ Len(rounds') = Len(rounds) + 1
      /\ rounds'[Len(rounds')] = [commit |-> tree.head, found |-> found]
      /\ \A n \in 1..Len(rounds) : rounds'[n] = rounds[n]
      /\ tree' = tree
  BY <1>1, <1>2, ConcludesTyped
<1>4. Len(rounds) \in Nat
  BY DEF RoundsTypeOK
<1>5. standing'.at = "VERIFYING"
  BY MovesTyped DEF ReviewApproves, RoundsTypeOK, BatchAt
<1>6. ASSUME NEW b \in answers', b.decision = "ACCEPTED"
      PROVE  /\ b.round + 1 = Len(rounds')
             /\ rounds'[b.round + 1].commit = b.commit
             /\ Blocking(rounds'[b.round + 1].found, b.round + 1) = {}
  <2>1. b.round = Len(rounds) /\ b.commit = tree.head
    BY <1>2, <1>6, DecidedAnswers DEF ReviewApproves, ApprovedRests
  <2> QED
    BY <1>1, <1>3, <1>4, <2>1 DEF NextReview
<1>7. ASSUME Len(rounds') > 1, NEW s \in Blocking(rounds'[Len(rounds') - 1].found, 1)
      PROVE  \E b \in answers' :
               b.round = Len(rounds') - 1 /\ b.severity = s /\ b.decision = "ACCEPTED"
  <2>1. rounds # <<>> /\ rounds'[Len(rounds') - 1] = rounds[Len(rounds)]
    BY <1>3, <1>4, <1>7
  <2>2. s \in PreviousBlockers
    BY <1>7, <2>1 DEF PreviousBlockers
  <2>3. NonePending(answers')
    BY DEF ReviewApproves
  <2> QED
    BY <1>3, <1>4, <2>2, <2>3 DEF NonePending
<1>8. \A b \in answers' : b.decision = "ACCEPTED" =>
        /\ standing'.at # "NEEDS_REVISION" /\ b.round + 1 = Len(rounds')
        /\ rounds'[b.round + 1].commit = b.commit
        /\ Blocking(rounds'[b.round + 1].found, b.round + 1) = {}
  BY <1>5, <1>6
<1>9. standing'.at = "VERIFYING" /\ Len(rounds') > 1 =>
        \A s \in Blocking(rounds'[Len(rounds') - 1].found, 1) :
          \E b \in answers' : /\ b.round = Len(rounds') - 1 /\ b.severity = s
                              /\ b.decision = "ACCEPTED"
  BY <1>7
<1> QED
  BY <1>8, <1>9 DEF AcceptedAtApproval, Blocking

(* Any other step leaves what was accepted alone, or comes before it.      *)
LEMMA AcceptedStep ==
  ASSUME RoundsInv, RoundsTypeOK', ApprovedRests', [RoundsNext]_roundVars
  PROVE  AcceptedAtApproval'
<1> USE DEF RoundsInv
<1>1. CASE ReviewApproves
  BY <1>1, ApprovalAccepts
<1>2. CASE standing'.at # "VERIFYING"
  BY <1>2 DEF AcceptedAtApproval, ApprovedRests
<1>3. CASE standing.at = "VERIFYING" /\ UNCHANGED <<standing, rounds, answers>>
  BY <1>3 DEF AcceptedAtApproval, Blocking
<1>4. CASE standing.at # "VERIFYING" /\ standing' = standing
  BY <1>2, <1>4
<1> QED
  <2>1. standing \in Standing /\ standing.resumes \in BatchAt \ {"VERIFYING"}
    BY DEF RoundsTypeOK, Standing, ApprovedRests
  <2> QED
    BY <2>1, <1>1, <1>2, <1>3, <1>4, MovesTyped, BlocksTyped
       DEF RoundsNext, roundVars, records, BatchAt, ApprovedRests, TreeChanges, AgentFails,
           ContinuityFails, ExecuteBegins, HandoffRejected, HandoffBlocked, HandoffReady,
           Completes, ResumeBegins, ResumeEnds, Answers, ReviewBegins, ReviewUnusable,
           ReviewRejects, FixAgainGranted

LEMMA RoundsInvariance == RoundsSpec => []RoundsInv
<1>1. RoundsInit => RoundsInv
  BY RoundsAssumption, NoAgentTyped
     DEF RoundsInit, RoundsInv, RoundsTypeOK, AgentInPlace, ApprovedRests, AcceptedAtApproval,
         NoAgent, Trees, Commits, Standing, BatchAt, Handoff, Agents, Modes
<1>2. RoundsInv /\ [RoundsNext]_roundVars => RoundsInv'
  BY TypesStep, InPlaceStep, RestStep, AcceptedStep DEF RoundsInv
<1> QED
  BY <1>1, <1>2, PTL DEF RoundsSpec

(***************************************************************************)
(* The theorems.                                                           *)
(***************************************************************************)
(* The records of a batch under correction keep their types: no review     *)
(* exceeds the rounds of the contract and the granted ones, and no handoff *)
(* the bound.                                                              *)
THEOREM RoundsTyped == RoundsSpec => []RoundsTypeOK
<1>1. RoundsInv => RoundsTypeOK
  BY DEF RoundsInv
<1> QED
  BY RoundsInvariance, <1>1, PTL

(* An accepted answer was given at the commit the next round approved, and *)
(* an approved correction has one to each finding that forced it, however  *)
(* commits, answers and handoffs fall between the reviewer's reading and   *)
(* the decision.                                                           *)
THEOREM AnswersWereApproved == RoundsSpec => []AcceptedAtApproval
<1>1. RoundsInv => AcceptedAtApproval
  BY DEF RoundsInv
<1> QED
  BY RoundsInvariance, <1>1, PTL

(***************************************************************************)
(* The silence of a child.                                                 *)
(***************************************************************************)
Watched ==
  /\ call \in Call
  /\ watch \in Watch
  /\ children \in Seq(Child)
  /\ Waiting => children # <<>>

(* CPU counts only while it was used since the last output, and a wedged   *)
(* child that was spared has used none since.                              *)
Accounted ==
  Waiting => /\ watch.burned => Current.worked
             /\ Current.spared => Current.wedged /\ ~watch.burned

CliInv == Watched /\ Accounted

LEMMA WatchRested == Rested \in Watch /\ ~Rested.burned
  BY CliAssumption DEF Rested, Watch

LEMMA ChildReplaced ==
  ASSUME Watched, NEW n \in DOMAIN children, NEW child \in Child,
         children' = [children EXCEPT ![n] = child]
  PROVE  /\ children' \in Seq(Child) /\ Len(children') = Len(children)
         /\ children'[n] = child
         /\ \A m \in DOMAIN children \ {n} : children'[m] = children[m]
         /\ children # <<>>
  BY DEF Watched

LEMMA NewestIsThere ==
  ASSUME Watched, children # <<>>
  PROVE  Newest \in DOMAIN children /\ Current \in Child
  BY DEF Watched, Newest, Current

LEMMA SignalledChild ==
  ASSUME NEW child \in Child
  PROVE  /\ Signalled(child) \in Child
         /\ Signalled(child).worked = child.worked /\ Signalled(child).wedged = child.wedged
         /\ Signalled(child).spared = child.spared
  BY DEF Signalled, Child

(* A failed attempt only leaves the call waiting for nothing.              *)
LEMMA FailsTyped ==
  ASSUME Watched, Fails
  PROVE  call' \in Call /\ call'.status \in {"READY", "REJECTED"}
  BY DEF Fails, Watched, Call

(* The call no longer waits, and its children are as they should be.       *)
LEMMA SettledKeeps ==
  ASSUME call' \in Call, call'.status # "WAITING", watch' \in Watch, children' \in Seq(Child)
  PROVE  CliInv'
  BY DEF CliInv, Watched, Accounted, Waiting

(* The newest child changes, or none does.                                 *)
LEMMA CurrentKeeps ==
  ASSUME CliInv, UNCHANGED call, watch' \in Watch, NEW child \in Child, Waiting,
         children' = [children EXCEPT ![Newest] = child],
         watch'.burned => child.worked,
         child.spared => child.wedged /\ ~watch'.burned
  PROVE  CliInv'
<1>1. Watched /\ children # <<>>
  BY DEF CliInv, Watched
<1>2. Newest \in DOMAIN children
  BY <1>1, NewestIsThere
<1>3. children' \in Seq(Child) /\ Newest' = Newest /\ children'[Newest] = child
  BY <1>1, <1>2, ChildReplaced DEF Newest
<1>4. Current' = child
  BY <1>3 DEF Current
<1>5. children' # <<>>
  BY <1>1, <1>2, <1>3 DEF Watched, Newest
<1> QED
  BY <1>1, <1>3, <1>4, <1>5 DEF CliInv, Watched, Accounted, Waiting

LEMMA OtherKeeps ==
  ASSUME CliInv, UNCHANGED <<call, watch>>, NEW n \in DOMAIN children, NEW child \in Child,
         children' = [children EXCEPT ![n] = child],
         child.worked = children[n].worked, child.wedged = children[n].wedged,
         child.spared = children[n].spared
  PROVE  CliInv'
<1>1. Watched
  BY DEF CliInv
<1>2. /\ children' \in Seq(Child) /\ Newest' = Newest /\ children' # <<>>
  BY <1>1, ChildReplaced DEF Newest, Watched
<1>3. CASE n = Newest
  <2>1. /\ Current'.worked = Current.worked /\ Current'.wedged = Current.wedged
        /\ Current'.spared = Current.spared
    BY <1>1, <1>2, <1>3, ChildReplaced DEF Current
  <2> QED
    BY <1>1, <1>2, <2>1 DEF CliInv, Watched, Accounted, Waiting
<1>4. CASE n # Newest
  <2>1. Waiting => Current' = Current
    BY <1>1, <1>2, <1>4, ChildReplaced, NewestIsThere DEF Current, Watched
  <2> QED
    BY <1>1, <1>2, <2>1 DEF CliInv, Watched, Accounted, Waiting
<1> QED
  BY <1>3, <1>4

LEMMA KillKeeps ==
  ASSUME CliInv, Waiting, KillsAndFails, UNCHANGED watch
  PROVE  CliInv'
<1>1. Watched /\ Newest \in DOMAIN children /\ Current \in Child
  BY NewestIsThere DEF CliInv, Watched
<1>2. children' \in Seq(Child)
  BY <1>1, ChildReplaced, SignalledChild DEF KillsAndFails, Current
<1>3. call' \in Call /\ call'.status # "WAITING"
  BY <1>1, FailsTyped DEF KillsAndFails
<1> QED
  BY <1>1, <1>2, <1>3, SettledKeeps DEF Watched

LEMMA ChildStepKeeps ==
  ASSUME CliInv, Spawns \/ SpawnFails \/ Works \/ Wedges \/ Outputs \/ OutputOverflows
                 \/ Exits \/ Escalates
  PROVE  CliInv'
<1> Watched /\ call \in Call /\ watch \in Watch /\ children \in Seq(Child)
  BY DEF CliInv, Watched
<1>1. CASE Spawns
  <2>1. Started \in Child /\ ~Started.spared
    BY DEF Started, Child
  <2>2. /\ children' \in Seq(Child) /\ children' # <<>>
        /\ Newest' = Len(children) + 1 /\ Current' = Started
    BY <1>1, <2>1 DEF Spawns, Newest, Current
  <2>3. call' \in Call /\ watch' = Rested
    BY <1>1 DEF Spawns, Call
  <2> QED
    BY <2>1, <2>2, <2>3, WatchRested DEF CliInv, Watched, Accounted
<1>2. CASE SpawnFails
  <2>1. call' \in Call /\ call'.status # "WAITING"
    BY <1>2 DEF SpawnFails, Call
  <2> QED
    BY <1>2, <2>1, SettledKeeps DEF SpawnFails
<1>3. CASE Works
  <2>1. PICK child : child = [Current EXCEPT !.worked = TRUE]
    OBVIOUS
  <2>2. Waiting /\ Current \in Child /\ ~Current.wedged /\ ~Current.spared
    BY <1>3, NewestIsThere DEF Works, Running, CliInv, Watched, Accounted
  <2>3. child \in Child /\ child.worked /\ ~child.spared
    BY <2>1, <2>2 DEF Child
  <2>4. watch' \in Watch
    BY <1>3 DEF Works, Watch
  <2>5. children' = [children EXCEPT ![Newest] = child]
    BY <1>3, <2>1 DEF Works, Current
  <2> QED
    BY <1>3, <2>2, <2>3, <2>4, <2>5, CurrentKeeps DEF Works
<1>4. CASE Wedges
  <2>1. PICK child : child = [Current EXCEPT !.wedged = TRUE]
    OBVIOUS
  <2>2. /\ Waiting /\ Current \in Child /\ ~Current.spared
        /\ watch.burned => Current.worked
    BY <1>4, NewestIsThere DEF Wedges, Running, CliInv, Watched, Accounted
  <2>3. child \in Child /\ child.worked = Current.worked /\ ~child.spared
    BY <2>1, <2>2 DEF Child
  <2>4. children' = [children EXCEPT ![Newest] = child] /\ UNCHANGED <<call, watch>>
    BY <1>4, <2>1 DEF Wedges, Current
  <2> QED
    BY <2>2, <2>3, <2>4, CurrentKeeps
<1>5. CASE Outputs
  <2>1. PICK reply \in BOOLEAN :
          children' = [children EXCEPT ![Newest].worked = FALSE, ![Newest].replied = @ \/ reply]
    BY <1>5 DEF Outputs
  <2>2. PICK child :
          child = [Current EXCEPT !.worked = FALSE, !.replied = Current.replied \/ reply]
    OBVIOUS
  <2>3. Waiting /\ Current \in Child /\ ~Current.spared /\ Newest \in DOMAIN children
    BY <1>5, NewestIsThere DEF Outputs, Running, CliInv, Watched, Accounted
  <2>4. child \in Child /\ ~child.spared
    BY <2>2, <2>3 DEF Child
  <2>5. children' = [children EXCEPT ![Newest] = child]
    BY <2>1, <2>2, <2>3 DEF Current, Child
  <2>6. watch' \in Watch /\ ~watch'.burned /\ UNCHANGED call
    BY <1>5, WatchRested DEF Outputs, AfterOutput
  <2> QED
    BY <2>3, <2>4, <2>5, <2>6, CurrentKeeps
<1>6. CASE OutputOverflows
  BY <1>6, KillKeeps DEF OutputOverflows, Running
<1>7. CASE Exits
  <2>1. PICK n \in DOMAIN children, code \in {"ZERO", "OTHER"} :
          /\ children' = [children EXCEPT ![n].alive = FALSE, ![n].code = code]
          /\ UNCHANGED <<call, watch>>
    BY <1>7 DEF Exits
  <2>2. PICK child : child = [children[n] EXCEPT !.alive = FALSE, !.code = code]
    OBVIOUS
  <2>3. children[n] \in Child
    OBVIOUS
  <2>4. /\ child \in Child /\ child.worked = children[n].worked
        /\ child.wedged = children[n].wedged /\ child.spared = children[n].spared
    BY <2>2, <2>3 DEF Child
  <2>5. children' = [children EXCEPT ![n] = child]
    BY <2>1, <2>2, <2>3 DEF Child
  <2> QED
    BY <2>1, <2>4, <2>5, OtherKeeps
<1>8. CASE Escalates
  <2>1. PICK n \in DOMAIN children :
          /\ children' = [children EXCEPT ![n].alive = FALSE, ![n].code = "OTHER",
                                          ![n].signal = "KILL"]
          /\ UNCHANGED <<call, watch>>
    BY <1>8 DEF Escalates
  <2>2. PICK child :
          child = [children[n] EXCEPT !.alive = FALSE, !.code = "OTHER", !.signal = "KILL"]
    OBVIOUS
  <2>3. children[n] \in Child
    OBVIOUS
  <2>4. /\ child \in Child /\ child.worked = children[n].worked
        /\ child.wedged = children[n].wedged /\ child.spared = children[n].spared
    BY <2>2, <2>3 DEF Child
  <2>5. children' = [children EXCEPT ![n] = child]
    BY <2>1, <2>2, <2>3 DEF Child
  <2> QED
    BY <2>1, <2>4, <2>5, OtherKeeps
<1> QED
  BY <1>1, <1>2, <1>3, <1>4, <1>5, <1>6, <1>7, <1>8

LEMMA TimerStepKeeps ==
  ASSUME CliInv, SamplesBaseline \/ SampleFails \/ DeadlineExtended \/ DeadlineKills
                 \/ AbsoluteTimeout \/ Aborts \/ InputFails \/ CloseResolves \/ CloseRejects
  PROVE  CliInv'
<1> Watched /\ call \in Call /\ watch \in Watch /\ children \in Seq(Child)
  BY DEF CliInv, Watched
<1>1. CASE SamplesBaseline \/ SampleFails
  <2>1. watch' \in Watch /\ (watch'.burned => watch.burned) /\ UNCHANGED <<call, children>>
    BY <1>1 DEF SamplesBaseline, SampleFails, Watch
  <2>2. Newest' = Newest /\ Current' = Current
    BY <2>1 DEF Newest, Current
  <2> QED
    BY <2>1, <2>2 DEF CliInv, Watched, Accounted, Waiting
<1>2. CASE DeadlineExtended
  <2>1. PICK n, child : /\ n = watch.extensions + 1
                        /\ child = [Current EXCEPT !.spared = Current.wedged]
    OBVIOUS
  <2>2. Waiting /\ Current \in Child
    BY <1>2, NewestIsThere DEF DeadlineExtended, AtDeadline, Watched
  <2>3. child \in Child /\ (child.spared => child.wedged)
    BY <2>1, <2>2 DEF Child
  <2>4. n \in 0..MaxExtensions
    BY <1>2, <2>1, CliAssumption DEF DeadlineExtended, ProvesWork, Watch
  <2>5. watch' = [Rested EXCEPT !.baseline = TRUE, !.extensions = n] /\ UNCHANGED call
    BY <1>2, <2>1 DEF DeadlineExtended
  <2>6. watch' \in Watch /\ ~watch'.burned
    BY <2>4, <2>5 DEF Rested, Watch
  <2>7. children' = [children EXCEPT ![Newest] = child]
    BY <1>2, <2>1 DEF DeadlineExtended, Current
  <2> QED
    BY <2>2, <2>3, <2>5, <2>6, <2>7, CurrentKeeps
<1>3. CASE DeadlineKills \/ AbsoluteTimeout
  BY <1>3, KillKeeps DEF DeadlineKills, AbsoluteTimeout, AtDeadline
<1>4. CASE Aborts
  <2>1. Newest \in DOMAIN children /\ Current \in Child
    BY <1>4, NewestIsThere DEF Aborts, Watched
  <2>2. children' \in Seq(Child)
    BY <1>4, <2>1, ChildReplaced, SignalledChild DEF Aborts, Current
  <2>3. call' \in Call /\ call'.status # "WAITING" /\ watch' \in Watch
    BY <1>4 DEF Aborts, Call
  <2> QED
    BY <2>2, <2>3, SettledKeeps
<1>5. CASE InputFails \/ CloseResolves \/ CloseRejects
  <2>1. Fails => call' \in Call /\ call'.status # "WAITING"
    BY FailsTyped
  <2>2. call' \in Call /\ call'.status # "WAITING" /\ UNCHANGED <<watch, children>>
    BY <1>5, <2>1 DEF InputFails, CloseResolves, CloseRejects, Call
  <2> QED
    BY <2>2, SettledKeeps
<1> QED
  BY <1>1, <1>2, <1>3, <1>4, <1>5

LEMMA CliInitially == CliInit => CliInv
BY WatchRested DEF CliInit, CliInv, Watched, Accounted, Waiting, Call

LEMMA CliKept ==
  ASSUME CliInv, [CliNext]_cliVars
  PROVE  CliInv'
<1>1. CASE CliNext
  BY <1>1, ChildStepKeeps, TimerStepKeeps DEF CliNext
<1>2. CASE UNCHANGED cliVars
  BY <1>2 DEF cliVars, CliInv, Watched, Accounted, Waiting, Current, Newest
<1> QED
  BY <1>1, <1>2

(* A deadline is extended on CPU used since the last output, and so a      *)
(* wedged process once at most (probeLocalActivity, adapters), whatever    *)
(* the limits of extensions and sends.                                     *)
THEOREM WedgedIsEnded == CliSpec => WedgedNotSpared
<1>1. CliInv /\ DeadlineExtended /\ Current.wedged => Current.worked /\ ~Current.spared
  BY DEF CliInv, Accounted, DeadlineExtended, AtDeadline, ProvesWork
<1>2. CliInv /\ [CliNext]_cliVars =>
        [DeadlineExtended /\ Current.wedged => Current.worked /\ ~Current.spared]_cliVars
  BY <1>1
<1>3. CliSpec => [][DeadlineExtended /\ Current.wedged => Current.worked /\ ~Current.spared]_cliVars
  BY CliInitially, CliKept, <1>2, PTL DEF CliSpec
<1> QED
  BY <1>3 DEF WedgedNotSpared

(***************************************************************************)
(* Types of the call.  A resumed run is the first of its call, and what is *)
(* sent again has not used up its attempts: a fallback costs one more.     *)
(***************************************************************************)
SentWithin ==
  /\ Len(children) <= MaxSends + 1
  /\ call.resumes => Len(children) <= 1
  /\ call.status = "READY" => Len(children) <= IF call.resumes THEN 0 ELSE MaxSends

LEMMA FailsWithin ==
  ASSUME CliInv, SentWithin, Waiting, Fails, children' \in Seq(Child),
         Len(children') = Len(children)
  PROVE  SentWithin'
<1>1. MaxSends \in Nat \ {0} /\ call \in Call /\ Len(children) \in Nat
  BY CliAssumption DEF CliInv, Watched
<1>2. CASE FallsBack
  <2>1. Len(children) <= 1
    BY <1>2 DEF SentWithin, FallsBack
  <2>2. ~call'.resumes
    BY <1>1, <1>2 DEF Fails, FallsBack, Call
  <2> QED
    BY <1>1, <2>1, <2>2 DEF SentWithin
<1>3. CASE ~FallsBack
  <2>1. call'.resumes = call.resumes
    BY <1>1, <1>3 DEF Fails, Call
  <2>2. call'.status = "READY" => ~call.resumes /\ Len(children) < MaxSends
    BY <1>1, <1>3 DEF Fails, Call
  <2> QED
    BY <1>1, <2>1, <2>2 DEF SentWithin
<1> QED
  BY <1>2, <1>3

(* What neither spawns nor sends again.                                    *)
LEMMA StaysWithin ==
  ASSUME SentWithin, Len(children') = Len(children), call'.resumes = call.resumes,
         call'.status = call.status \/ call'.status # "READY"
  PROVE  SentWithin'
BY DEF SentWithin

LEMMA SentStep ==
  ASSUME CliInv, SentWithin, [CliNext]_cliVars
  PROVE  SentWithin'
<1>1. MaxSends \in Nat \ {0} /\ call \in Call /\ children \in Seq(Child) /\ Len(children) \in Nat
  BY CliAssumption DEF CliInv, Watched
<1>2. Waiting => Newest \in DOMAIN children
  BY NewestIsThere DEF CliInv, Watched
<1>3. ASSUME NEW n \in DOMAIN children, NEW child,
             children' = [children EXCEPT ![n] = child]
      PROVE  Len(children') = Len(children)
  BY <1>1, <1>3
<1>4. ASSUME Waiting, KillsAndFails PROVE SentWithin'
  <2>1. children' = [children EXCEPT ![Newest] = Signalled(Current)]
    BY <1>4 DEF KillsAndFails, Current
  <2>2. Current \in Child
    BY <1>4, NewestIsThere DEF CliInv, Watched
  <2>3. children' \in Seq(Child) /\ Len(children') = Len(children)
    BY <1>2, <1>4, <2>1, <2>2, SignalledChild, ChildReplaced DEF CliInv
  <2> QED
    BY <1>4, <2>3, FailsWithin DEF KillsAndFails
<1>5. CASE Spawns
  <2>1. Len(children') = Len(children) + 1
    BY <1>1, <1>5 DEF Spawns
  <2>2. call'.resumes = call.resumes /\ call'.status = "WAITING" /\ call.status = "READY"
    BY <1>1, <1>5 DEF Spawns, Call
  <2> QED
    BY <1>1, <2>1, <2>2 DEF SentWithin
<1>6. CASE SpawnFails \/ CloseResolves
  BY <1>1, <1>6, StaysWithin DEF SpawnFails, CloseResolves, Call
<1>7. CASE Works \/ Wedges \/ Outputs \/ DeadlineExtended
  <2>1. Newest \in DOMAIN children /\ UNCHANGED call
    BY <1>2, <1>7 DEF Works, Wedges, Outputs, DeadlineExtended, Running, AtDeadline
  <2>2. PICK child : children' = [children EXCEPT ![Newest] = child]
    <3>1. CASE Works
      BY <3>1 DEF Works
    <3>2. CASE Wedges
      BY <3>2 DEF Wedges
    <3>3. CASE Outputs
      <4>1. PICK reply \in BOOLEAN :
              children' = [children EXCEPT ![Newest].worked = FALSE, ![Newest].replied = @ \/ reply]
        BY <3>3 DEF Outputs
      <4>2. children' = [children EXCEPT ![Newest] =
              [[@ EXCEPT !.worked = FALSE] EXCEPT !.replied = children'[Newest].replied]]
        BY <1>1, <2>1, <4>1 DEF Child
      <4> QED
        BY <4>2
    <3>4. CASE DeadlineExtended
      BY <3>4 DEF DeadlineExtended
    <3> QED
      BY <1>7, <3>1, <3>2, <3>3, <3>4
  <2> QED
    BY <1>3, <2>1, <2>2, StaysWithin
<1>8. CASE Exits \/ Escalates
  <2>1. UNCHANGED call /\ DOMAIN children' = DOMAIN children
    BY <1>8 DEF Exits, Escalates
  <2>2. children' \in Seq(Child)
    BY <1>8, CliKept DEF CliInv, Watched, CliNext
  <2> QED
    BY <1>1, <2>1, <2>2, StaysWithin
<1>9. CASE OutputOverflows \/ DeadlineKills \/ AbsoluteTimeout
  BY <1>4, <1>9 DEF OutputOverflows, Running, DeadlineKills, AbsoluteTimeout, AtDeadline
<1>10. CASE Aborts
  BY <1>1, <1>2, <1>3, <1>10, StaysWithin DEF Aborts, Call
<1>11. CASE InputFails \/ CloseRejects
  <2>1. Waiting /\ UNCHANGED children
    BY <1>11 DEF InputFails, CloseRejects
  <2>2. CASE Fails
    BY <1>1, <2>1, <2>2, FailsWithin
  <2>3. CASE ~Fails
    BY <1>1, <1>11, <2>1, <2>3, StaysWithin DEF InputFails, CloseRejects, Call
  <2> QED
    BY <2>2, <2>3
<1>12. CASE SamplesBaseline \/ SampleFails \/ UNCHANGED cliVars
  BY <1>12, StaysWithin DEF SamplesBaseline, SampleFails, cliVars
<1> QED
  BY <1>5, <1>6, <1>7, <1>8, <1>9, <1>10, <1>11, <1>12 DEF CliNext

(* A call starts a bounded number of processes (callModel, CliAdapter),    *)
(* whatever its limits and however its attempts end.                       *)
THEOREM CallTyped == CliSpec => []CliTypeOK
<1>1. CliInit => SentWithin
  BY CliAssumption DEF CliInit, SentWithin
<1>2. CliInv /\ SentWithin => CliTypeOK
  BY DEF CliInv, Watched, SentWithin, CliTypeOK
<1> QED
  BY CliInitially, CliKept, SentStep, <1>1, <1>2, PTL DEF CliSpec

(***************************************************************************)
(* The components as they are checked together.                            *)
(***************************************************************************)
(* Whichever component is picked, what happens is a behaviour of each of   *)
(* the four, since the others stutter; all that is proved of them above is *)
(* thereby true of the specification that is checked.                      *)
THEOREM AgentsAreBehaviours ==
  AgentsSpec => SessionSpec /\ CliSpec /\ PlanSpec /\ RefinementSpec
<1>1. AgentsInit => SessionInit /\ CliInit /\ PlanInit /\ RefinementInit
  BY DEF AgentsInit
<1>2. ASSUME [AgentsNext]_agentVars
      PROVE  /\ [SessionNext]_sessionVars /\ [CliNext]_cliVars
             /\ [PlanNext]_planVars /\ [RefinementNext]_refinementVars
  BY <1>2 DEF AgentsNext, SessionServed, CallServed, PlanServed, RefinementServed, agentVars
<1> QED
  BY <1>1, <1>2, PTL DEF AgentsSpec, SessionSpec, CliSpec, PlanSpec, RefinementSpec

(* The component that is picked keeps its types, and one is picked.        *)
THEOREM AgentsTyped == AgentsSpec => []AgentsTypeOK
<1> DEFINE Picked == served \in {"SESSION", "CALL", "PLAN", "REFINEMENT"}
<1>1. AgentsInit => Picked
  BY DEF AgentsInit
<1>2. Picked /\ [AgentsNext]_agentVars => Picked'
  BY DEF AgentsNext, SessionServed, CallServed, PlanServed, RefinementServed, agentVars
<1>3. AgentsSpec => []Picked
  BY <1>1, <1>2, PTL DEF AgentsSpec
<1>4. Picked /\ SessionTypeOK /\ CliTypeOK /\ PlanTypeOK /\ RefinementTypeOK => AgentsTypeOK
  BY DEF AgentsTypeOK
<1> QED
  BY AgentsAreBehaviours, SessionsOfRolesTyped, CallTyped, PlanLoopTyped, RefinementIsTyped,
     <1>3, <1>4, PTL
=============================================================================
