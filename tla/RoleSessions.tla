------------------------------ MODULE RoleSessions ------------------------------
(***************************************************************************)
(* Bound role invocations (roles/role-invocation.ts): every batch has one  *)
(* vendor session per role.  The registry decides between creating it and  *)
(* resuming it when an invocation is prepared; the binding, the continuity *)
(* row and the audit row are written when the answer is persisted, minutes *)
(* later and in one transaction.  A broken continuity is recorded at once, *)
(* and the coordinator then blocks the batch.  The runner row names the    *)
(* invocation in flight.  Several processes may invoke for one batch.      *)
(***************************************************************************)
EXTENDS Naturals, FiniteSets

CONSTANTS
  SessionBatch,   \* batches
  Invocation,     \* invocation ids: every attempt has its own
  Vendor,         \* vendor sessions the adapters may answer from
  MaxMoves,       \* bound: versions of a batch
  MaxInFlight,    \* bound: invocations in flight at a time
  NoVendor, NoInvocation

ASSUME SessionAssumption ==
  /\ SessionBatch # {} /\ IsFiniteSet(Invocation) /\ MaxMoves \in Nat /\ MaxInFlight \in Nat
  /\ NoVendor \notin Vendor /\ NoInvocation \notin Invocation

ASSUME NoMarkerAssumption ==
  NoInvocation \notin [invocation: Invocation, stage: {"PREPARING", "AGENT_RUNNING"}]

VARIABLES
  bindings,       \* review_workflow_batch_role_sessions
  lastUsed,       \* review_workflow_sessions: lastUsedAt of every vendor session
  continuity,     \* review_workflow_session_continuity, by invocation
  audits,         \* review_workflow_invocation_audit, by invocation
  marker,         \* activeInvocation of the runner row
  gated,          \* the batches: version, blocked, escalation commands
  clock,          \* answers so far: the time an agent finished
  invocations,    \* the attempts in flight
  overtaken       \* history: whose marker another attempt replaced or cleared

sessionVars ==
  <<bindings, lastUsed, continuity, audits, marker, gated, clock, invocations, overtaken>>

SessionRoles == {"IMPLEMENTER", "REVIEWER"}

Slot == SessionBatch \X SessionRoles

Vendors == Vendor \cup {NoVendor}

Versions == 0..MaxMoves

Ticks == 0..Cardinality(Invocation)

InvocationPCs ==
  {"NEW", "PREPARING", "AGENT", "ANSWERED", "FAILING", "SETTLING", "REPORTED",
   "ESCALATING", "BLOCKING", "ENDED"}

SessionAttempt ==
  [pc: InvocationPCs, slot: Slot, requested: Vendors, returned: Vendors,
   finishedAt: Ticks, spawned: BOOLEAN, broken: BOOLEAN, version: Versions]

ContinuityRow == [outcome: {"CREATED", "RESUMED", "FAILED"}, returned: Vendors]

SessionTypeOK ==
  /\ bindings \in [Slot -> Vendors]
  /\ lastUsed \in [Vendor -> Ticks]
  /\ continuity \in [Invocation -> ContinuityRow \cup {NoInvocation}]
  /\ audits \in [Invocation -> {"NONE", "SUCCEEDED", "FAILED"}]
  /\ marker \in [invocation: Invocation, stage: {"PREPARING", "AGENT_RUNNING"}]
                  \cup {NoInvocation}
  /\ gated \in [SessionBatch ->
       [version: Versions, blocked: BOOLEAN,
        escalations: SUBSET [key: 0..(MaxMoves + 1), done: BOOLEAN]]]
  /\ clock \in Ticks
  /\ invocations \in [Invocation -> SessionAttempt]
  /\ overtaken \subseteq Invocation

NewSessionAttempt ==
  [pc |-> "NEW", slot |-> CHOOSE s \in Slot : TRUE, requested |-> NoVendor,
   returned |-> NoVendor, finishedAt |-> 0, spawned |-> FALSE, broken |-> FALSE, version |-> 0]

SessionInit ==
  /\ bindings = [s \in Slot |-> NoVendor]
  /\ lastUsed = [v \in Vendor |-> 0]
  /\ continuity = [i \in Invocation |-> NoInvocation]
  /\ audits = [i \in Invocation |-> "NONE"]
  /\ marker = NoInvocation
  /\ gated = [b \in SessionBatch |-> [version |-> 0, blocked |-> FALSE, escalations |-> {}]]
  /\ clock = 0
  /\ invocations = [i \in Invocation |-> NewSessionAttempt]
  /\ overtaken = {}

InvocationAt(i, pc) == invocations[i].pc = pc

SlotOf(i) == invocations[i].slot

BatchOf(i) == gated[SlotOf(i)[1]]

Resuming(i) == invocations[i].requested # NoVendor

Reaches(i, pc) == invocations' = [invocations EXCEPT ![i].pc = pc]

(* The call is over: what was asked and answered is forgotten.             *)
Drops(i, pc, broken, version) ==
  invocations' = [invocations EXCEPT ![i] =
    [NewSessionAttempt EXCEPT !.pc = pc, !.slot = SlotOf(i), !.spawned = invocations[i].spawned,
                              !.broken = broken, !.version = version]]

(***************************************************************************)
(* The marker of the runner row.                                           *)
(***************************************************************************)
(* A start replaces, and a settlement clears, whatever marker is there.    *)
MarkerBecomes(i, next) ==
  /\ marker' = next
  /\ overtaken' = IF marker = NoInvocation \/ marker.invocation = i
                  THEN overtaken ELSE overtaken \cup {marker.invocation}

InFlight == {i \in Invocation : invocations[i].pc \notin {"NEW", "ENDED"}}

StartsInvocation(i, slot) ==
  /\ InvocationAt(i, "NEW") /\ ~gated[slot[1]].blocked
  /\ Cardinality(InFlight) < MaxInFlight
  /\ MarkerBecomes(i, [invocation |-> i, stage |-> "PREPARING"])
  /\ invocations' = [invocations EXCEPT ![i].pc = "PREPARING", ![i].slot = slot]
  /\ UNCHANGED <<bindings, lastUsed, continuity, audits, gated, clock>>

(***************************************************************************)
(* Continuity: the checks before and after the call.                       *)
(***************************************************************************)
(* The FAILED row is written where the failure is found.                   *)
Breaks(i) ==
  /\ continuity' = [continuity EXCEPT ![i] = [outcome |-> "FAILED", returned |-> NoVendor]]
  /\ Drops(i, "FAILING", TRUE, 0)

(* The marker is promoted before the agent exists, when it is still the    *)
(* invocation's own.                                                       *)
SpawnsAgent(i) ==
  /\ InvocationAt(i, "PREPARING")
  /\ invocations' = [invocations EXCEPT
       ![i].pc = "AGENT", ![i].requested = bindings[SlotOf(i)], ![i].spawned = TRUE]
  /\ marker' = IF marker # NoInvocation /\ marker.invocation = i
               THEN [marker EXCEPT !.stage = "AGENT_RUNNING"] ELSE marker
  /\ UNCHANGED <<bindings, lastUsed, continuity, audits, gated, clock, overtaken>>

(* Nothing to resume where the caller expects a session, or an adapter     *)
(* that cannot resume the one there is.                                    *)
RefusesBinding(i) ==
  /\ InvocationAt(i, "PREPARING")
  /\ Breaks(i)
  /\ UNCHANGED <<bindings, lastUsed, audits, marker, gated, clock, overtaken>>

Claimed(v) == \E s \in Slot : bindings[s] = v

(* enforceBoundContinuity: the session asked for, or one nobody has.       *)
Continuous(i, v) == IF Resuming(i) THEN v = invocations[i].requested ELSE ~Claimed(v)

AgentAnswers(i, v) ==
  /\ InvocationAt(i, "AGENT") /\ Continuous(i, v)
  /\ clock' = clock + 1
  /\ invocations' = [invocations EXCEPT ![i] =
       [@ EXCEPT !.pc = "ANSWERED", !.returned = v, !.finishedAt = clock']]
  /\ UNCHANGED <<bindings, lastUsed, continuity, audits, marker, gated, overtaken>>

(* Another session, or the same one without proof that it was resumed.     *)
AnswerBreaks(i) ==
  /\ InvocationAt(i, "AGENT")
  /\ Resuming(i) \/ (\E v \in Vendor : Claimed(v))
  /\ Breaks(i)
  /\ UNCHANGED <<bindings, lastUsed, audits, marker, gated, clock, overtaken>>

(* The call fails; a failed resume is a broken continuity too.             *)
CallFails(i) ==
  /\ InvocationAt(i, "AGENT")
  /\ IF Resuming(i) THEN Breaks(i) ELSE Drops(i, "FAILING", FALSE, 0) /\ UNCHANGED continuity
  /\ UNCHANGED <<bindings, lastUsed, audits, marker, gated, clock, overtaken>>

(* Missing or mismatched evidence leaves no continuity row.                *)
EvidenceRefused(i) ==
  /\ InvocationAt(i, "AGENT") /\ Drops(i, "FAILING", FALSE, 0)
  /\ UNCHANGED <<bindings, lastUsed, continuity, audits, marker, gated, clock, overtaken>>

(***************************************************************************)
(* The failure audit, and the settlement that follows it.                  *)
(***************************************************************************)
(* Seeded fault: a failure settles whether or not its audit was written.   *)
AlwaysSettles(written) == TRUE

SettlesWhen(written) == written

(* The audit may fail to persist: then the marker stays.                   *)
AuditsFailure(i, written) ==
  /\ InvocationAt(i, "FAILING")
  /\ audits' = IF written THEN [audits EXCEPT ![i] = "FAILED"] ELSE audits
  /\ Reaches(i, IF SettlesWhen(written) THEN "SETTLING" ELSE "REPORTED")
  /\ UNCHANGED <<bindings, lastUsed, continuity, marker, gated, clock, overtaken>>

SettlesFailure(i) ==
  /\ InvocationAt(i, "SETTLING")
  /\ MarkerBecomes(i, NoInvocation) /\ Reaches(i, "REPORTED")
  /\ UNCHANGED <<bindings, lastUsed, continuity, audits, gated, clock>>

(***************************************************************************)
(* persistPrepared: one transaction.                                       *)
(***************************************************************************)
(* Seeded fault: a binding that is already there is replaced.              *)
Rebindable(i) == \A s \in Slot \ {SlotOf(i)} : bindings[s] # invocations[i].returned

(* PRIMARY KEY (batch, role), and UNIQUE on the vendor session.            *)
Bindable(i) == bindings[SlotOf(i)] = NoVendor /\ ~Claimed(invocations[i].returned)

(* A resumed session is touched: lastUsedAt never moves backwards.         *)
Persistable(i) ==
  IF Resuming(i) THEN invocations[i].finishedAt >= lastUsed[invocations[i].returned]
                 ELSE Bindable(i)

Persists(i) ==
  /\ InvocationAt(i, "ANSWERED") /\ Persistable(i)
  /\ LET v == invocations[i].returned IN
       /\ bindings' = [bindings EXCEPT ![SlotOf(i)] = v]
       /\ lastUsed' = [lastUsed EXCEPT ![v] = invocations[i].finishedAt]
       /\ continuity' = [continuity EXCEPT ![i] =
            [outcome |-> IF Resuming(i) THEN "RESUMED" ELSE "CREATED", returned |-> v]]
  /\ audits' = [audits EXCEPT ![i] = "SUCCEEDED"]
  /\ MarkerBecomes(i, NoInvocation) /\ Drops(i, "ENDED", FALSE, 0)
  /\ UNCHANGED <<gated, clock>>

(* The transaction rolls back: the answer leaves no row, and its marker    *)
(* stays.                                                                  *)
PersistRollsBack(i) ==
  /\ InvocationAt(i, "ANSWERED") /\ ~Persistable(i) /\ Drops(i, "ENDED", FALSE, 0)
  /\ UNCHANGED <<bindings, lastUsed, continuity, audits, marker, gated, clock, overtaken>>

(***************************************************************************)
(* blockBatchForContinuityFailure: best effort, in two transactions.       *)
(***************************************************************************)
Reports(i) ==
  /\ InvocationAt(i, "REPORTED")
  /\ invocations' = [invocations EXCEPT
       ![i].pc = IF invocations[i].broken /\ ~BatchOf(i).blocked THEN "ESCALATING" ELSE "ENDED",
       ![i].version = BatchOf(i).version]
  /\ UNCHANGED <<bindings, lastUsed, continuity, audits, marker, gated, clock, overtaken>>

(* Seeded fault: one escalation command for the life of the batch.         *)
OneKey(version) == 0

EscalationKey(version) == version + 1

BatchUnmoved(i) == invocations[i].version = BatchOf(i).version

(* The request is hashed with the time: a command that is already there,   *)
(* finished or not, is a conflict.                                         *)
EscalationReservable(i) ==
  /\ BatchUnmoved(i)
  /\ \A e \in BatchOf(i).escalations : e.key # EscalationKey(BatchOf(i).version)

ReservesEscalation(i) ==
  /\ InvocationAt(i, "ESCALATING") /\ EscalationReservable(i)
  /\ gated' = [gated EXCEPT ![SlotOf(i)[1]].escalations =
                 @ \cup {[key |-> EscalationKey(BatchOf(i).version), done |-> FALSE]}]
  /\ Reaches(i, "BLOCKING")
  /\ UNCHANGED <<bindings, lastUsed, continuity, audits, marker, clock, overtaken>>

BlocksBatch(i) ==
  /\ InvocationAt(i, "BLOCKING") /\ BatchUnmoved(i) /\ BatchOf(i).version < MaxMoves
  /\ LET key == EscalationKey(BatchOf(i).version) IN
       gated' = [gated EXCEPT ![SlotOf(i)[1]] =
         [version |-> @.version + 1, blocked |-> TRUE,
          escalations |-> {e \in @.escalations : e.key # key}
                            \cup {[key |-> key, done |-> TRUE]}]]
  /\ Reaches(i, "ENDED")
  /\ UNCHANGED <<bindings, lastUsed, continuity, audits, marker, clock, overtaken>>

(* Whatever the store refuses is swallowed.                                *)
EscalationSwallowed(i) ==
  /\ \/ InvocationAt(i, "ESCALATING") /\ ~EscalationReservable(i)
     \/ InvocationAt(i, "BLOCKING") /\ ~BatchUnmoved(i)
  /\ Reaches(i, "ENDED")
  /\ UNCHANGED <<bindings, lastUsed, continuity, audits, marker, gated, clock, overtaken>>

(***************************************************************************)
(* The rest of the world.                                                  *)
(***************************************************************************)
InvocationDies(i) ==
  /\ i \in InFlight /\ Drops(i, "ENDED", FALSE, 0)
  /\ UNCHANGED <<bindings, lastUsed, continuity, audits, marker, gated, clock, overtaken>>

(* Another transition of the batch, the human's RESUME_BATCH included.     *)
BatchMoves(b) ==
  /\ gated[b].version < MaxMoves
  /\ gated' = [gated EXCEPT ![b].version = @ + 1, ![b].blocked = FALSE]
  /\ UNCHANGED <<bindings, lastUsed, continuity, audits, marker, clock, invocations, overtaken>>

SessionNext ==
  \/ \E i \in Invocation :
       \/ \E s \in Slot : StartsInvocation(i, s)
       \/ RefusesBinding(i) \/ SpawnsAgent(i)
       \/ \E v \in Vendor : AgentAnswers(i, v) \/ AnswerBreaks(i)
       \/ CallFails(i) \/ EvidenceRefused(i)
       \/ \E written \in BOOLEAN : AuditsFailure(i, written)
       \/ SettlesFailure(i) \/ Persists(i) \/ PersistRollsBack(i)
       \/ Reports(i) \/ ReservesEscalation(i) \/ BlocksBatch(i) \/ EscalationSwallowed(i)
       \/ InvocationDies(i)
  \/ \E b \in SessionBatch : BatchMoves(b)

SessionSpec == SessionInit /\ [][SessionNext]_sessionVars

(***************************************************************************)
(* Properties.                                                             *)
(***************************************************************************)
Succeeded(i) == continuity[i] # NoInvocation /\ continuity[i].outcome # "FAILED"

(* docs/review-workflow-session-continuity.md: one vendor session per      *)
(* batch and role.  Whatever invocations overlap, and whatever sessions    *)
(* their agents answer from, every answer that was accepted for a batch    *)
(* and role came from the session bound there, one of them created it, and *)
(* no session serves two of them.                                          *)
OneSessionPerRole ==
  /\ \A i \in Invocation : Succeeded(i) => continuity[i].returned = bindings[SlotOf(i)]
  /\ \A i, j \in Invocation :
       /\ Succeeded(i) /\ Succeeded(j) /\ i # j
       /\ continuity[i].outcome = "CREATED" /\ continuity[j].outcome = "CREATED"
       => SlotOf(i) # SlotOf(j) /\ bindings[SlotOf(i)] # bindings[SlotOf(j)]

(* The observer's promise: an agent whose outcome is not durable stays     *)
(* marked as running, through crashes and failed audit writes - unless     *)
(* another invocation of the workflow replaced or cleared the marker,      *)
(* which nothing prevents a foreground command from doing.                 *)
UnsettledStaysMarked ==
  \A i \in Invocation \ overtaken :
    invocations[i].spawned /\ audits[i] = "NONE"
    => marker = [invocation |-> i, stage |-> "AGENT_RUNNING"]

(* A broken continuity stops the batch: when the invocation that found it  *)
(* has ended, the batch was blocked or had moved on - unless an escalation *)
(* of that version was interrupted between its two transactions: then no   *)
(* other can be reserved, and the batch stays open.                        *)
BrokenContinuityBlocks ==
  \A i \in Invocation :
    InvocationAt(i, "ENDED") /\ invocations[i].broken
    => \/ BatchOf(i).blocked \/ BatchOf(i).version > invocations[i].version
       \/ [key |-> BatchOf(i).version + 1, done |-> FALSE] \in BatchOf(i).escalations

=============================================================================
