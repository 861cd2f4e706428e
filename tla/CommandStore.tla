---------------------------- MODULE CommandStore ----------------------------
(***************************************************************************)
(* The durable command store of the review workflow                        *)
(* (packages/core/src/memory/review-workflow-command-store.ts): command    *)
(* receipts, their external side effects, superseded (archived) receipts,  *)
(* the batch aggregate they move and its event log.                        *)
(*                                                                         *)
(* Every public method is one SQLite transaction, so it is one action.     *)
(* Callers are arbitrary: any process may call any method at any time      *)
(* with any request.  A call that throws, and a call that replays a        *)
(* recorded outcome, changes nothing and is a stuttering step.             *)
(***************************************************************************)
EXTENDS BatchKernel, Naturals, Sequences

CONSTANTS
  Command,        \* command ids of one batch
  CommandType,    \* the transition command each id stands for
  KindsOf,        \* the side-effect kinds the callers reserve each id with
  Actor,          \* requesters: actor executions, one per attempt
  Sha,            \* commit shas
  Identity,       \* side-effect identities
  NoSha, NoIdentity, NoRow,
  MaxArchive      \* bound: receipts superseded in one behaviour

SideEffectKinds == {"AGENT_INVOCATION", "VERIFICATION_EXECUTION"}
NoKind == "NO_KIND"

ASSUME CommandAssumption ==
  /\ CommandType \in [Command -> CommandTypes]
  /\ KindsOf \in [Command -> SUBSET (SideEffectKinds \cup {NoKind})]
  /\ MaxArchive \in Nat
  /\ NoSha \notin Sha
  /\ NoIdentity \notin Identity

VARIABLES
  receipts,       \* live receipts (with their side-effect row) by command id
  archive,        \* superseded receipts, in archive row order
  batch,          \* the batch aggregate
  events          \* the batch's event log

vars == <<receipts, archive, batch, events>>

(***************************************************************************)
(* Records.  "accepted" says whether the kernel accepts the actor and the  *)
(* evidence the request carries: both are fixed when it is reserved.       *)
(***************************************************************************)
Request ==
  [actor: Actor, version: Nat, sha: Sha \cup {NoSha},
   kind: SideEffectKinds \cup {NoKind}, accepted: BOOLEAN]

Statuses == {"RESERVED", "RUNNING", "SUCCEEDED", "FAILED_FINAL", "TIMED_OUT",
             "OUTCOME_UNKNOWN", "RECONCILED"}

Effects == {"NO_EFFECT", "NOT_STARTED", "STARTING", "OUTCOME_RECORDED"}

Row ==
  [status: Statuses, effect: Effects, identity: Identity \cup {NoIdentity},
   request: Request, version: Nat, sequence: Nat]

Batch == [context: KernelContext, version: Nat, sequence: Nat, base: Sha \cup {NoSha}]

(* An event names its receipt: the live one of its command while           *)
(* archived = 0, the archived row of that number otherwise.                *)
Event == [command: Command, archived: Nat, version: Nat, sequence: Nat,
          by: Identity \cup {NoIdentity}]

ASSUME NoRowAssumption == NoRow \notin Row

TypeOK ==
  /\ receipts \in [Command -> Row \cup {NoRow}]
  /\ archive \in Seq([command: Command, row: Row])
  /\ batch \in Batch
  /\ events \in Seq(Event)

NoContext == [state |-> NoState, blockedFrom |-> NoState, blockedResume |-> NoState]

Init ==
  /\ receipts = [c \in Command |-> NoRow]
  /\ archive = <<>>
  /\ batch = [context |-> NoContext, version |-> 0, sequence |-> 0, base |-> NoSha]
  /\ events = <<>>

(***************************************************************************)
(* Reservation.  An id that is held replays or conflicts: no change.       *)
(***************************************************************************)
ExpectedVersionMatches(c, r) ==
  IF batch.context.state = NoState
  THEN CommandType[c] = "CREATE_BATCH" /\ r.version = 0
  ELSE r.version = batch.version

ReservedRow(r) ==
  [status |-> "RESERVED",
   effect |-> IF r.kind = NoKind THEN "NO_EFFECT" ELSE "NOT_STARTED",
   identity |-> NoIdentity, request |-> r, version |-> 0, sequence |-> 0]

Reserve(c, r) ==
  /\ receipts[c] = NoRow
  /\ ExpectedVersionMatches(c, r)
  /\ receipts' = [receipts EXCEPT ![c] = ReservedRow(r)]
  /\ UNCHANGED <<archive, batch, events>>

(***************************************************************************)
(* Superseding renames the receipt and everything keyed on it to an        *)
(* archive id; the command id becomes free again.                          *)
(***************************************************************************)
HasDurableState(row) == row.version # 0 \/ row.sequence # 0

Supersede(c) ==
  /\ Len(archive) < MaxArchive
  /\ archive' = Append(archive, [command |-> c, row |-> receipts[c]])
  /\ receipts' = [receipts EXCEPT ![c] = NoRow]
  /\ events' = [n \in DOMAIN events |->
                  IF events[n].command = c /\ events[n].archived = 0
                  THEN [events[n] EXCEPT !.archived = Len(archive) + 1]
                  ELSE events[n]]
  /\ UNCHANGED batch

(* Seeded fault: a timed-out command, whose agent may have worked, is freed. *)
FaultyFailedFinalReleasable(row) ==
  row.status \in {"FAILED_FINAL", "TIMED_OUT"} /\ ~HasDurableState(row)

FailedFinalReleasable(row) == row.status = "FAILED_FINAL" /\ ~HasDurableState(row)

(* Seeded fault: a claimed command, whose agent may be at work, is freed.   *)
FaultyUnstartedReleasable(row) ==
  row.status \in {"RESERVED", "RUNNING"} /\ ~HasDurableState(row)

UnstartedReleasable(row) ==
  /\ row.status = "RESERVED"
  /\ row.identity = NoIdentity
  /\ row.effect \in {"NO_EFFECT", "NOT_STARTED"}
  /\ ~HasDurableState(row)

(* releaseFailedFinalReservation, alone or as one step of the sweep of     *)
(* releaseRetryableReservations.                                           *)
ReleaseFailedFinal(c) ==
  /\ receipts[c] # NoRow
  /\ FailedFinalReleasable(receipts[c])
  /\ Supersede(c)

ReleaseUnstarted(c) ==
  /\ receipts[c] # NoRow
  /\ UnstartedReleasable(receipts[c])
  /\ Supersede(c)

(***************************************************************************)
(* Claiming binds an identity to the side effect, once, and grants its     *)
(* caller the invocation.  The unique index on identities spans archived   *)
(* rows: their side-effect rows are renamed, never deleted.                *)
(***************************************************************************)
IdentityBound(i) ==
  \/ \E c \in Command : receipts[c] # NoRow /\ receipts[c].identity = i
  \/ \E k \in DOMAIN archive : archive[k].row.identity = i

Claimable(c) ==
  /\ receipts[c] # NoRow
  /\ receipts[c].effect = "NOT_STARTED"
  /\ receipts[c].status = "RESERVED"

Claim(c, i) ==
  /\ Claimable(c)
  /\ ~IdentityBound(i)
  /\ receipts' = [receipts EXCEPT ![c].status = "RUNNING",
                                  ![c].effect = "STARTING",
                                  ![c].identity = i]
  /\ UNCHANGED <<archive, batch, events>>

(***************************************************************************)
(* Completion.                                                             *)
(***************************************************************************)
CanComplete(row) ==
  /\ row.status \in {"RESERVED", "RUNNING"}
  /\ row.effect \in {"NO_EFFECT", "STARTING"}

Settled(effect) == IF effect = "STARTING" THEN "OUTCOME_RECORDED" ELSE effect

CompleteReceipt(c, version, sequence) ==
  receipts' = [receipts EXCEPT ![c].status = "SUCCEEDED",
                               ![c].effect = Settled(receipts[c].effect),
                               ![c].version = version,
                               ![c].sequence = sequence]

AppendEvent(c, version, sequence, by) ==
  events' = Append(events, [command |-> c, archived |-> 0, version |-> version,
                            sequence |-> sequence, by |-> by])

KernelAllows(c) ==
  receipts[c].request.accepted /\ StateAllows(CommandType[c], batch.context)

SucceedWithBatchCreation(c) ==
  /\ receipts[c] # NoRow
  /\ CanComplete(receipts[c])
  /\ CommandType[c] = "CREATE_BATCH"
  /\ KernelAllows(c)
  /\ batch' = [context |-> NextContext("CREATE_BATCH", batch.context),
               version |-> receipts[c].request.version + 1,
               sequence |-> 1, base |-> NoSha]
  /\ AppendEvent(c, receipts[c].request.version + 1, 1, NoIdentity)
  /\ CompleteReceipt(c, receipts[c].request.version + 1, 1)
  /\ UNCHANGED archive

(* The transition actor, when the caller names one, must be the execution  *)
(* of the invocation the command claimed.                                  *)
ActorBound(row, by) == by # NoIdentity /\ row.identity # NoIdentity => by = row.identity

(* Seeded fault: a stale success is applied to whatever the batch became.  *)
FaultyAtExpectedVersion(row) == TRUE

AtExpectedVersion(row) == batch.version = row.request.version

(* originalBatchBaseSha: set by START_IMPLEMENTATION, never replaced.      *)
BaseAllows(c) ==
  CommandType[c] = "START_IMPLEMENTATION" =>
    /\ receipts[c].request.sha # NoSha
    /\ batch.base \in {NoSha, receipts[c].request.sha}

NextBase(c) ==
  IF CommandType[c] = "START_IMPLEMENTATION" THEN receipts[c].request.sha ELSE batch.base

SucceedWithTransition(c, by) ==
  /\ receipts[c] # NoRow
  /\ CanComplete(receipts[c])
  /\ CommandType[c] # "CREATE_BATCH"
  /\ batch.context.state # NoState
  /\ AtExpectedVersion(receipts[c])
  /\ ActorBound(receipts[c], by)
  /\ KernelAllows(c)
  /\ BaseAllows(c)
  /\ batch' = [context |-> NextContext(CommandType[c], batch.context),
               version |-> batch.version + 1,
               sequence |-> batch.sequence + 1,
               base |-> NextBase(c)]
  /\ AppendEvent(c, batch.version + 1, batch.sequence + 1, by)
  /\ CompleteReceipt(c, batch.version + 1, batch.sequence + 1)
  /\ UNCHANGED archive

SucceedWithoutTransition(c) ==
  /\ receipts[c] # NoRow
  /\ CanComplete(receipts[c])
  /\ receipts[c].effect # "NO_EFFECT"
  /\ receipts' = [receipts EXCEPT ![c].status = "SUCCEEDED",
                                  ![c].effect = Settled(receipts[c].effect)]
  /\ UNCHANGED <<archive, batch, events>>

(***************************************************************************)
(* recordOutcome: the four outcomes that move no aggregate.                *)
(***************************************************************************)
OutcomeSources(s) ==
  IF s = "RECONCILED" THEN {"TIMED_OUT", "OUTCOME_UNKNOWN"} ELSE {"RESERVED", "RUNNING"}

RecordOutcome(c, s) ==
  /\ receipts[c] # NoRow
  /\ receipts[c].status \in OutcomeSources(s)
  /\ receipts' = [receipts EXCEPT
       ![c].status = s,
       ![c].effect = IF s \in {"FAILED_FINAL", "RECONCILED"}
                     THEN Settled(receipts[c].effect) ELSE receipts[c].effect]
  /\ UNCHANGED <<archive, batch, events>>

Outcomes == {"FAILED_FINAL", "TIMED_OUT", "OUTCOME_UNKNOWN", "RECONCILED"}

(***************************************************************************)
(* Any caller, any order.                                                  *)
(***************************************************************************)
(* The store reads the target sha of START_IMPLEMENTATION requests only.   *)
TargetShas(c) ==
  IF CommandType[c] = "START_IMPLEMENTATION" THEN Sha \cup {NoSha} ELSE {NoSha}

RequestsFor(c) ==
  [actor: Actor, version: {batch.version}, sha: TargetShas(c),
   kind: KindsOf[c], accepted: BOOLEAN]

Next ==
  \E c \in Command :
    \/ \E r \in RequestsFor(c) : Reserve(c, r)
    \/ ReleaseFailedFinal(c)
    \/ ReleaseUnstarted(c)
    \/ \E i \in Identity : Claim(c, i)
    \/ SucceedWithBatchCreation(c)
    \/ \E by \in Identity \cup {NoIdentity} : SucceedWithTransition(c, by)
    \/ SucceedWithoutTransition(c)
    \/ \E s \in Outcomes : RecordOutcome(c, s)

Spec == Init /\ [][Next]_vars

(***************************************************************************)
(*                               Properties                                *)
(***************************************************************************)
SuccessfulRow(row) == row # NoRow /\ row.status = "SUCCEEDED"

(* The event log, the batch aggregate and the receipts tell one story: the *)
(* n-th event moved the batch to version n on behalf of a receipt that was *)
(* reserved against version n-1, has succeeded and has not been            *)
(* superseded; and a receipt with a resulting version owns that event.     *)
EventLogMatchesReceipts ==
  /\ batch.version = Len(events)
  /\ batch.sequence = Len(events)
  /\ \A n \in DOMAIN events :
       /\ events[n].version = n
       /\ events[n].sequence = n
       /\ events[n].archived = 0
       /\ SuccessfulRow(receipts[events[n].command])
       /\ receipts[events[n].command].version = n
       /\ receipts[events[n].command].sequence = n
       /\ receipts[events[n].command].request.version = n - 1
  /\ \A c \in Command :
       receipts[c] # NoRow /\ HasDurableState(receipts[c]) =>
         /\ receipts[c].version \in DOMAIN events
         /\ events[receipts[c].version].command = c

RowAgrees(row) ==
  /\ row.effect = "NO_EFFECT" <=> row.request.kind = NoKind
  /\ row.identity # NoIdentity <=> row.effect \in {"STARTING", "OUTCOME_RECORDED"}
  /\ row.status = "RESERVED" => row.effect \in {"NO_EFFECT", "NOT_STARTED"}
  /\ row.status = "RUNNING" => row.effect = "STARTING"
  /\ row.status = "SUCCEEDED" => row.effect \in {"NO_EFFECT", "OUTCOME_RECORDED"}
  /\ row.effect = "OUTCOME_RECORDED" =>
       row.status \in {"SUCCEEDED", "FAILED_FINAL", "RECONCILED"}

(* A receipt and its side-effect row, written by different statements and  *)
(* read by different guards, never disagree: a reservation has not         *)
(* started, a running one has, a success with a side effect recorded it,   *)
(* and a recorded effect belongs to a receipt that settled.                *)
ReceiptAndEffectAgree ==
  \A c \in Command : receipts[c] # NoRow => RowAgrees(receipts[c])

(* A blocked batch always knows where it came from and resumes at the safe *)
(* state of that origin; no other batch carries a block context.           *)
BlockContextSafe ==
  LET ctx == batch.context IN
    IF ctx.state = "BLOCKED"
    THEN /\ ctx.blockedFrom \in BlockableStates
         /\ ctx.blockedResume = SafeBlockedResumeState[ctx.blockedFrom]
    ELSE ctx.blockedFrom = NoState /\ ctx.blockedResume = NoState

(* Whoever moved the batch for a command that claimed an invocation is     *)
(* that invocation, never another execution the caller could name.         *)
TransitionActorIsClaimant ==
  \A n \in DOMAIN events :
    LET row == receipts[events[n].command] IN
      events[n].by # NoIdentity /\ row # NoRow /\ row.identity # NoIdentity =>
        events[n].by = row.identity

(* Evidence of a started side effect is never lost: its identity stays     *)
(* with the same request, in the live receipt or in the archived copy.     *)
EvidenceStep ==
  \A c \in Command :
    receipts[c] # NoRow /\ receipts[c].identity # NoIdentity =>
      \/ /\ receipts'[c] # NoRow
         /\ receipts'[c].identity = receipts[c].identity
         /\ receipts'[c].request = receipts[c].request
      \/ /\ Len(archive') = Len(archive) + 1
         /\ archive'[Len(archive')] = [command |-> c, row |-> receipts[c]]

EvidenceKept == [][EvidenceStep]_vars

(***************************************************************************)
(* The store implements CommandLedger.  A command is closed once it has    *)
(* settled in any way but FAILED_FINAL; its invocations are the identities *)
(* bound to its live and archived receipts.                                *)
(***************************************************************************)
ClosedStatuses == {"SUCCEEDED", "TIMED_OUT", "OUTCOME_UNKNOWN", "RECONCILED"}

ClosedRow(row) == row # NoRow /\ row.status \in ClosedStatuses

LedgerClosed == {c \in Command : ClosedRow(receipts[c])}

LedgerApplied == [n \in DOMAIN events |-> events[n].command]

LedgerInvoked ==
  {p \in Command \X Identity :
     \/ receipts[p[1]] # NoRow /\ receipts[p[1]].identity = p[2]
     \/ \E k \in DOMAIN archive :
          archive[k].command = p[1] /\ archive[k].row.identity = p[2]}

Ledger == INSTANCE CommandLedger WITH
  closed <- LedgerClosed, applied <- LedgerApplied, invoked <- LedgerInvoked

(* Every behaviour of the store is one the ledger allows: at most one      *)
(* application and no invocation after closing, per command id.            *)
ImplementsLedger == Ledger!Spec
=============================================================================
