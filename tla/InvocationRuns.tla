---------------------------- MODULE InvocationRuns ----------------------------
(***************************************************************************)
(* The services that put an agent or a verification subprocess behind a    *)
(* command: implementation start/resume/execute and code review            *)
(* (review-workflow-implementation), final audit and verification          *)
(* (review-workflow-gate).  Several operating-system processes - CLI       *)
(* commands, background workers, the autonomous runner - share one         *)
(* database and run the same protocol, without any lock between them:      *)
(*                                                                         *)
(*   read the batch; look the command id up; reserve it; claim the side    *)
(*   effect; await the external call; complete in one transaction.         *)
(*                                                                         *)
(* Every store call outside a transaction is a transaction of its own, and *)
(* any other process may run between two of them.  The store is            *)
(* CommandStore, whose actions are the only ones that touch its variables. *)
(*                                                                         *)
(* A throw ends the call and leaves the store as it is; "error" remembers  *)
(* its kind.  A crash ends the process at any point of the call.           *)
(***************************************************************************)
EXTENDS CommandStore, SequencesExt

CONSTANTS
  Process,
  Runs,           \* command ids executed behind an external call
  Direct,         \* ids of human and system commands: one transaction each
  Supersedes,     \* runs that supersede unstarted reservations (the others are gate runs)
  Scripts,        \* Scripts[c]: what the final transaction of run c may do
  StableIdentity, \* StableIdentity[c]: an identity derived from the id alone, or NoIdentity
  AttemptSeq,     \* one actor execution per attempt, in the order they are generated
  NoCommand,
  MaxCrashes      \* bound: crashes in one behaviour

(***************************************************************************)
(* A script is what one transaction commits when a run returns: how the    *)
(* run itself is settled, and the companion commands it issues, in order   *)
(* (the ready transition, the review decision, a block).                   *)
(***************************************************************************)
Settlements == {"FAIL", "EVIDENCE", "TRANSITION"}

Script == [settle: Settlements, companions: Seq(Command)]

Ops == Settlements \cup {"CREATE", "RESERVE", "APPLY", "RELEASE"}

CompanionIds == UNION {Range(script.companions) : script \in UNION {Scripts[c] : c \in Runs}}

ASSUME RunAssumption ==
  /\ IsFiniteSet(Command) /\ Sha # {}
  /\ Runs \subseteq Command /\ Direct \subseteq Command
  /\ Runs \cap (Direct \cup CompanionIds) = {}
  /\ Supersedes \subseteq Runs
  /\ Scripts \in [Runs -> SUBSET Script]
  /\ \A c \in Runs : KindsOf[c] # {}
  /\ \A c \in Direct \cup CompanionIds : NoKind \in KindsOf[c]
  /\ StableIdentity \in [Runs -> Identity \cup {NoIdentity}]
  /\ AttemptSeq \in Seq(Identity \cap Actor)
  /\ NoCommand \notin Command
  /\ MaxCrashes \in Nat

(* The ids of companions are derived from the run's own id ("<id>:block",  *)
(* "<id>:decision" ...), one for each of the run's commands.               *)
ASSUME CompanionAssumption ==
  /\ Direct \cap CompanionIds = {}
  /\ \A c, d \in Runs : c # d =>
       \A s \in Scripts[c], t \in Scripts[d] : Range(s.companions) \cap Range(t.companions) = {}
  /\ \A c \in Runs : \A s \in Scripts[c] : \A i, j \in DOMAIN s.companions :
       s.companions[i] = s.companions[j] => i = j

VARIABLES
  proc,           \* what each process is doing
  pending,        \* the calls left in the open transaction, <<>> when none is
  attempts,       \* attempts generated so far
  crashes

runVars == <<receipts, archive, batch, events, proc, pending, attempts, crashes>>

PCs == {"IDLE", "BEGUN", "RELEASING", "RESERVING", "CLAIMING", "INVOKING"}

Errors == {"NONE", "COMMAND_ALREADY_RESERVED", "COMMAND_REPLAY_MISMATCH",
           "RESERVATION_REFUSED", "CLAIM_REFUSED", "IDENTITY_TAKEN", "OUTCOME_REFUSED"}

ProcessState ==
  [pc: PCs, command: Command \cup {NoCommand}, version: Nat,
   state: BatchStates \cup {NoState}, actor: Actor \cup {NoIdentity}, error: Errors]

Op == [op: Ops, command: Command, actor: Actor \cup Identity \cup {NoIdentity}]

RunsTypeOK ==
  /\ proc \in [Process -> ProcessState]
  /\ pending \in Seq(Op)
  /\ attempts \in 0..Len(AttemptSeq)
  /\ crashes \in 0..MaxCrashes
  /\ \A p \in Process : proc[p].pc = "IDLE" <=> proc[p].command = NoCommand

Idle(error) ==
  [pc |-> "IDLE", command |-> NoCommand, version |-> 0, state |-> NoState,
   actor |-> NoIdentity, error |-> error]

RunsInit ==
  /\ Init
  /\ proc = [p \in Process |-> Idle("NONE")]
  /\ pending = <<>>
  /\ attempts = 0
  /\ crashes = 0

(***************************************************************************)
(* Steps of a call.                                                        *)
(***************************************************************************)
NoTransaction == pending = <<>>

At(p, pc) == NoTransaction /\ proc[p].pc = pc

Goto(p, pc) ==
  /\ proc' = [proc EXCEPT ![p].pc = pc]
  /\ UNCHANGED <<pending, attempts, crashes>>

(* Seeded fault: the call that ended leaves its command behind.            *)
FaultyThrow(p, error) ==
  /\ proc' = [proc EXCEPT ![p].pc = "IDLE", ![p].error = error]
  /\ UNCHANGED <<receipts, archive, batch, events, pending, attempts, crashes>>

Throw(p, error) ==
  /\ proc' = [proc EXCEPT ![p] = Idle(error)]
  /\ UNCHANGED <<receipts, archive, batch, events, pending, attempts, crashes>>

IdentityOf(p) ==
  IF StableIdentity[proc[p].command] # NoIdentity
  THEN StableIdentity[proc[p].command] ELSE proc[p].actor

(* requireContext and requireState: every service reads the batch and      *)
(* refuses a state it does not serve.  A guard command (execute, final     *)
(* audit, verification) never moves the batch itself.                      *)
ServedStates(c) ==
  IF \E s \in Scripts[c] : s.settle = "TRANSITION"
  THEN ExpectedSourceStates[CommandType[c]]
  ELSE IF CommandType[c] = "RESUME_IMPLEMENTATION" THEN {"IMPLEMENTING"} ELSE {"VERIFYING"}

Companions(script) == Range(script.companions)

Issued(c) ==
  {d \in UNION {Companions(script) : script \in Scripts[c]} : receipts[d] # NoRow}

(* planReservation: an id is free, or held by a reservation that did       *)
(* nothing, or blocked.                                                    *)
Blocked(c) == receipts[c] # NoRow /\ ~UnstartedReleasable(receipts[c])

(* What the fail-fast lookup refuses: a run that supersedes refuses a      *)
(* blocked id; a gate run (replayedCommand) refuses any receipt it finds   *)
(* that has not succeeded, and replays one that has.                       *)
LookupRefuses(c) ==
  IF c \in Supersedes
  THEN batch.context.state \in ServedStates(c) /\ Blocked(c)
  ELSE receipts[c] # NoRow /\ receipts[c].status # "SUCCEEDED"

LookupProceeds(c) == IF c \in Supersedes THEN ~Blocked(c) ELSE receipts[c] = NoRow

(* A run whose companion was committed is never begun again: its id counts *)
(* the persisted attempts and rounds, and the next one has another id.     *)
Begin(p, c) ==
  /\ At(p, "IDLE")
  /\ Issued(c) = {}
  /\ attempts < Len(AttemptSeq)
  /\ LookupProceeds(c)
  /\ batch.context.state \in ServedStates(c)
  /\ attempts' = attempts + 1
  /\ proc' = [proc EXCEPT ![p] =
       [pc |-> IF c \in Supersedes THEN "BEGUN" ELSE "RESERVING",
        command |-> c, version |-> batch.version,
        state |-> batch.context.state, actor |-> AttemptSeq[attempts + 1],
        error |-> "NONE"]]
  /\ UNCHANGED <<receipts, archive, batch, events, pending, crashes>>

BeginRefused(p, c) ==
  /\ At(p, "IDLE")
  /\ LookupRefuses(c)
  /\ Throw(p, IF c \in Supersedes THEN "COMMAND_ALREADY_RESERVED"
                                  ELSE "COMMAND_REPLAY_MISMATCH")

(* reserveInvocationCommand, first transaction: what is under the id now?  *)
Plan(p) ==
  LET c == proc[p].command IN
    /\ At(p, "BEGUN")
    /\ IF Blocked(c) THEN Throw(p, "COMMAND_ALREADY_RESERVED")
       ELSE /\ Goto(p, IF receipts[c] = NoRow THEN "RESERVING" ELSE "RELEASING")
            /\ UNCHANGED <<receipts, archive, batch, events>>

(* Second transaction: releaseUnstartedReservation, which re-checks.       *)
Release(p) ==
  LET c == proc[p].command IN
    /\ At(p, "RELEASING")
    /\ \/ receipts[c] = NoRow /\ UNCHANGED vars /\ Goto(p, "RESERVING")
       \/ ReleaseUnstarted(c) /\ Goto(p, "RESERVING")
       \/ Blocked(c) /\ Throw(p, "COMMAND_ALREADY_RESERVED")

(* Third transaction: reserve.  Another attempt's request never matches.   *)
RequestOf(p) ==
  [actor |-> proc[p].actor, version |-> proc[p].version,
   sha |-> IF CommandType[proc[p].command] = "START_IMPLEMENTATION"
           THEN CHOOSE s \in Sha : TRUE ELSE NoSha,
   kind |-> CHOOSE k \in KindsOf[proc[p].command] : TRUE, accepted |-> TRUE]

ReserveRun(p) ==
  LET c == proc[p].command IN
    /\ At(p, "RESERVING")
    /\ \/ Reserve(c, RequestOf(p)) /\ Goto(p, "CLAIMING")
       \/ /\ receipts[c] # NoRow \/ ~ExpectedVersionMatches(c, RequestOf(p))
          /\ Throw(p, "RESERVATION_REFUSED")

(* Fourth transaction: claim.  No two attempts of one id ever claim with   *)
(* the same identity while its receipt lives (a stable identity belongs to *)
(* a gate run, which supersedes nothing), so a claim is granted or throws. *)
ClaimRun(p) ==
  LET c == proc[p].command IN
    /\ At(p, "CLAIMING")
    /\ \/ Claim(c, IdentityOf(p)) /\ Goto(p, "INVOKING")
       \/ ~Claimable(c) /\ Throw(p, "CLAIM_REFUSED")
       \/ Claimable(c) /\ IdentityBound(IdentityOf(p)) /\ Throw(p, "IDENTITY_TAKEN")

(***************************************************************************)
(* The external call returned, and the final transaction is attempted.     *)
(* SQLite rolls it back when any of its calls throws, so it is opened only *)
(* if all of them will succeed.  The store checks the receipt against the  *)
(* batch; a companion that does not follow a transition is reserved        *)
(* against the version read before the call, except by a gate run, which   *)
(* reads the batch again, and must be one the kernel allows now.           *)
(***************************************************************************)
RunSettles(p, settle) ==
  LET c == proc[p].command
      row == receipts[c]
  IN /\ row # NoRow
     /\ IF settle = "FAIL" THEN row.status \in OutcomeSources("FAILED_FINAL")
                           ELSE CanComplete(row)
     /\ settle = "TRANSITION" =>
          AtExpectedVersion(row) /\ KernelAllows(c) /\ BaseAllows(c)

CompanionsApply(p, script) ==
  /\ \A k \in DOMAIN script.companions : receipts[script.companions[k]] = NoRow
  /\ script.settle # "TRANSITION" /\ script.companions # <<>> =>
       /\ proc[p].command \in Supersedes => proc[p].version = batch.version
       /\ StateAllows(CommandType[script.companions[1]], batch.context)

WillCommit(p, script) == RunSettles(p, script.settle) /\ CompanionsApply(p, script)

Call(op, c, actor) == [op |-> op, command |-> c, actor |-> actor]

(* A companion is reserved by the run's execution, then applied.           *)
CallsOf(p, script) ==
  [k \in 1..(1 + 2 * Len(script.companions)) |->
     IF k = 1 THEN Call(script.settle, proc[p].command, IdentityOf(p))
     ELSE IF k % 2 = 0 THEN Call("RESERVE", script.companions[k \div 2], proc[p].actor)
     ELSE Call("APPLY", script.companions[k \div 2], NoIdentity)]

Return(p) ==
  /\ At(p, "INVOKING")
  /\ \E script \in Scripts[proc[p].command] :
       IF WillCommit(p, script)
       THEN /\ pending' = CallsOf(p, script)
            /\ proc' = [proc EXCEPT ![p] = Idle("NONE")]
            /\ UNCHANGED <<receipts, archive, batch, events, attempts, crashes>>
       ELSE Throw(p, "OUTCOME_REFUSED")

(***************************************************************************)
(* The open transaction runs to its end before anyone else reads.          *)
(***************************************************************************)
CompanionRequest(a) ==
  [actor |-> a, version |-> batch.version, sha |-> NoSha, kind |-> NoKind, accepted |-> TRUE]

StoreCall(call) ==
  LET c == call.command IN
    \/ call.op = "FAIL" /\ RecordOutcome(c, "FAILED_FINAL")
    \/ call.op = "EVIDENCE" /\ SucceedWithoutTransition(c)
    \/ call.op = "TRANSITION" /\ SucceedWithTransition(c, call.actor)
    \/ call.op = "RESERVE" /\ Reserve(c, CompanionRequest(call.actor))
    \/ call.op = "APPLY" /\ SucceedWithTransition(c, NoIdentity)
    \/ call.op = "CREATE" /\ SucceedWithBatchCreation(c)
    \/ call.op = "RELEASE" /\ ReleaseFailedFinal(c)

(* Seeded fault: without runAtomically a crash may cut the sequence short. *)
FaultyTransactionStep ==
  /\ pending # <<>>
  /\ StoreCall(Head(pending))
  /\ pending' \in {<<>>, Tail(pending)}
  /\ UNCHANGED <<proc, attempts, crashes>>

TransactionStep ==
  /\ pending # <<>>
  /\ StoreCall(Head(pending))
  /\ pending' = Tail(pending)
  /\ UNCHANGED <<proc, attempts, crashes>>

(***************************************************************************)
(* Humans: a direct command is reserved and applied in one transaction; a  *)
(* fix_again decision releases every retryable reservation of the batch.   *)
(***************************************************************************)
Humans == Actor \ Range(AttemptSeq)

HumanCommand(c) ==
  /\ NoTransaction
  /\ receipts[c] = NoRow
  /\ StateAllows(CommandType[c], batch.context)
  /\ \E a \in Humans :
       pending' = <<Call("RESERVE", c, a),
                    Call(IF CommandType[c] = "CREATE_BATCH" THEN "CREATE" ELSE "APPLY",
                         c, NoIdentity)>>
  /\ UNCHANGED <<receipts, archive, batch, events, proc, attempts, crashes>>

Retryable == {c \in Command : receipts[c] # NoRow /\ FailedFinalReleasable(receipts[c])}

FixAgain ==
  /\ NoTransaction
  /\ Retryable # {}
  /\ Len(archive) + Cardinality(Retryable) <= MaxArchive
  /\ \E order \in SetToSeqs(Retryable) :
       pending' = [k \in DOMAIN order |-> Call("RELEASE", order[k], NoIdentity)]
  /\ UNCHANGED <<receipts, archive, batch, events, proc, attempts, crashes>>

Crash(p) ==
  /\ NoTransaction
  /\ proc[p].pc # "IDLE"
  /\ crashes < MaxCrashes
  /\ crashes' = crashes + 1
  /\ proc' = [proc EXCEPT ![p] = Idle("NONE")]
  /\ UNCHANGED <<receipts, archive, batch, events, pending, attempts>>

RunsNext ==
  \/ \E p \in Process :
       \/ \E c \in Runs : Begin(p, c) \/ BeginRefused(p, c)
       \/ Plan(p) \/ Release(p) \/ ReserveRun(p) \/ ClaimRun(p) \/ Return(p)
       \/ Crash(p)
  \/ \E c \in Direct : HumanCommand(c)
  \/ FixAgain
  \/ TransactionStep

RunsSpec == RunsInit /\ [][RunsNext]_runVars

(***************************************************************************)
(*                               Properties                                *)
(***************************************************************************)
Invoking(c) == {p \in Process : proc[p].pc = "INVOKING" /\ proc[p].command = c}

(* An agent at work is always accounted for: the process awaiting it holds *)
(* the running receipt of its command, under its own identity, and no      *)
(* other process awaits the same command, whoever raced it, crashed,       *)
(* superseded or released it.                                              *)
InvokerHoldsReceipt ==
  \A c \in Runs, p \in Process : p \in Invoking(c) =>
    /\ receipts[c] # NoRow
    /\ receipts[c].status = "RUNNING"
    /\ receipts[c].identity = IdentityOf(p)
    /\ Invoking(c) = {p}

(* An invocation nobody awaits any more (its process crashed, or its final *)
(* transaction was rolled back) is never touched again: no retry, no       *)
(* superseding and no human release re-invokes it or hides its receipt.    *)
AbandonedStaysVisible ==
  [][\A c \in Runs :
       /\ receipts[c] # NoRow
       /\ receipts[c].status = "RUNNING"
       /\ Invoking(c) = {}
       /\ NoTransaction
       => receipts'[c] = receipts[c]]_runVars

(* The final transaction is all or nothing: between transactions a run     *)
(* that settled has exactly the companions one of its scripts names, and   *)
(* no companion exists without its run.                                    *)
HandoffComplete ==
  NoTransaction => \A c \in Runs :
    /\ \A d \in Issued(c) : SuccessfulRow(receipts[d])
    /\ IF SuccessfulRow(receipts[c])
       THEN \E script \in Scripts[c] :
              script.settle # "FAIL" /\ Issued(c) = Companions(script)
       ELSE \A d \in Issued(c) : \E script \in Scripts[c] :
              script.settle = "FAIL" /\ d \in Companions(script)

(* The services use the store only through its operations, so every        *)
(* invariant of the store holds of them.                                   *)
RunsImplementStore == Spec
=============================================================================
