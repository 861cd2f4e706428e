------------------------ MODULE InvocationRunsProofs ------------------------
(***************************************************************************)
(* Theorems about the services, for every set of processes, runs and       *)
(* scripts and every number of attempts, crashes and retries.              *)
(***************************************************************************)
EXTENDS InvocationRuns, CommandStoreProofs, FiniteSetTheorems

-----------------------------------------------------------------------------
(* What the store accepts of a pending call, besides its type.             *)
Issuable(call) ==
  /\ call.op = "RESERVE" => call.actor \in Actor /\ NoKind \in KindsOf[call.command]
  /\ call.op = "TRANSITION" => call.actor \in Identity \cup {NoIdentity}

RunsTyped ==
  /\ RunsTypeOK
  /\ \A p \in Process : proc[p].pc # "IDLE" =>
       proc[p].command \in Runs /\ proc[p].actor \in Identity \cap Actor
  /\ \A k \in DOMAIN pending : Issuable(pending[k])

(* Ownership: a process awaiting a run holds its receipt, alone.  The      *)
(* services alone keep it running; the job queue may also write it off, so *)
(* the statuses of a held receipt are a parameter.                         *)
Live(held) == "RUNNING" \in held /\ held \cap {"RESERVED", "FAILED_FINAL"} = {}

Holds(p, held) ==
  LET c == proc[p].command IN
    /\ receipts[c] # NoRow
    /\ receipts[c].status \in held
    /\ receipts[c].identity = IdentityOf(p)

Ownership(held) ==
  /\ \A p \in Process : proc[p].pc = "INVOKING" => Holds(p, held)
  /\ \A p, q \in Process :
       proc[p].pc = "INVOKING" /\ proc[q].pc = "INVOKING"
         /\ proc[p].command = proc[q].command => p = q

(* An open transaction never touches a command somebody is awaiting.       *)
PendingSparesInvokers ==
  \A p \in Process, k \in DOMAIN pending :
    proc[p].pc = "INVOKING" => pending[k].command # proc[p].command

(* The inductive invariant of the services.                                *)
OwnedRuns(held) ==
  /\ StoreInv
  /\ RunsTyped
  /\ Ownership(held)
  /\ PendingSparesInvokers

RunsInv == OwnedRuns({"RUNNING"})

-----------------------------------------------------------------------------
(* Constants.                                                              *)
LEMMA RunIds == Runs \subseteq Command /\ Direct \subseteq Command
BY RunAssumption

(* The identity an attempt claims is an identity.                          *)
LEMMA IdentityTyped ==
  ASSUME RunsTyped, NEW p \in Process, proc[p].pc # "IDLE"
  PROVE  IdentityOf(p) \in Identity
<1>1. proc[p].command \in Runs /\ proc[p].actor \in Identity
  BY DEF RunsTyped
<1>2. StableIdentity[proc[p].command] \in Identity \cup {NoIdentity}
  BY <1>1, RunAssumption
<1> QED BY <1>1, <1>2 DEF IdentityOf

(* A request that passes the version check is one the store enumerates.    *)
LEMMA VersionPinned ==
  ASSUME StoreInv, NEW c \in Command, NEW r, ExpectedVersionMatches(c, r)
  PROVE  r.version = batch.version
BY DEF StoreInv, UnbornBatch, ExpectedVersionMatches

LEMMA RequestEnumerated ==
  ASSUME StoreInv, RunsTyped, NEW p \in Process, proc[p].pc # "IDLE",
         ExpectedVersionMatches(proc[p].command, RequestOf(p))
  PROVE  RequestOf(p) \in RequestsFor(proc[p].command)
<1> DEFINE c == proc[p].command
<1>1. c \in Runs /\ c \in Command /\ proc[p].actor \in Actor
  BY RunIds DEF RunsTyped
<1>2. RequestOf(p).version = batch.version
  BY <1>1, VersionPinned
<1>3. (CHOOSE k \in KindsOf[c] : TRUE) \in KindsOf[c]
  BY <1>1, RunAssumption
<1>4. (CHOOSE s \in Sha : TRUE) \in Sha
  BY RunAssumption
<1>5. proc[p].version = batch.version
  BY <1>2 DEF RequestOf
<1> QED BY <1>1, <1>3, <1>4, <1>5 DEF RequestOf, RequestsFor, TargetShas

(* A call of an open transaction is a step of the store.                   *)
LEMMA StoreCallStep ==
  ASSUME StoreInv, NEW call \in Op, Issuable(call), StoreCall(call)
  PROVE  /\ Next
         /\ \A d \in Command : d # call.command => receipts'[d] = receipts[d]
<1> DEFINE c == call.command
<1>1. c \in Command
  BY DEF Op
<1>2. CASE call.op = "FAIL" /\ RecordOutcome(c, "FAILED_FINAL")
  BY <1>1, <1>2 DEF Next, Outcomes, RecordOutcome, StoreInv, TypeOK
<1>3. CASE call.op = "EVIDENCE" /\ SucceedWithoutTransition(c)
  BY <1>1, <1>3 DEF Next, SucceedWithoutTransition, StoreInv, TypeOK
<1>4. CASE call.op = "TRANSITION" /\ SucceedWithTransition(c, call.actor)
  BY <1>1, <1>4 DEF Next, Issuable, SucceedWithTransition, CompleteReceipt, StoreInv, TypeOK
<1>5. CASE call.op = "RESERVE" /\ Reserve(c, CompanionRequest(call.actor))
  <2>1. CompanionRequest(call.actor) \in RequestsFor(c)
    BY <1>1, <1>5 DEF Issuable, CompanionRequest, RequestsFor, TargetShas
  <2> QED BY <1>1, <1>5, <2>1 DEF Next, Reserve, StoreInv, TypeOK
<1>6. CASE call.op = "APPLY" /\ SucceedWithTransition(c, NoIdentity)
  BY <1>1, <1>6 DEF Next, SucceedWithTransition, CompleteReceipt, StoreInv, TypeOK
<1>7. CASE call.op = "CREATE" /\ SucceedWithBatchCreation(c)
  BY <1>1, <1>7 DEF Next, SucceedWithBatchCreation, CompleteReceipt, StoreInv, TypeOK
<1>8. CASE call.op = "RELEASE" /\ ReleaseFailedFinal(c)
  BY <1>1, <1>8 DEF Next, ReleaseFailedFinal, Supersede, StoreInv, TypeOK
<1> QED BY <1>2, <1>3, <1>4, <1>5, <1>6, <1>7, <1>8 DEF StoreCall

(* The head of an open transaction is such a call.                         *)
LEMMA HeadIssuable ==
  ASSUME RunsTyped, pending # <<>>
  PROVE  /\ Head(pending) \in Op /\ Issuable(Head(pending))
         /\ 1 \in DOMAIN pending /\ Head(pending) = pending[1]
<1>1. pending \in Seq(Op)
  BY DEF RunsTyped, RunsTypeOK
<1>2. 1 \in DOMAIN pending /\ Head(pending) = pending[1] /\ Head(pending) \in Op
  BY <1>1
<1> QED BY <1>2 DEF RunsTyped

(* Every step of the services is a step of the store or leaves it alone.   *)
LEMMA RunsStepIsStoreStep ==
  ASSUME StoreInv, RunsTyped, [RunsNext]_runVars
  PROVE  [Next]_vars
<1>1. CASE UNCHANGED runVars
  BY <1>1 DEF runVars, vars
<1>2. ASSUME NEW p \in Process, NEW c \in Runs, Begin(p, c) \/ BeginRefused(p, c)
      PROVE  [Next]_vars
  BY <1>2 DEF Begin, BeginRefused, Throw, vars
<1>3. ASSUME NEW p \in Process, Plan(p)
      PROVE  [Next]_vars
  BY <1>3 DEF Plan, Throw, vars
<1>4. ASSUME NEW p \in Process, Release(p)
      PROVE  [Next]_vars
  <2>1. proc[p].command \in Command
    BY <1>4, RunIds DEF Release, At, RunsTyped
  <2> QED BY <1>4, <2>1 DEF Release, Throw, vars, Next
<1>5. ASSUME NEW p \in Process, ReserveRun(p)
      PROVE  [Next]_vars
  <2>1. proc[p].pc # "IDLE" /\ proc[p].command \in Command
    BY <1>5, RunIds DEF ReserveRun, At, RunsTyped
  <2>2. CASE Reserve(proc[p].command, RequestOf(p))
    <3>1. RequestOf(p) \in RequestsFor(proc[p].command)
      BY <2>1, <2>2, RequestEnumerated DEF Reserve
    <3> QED BY <2>1, <2>2, <3>1 DEF Next
  <2>3. CASE Throw(p, "RESERVATION_REFUSED")
    BY <2>3 DEF Throw, vars
  <2> QED BY <1>5, <2>2, <2>3 DEF ReserveRun
<1>6. ASSUME NEW p \in Process, ClaimRun(p)
      PROVE  [Next]_vars
  <2>1. proc[p].pc # "IDLE" /\ proc[p].command \in Command
    BY <1>6, RunIds DEF ClaimRun, At, RunsTyped
  <2>2. IdentityOf(p) \in Identity
    BY <2>1, IdentityTyped
  <2>3. CASE Claim(proc[p].command, IdentityOf(p))
    BY <2>1, <2>2, <2>3 DEF Next
  <2>4. CASE Throw(p, "CLAIM_REFUSED") \/ Throw(p, "IDENTITY_TAKEN")
    BY <2>4 DEF Throw, vars
  <2> QED BY <1>6, <2>3, <2>4 DEF ClaimRun
<1>7. ASSUME NEW p \in Process, Return(p) \/ Crash(p)
      PROVE  [Next]_vars
  BY <1>7 DEF Return, Crash, Throw, vars
<1>8. ASSUME NEW c \in Direct, HumanCommand(c)
      PROVE  [Next]_vars
  BY <1>8 DEF HumanCommand, vars
<1>9. CASE FixAgain
  BY <1>9 DEF FixAgain, vars
<1>10. CASE TransactionStep
  BY <1>10, HeadIssuable, StoreCallStep DEF TransactionStep
<1> QED BY <1>1, <1>2, <1>3, <1>4, <1>5, <1>6, <1>7, <1>8, <1>9, <1>10 DEF RunsNext

-----------------------------------------------------------------------------
(* Types of the services' own state.                                       *)
LEMMA RunsTypedInit == RunsInit => RunsTyped
<1> SUFFICES ASSUME RunsInit PROVE RunsTyped
  OBVIOUS
<1>1. pending = <<>> /\ DOMAIN pending = {} /\ pending \in Seq(Op)
  BY DEF RunsInit
<1>2. Idle("NONE") \in ProcessState
  BY DEF Idle, ProcessState, PCs, Errors
<1>3. AttemptSeq \in Seq(Identity \cap Actor) /\ MaxCrashes \in Nat
  BY RunAssumption
<1>4. \A p \in Process : proc[p].pc = "IDLE" /\ proc[p].command = NoCommand
  BY DEF RunsInit, Idle
<1>5. attempts \in 0..Len(AttemptSeq) /\ crashes \in 0..MaxCrashes
  BY <1>3 DEF RunsInit
<1>6. proc \in [Process -> ProcessState]
  BY <1>2 DEF RunsInit
<1> QED BY <1>1, <1>4, <1>5, <1>6 DEF RunsTyped, RunsTypeOK

(* What a step does to the processes keeps their type.                     *)
ProcTyped(row) ==
  /\ row \in ProcessState
  /\ row.pc = "IDLE" <=> row.command = NoCommand
  /\ row.pc # "IDLE" => row.command \in Runs /\ row.actor \in Identity \cap Actor

LEMMA IdleTyped ==
  ASSUME NEW error \in Errors
  PROVE  ProcTyped(Idle(error)) /\ Idle(error).pc = "IDLE"
BY DEF ProcTyped, Idle, ProcessState, PCs

LEMMA MoveTyped ==
  ASSUME NEW row, ProcTyped(row), row.pc # "IDLE", NEW pc \in PCs \ {"IDLE"}
  PROVE  ProcTyped([row EXCEPT !.pc = pc])
BY DEF ProcTyped, ProcessState, PCs

LEMMA ProcsAreTyped ==
  ASSUME RunsTyped, NEW p \in Process
  PROVE  ProcTyped(proc[p])
BY DEF RunsTyped, RunsTypeOK, ProcTyped

(* A step that moves one process, from the idle record or along its call,  *)
(* and leaves the transaction alone, preserves the types.                  *)
LEMMA OneProcessTyped ==
  ASSUME RunsTyped, NEW p \in Process, NEW row, ProcTyped(row),
         proc' = [proc EXCEPT ![p] = row],
         pending' = pending, attempts' \in 0..Len(AttemptSeq), crashes' \in 0..MaxCrashes
  PROVE  RunsTyped'
<1>1. proc' \in [Process -> ProcessState]
  BY DEF RunsTyped, RunsTypeOK, ProcTyped
<1>2. \A q \in Process : ProcTyped(proc[q])
  BY ProcsAreTyped
<1>3. \A q \in Process : ProcTyped(proc'[q])
  BY <1>2 DEF RunsTyped, RunsTypeOK
<1>4. \A k \in DOMAIN pending' : Issuable(pending'[k])
  BY DEF RunsTyped
<1>5. pending' \in Seq(Op)
  BY DEF RunsTyped, RunsTypeOK
<1>6. RunsTypeOK'
  BY <1>1, <1>3, <1>5 DEF RunsTypeOK, ProcTyped
<1>7. (\A q \in Process : proc[q].pc # "IDLE" =>
         proc[q].command \in Runs /\ proc[q].actor \in Identity \cap Actor)'
  BY <1>3 DEF ProcTyped
<1>8. (\A k \in DOMAIN pending : Issuable(pending[k]))'
  BY <1>4 DEF Issuable
<1> QED BY <1>6, <1>7, <1>8 DEF RunsTyped

LEMMA CountersTyped ==
  ASSUME RunsTyped
  PROVE  /\ attempts \in 0..Len(AttemptSeq) /\ crashes \in 0..MaxCrashes
         /\ attempts \in Nat /\ crashes \in Nat
         /\ Len(AttemptSeq) \in Nat /\ MaxCrashes \in Nat
BY RunAssumption DEF RunsTyped, RunsTypeOK

LEMMA ThrowTyped ==
  ASSUME RunsTyped, NEW p \in Process, NEW error \in Errors, Throw(p, error)
  PROVE  RunsTyped'
<1>1. ProcTyped(Idle(error))
  BY IdleTyped
<1> QED BY <1>1, OneProcessTyped, CountersTyped DEF Throw

LEMMA GotoTyped ==
  ASSUME RunsTyped, NEW p \in Process, proc[p].pc # "IDLE",
         NEW pc \in PCs \ {"IDLE"}, Goto(p, pc)
  PROVE  RunsTyped'
<1>1. ProcTyped([proc[p] EXCEPT !.pc = pc])
  BY ProcsAreTyped, MoveTyped
<1>2. proc' = [proc EXCEPT ![p] = [proc[p] EXCEPT !.pc = pc]]
  BY DEF Goto, RunsTyped, RunsTypeOK
<1> QED BY <1>1, <1>2, OneProcessTyped, CountersTyped DEF Goto

LEMMA BeginTyped ==
  ASSUME RunsTyped, NEW p \in Process, NEW c \in Runs, StoreInv, Begin(p, c)
  PROVE  RunsTyped'
<1>1. attempts + 1 \in 1..Len(AttemptSeq)
  BY CountersTyped DEF Begin
<1>2. AttemptSeq[attempts + 1] \in Identity \cap Actor
  BY <1>1, RunAssumption
<1>3. batch.version \in Nat /\ batch.context.state \in BatchStates \cup {NoState}
  BY DEF StoreInv, TypeOK, Batch, KernelContext
<1>4. c \in Command /\ c # NoCommand
  BY RunAssumption
<1> DEFINE row == [pc |-> IF c \in Supersedes THEN "BEGUN" ELSE "RESERVING",
        command |-> c, version |-> batch.version,
        state |-> batch.context.state, actor |-> AttemptSeq[attempts + 1],
        error |-> "NONE"]
<1>5. ProcTyped(row)
  BY <1>2, <1>3, <1>4 DEF ProcTyped, ProcessState, PCs, Errors
<1>6. proc' = [proc EXCEPT ![p] = row]
  BY DEF Begin
<1>7. attempts' \in 0..Len(AttemptSeq) /\ crashes' \in 0..MaxCrashes /\ pending' = pending
  BY <1>1, CountersTyped DEF Begin
<1> HIDE DEF row
<1> QED BY <1>5, <1>6, <1>7, OneProcessTyped

(* A step that opens a transaction and may end one process's call.         *)
LEMMA OpenTyped ==
  ASSUME RunsTyped,
         pending' \in Seq(Op), \A k \in DOMAIN pending' : Issuable(pending'[k]),
         attempts' = attempts, crashes' = crashes,
         proc' = proc \/ \E p \in Process : proc' = [proc EXCEPT ![p] = Idle("NONE")]
  PROVE  RunsTyped'
<1>1. ProcTyped(Idle("NONE"))
  BY IdleTyped DEF Errors
<1>2. \A q \in Process : ProcTyped(proc[q])
  BY ProcsAreTyped
<1>3. \A q \in Process : ProcTyped(proc'[q])
  BY <1>1, <1>2 DEF RunsTyped, RunsTypeOK
<1>4. proc' \in [Process -> ProcessState]
  BY <1>1 DEF RunsTyped, RunsTypeOK, ProcTyped
<1>5. RunsTypeOK'
  BY <1>3, <1>4, CountersTyped DEF RunsTypeOK, ProcTyped
<1>6. (\A q \in Process : proc[q].pc # "IDLE" =>
         proc[q].command \in Runs /\ proc[q].actor \in Identity \cap Actor)'
  BY <1>3 DEF ProcTyped
<1>7. (\A k \in DOMAIN pending : Issuable(pending[k]))'
  BY DEF Issuable
<1> QED BY <1>5, <1>6, <1>7 DEF RunsTyped

LEMMA ScriptTyped ==
  ASSUME NEW c \in Runs, NEW script \in Scripts[c]
  PROVE  /\ script.settle \in Settlements
         /\ Len(script.companions) \in Nat
         /\ \A k \in 1..Len(script.companions) :
              /\ script.companions[k] \in Command
              /\ script.companions[k] \in CompanionIds
              /\ NoKind \in KindsOf[script.companions[k]]
<1>1. script \in Script
  BY RunAssumption
<1>2. script.companions \in Seq(Command) /\ script.settle \in Settlements
  BY <1>1 DEF Script
<1>3. \A k \in 1..Len(script.companions) : script.companions[k] \in CompanionIds
  BY <1>2 DEF CompanionIds, Range
<1> QED BY <1>2, <1>3, RunAssumption

(* The calls of a script are issuable, and only the first is of the run.   *)
LEMMA CallsTyped ==
  ASSUME RunsTyped, NEW p \in Process, proc[p].pc = "INVOKING",
         NEW script \in Scripts[proc[p].command]
  PROVE  /\ CallsOf(p, script) \in Seq(Op)
         /\ \A k \in DOMAIN CallsOf(p, script) :
              /\ Issuable(CallsOf(p, script)[k])
              /\ CallsOf(p, script)[k].command \in {proc[p].command} \cup CompanionIds
<1> DEFINE c == proc[p].command
           n == Len(script.companions)
<1>1. c \in Runs /\ c \in Command /\ proc[p].actor \in Actor
  BY RunIds DEF RunsTyped
<1>2. IdentityOf(p) \in Identity
  BY IdentityTyped
<1>3. n \in Nat /\ script.settle \in Settlements
  BY <1>1, ScriptTyped
<1>4. ASSUME NEW k \in 2..(1 + 2 * n)
      PROVE  k \div 2 \in 1..n
  BY <1>3
<1>5. ASSUME NEW k \in 1..(1 + 2 * n)
      PROVE  /\ CallsOf(p, script)[k] \in Op
             /\ Issuable(CallsOf(p, script)[k])
             /\ CallsOf(p, script)[k].command \in {c} \cup CompanionIds
  <2>1. CASE k = 1
    <3>1. CallsOf(p, script)[k] = Call(script.settle, c, IdentityOf(p))
      BY <1>3, <2>1 DEF CallsOf
    <3> QED BY <1>1, <1>2, <1>3, <3>1 DEF Call, Op, Ops, Settlements, Issuable
  <2>2. CASE k # 1
    <3> DEFINE d == script.companions[k \div 2]
    <3>1. k \div 2 \in 1..n
      BY <1>3, <1>4, <2>2
    <3>2. d \in Command /\ d \in CompanionIds /\ NoKind \in KindsOf[d]
      BY <1>1, <3>1, ScriptTyped
    <3>3. CallsOf(p, script)[k] \in
            {Call("RESERVE", d, proc[p].actor), Call("APPLY", d, NoIdentity)}
      BY <1>3, <2>2 DEF CallsOf
    <3> HIDE DEF d
    <3> QED BY <1>1, <3>2, <3>3 DEF Call, Op, Ops, Issuable
  <2> QED BY <2>1, <2>2
<1>6. DOMAIN CallsOf(p, script) = 1..(1 + 2 * n) /\ 1 + 2 * n \in Nat
  BY <1>3 DEF CallsOf
<1>7. CallsOf(p, script) = [k \in 1..(1 + 2 * n) |-> CallsOf(p, script)[k]]
  BY <1>6 DEF CallsOf
<1>8. CallsOf(p, script) \in Seq(Op)
  BY <1>5, <1>6, <1>7
<1> QED BY <1>5, <1>6, <1>8

(* The release calls of a human decision, in any order.                    *)
LEMMA SweepTyped ==
  ASSUME NEW order \in SetToSeqs(Retryable), NEW calls,
         calls = [k \in DOMAIN order |-> Call("RELEASE", order[k], NoIdentity)]
  PROVE  /\ calls \in Seq(Op)
         /\ \A k \in DOMAIN calls : Issuable(calls[k]) /\ calls[k].command \in Retryable
<1>1. Retryable \subseteq Command /\ IsFiniteSet(Command)
  BY RunAssumption DEF Retryable
<1>2. Cardinality(Retryable) \in Nat
  BY <1>1, FS_Subset, FS_CardinalityType
<1>3. order \in [1..Cardinality(Retryable) -> Retryable]
  BY DEF SetToSeqs
<1>4. \A k \in 1..Cardinality(Retryable) :
        calls[k] = Call("RELEASE", order[k], NoIdentity) /\ order[k] \in Retryable
  BY <1>3
<1>5. ASSUME NEW k \in 1..Cardinality(Retryable)
      PROVE  calls[k] \in Op /\ Issuable(calls[k]) /\ calls[k].command \in Retryable
  <2>1. PICK d \in Retryable : calls[k] = Call("RELEASE", d, NoIdentity)
    BY <1>4
  <2>2. d \in Command
    BY <1>1
  <2> QED BY <2>1, <2>2 DEF Call, Op, Ops, Issuable
<1>6. DOMAIN calls = 1..Cardinality(Retryable)
      /\ calls = [k \in 1..Cardinality(Retryable) |-> calls[k]]
  BY <1>3
<1>7. calls \in Seq(Op)
  BY <1>2, <1>5, <1>6
<1> QED BY <1>5, <1>6, <1>7

LEMMA TailTyped ==
  ASSUME RunsTyped, pending # <<>>
  PROVE  /\ Tail(pending) \in Seq(Op)
         /\ \A k \in DOMAIN Tail(pending) :
              k + 1 \in DOMAIN pending /\ Tail(pending)[k] = pending[k + 1]
         /\ \A k \in DOMAIN Tail(pending) : Issuable(Tail(pending)[k])
<1>1. pending \in Seq(Op)
  BY DEF RunsTyped, RunsTypeOK
<1>2. /\ Tail(pending) \in Seq(Op)
      /\ \A k \in DOMAIN Tail(pending) :
           k + 1 \in DOMAIN pending /\ Tail(pending)[k] = pending[k + 1]
  BY <1>1
<1>3. \A k \in DOMAIN pending : Issuable(pending[k])
  BY DEF RunsTyped
<1> QED BY <1>2, <1>3

LEMMA HumanTyped ==
  ASSUME RunsTyped, NEW c \in Direct, HumanCommand(c)
  PROVE  RunsTyped' /\ \A k \in DOMAIN pending' : pending'[k].command = c
<1>1. PICK a \in Humans :
        pending' = <<Call("RESERVE", c, a),
                     Call(IF CommandType[c] = "CREATE_BATCH" THEN "CREATE" ELSE "APPLY",
                          c, NoIdentity)>>
  BY DEF HumanCommand
<1>2. c \in Command /\ a \in Actor /\ NoKind \in KindsOf[c]
  BY RunAssumption DEF Humans
<1> DEFINE first == Call("RESERVE", c, a)
           second == Call(IF CommandType[c] = "CREATE_BATCH" THEN "CREATE" ELSE "APPLY",
                          c, NoIdentity)
<1>3. first \in Op /\ second \in Op /\ Issuable(first) /\ Issuable(second)
      /\ first.command = c /\ second.command = c
  BY <1>2 DEF Call, Op, Ops, Issuable
<1> HIDE DEF first, second
<1>4. pending' = <<first, second>>
  BY <1>1 DEF first, second
<1>5. pending' \in Seq(Op)
      /\ \A k \in DOMAIN pending' : pending'[k] \in {first, second}
  BY <1>3, <1>4
<1>6. \A k \in DOMAIN pending' : Issuable(pending'[k]) /\ pending'[k].command = c
  BY <1>3, <1>5
<1>7. attempts' = attempts /\ crashes' = crashes /\ proc' = proc
  BY DEF HumanCommand
<1>8. RunsTyped'
  BY <1>5, <1>6, <1>7, OpenTyped
<1> QED BY <1>6, <1>8

(* Types are preserved by every step.                                      *)
LEMMA RunsTypedStep ==
  ASSUME StoreInv, RunsTyped, [RunsNext]_runVars
  PROVE  RunsTyped'
<1>1. CASE UNCHANGED runVars
  BY <1>1 DEF runVars, RunsTyped, RunsTypeOK, Issuable
<1>2. ASSUME NEW p \in Process, NEW c \in Runs, Begin(p, c) \/ BeginRefused(p, c)
      PROVE  RunsTyped'
  BY <1>2, BeginTyped, ThrowTyped DEF BeginRefused, Errors
<1>3. ASSUME NEW p \in Process, Plan(p) \/ Release(p) \/ ReserveRun(p) \/ ClaimRun(p)
      PROVE  RunsTyped'
  <2>1. proc[p].pc # "IDLE"
    BY <1>3 DEF Plan, Release, ReserveRun, ClaimRun, At
  <2>2. \/ \E pc \in PCs \ {"IDLE"} : Goto(p, pc)
        \/ \E error \in Errors : Throw(p, error)
    BY <1>3 DEF Plan, Release, ReserveRun, ClaimRun, PCs, Errors
  <2> QED BY <2>1, <2>2, GotoTyped, ThrowTyped
<1>4. ASSUME NEW p \in Process, Return(p)
      PROVE  RunsTyped'
  <2>1. proc[p].pc = "INVOKING"
    BY <1>4 DEF Return, At
  <2>2. CASE Throw(p, "OUTCOME_REFUSED")
    BY <2>2, ThrowTyped DEF Errors
  <2>3. ASSUME NEW script \in Scripts[proc[p].command],
               pending' = CallsOf(p, script),
               proc' = [proc EXCEPT ![p] = Idle("NONE")],
               UNCHANGED <<receipts, archive, batch, events, attempts, crashes>>
        PROVE  RunsTyped'
    BY <2>1, <2>3, CallsTyped, OpenTyped
  <2> QED BY <1>4, <2>2, <2>3 DEF Return
<1>5. ASSUME NEW p \in Process, Crash(p)
      PROVE  RunsTyped'
  <2>1. ProcTyped(Idle("NONE"))
    BY IdleTyped DEF Errors
  <2>2. crashes' \in 0..MaxCrashes
    BY <1>5, CountersTyped DEF Crash
  <2> QED BY <1>5, <2>1, <2>2, OneProcessTyped, CountersTyped DEF Crash
<1>6. ASSUME NEW c \in Direct, HumanCommand(c)
      PROVE  RunsTyped'
  BY <1>6, HumanTyped
<1>7. CASE FixAgain
  BY <1>7, SweepTyped, OpenTyped DEF FixAgain
<1>8. CASE TransactionStep
  BY <1>8, TailTyped, OpenTyped DEF TransactionStep
<1> QED BY <1>1, <1>2, <1>3, <1>4, <1>5, <1>6, <1>7, <1>8 DEF RunsNext

-----------------------------------------------------------------------------
(* Ownership is preserved.                                                 *)
(* A claim needs a reserved receipt, so its command has no other invoker.  *)
LEMMA ClaimIsExclusive ==
  ASSUME NEW held, Live(held), OwnedRuns(held), NEW p \in Process, proc[p].pc = "CLAIMING",
         Claim(proc[p].command, IdentityOf(p)), Goto(p, "INVOKING")
  PROVE  Ownership(held)'
<1> DEFINE c == proc[p].command
<1>1. RunsTyped /\ RunsTyped'
  BY GotoTyped DEF OwnedRuns, PCs
<1>2. c \in Command
  BY <1>1, RunIds DEF RunsTyped
<1>3. \A q \in Process : proc[q].pc = "INVOKING" => Holds(q, held) /\ proc[q].command # c
  BY DEF OwnedRuns, Ownership, Claim, Claimable, Holds, Live
<1>4. /\ \A q \in Process \ {p} : proc'[q] = proc[q]
      /\ proc'[p] = [proc[p] EXCEPT !.pc = "INVOKING"]
  BY <1>1 DEF Goto, RunsTyped, RunsTypeOK
<1>5. proc'[p].command = c /\ proc'[p].actor = proc[p].actor
  BY <1>4 DEF RunsTyped, RunsTypeOK, ProcessState
<1>6. receipts[c] \in Row
  BY <1>2, LiveRow DEF OwnedRuns, StoreInv, Claim, Claimable
<1>7. /\ receipts'[c] \in Row
      /\ receipts'[c].status = "RUNNING" /\ receipts'[c].identity = IdentityOf(p)
  <2>1. receipts'[c] = [receipts[c] EXCEPT !.status = "RUNNING", !.effect = "STARTING",
                                           !.identity = IdentityOf(p)]
    BY <1>2 DEF Claim, OwnedRuns, StoreInv, TypeOK
  <2>2. IdentityOf(p) \in Identity
    BY <1>1, IdentityTyped
  <2>3. receipts'[c] \in Row
    BY <1>6, <2>1, <2>2, RowUpdates
  <2> QED BY <1>6, <2>1, <2>3 DEF Row
<1>8. \A q \in Process :
        proc[q].pc = "INVOKING" => receipts'[proc[q].command] = receipts[proc[q].command]
  BY <1>1, <1>3, RunIds DEF Claim, RunsTyped, OwnedRuns, StoreInv, TypeOK
<1>9. ASSUME NEW q \in Process, proc'[q].pc = "INVOKING"
      PROVE  Holds(q, held)'
  <2>1. CASE q = p
    BY <1>5, <1>7, <2>1, NoRowAssumption DEF Holds, IdentityOf, Live
  <2>2. CASE q # p
    BY <1>3, <1>4, <1>8, <1>9, <2>2 DEF Holds, IdentityOf
  <2> QED BY <2>1, <2>2
<1>10. ASSUME NEW q \in Process, NEW r \in Process,
              proc'[q].pc = "INVOKING", proc'[r].pc = "INVOKING",
              proc'[q].command = proc'[r].command
       PROVE  q = r
  <2>1. CASE q = p
    BY <1>3, <1>4, <1>5, <1>10, <2>1
  <2>2. CASE r = p
    BY <1>3, <1>4, <1>5, <1>10, <2>2
  <2>3. CASE q # p /\ r # p
    BY <1>4, <1>10, <2>3 DEF OwnedRuns, Ownership
  <2> QED BY <2>1, <2>2, <2>3
<1> QED BY <1>9, <1>10 DEF Ownership

(* A step that leaves every running receipt with its invoker alone, starts *)
(* no invocation and opens no transaction on an awaited command.           *)
LEMMA OwnershipKept ==
  ASSUME NEW held, Live(held), OwnedRuns(held),
         \A q \in Process : proc'[q].pc = "INVOKING" =>
           /\ proc'[q] = proc[q]
           /\ receipts'[proc[q].command] = receipts[proc[q].command]
  PROVE  Ownership(held)'
BY DEF OwnedRuns, Ownership, Holds, IdentityOf

LEMMA MovedAlone ==
  ASSUME RunsTyped, NEW p \in Process, NEW row, proc' = [proc EXCEPT ![p] = row],
         row.pc # "INVOKING"
  PROVE  \A q \in Process : proc'[q].pc = "INVOKING" => proc'[q] = proc[q]
BY DEF RunsTyped, RunsTypeOK

LEMMA ThrowOrGoto ==
  ASSUME RunsTyped, NEW p \in Process,
         \/ \E error \in Errors : Throw(p, error)
         \/ \E pc \in PCs \ {"IDLE", "INVOKING"} : Goto(p, pc)
  PROVE  /\ pending' = pending
         /\ \A q \in Process : proc'[q].pc = "INVOKING" => proc'[q] = proc[q]
<1>1. ASSUME NEW error \in Errors, Throw(p, error)
      PROVE  /\ pending' = pending
             /\ \A q \in Process : proc'[q].pc = "INVOKING" => proc'[q] = proc[q]
  BY <1>1, IdleTyped, MovedAlone DEF Throw
<1>2. ASSUME NEW pc \in PCs \ {"IDLE", "INVOKING"}, Goto(p, pc)
      PROVE  /\ pending' = pending
             /\ \A q \in Process : proc'[q].pc = "INVOKING" => proc'[q] = proc[q]
  <2>1. proc' = [proc EXCEPT ![p] = [proc[p] EXCEPT !.pc = pc]]
    BY <1>2 DEF Goto, RunsTyped, RunsTypeOK
  <2>2. [proc[p] EXCEPT !.pc = pc].pc # "INVOKING"
    BY <1>2 DEF RunsTyped, RunsTypeOK, ProcessState
  <2> QED BY <1>2, <2>1, <2>2, MovedAlone DEF Goto
<1> QED BY <1>1, <1>2

(* Store operations on one command leave the others' receipts alone.       *)
LEMMA OthersUntouched ==
  ASSUME NEW c \in Command, TypeOK,
         \/ \E r : Reserve(c, r)
         \/ ReleaseUnstarted(c)
  PROVE  \A d \in Command : d # c => receipts'[d] = receipts[d]
BY DEF Reserve, ReleaseUnstarted, Supersede, TypeOK

LEMMA InvokerCommands ==
  ASSUME NEW held, Live(held), OwnedRuns(held), NEW q \in Process, proc[q].pc = "INVOKING"
  PROVE  /\ proc[q].command \in Runs /\ proc[q].command \in Command
         /\ receipts[proc[q].command] # NoRow
         /\ receipts[proc[q].command].status \notin {"RESERVED", "FAILED_FINAL"}
BY RunIds DEF OwnedRuns, RunsTyped, Ownership, Holds, Live

(* Ownership, and the reach of open transactions, in one step.             *)
LEMMA OwnershipStep ==
  ASSUME NEW held, Live(held), OwnedRuns(held), [RunsNext]_runVars
  PROVE  Ownership(held)' /\ PendingSparesInvokers'
<1>1. RunsTyped /\ StoreInv /\ TypeOK
  BY DEF OwnedRuns, StoreInv
<1>e. /\ DOMAIN <<>> = {}
      /\ \A p \in Process, pc \in PCs : At(p, pc) => pending = <<>>
  BY DEF At, NoTransaction
<1>2. CASE UNCHANGED runVars
  BY <1>1, <1>2, OwnershipKept DEF runVars, OwnedRuns, PendingSparesInvokers
<1>3. ASSUME NEW p \in Process, NEW c \in Runs, Begin(p, c)
      PROVE  Ownership(held)' /\ PendingSparesInvokers'
  <2>1. \A q \in Process : proc'[q].pc = "INVOKING" => proc'[q] = proc[q]
    BY <1>1, <1>3, MovedAlone DEF Begin
  <2>2. receipts' = receipts /\ pending' = <<>>
    BY <1>3 DEF Begin, At, NoTransaction
  <2> QED BY <1>e, <2>1, <2>2, OwnershipKept DEF PendingSparesInvokers
<1>4. ASSUME NEW p \in Process, Plan(p) \/ \E c \in Runs : BeginRefused(p, c)
      PROVE  Ownership(held)' /\ PendingSparesInvokers'
  <2>1. \/ \E error \in Errors : Throw(p, error)
        \/ \E pc \in PCs \ {"IDLE", "INVOKING"} : Goto(p, pc)
    BY <1>4 DEF BeginRefused, Plan, Errors, PCs
  <2>2. receipts' = receipts /\ pending = <<>>
    BY <1>4 DEF BeginRefused, Plan, Throw, At, NoTransaction
  <2> QED BY <1>1, <1>e, <2>1, <2>2, ThrowOrGoto, OwnershipKept DEF PendingSparesInvokers
<1>5. ASSUME NEW p \in Process, Release(p) \/ ReserveRun(p)
      PROVE  Ownership(held)' /\ PendingSparesInvokers'
  <2> DEFINE c == proc[p].command
  <2>1. c \in Command /\ pending = <<>>
    BY <1>1, <1>5, RunIds DEF Release, ReserveRun, At, NoTransaction, RunsTyped
  <2>2. \/ \E error \in Errors : Throw(p, error)
        \/ \E pc \in PCs \ {"IDLE", "INVOKING"} : Goto(p, pc)
    BY <1>5 DEF Release, ReserveRun, Errors, PCs
  <2>3. \/ receipts' = receipts
        \/ ReleaseUnstarted(c)
        \/ Reserve(c, RequestOf(p))
    BY <1>5 DEF Release, ReserveRun, Throw, vars
  <2>4. ASSUME NEW q \in Process, proc[q].pc = "INVOKING"
        PROVE  receipts'[proc[q].command] = receipts[proc[q].command]
    <3>1. CASE ReleaseUnstarted(c) \/ Reserve(c, RequestOf(p))
      <4>1. receipts[c] = NoRow \/ receipts[c].status = "RESERVED"
        BY <3>1 DEF ReleaseUnstarted, UnstartedReleasable, Reserve
      <4>2. proc[q].command # c /\ proc[q].command \in Command
        BY <2>4, <4>1, InvokerCommands
      <4> QED BY <1>1, <2>1, <3>1, <4>2, OthersUntouched
    <3> QED BY <2>3, <3>1
  <2>5. \A q \in Process : proc'[q].pc = "INVOKING" => proc'[q] = proc[q]
    BY <1>1, <2>2, ThrowOrGoto
  <2>6. pending' = <<>>
    BY <1>1, <2>1, <2>2, ThrowOrGoto
  <2> QED BY <1>e, <2>4, <2>5, <2>6, OwnershipKept DEF PendingSparesInvokers
<1>6. ASSUME NEW p \in Process, ClaimRun(p)
      PROVE  Ownership(held)' /\ PendingSparesInvokers'
  <2>1. proc[p].pc = "CLAIMING" /\ pending = <<>> /\ pending' = pending
    BY <1>6 DEF ClaimRun, At, NoTransaction, Goto, Throw
  <2>2. CASE Claim(proc[p].command, IdentityOf(p)) /\ Goto(p, "INVOKING")
    BY <1>e, <2>1, <2>2, ClaimIsExclusive DEF PendingSparesInvokers
  <2>3. CASE Throw(p, "CLAIM_REFUSED") \/ Throw(p, "IDENTITY_TAKEN")
    <3>1. \E error \in Errors : Throw(p, error)
      BY <2>3 DEF Errors
    <3>2. receipts' = receipts
      BY <2>3 DEF Throw
    <3> QED BY <1>1, <1>e, <2>1, <3>1, <3>2, ThrowOrGoto, OwnershipKept
            DEF PendingSparesInvokers
  <2> QED BY <1>6, <2>2, <2>3 DEF ClaimRun
<1>7. ASSUME NEW p \in Process, Return(p)
      PROVE  Ownership(held)' /\ PendingSparesInvokers'
  <2>1. proc[p].pc = "INVOKING" /\ pending = <<>> /\ receipts' = receipts
    BY <1>7 DEF Return, At, NoTransaction, Throw
  <2>2. \E error \in Errors : proc' = [proc EXCEPT ![p] = Idle(error)]
    BY <1>7 DEF Return, Throw, Errors
  <2>3. \A q \in Process : proc'[q].pc = "INVOKING" => proc'[q] = proc[q] /\ q # p
    BY <1>1, <2>2, IdleTyped, MovedAlone DEF RunsTyped, RunsTypeOK
  <2>4. Ownership(held)'
    BY <2>1, <2>3, OwnershipKept
  <2>5. CASE Throw(p, "OUTCOME_REFUSED")
    BY <1>e, <2>1, <2>4, <2>5 DEF Throw, PendingSparesInvokers
  <2>6. ASSUME NEW script \in Scripts[proc[p].command], pending' = CallsOf(p, script)
        PROVE  PendingSparesInvokers'
    <3>1. ASSUME NEW q \in Process, NEW k \in DOMAIN pending', proc'[q].pc = "INVOKING"
          PROVE  pending'[k].command # proc'[q].command
      <4>1. pending'[k].command \in {proc[p].command} \cup CompanionIds
        BY <1>1, <2>1, <2>6, CallsTyped
      <4>2. proc'[q] = proc[q] /\ q # p /\ proc[q].pc = "INVOKING"
        BY <2>3, <3>1
      <4>3. proc[q].command # proc[p].command
        BY <2>1, <4>2 DEF OwnedRuns, Ownership
      <4>4. proc[q].command \notin CompanionIds
        BY <4>2, InvokerCommands, RunAssumption
      <4> QED BY <4>1, <4>2, <4>3, <4>4
    <3> QED BY <3>1 DEF PendingSparesInvokers
  <2> QED BY <1>7, <2>4, <2>5, <2>6 DEF Return
<1>8. ASSUME NEW p \in Process, Crash(p)
      PROVE  Ownership(held)' /\ PendingSparesInvokers'
  <2>1. \A q \in Process : proc'[q].pc = "INVOKING" => proc'[q] = proc[q]
    BY <1>1, <1>8, IdleTyped, MovedAlone DEF Crash, Errors
  <2>2. receipts' = receipts /\ pending' = <<>>
    BY <1>8 DEF Crash, NoTransaction
  <2> QED BY <1>e, <2>1, <2>2, OwnershipKept DEF PendingSparesInvokers
<1>9. ASSUME NEW c \in Direct, HumanCommand(c)
      PROVE  Ownership(held)' /\ PendingSparesInvokers'
  <2>1. proc' = proc /\ receipts' = receipts
    BY <1>9 DEF HumanCommand
  <2>2. \A k \in DOMAIN pending' : pending'[k].command = c
    BY <1>1, <1>9, HumanTyped
  <2>3. c \notin Runs
    BY RunAssumption
  <2> QED BY <2>1, <2>2, <2>3, InvokerCommands, OwnershipKept DEF PendingSparesInvokers
<1>10. CASE FixAgain
  <2>1. proc' = proc /\ receipts' = receipts
    BY <1>10 DEF FixAgain
  <2>2. \A k \in DOMAIN pending' : pending'[k].command \in Retryable
    BY <1>10, SweepTyped DEF FixAgain
  <2>3. \A d \in Retryable : receipts[d].status = "FAILED_FINAL"
    BY DEF Retryable, FailedFinalReleasable
  <2> QED BY <2>1, <2>2, <2>3, InvokerCommands, OwnershipKept DEF PendingSparesInvokers
<1>11. CASE TransactionStep
  <2>1. pending # <<>> /\ StoreCall(Head(pending)) /\ pending' = Tail(pending) /\ proc' = proc
    BY <1>11 DEF TransactionStep
  <2>2. Head(pending) \in Op /\ Issuable(Head(pending)) /\ 1 \in DOMAIN pending
        /\ Head(pending) = pending[1]
    BY <1>1, <2>1, HeadIssuable
  <2>3. \A d \in Command : d # Head(pending).command => receipts'[d] = receipts[d]
    BY <1>1, <2>1, <2>2, StoreCallStep
  <2>4. \A q \in Process : proc[q].pc = "INVOKING" =>
          receipts'[proc[q].command] = receipts[proc[q].command]
    BY <2>2, <2>3, InvokerCommands DEF OwnedRuns, PendingSparesInvokers
  <2>5. PendingSparesInvokers'
    BY <1>1, <2>1, TailTyped DEF OwnedRuns, PendingSparesInvokers
  <2> QED BY <2>1, <2>4, <2>5, OwnershipKept
<1> QED BY <1>2, <1>3, <1>4, <1>5, <1>6, <1>7, <1>8, <1>9, <1>10, <1>11 DEF RunsNext

-----------------------------------------------------------------------------
LEMMA RunsInvInit == RunsInit => RunsInv
<1> SUFFICES ASSUME RunsInit PROVE RunsInv
  OBVIOUS
<1>1. StoreInv /\ RunsTyped
  BY StoreInvInit, RunsTypedInit DEF RunsInit
<1>2. \A p \in Process : proc[p].pc = "IDLE"
  BY DEF RunsInit, Idle
<1> QED BY <1>1, <1>2 DEF RunsInv, OwnedRuns, Ownership, PendingSparesInvokers

LEMMA RunsInvStep == RunsInv /\ [RunsNext]_runVars => RunsInv' /\ [Next]_vars
<1> SUFFICES ASSUME RunsInv, [RunsNext]_runVars PROVE RunsInv' /\ [Next]_vars
  OBVIOUS
<1>1. StoreInv /\ RunsTyped /\ Live({"RUNNING"})
  BY DEF RunsInv, OwnedRuns, Live
<1>2. [Next]_vars
  BY <1>1, RunsStepIsStoreStep
<1>3. StoreInv'
  BY <1>1, <1>2, StoreInvStep
<1> QED BY <1>1, <1>2, <1>3, RunsTypedStep, OwnershipStep DEF RunsInv, OwnedRuns

LEMMA RunsInvariant == RunsSpec => []RunsInv
BY RunsInvInit, RunsInvStep, PTL DEF RunsSpec

(* The services use the store only through its operations: every theorem   *)
(* about the store holds of every interleaving of the services.            *)
THEOREM ServicesImplementStore == RunsSpec => RunsImplementStore
<1>1. RunsInit => Init
  BY DEF RunsInit
<1> QED BY <1>1, RunsInvariant, RunsInvStep, PTL DEF RunsSpec, RunsImplementStore, Spec

(* Whatever races, crashes, supersedings and releases happen, a process    *)
(* awaiting an agent holds the running receipt of its command, alone.      *)
THEOREM InvokerHolds == RunsSpec => []InvokerHoldsReceipt
<1>1. RunsInv => InvokerHoldsReceipt
  BY DEF RunsInv, OwnedRuns, RunsTyped, Ownership, Holds, InvokerHoldsReceipt, Invoking
<1> QED BY <1>1, RunsInvariant, PTL

(* The services' own state keeps its type.                                 *)
THEOREM ServicesTyped == RunsSpec => []RunsTypeOK
<1>1. RunsInv => RunsTypeOK
  BY DEF RunsInv, OwnedRuns, RunsTyped
<1> QED BY <1>1, RunsInvariant, PTL

-----------------------------------------------------------------------------
(* Between transactions a running receipt is touched by nobody: only the   *)
(* final transaction of the process awaiting it settles it.                *)
LEMMA RunningUntouched ==
  ASSUME RunsInv, [RunsNext]_runVars, NoTransaction,
         NEW c \in Runs, receipts[c] # NoRow, receipts[c].status = "RUNNING"
  PROVE  receipts'[c] = receipts[c]
<1>1. TypeOK /\ RunsTyped /\ c \in Command
  BY RunIds DEF RunsInv, OwnedRuns, StoreInv
<1>2. ASSUME NEW p \in Process, Release(p) \/ ReserveRun(p) \/ ClaimRun(p)
      PROVE  receipts'[c] = receipts[c]
  <2> DEFINE d == proc[p].command
  <2>1. d \in Command
    BY <1>1, <1>2, RunIds DEF Release, ReserveRun, ClaimRun, At, RunsTyped
  <2>2. CASE receipts' = receipts
    BY <2>2
  <2>3. CASE ReleaseUnstarted(d) \/ \E r : Reserve(d, r)
    <3>1. d # c
      BY <2>3 DEF ReleaseUnstarted, UnstartedReleasable, Reserve
    <3> QED BY <1>1, <2>1, <2>3, <3>1, OthersUntouched
  <2>4. CASE Claim(d, IdentityOf(p))
    <3>1. d # c
      BY <2>4 DEF Claim, Claimable
    <3> QED BY <1>1, <2>1, <2>4, <3>1 DEF Claim, TypeOK
  <2> QED BY <1>2, <2>2, <2>3, <2>4 DEF Release, ReserveRun, ClaimRun, Throw, vars
<1>3. ASSUME NEW p \in Process,
             \/ \E d \in Runs : Begin(p, d) \/ BeginRefused(p, d)
             \/ Plan(p) \/ Return(p) \/ Crash(p)
      PROVE  receipts' = receipts
  BY <1>3 DEF Begin, BeginRefused, Plan, Return, Crash, Throw
<1>4. ASSUME (\E d \in Direct : HumanCommand(d)) \/ FixAgain
      PROVE  receipts' = receipts
  BY <1>4 DEF HumanCommand, FixAgain
<1>5. ~TransactionStep
  BY DEF TransactionStep, NoTransaction
<1> QED BY <1>2, <1>3, <1>4, <1>5 DEF RunsNext, runVars

(* An invocation whose process died or was refused its outcome stays as it *)
(* is: no retry, superseding or human release touches its receipt.         *)
THEOREM AbandonedStays == RunsSpec => AbandonedStaysVisible
<1> DEFINE Step == \A c \in Runs :
       /\ receipts[c] # NoRow
       /\ receipts[c].status = "RUNNING"
       /\ Invoking(c) = {}
       /\ NoTransaction
       => receipts'[c] = receipts[c]
<1>1. RunsInv /\ [RunsNext]_runVars => [Step]_runVars
  BY RunningUntouched
<1> QED BY <1>1, RunsInvariant, PTL DEF RunsSpec, AbandonedStaysVisible

-----------------------------------------------------------------------------
(* The handoff of a run to its companions.  A run is behind when no        *)
(* process that began it can reserve it any more, and closed when what it  *)
(* issued has succeeded and fits how it was settled; a run that issued     *)
(* anything is settled, or was released, for good.                         *)
Behind(c) == \A p \in Process : proc[p].command = c => proc[p].version < batch.version

CompanionsOf(c) == UNION {Companions(script) : script \in Scripts[c]}

Ended(c) == receipts[c] = NoRow \/ receipts[c].status \in {"SUCCEEDED", "FAILED_FINAL"}

HandedOver(c) ==
  /\ \A d \in Issued(c) : SuccessfulRow(receipts[d])
  /\ IF SuccessfulRow(receipts[c])
     THEN \E script \in Scripts[c] : script.settle # "FAIL" /\ Issued(c) = Companions(script)
     ELSE \A d \in Issued(c) : \E script \in Scripts[c] :
            script.settle = "FAIL" /\ d \in Companions(script)

Closed(c) ==
  /\ HandedOver(c)
  /\ Issued(c) # {} => Ended(c) /\ Behind(c)

(* The open transaction of a run after n of its calls: which are left, and *)
(* what those before them have done.                                       *)
Position(c, script, n) ==
  LET m == Len(script.companions) IN
    /\ n \in 0..(2 * m)
    /\ Len(pending) = 1 + 2 * m - n
    /\ n = 0 => pending[1].op = script.settle /\ pending[1].command = c
    /\ \A i \in 1..m :
         /\ 2 * i > n => /\ pending[2 * i - n].op = "RESERVE"
                         /\ pending[2 * i - n].command = script.companions[i]
         /\ 2 * i + 1 > n => /\ pending[2 * i + 1 - n].op = "APPLY"
                             /\ pending[2 * i + 1 - n].command = script.companions[i]

SettledAs(script) == IF script.settle = "FAIL" THEN "FAILED_FINAL" ELSE "SUCCEEDED"

Progress(c, script, n) ==
  /\ receipts[c] # NoRow
  /\ receipts[c].status = IF n = 0 THEN "RUNNING" ELSE SettledAs(script)
  /\ \A i \in 1..Len(script.companions) :
       /\ 2 * i + 1 <= n => SuccessfulRow(receipts[script.companions[i]])
       /\ 2 * i > n => receipts[script.companions[i]] = NoRow
  /\ Issued(c) \subseteq Companions(script)
  /\ n >= 3 => Behind(c)

(* An open transaction of a human: a direct command, or releases.          *)
Elsewhere ==
  \A k \in DOMAIN pending :
    \/ pending[k].command \in Direct
    \/ pending[k].op = "RELEASE" /\ pending[k].command \notin CompanionIds

Underway(c) ==
  /\ \E script \in Scripts[c], n \in Nat : Position(c, script, n) /\ Progress(c, script, n)
  /\ \A d \in Runs \ {c} : Closed(d)

Handoffs ==
  /\ \A p \in Process : proc[p].version <= batch.version
  /\ (Elsewhere /\ \A c \in Runs : Closed(c)) \/ \E c \in Runs : Underway(c)

-----------------------------------------------------------------------------
LEMMA VersionGrows ==
  ASSUME StoreInv, [Next]_vars
  PROVE  batch.version \in Nat /\ batch'.version \in Nat /\ batch.version <= batch'.version
<1>1. StoreInv' /\ TypeOK /\ TypeOK'
  BY StoreInvStep DEF StoreInv
<1>2. batch.version = Len(events) /\ batch'.version = Len(events')
  BY <1>1 DEF StoreInv, EventLogMatchesReceipts
<1>3. Len(events) \in Nat /\ Len(events') \in Nat
  BY <1>1 DEF TypeOK
<1>4. CASE events' = events
  BY <1>2, <1>3, <1>4
<1>5. ASSUME NEW e, events' = Append(events, e)
      PROVE  Len(events') = Len(events) + 1
  BY <1>1, <1>5 DEF TypeOK
<1>6. ASSUME NEW c \in Command, Supersede(c)
      PROVE  Len(events') = Len(events)
  <2>1. DOMAIN events' = DOMAIN events
    BY <1>6 DEF Supersede
  <2> QED BY <1>1, <1>3, <2>1 DEF TypeOK
<1>7. \/ events' = events
      \/ \E e : events' = Append(events, e)
      \/ \E c \in Command : Supersede(c)
  <2>1. ASSUME NEW c \in Command,
               SucceedWithBatchCreation(c) \/ \E by : SucceedWithTransition(c, by)
        PROVE  \E e : events' = Append(events, e)
    BY <2>1 DEF SucceedWithBatchCreation, SucceedWithTransition, AppendEvent
  <2>2. ASSUME NEW c \in Command, ReleaseFailedFinal(c) \/ ReleaseUnstarted(c)
        PROVE  Supersede(c)
    BY <2>2 DEF ReleaseFailedFinal, ReleaseUnstarted
  <2>3. ASSUME NEW c \in Command,
               \/ \E r : Reserve(c, r)
               \/ \E i : Claim(c, i)
               \/ SucceedWithoutTransition(c)
               \/ \E s : RecordOutcome(c, s)
        PROVE  events' = events
    BY <2>3 DEF Reserve, Claim, SucceedWithoutTransition, RecordOutcome
  <2> QED BY <2>1, <2>2, <2>3 DEF Next, vars
<1> QED BY <1>2, <1>3, <1>4, <1>5, <1>6, <1>7

(* Companions are commands of their own.                                   *)
LEMMA CompanionIdsApart ==
  ASSUME NEW c \in Runs
  PROVE  /\ CompanionsOf(c) \subseteq CompanionIds /\ CompanionIds \subseteq Command
         /\ CompanionIds \cap (Runs \cup Direct) = {}
         /\ Issued(c) = {d \in CompanionsOf(c) : receipts[d] # NoRow}
         /\ \A d \in Runs : d # c => CompanionsOf(c) \cap CompanionsOf(d) = {}
<1>1. CompanionsOf(c) \subseteq CompanionIds
  BY DEF CompanionsOf, CompanionIds, Companions
<1>2. ASSUME NEW d \in CompanionIds
      PROVE  d \in Command
  <2>1. PICK r \in Runs : \E script \in Scripts[r] : d \in Range(script.companions)
    BY DEF CompanionIds
  <2> PICK script \in Scripts[r] : d \in Range(script.companions)
    BY <2>1
  <2>2. script.companions \in Seq(Command)
    BY RunAssumption DEF Script
  <2> QED BY <2>1, <2>2 DEF Range
<1>3. Issued(c) = {d \in CompanionsOf(c) : receipts[d] # NoRow}
  BY DEF Issued, CompanionsOf
<1>4. ASSUME NEW d \in Runs, d # c, NEW e \in CompanionsOf(c), e \in CompanionsOf(d)
      PROVE  FALSE
  <2>1. PICK s \in Scripts[c] : e \in Range(s.companions)
    BY DEF CompanionsOf, Companions
  <2>2. PICK t \in Scripts[d] : e \in Range(t.companions)
    BY <1>4 DEF CompanionsOf, Companions
  <2> QED BY <1>4, <2>1, <2>2, CompanionAssumption
<1> QED BY <1>1, <1>2, <1>3, <1>4, RunAssumption, CompanionAssumption

(* A step that issues no companion of a run, does not succeed it, and      *)
(* begins it nowhere once it has handed over, leaves it closed.            *)
LEMMA ClosedKept ==
  ASSUME StoreInv, [Next]_vars, NEW c \in Runs, Closed(c),
         \A d \in CompanionsOf(c) : receipts[d] = NoRow => receipts'[d] = NoRow,
         \/ receipts'[c] = receipts[c]
         \/ receipts'[c] = NoRow
         \/ Issued(c) = {} /\ receipts'[c].status # "SUCCEEDED",
         Issued(c) # {} => \A p \in Process : proc'[p].command = c =>
                             proc[p].command = c /\ proc'[p].version = proc[p].version,
         \A p \in Process : proc[p].version \in Nat
  PROVE  Closed(c)'
<1>1. /\ c \in Command /\ CompanionsOf(c) \subseteq Command
      /\ Issued(c) = {d \in CompanionsOf(c) : receipts[d] # NoRow}
      /\ Issued(c)' = {d \in CompanionsOf(c) : receipts'[d] # NoRow}
  <2>1. Issued(c)' = {d \in CompanionsOf(c) : receipts'[d] # NoRow}
    BY DEF Issued, CompanionsOf
  <2> QED BY <2>1, RunIds, CompanionIdsApart
<1>2. \A d \in Issued(c) : SuccessfulRow(receipts[d]) /\ receipts'[d] = receipts[d]
  BY <1>1, SuccessIsFinal DEF Closed, HandedOver, StoreInv
<1>3. Issued(c)' = Issued(c)
  BY <1>1, <1>2
<1>4. SuccessfulRow(receipts[c]) => receipts'[c] = receipts[c]
  BY <1>1, SuccessIsFinal DEF StoreInv
<1>5. (\A d \in Issued(c) : SuccessfulRow(receipts[d]))'
  BY <1>2, <1>3 DEF SuccessfulRow
<1>6. (IF SuccessfulRow(receipts[c])
       THEN \E script \in Scripts[c] : script.settle # "FAIL" /\ Issued(c) = Companions(script)
       ELSE \A d \in Issued(c) : \E script \in Scripts[c] :
              script.settle = "FAIL" /\ d \in Companions(script))'
  <2>1. CASE SuccessfulRow(receipts[c])
    <3>1. SuccessfulRow(receipts[c])'
      BY <1>4, <2>1 DEF SuccessfulRow
    <3>2. PICK script \in Scripts[c] : script.settle # "FAIL" /\ Issued(c) = Companions(script)
      BY <2>1 DEF Closed, HandedOver
    <3>3. (script.settle # "FAIL" /\ Issued(c) = Companions(script))'
      BY <1>3, <3>2 DEF Companions
    <3> QED BY <3>1, <3>3
  <2>2. CASE ~SuccessfulRow(receipts[c])
    <3>1. ~SuccessfulRow(receipts[c])' \/ Issued(c) = {}
      BY <2>2 DEF SuccessfulRow
    <3>2. ~SuccessfulRow(receipts[c])'
      BY <2>2 DEF SuccessfulRow
    <3>3. \A d \in Issued(c) : \E script \in Scripts[c] :
            script.settle = "FAIL" /\ d \in Companions(script)
      BY <2>2 DEF Closed, HandedOver
    <3> QED BY <1>3, <3>2, <3>3 DEF Companions
  <2> QED BY <2>1, <2>2
<1>7. Issued(c)' # {} => Ended(c)' /\ Behind(c)'
  <2>1. SUFFICES ASSUME Issued(c) # {} PROVE Ended(c)' /\ Behind(c)'
    BY <1>3
  <2>2. Ended(c) /\ Behind(c)
    BY <2>1 DEF Closed
  <2>3. Ended(c)'
    BY <2>1, <2>2 DEF Ended
  <2>4. Behind(c)'
    BY <2>1, <2>2, VersionGrows DEF Behind
  <2> QED BY <2>3, <2>4
<1> QED BY <1>5, <1>6, <1>7 DEF Closed, HandedOver

-----------------------------------------------------------------------------
(* Positions in the transaction of a run.                                  *)
LEMMA ScriptCompanions ==
  ASSUME NEW c \in Runs, NEW script \in Scripts[c]
  PROVE  /\ Len(script.companions) \in Nat
         /\ DOMAIN script.companions = 1..Len(script.companions)
         /\ Companions(script) = {script.companions[i] : i \in 1..Len(script.companions)}
         /\ Companions(script) \subseteq CompanionsOf(c)
         /\ \A i, j \in 1..Len(script.companions) :
              script.companions[i] = script.companions[j] => i = j
<1>1. script.companions \in Seq(Command)
  BY RunAssumption DEF Script
<1>2. Len(script.companions) \in Nat /\ DOMAIN script.companions = 1..Len(script.companions)
  BY <1>1
<1>3. Companions(script) = {script.companions[i] : i \in 1..Len(script.companions)}
  BY <1>2 DEF Companions, Range
<1> QED BY <1>2, <1>3, CompanionAssumption DEF CompanionsOf

LEMMA CallFields ==
  ASSUME NEW op, NEW c, NEW actor
  PROVE  Call(op, c, actor).op = op /\ Call(op, c, actor).command = c
BY DEF Call

LEMMA TransactionOpens ==
  ASSUME NEW p \in Process, NEW c \in Runs, c = proc[p].command,
         NEW script \in Scripts[c], pending' = CallsOf(p, script)
  PROVE  Position(c, script, 0)'
<1> DEFINE m == Len(script.companions)
<1>1. m \in Nat
  BY ScriptCompanions
<1>2. /\ pending' = [k \in 1..(1 + 2 * m) |-> CallsOf(p, script)[k]]
      /\ Len(pending') = 1 + 2 * m
  BY <1>1 DEF CallsOf
<1>3. pending'[1] = Call(script.settle, c, IdentityOf(p))
  BY <1>1 DEF CallsOf
<1>4. ASSUME NEW i \in 1..m
      PROVE  /\ pending'[2 * i] = Call("RESERVE", script.companions[i], proc[p].actor)
             /\ pending'[2 * i + 1] = Call("APPLY", script.companions[i], NoIdentity)
  <2>1. /\ 2 * i \in 1..(1 + 2 * m) /\ 2 * i # 1 /\ (2 * i) % 2 = 0 /\ (2 * i) \div 2 = i
        /\ 2 * i + 1 \in 1..(1 + 2 * m) /\ 2 * i + 1 # 1 /\ (2 * i + 1) % 2 = 1
        /\ (2 * i + 1) \div 2 = i
    BY <1>1
  <2> QED BY <2>1 DEF CallsOf
<1>5. ASSUME NEW i \in 1..m
      PROVE  /\ pending'[2 * i - 0].op = "RESERVE"
             /\ pending'[2 * i - 0].command = script.companions[i]
             /\ pending'[2 * i + 1 - 0].op = "APPLY"
             /\ pending'[2 * i + 1 - 0].command = script.companions[i]
  <2>1. 2 * i - 0 = 2 * i /\ 2 * i + 1 - 0 = 2 * i + 1
    BY <1>1
  <2> DEFINE reserve == pending'[2 * i]
             apply == pending'[2 * i + 1]
             d == script.companions[i]
  <2>2. /\ reserve = Call("RESERVE", d, proc[p].actor)
        /\ apply = Call("APPLY", d, NoIdentity)
    BY <1>4
  <2> HIDE DEF reserve, apply, d
  <2>3. reserve.op = "RESERVE" /\ reserve.command = d /\ apply.op = "APPLY" /\ apply.command = d
    BY <2>2, CallFields
  <2>4. /\ pending'[2 * i - 0] = reserve /\ pending'[2 * i + 1 - 0] = apply
        /\ script.companions[i] = d
    BY <2>1 DEF reserve, apply, d
  <2> QED BY <2>3, <2>4
<1>6. pending'[1].op = script.settle /\ pending'[1].command = c
  BY <1>3 DEF Call
<1>7. 0 \in 0..(2 * m) /\ Len(pending') = 1 + 2 * m - 0
  BY <1>1, <1>2
<1> QED BY <1>5, <1>6, <1>7 DEF Position

LEMMA HeadOfPosition ==
  ASSUME RunsTyped, NEW c \in Runs, NEW script \in Scripts[c], NEW n, Position(c, script, n)
  PROVE  /\ pending # <<>>
         /\ \/ n = 0 /\ Head(pending).op = script.settle /\ Head(pending).command = c
            \/ \E i \in 1..Len(script.companions) :
                 /\ Head(pending).command = script.companions[i]
                 /\ \/ n = 2 * i - 1 /\ Head(pending).op = "RESERVE"
                    \/ n = 2 * i /\ Head(pending).op = "APPLY"
<1> DEFINE m == Len(script.companions)
<1>1. m \in Nat /\ n \in 0..(2 * m) /\ pending \in Seq(Op) /\ Len(pending) = 1 + 2 * m - n
  BY ScriptCompanions DEF Position, RunsTyped, RunsTypeOK
<1>2. pending # <<>> /\ Head(pending) = pending[1]
  BY <1>1
<1>3. CASE n = 0
  BY <1>2, <1>3 DEF Position
<1>4. ASSUME NEW i \in 1..m, n = 2 * i - 1
      PROVE  pending[1].command = script.companions[i] /\ pending[1].op = "RESERVE"
  <2>1. 2 * i > n /\ 2 * i - n = 1
    BY <1>1, <1>4
  <2> QED BY <2>1 DEF Position
<1>5. ASSUME NEW i \in 1..m, n = 2 * i
      PROVE  pending[1].command = script.companions[i] /\ pending[1].op = "APPLY"
  <2>1. 2 * i + 1 > n /\ 2 * i + 1 - n = 1
    BY <1>1, <1>5
  <2> QED BY <2>1 DEF Position
<1>6. n = 0 \/ \E i \in 1..m : n = 2 * i - 1 \/ n = 2 * i
  <2>1. (n + 1) \div 2 \in Int /\ (n = 2 * ((n + 1) \div 2) - 1 \/ n = 2 * ((n + 1) \div 2))
    BY <1>1
  <2>2. n # 0 => (n + 1) \div 2 \in 1..m
    BY <1>1, <2>1
  <2> QED BY <2>1, <2>2
<1> QED BY <1>2, <1>3, <1>4, <1>5, <1>6

LEMMA PositionMoves ==
  ASSUME RunsTyped, NEW c \in Runs, NEW script \in Scripts[c], NEW n, Position(c, script, n),
         pending' = Tail(pending)
  PROVE  \/ n = 2 * Len(script.companions) /\ pending' = <<>>
         \/ n < 2 * Len(script.companions) /\ Position(c, script, n + 1)'
<1> DEFINE m == Len(script.companions)
<1>1. m \in Nat /\ n \in 0..(2 * m) /\ pending \in Seq(Op) /\ Len(pending) = 1 + 2 * m - n
  BY ScriptCompanions DEF Position, RunsTyped, RunsTypeOK
<1>2. /\ pending' \in Seq(Op) /\ Len(pending') = 2 * m - n
      /\ \A k \in 1..(2 * m - n) : pending'[k] = pending[k + 1]
  BY <1>1
<1>3. CASE n = 2 * m
  BY <1>1, <1>2, <1>3
<1>4. CASE n < 2 * m
  <2>1. ASSUME NEW i \in 1..m
        PROVE  /\ 2 * i > n + 1 => pending'[2 * i - (n + 1)] = pending[2 * i - n]
               /\ 2 * i + 1 > n + 1 => pending'[2 * i + 1 - (n + 1)] = pending[2 * i + 1 - n]
    <3>1. ASSUME 2 * i > n + 1
          PROVE  pending'[2 * i - (n + 1)] = pending[2 * i - n]
      <4>1. 2 * i - (n + 1) \in 1..(2 * m - n) /\ 2 * i - (n + 1) + 1 = 2 * i - n
        BY <1>1, <3>1
      <4> QED BY <1>1, <1>2, <3>1, <4>1
    <3>2. ASSUME 2 * i + 1 > n + 1
          PROVE  pending'[2 * i + 1 - (n + 1)] = pending[2 * i + 1 - n]
      <4>1. /\ 2 * i + 1 - (n + 1) \in 1..(2 * m - n)
            /\ 2 * i + 1 - (n + 1) + 1 = 2 * i + 1 - n
        BY <1>1, <3>2
      <4> QED BY <1>2, <4>1
    <3> QED BY <1>1, <1>2, <3>1, <3>2
  <2>2. \A i \in 1..m :
          /\ 2 * i > n + 1 => /\ pending'[2 * i - (n + 1)].op = "RESERVE"
                              /\ pending'[2 * i - (n + 1)].command = script.companions[i]
          /\ 2 * i + 1 > n + 1 => /\ pending'[2 * i + 1 - (n + 1)].op = "APPLY"
                                  /\ pending'[2 * i + 1 - (n + 1)].command = script.companions[i]
    BY <1>1, <2>1 DEF Position
  <2>3. n + 1 \in 0..(2 * m) /\ n + 1 # 0 /\ Len(pending') = 1 + 2 * m - (n + 1)
    BY <1>1, <1>2, <1>4
  <2> HIDE DEF m
  <2>4. Position(c, script, n + 1)'
    BY <2>2, <2>3 DEF Position, m
  <2> QED BY <1>4, <2>4 DEF m
<1> QED BY <1>1, <1>3, <1>4

-----------------------------------------------------------------------------
(* What the calls of a transaction make of a receipt.                      *)
LEMMA SettledStatus ==
  ASSUME StoreInv, NEW c \in Command, NEW call, call.command = c, StoreCall(call),
         call.op \in Settlements \cup {"APPLY"}
  PROVE  /\ receipts'[c] # NoRow
         /\ receipts'[c].status = IF call.op = "FAIL" THEN "FAILED_FINAL" ELSE "SUCCEEDED"
         /\ call.op = "APPLY" => batch'.version = batch.version + 1
<1>1. TypeOK /\ receipts[c] # NoRow /\ receipts[c] \in Row
  <2>1. receipts[c] # NoRow
    BY DEF StoreCall, Settlements, RecordOutcome, SucceedWithoutTransition, SucceedWithTransition
  <2> QED BY <2>1, LiveRow DEF StoreInv
<1> DEFINE row == receipts[c]
<1>2. /\ [row EXCEPT !.status = "FAILED_FINAL", !.effect = Settled(row.effect)] \in Row
      /\ [row EXCEPT !.status = "SUCCEEDED", !.effect = Settled(row.effect)] \in Row
      /\ [row EXCEPT !.status = "SUCCEEDED", !.effect = Settled(row.effect),
                     !.version = batch.version + 1, !.sequence = batch.sequence + 1] \in Row
  <2>1. Settled(row.effect) \in Effects
    BY <1>1, RowUpdates
  <2>2. "FAILED_FINAL" \in Statuses /\ "SUCCEEDED" \in Statuses
    BY DEF Statuses
  <2>3. batch.version + 1 \in Nat /\ batch.sequence + 1 \in Nat
    BY <1>1 DEF TypeOK, Batch
  <2> HIDE DEF row
  <2> QED BY <1>1, <2>1, <2>2, <2>3, RowUpdates DEF row
<1>3. CASE call.op = "FAIL"
  <2>1. receipts'[c] = [row EXCEPT !.status = "FAILED_FINAL", !.effect = Settled(row.effect)]
    BY <1>1, <1>3 DEF StoreCall, RecordOutcome, TypeOK
  <2>2. receipts'[c] \in Row
    BY <1>2, <2>1
  <2> QED BY <1>1, <1>3, <2>1, <2>2, NoRowAssumption DEF Row
<1>4. CASE call.op = "EVIDENCE"
  <2>1. receipts'[c] = [row EXCEPT !.status = "SUCCEEDED", !.effect = Settled(row.effect)]
    BY <1>1, <1>4 DEF StoreCall, SucceedWithoutTransition, TypeOK
  <2>2. receipts'[c] \in Row
    BY <1>2, <2>1
  <2> QED BY <1>1, <1>4, <2>1, <2>2, NoRowAssumption DEF Row
<1>5. CASE call.op \in {"TRANSITION", "APPLY"}
  <2>1. PICK by : SucceedWithTransition(c, by)
    BY <1>5 DEF StoreCall
  <2>2. receipts'[c] = [row EXCEPT !.status = "SUCCEEDED", !.effect = Settled(row.effect),
                                   !.version = batch.version + 1,
                                   !.sequence = batch.sequence + 1]
    BY <1>1, <2>1 DEF SucceedWithTransition, CompleteReceipt, TypeOK
  <2>3. receipts'[c] \in Row
    BY <1>2, <2>2
  <2>4. batch'.version = batch.version + 1
    BY <2>1 DEF SucceedWithTransition
  <2> QED BY <1>1, <1>5, <2>2, <2>3, <2>4, NoRowAssumption DEF Row
<1> QED BY <1>3, <1>4, <1>5 DEF Settlements

LEMMA HeadStep ==
  ASSUME RunsInv, TransactionStep
  PROVE  /\ [Next]_vars /\ proc' = proc /\ pending' = Tail(pending)
         /\ StoreCall(Head(pending)) /\ Head(pending) \in Op
         /\ \A d \in Command : d # Head(pending).command => receipts'[d] = receipts[d]
         /\ \A p \in Process : proc[p].version \in Nat
<1>1. StoreInv /\ RunsTyped
  BY DEF RunsInv, OwnedRuns
<1>2. [Next]_vars
  BY <1>1, RunsStepIsStoreStep DEF RunsNext
<1>3. \A p \in Process : proc[p].version \in Nat
  BY <1>1 DEF RunsTyped, RunsTypeOK, ProcessState
<1>4. Head(pending) \in Op /\ Issuable(Head(pending))
  BY <1>1, HeadIssuable DEF TransactionStep
<1> QED BY <1>1, <1>2, <1>3, <1>4, StoreCallStep DEF TransactionStep

(* A call of a run's transaction leaves every other run closed.            *)
LEMMA OthersStayClosed ==
  ASSUME RunsInv, TransactionStep, NEW c \in Runs,
         Head(pending).command \in {c} \cup CompanionsOf(c),
         NEW d \in Runs, d # c, Closed(d)
  PROVE  Closed(d)'
<1>1. d \in Command /\ CompanionsOf(d) \subseteq Command
  BY RunIds, CompanionIdsApart
<1>2. d # Head(pending).command /\ Head(pending).command \notin CompanionsOf(d)
  BY CompanionIdsApart
<1>3. receipts'[d] = receipts[d] /\ \A e \in CompanionsOf(d) : receipts'[e] = receipts[e]
  BY <1>1, <1>2, HeadStep
<1>4. StoreInv
  BY DEF RunsInv, OwnedRuns
<1> QED BY <1>3, <1>4, HeadStep, ClosedKept

(* One call of a run's transaction.                                        *)
LEMMA ProgressStep ==
  ASSUME RunsInv, Handoffs, TransactionStep, NEW c \in Runs, NEW script \in Scripts[c],
         NEW n, Position(c, script, n), Progress(c, script, n)
  PROVE  /\ Head(pending).command \in {c} \cup CompanionsOf(c)
         /\ Progress(c, script, n + 1)'
<1> DEFINE m == Len(script.companions)
           comp(i) == script.companions[i]
           head == Head(pending).command
<1>1. /\ m \in Nat /\ n \in 0..(2 * m)
      /\ Companions(script) = {comp(i) : i \in 1..m}
      /\ \A i, j \in 1..m : comp(i) = comp(j) => i = j
      /\ \A i \in 1..m : comp(i) \in CompanionsOf(c) /\ comp(i) \in Command /\ comp(i) # c
  BY ScriptCompanions, CompanionIdsApart DEF Position
<1>2. StoreInv /\ RunsTyped /\ [Next]_vars /\ c \in Command /\ script.settle \in Settlements
  BY HeadStep, RunIds, ScriptTyped DEF RunsInv, OwnedRuns
<1>3. /\ proc' = proc /\ StoreCall(Head(pending))
      /\ \A d \in Command : d # head => receipts'[d] = receipts[d]
      /\ batch.version \in Nat /\ batch'.version \in Nat /\ batch.version <= batch'.version
      /\ \A p \in Process : proc[p].version \in Nat /\ proc[p].version <= batch.version
  BY <1>2, HeadStep, VersionGrows DEF Handoffs
<1>4. \/ n = 0 /\ Head(pending).op = script.settle /\ head = c
      \/ \E i \in 1..m : /\ head = comp(i)
                        /\ \/ n = 2 * i - 1 /\ Head(pending).op = "RESERVE"
                           \/ n = 2 * i /\ Head(pending).op = "APPLY"
  BY <1>2, HeadOfPosition
<1>5. head \in {c} \cup CompanionsOf(c) /\ head \in {c} \cup Companions(script)
  BY <1>1, <1>4
<1>6. (Issued(c) \subseteq Companions(script))'
  <2>1. Issued(c) = {d \in CompanionsOf(c) : receipts[d] # NoRow}
        /\ Issued(c)' = {d \in CompanionsOf(c) : receipts'[d] # NoRow}
    BY DEF Issued, CompanionsOf
  <2>2. CompanionsOf(c) \subseteq Command /\ c \notin CompanionsOf(c)
    BY CompanionIdsApart
  <2> QED BY <1>3, <1>5, <2>1, <2>2 DEF Progress, Companions
<1>7. Behind(c) => Behind(c)'
  BY <1>3 DEF Behind
<1>8. CASE n = 0
  <2>1. head = c /\ Head(pending).op = script.settle
    BY <1>1, <1>4, <1>8
  <2>2. receipts'[c] # NoRow /\ receipts'[c].status = SettledAs(script)
    BY <1>2, <1>3, <2>1, SettledStatus DEF SettledAs
  <2>3. \A i \in 1..m : receipts'[comp(i)] = receipts[comp(i)]
    BY <1>1, <1>3, <2>1
  <2>4. \A i \in 1..m : ~(2 * i + 1 <= n + 1) /\ (2 * i > n + 1 => receipts'[comp(i)] = NoRow)
    BY <1>1, <1>8, <2>3 DEF Progress
  <2>5. n + 1 # 0 /\ ~(n + 1 >= 3)
    BY <1>8
  <2> QED BY <1>5, <1>6, <2>2, <2>4, <2>5 DEF Progress, SettledAs
<1>9. ASSUME NEW i \in 1..m, head = comp(i),
             \/ n = 2 * i - 1 /\ Head(pending).op = "RESERVE"
             \/ n = 2 * i /\ Head(pending).op = "APPLY"
      PROVE  Progress(c, script, n + 1)'
  <2>1. n # 0 /\ n + 1 # 0
    BY <1>1, <1>9
  <2>2. receipts'[c] # NoRow /\ receipts'[c].status = SettledAs(script)
    BY <1>1, <1>2, <1>3, <1>9, <2>1 DEF Progress
  <2>3. \A j \in 1..m : j # i => receipts'[comp(j)] = receipts[comp(j)]
    BY <1>1, <1>3, <1>9
  <2>4. n = 2 * i =>
          SuccessfulRow(receipts'[comp(i)]) /\ batch'.version = batch.version + 1
    BY <1>1, <1>2, <1>3, <1>9, SettledStatus DEF SuccessfulRow
  <2>5. ASSUME NEW j \in 1..m
        PROVE  /\ 2 * j + 1 <= n + 1 => SuccessfulRow(receipts'[comp(j)])
               /\ 2 * j > n + 1 => receipts'[comp(j)] = NoRow
    <3>1. CASE j = i
      BY <1>1, <1>9, <2>4, <3>1
    <3>2. CASE j # i
      <4>1. (2 * j + 1 <= n + 1 => 2 * j + 1 <= n) /\ (2 * j > n + 1 => 2 * j > n)
        BY <1>1, <1>9, <3>2
      <4> QED BY <2>3, <3>2, <4>1 DEF Progress
    <3> QED BY <3>1, <3>2
  <2>6. n + 1 >= 3 => Behind(c)'
    <3>1. CASE n = 2 * i
      BY <1>3, <2>4, <3>1 DEF Behind
    <3>2. CASE n = 2 * i - 1
      BY <1>1, <1>7, <3>2 DEF Progress
    <3> QED BY <1>9, <3>1, <3>2
  <2> QED BY <1>6, <2>1, <2>2, <2>5, <2>6 DEF Progress, SettledAs, SuccessfulRow
<1> QED BY <1>4, <1>5, <1>8, <1>9

(* The last call of a run's transaction leaves the run closed.             *)
LEMMA TransactionCloses ==
  ASSUME NEW c \in Runs, NEW script \in Scripts[c],
         Progress(c, script, 2 * Len(script.companions) + 1)'
  PROVE  Closed(c)'
<1> DEFINE m == Len(script.companions)
<1>1. m \in Nat /\ Companions(script) = {script.companions[i] : i \in 1..m}
      /\ Companions(script) \subseteq CompanionsOf(c)
  BY ScriptCompanions
<1>2. receipts'[c] # NoRow /\ receipts'[c].status = SettledAs(script)
  BY <1>1 DEF Progress, SettledAs
<1>3. \A i \in 1..m : SuccessfulRow(receipts'[script.companions[i]])
  <2>1. \A i \in 1..m : 2 * i + 1 <= 2 * m + 1
    BY <1>1
  <2> QED BY <2>1 DEF Progress, SuccessfulRow
<1>4. Issued(c)' = Companions(script) /\ \A d \in Issued(c)' : SuccessfulRow(receipts'[d])
  <2>1. Issued(c)' = {d \in CompanionsOf(c) : receipts'[d] # NoRow}
    BY DEF Issued, CompanionsOf
  <2>2. Issued(c)' \subseteq Companions(script)
    BY DEF Progress, Companions
  <2> QED BY <1>1, <1>3, <2>1, <2>2 DEF SuccessfulRow
<1>5. HandedOver(c)'
  BY <1>2, <1>4 DEF HandedOver, SuccessfulRow, SettledAs, Companions
<1>6. Ended(c)'
  BY <1>2 DEF Ended, SettledAs
<1>7. (Issued(c) # {})' => Behind(c)'
  <2>1. (Issued(c) # {})' => 2 * m + 1 >= 3
    BY <1>1, <1>4
  <2> QED BY <2>1 DEF Progress
<1> QED BY <1>5, <1>6, <1>7 DEF Closed

LEMMA UnderwayStep ==
  ASSUME RunsInv, Handoffs, TransactionStep, NEW c \in Runs, Underway(c)
  PROVE  (Elsewhere /\ \A d \in Runs : Closed(d))' \/ Underway(c)'
<1>1. PICK script \in Scripts[c], n \in Nat : Position(c, script, n) /\ Progress(c, script, n)
  BY DEF Underway
<1>2. Head(pending).command \in {c} \cup CompanionsOf(c) /\ Progress(c, script, n + 1)'
  BY <1>1, ProgressStep
<1>3. \A d \in Runs \ {c} : Closed(d)'
  BY <1>2, OthersStayClosed DEF Underway
<1>4. RunsTyped /\ pending' = Tail(pending) /\ DOMAIN <<>> = {}
  BY HeadStep DEF RunsInv, OwnedRuns
<1>5. CASE n = 2 * Len(script.companions) /\ pending' = <<>>
  <2>1. Closed(c)'
    BY <1>2, <1>5, TransactionCloses
  <2> QED BY <1>3, <1>4, <1>5, <2>1 DEF Elsewhere
<1>6. CASE Position(c, script, n + 1)'
  <2>1. n + 1 \in Nat
    OBVIOUS
  <2>2. (\E t \in Scripts[c], k \in Nat : Position(c, t, k) /\ Progress(c, t, k))'
    BY <1>2, <1>6, <2>1
  <2> QED BY <1>3, <2>2 DEF Underway
<1> QED BY <1>1, <1>4, <1>5, <1>6, PositionMoves

(* A call of a human's transaction.                                        *)
LEMMA ElsewhereStep ==
  ASSUME RunsInv, TransactionStep, Elsewhere, \A c \in Runs : Closed(c)
  PROVE  (Elsewhere /\ \A c \in Runs : Closed(c))'
<1>1. StoreInv /\ RunsTyped
  BY DEF RunsInv, OwnedRuns
<1>2. 1 \in DOMAIN pending /\ Head(pending) = pending[1]
  BY <1>1, HeadIssuable DEF TransactionStep
<1>3. Elsewhere'
  BY <1>1, TailTyped DEF Elsewhere, TransactionStep
<1> DEFINE head == Head(pending).command
<1>4. head \in Direct \/ (Head(pending).op = "RELEASE" /\ head \notin CompanionIds)
  BY <1>2 DEF Elsewhere
<1>5. ASSUME NEW c \in Runs
      PROVE  Closed(c)'
  <2>1. /\ c \in Command /\ CompanionsOf(c) \subseteq Command
        /\ c \notin Direct /\ head \notin CompanionsOf(c)
    BY <1>4, RunIds, CompanionIdsApart, RunAssumption
  <2>2. \A d \in CompanionsOf(c) : receipts'[d] = receipts[d]
    BY <2>1, HeadStep
  <2>3. receipts'[c] = receipts[c] \/ receipts'[c] = NoRow
    <3>1. CASE head # c
      BY <2>1, <3>1, HeadStep
    <3>2. CASE head = c
      <4>1. Head(pending).op = "RELEASE"
        BY <1>4, <2>1, <3>2
      <4>2. ReleaseFailedFinal(c)
        BY <3>2, <4>1, HeadStep DEF StoreCall
      <4> QED BY <1>1, <2>1, <4>2 DEF ReleaseFailedFinal, Supersede, StoreInv, TypeOK
    <3> QED BY <3>1, <3>2
  <2> QED BY <1>1, <2>2, <2>3, HeadStep, ClosedKept
<1> QED BY <1>3, <1>5

-----------------------------------------------------------------------------
(* Steps outside a transaction.                                            *)
LEMMA BetweenTransactions ==
  ASSUME RunsInv, Handoffs, NoTransaction
  PROVE  Elsewhere /\ \A c \in Runs : Closed(c)
<1>1. ASSUME NEW c \in Runs, Underway(c)
      PROVE  FALSE
  <2>1. PICK script \in Scripts[c], n \in Nat : Position(c, script, n)
    BY <1>1 DEF Underway
  <2> QED BY <2>1, HeadOfPosition DEF RunsInv, OwnedRuns, NoTransaction
<1> QED BY <1>1 DEF Handoffs

(* A step that changes receipts of runs only, and none that has handed     *)
(* over, and leaves the calls of processes as they are or ends them.       *)
LEMMA QuietlyClosed ==
  ASSUME RunsInv, [Next]_vars, \A c \in Runs : Closed(c),
         \A d \in CompanionIds : receipts'[d] = receipts[d],
         \A c \in Runs :
           \/ receipts'[c] = receipts[c]
           \/ receipts'[c] = NoRow
           \/ Issued(c) = {} /\ receipts'[c].status # "SUCCEEDED",
         \A p \in Process, c \in Runs : proc'[p].command = c =>
           \/ proc[p].command = c /\ proc'[p].version = proc[p].version
           \/ Issued(c) = {}
  PROVE  \A c \in Runs : Closed(c)'
<1>1. StoreInv /\ \A p \in Process : proc[p].version \in Nat
  BY DEF RunsInv, OwnedRuns, RunsTyped, RunsTypeOK, ProcessState
<1>2. \A c \in Runs : CompanionsOf(c) \subseteq CompanionIds
  BY CompanionIdsApart
<1> QED BY <1>1, <1>2, ClosedKept

(* A process along its call keeps its command and version, or ends it.     *)
LEMMA CallsKept ==
  ASSUME RunsTyped, NEW p \in Process,
         (\E error \in Errors : Throw(p, error)) \/ \E pc \in PCs : Goto(p, pc)
  PROVE  /\ \A q \in Process, c \in Runs : proc'[q].command = c =>
              proc[q].command = c /\ proc'[q].version = proc[q].version
         /\ \A q \in Process : proc'[q].version \in {proc[q].version, 0}
         /\ pending' = pending
<1>1. proc \in [Process -> ProcessState] /\ NoCommand \notin Runs
  BY RunAssumption DEF RunsTyped, RunsTypeOK
<1>2. ASSUME NEW error \in Errors, Throw(p, error)
      PROVE  /\ \A q \in Process : q # p => proc'[q] = proc[q]
             /\ proc'[p].command = NoCommand /\ proc'[p].version = 0
             /\ pending' = pending
  BY <1>1, <1>2 DEF Throw, Idle
<1>3. ASSUME NEW pc \in PCs, Goto(p, pc)
      PROVE  /\ \A q \in Process : q # p => proc'[q] = proc[q]
             /\ proc'[p].command = proc[p].command /\ proc'[p].version = proc[p].version
             /\ pending' = pending
  BY <1>1, <1>3 DEF Goto, ProcessState
<1> QED BY <1>1, <1>2, <1>3

LEMMA VersionsKept ==
  ASSUME RunsInv, Handoffs, [Next]_vars,
         \A q \in Process : proc'[q].version \in {proc[q].version, 0, batch.version}
  PROVE  (\A p \in Process : proc[p].version <= batch.version)'
<1>1. /\ batch.version \in Nat /\ batch'.version \in Nat /\ batch.version <= batch'.version
      /\ \A q \in Process : proc[q].version \in Nat /\ proc[q].version <= batch.version
  BY VersionGrows DEF RunsInv, OwnedRuns, RunsTyped, RunsTypeOK, ProcessState, Handoffs
<1> QED BY <1>1

(* A step along the call of one process.                                   *)
LEMMA CallStepCloses ==
  ASSUME RunsInv, Handoffs, NEW p \in Process,
         \/ \E c \in Runs : BeginRefused(p, c)
         \/ Plan(p) \/ Release(p) \/ ReserveRun(p) \/ ClaimRun(p)
  PROVE  Handoffs'
<1> DEFINE c == proc[p].command
<1>1. StoreInv /\ RunsTyped /\ TypeOK /\ NoTransaction /\ DOMAIN <<>> = {} /\ [Next]_vars
  <2>1. NoTransaction
    BY DEF BeginRefused, Plan, Release, ReserveRun, ClaimRun, At
  <2>2. [Next]_vars
    BY RunsInvStep DEF RunsNext
  <2> QED BY <2>1, <2>2 DEF RunsInv, OwnedRuns, StoreInv
<1>2. \A d \in Runs : Closed(d)
  BY <1>1, BetweenTransactions
<1>3. (\E error \in Errors : Throw(p, error)) \/ \E pc \in PCs : Goto(p, pc)
  BY DEF BeginRefused, Plan, Release, ReserveRun, ClaimRun, Errors, PCs
<1>4. /\ \A q \in Process, d \in Runs : proc'[q].command = d =>
           proc[q].command = d /\ proc'[q].version = proc[q].version
      /\ \A q \in Process : proc'[q].version \in {proc[q].version, 0}
      /\ pending' = pending
  BY <1>1, <1>3, CallsKept
<1>5. /\ \A d \in CompanionIds : receipts'[d] = receipts[d]
      /\ \A d \in Runs :
           \/ receipts'[d] = receipts[d]
           \/ receipts'[d] = NoRow
           \/ Issued(d) = {} /\ receipts'[d].status # "SUCCEEDED"
  <2>1. CASE receipts' = receipts
    BY <2>1
  <2>2. CASE receipts' # receipts
    <3>1. Release(p) \/ ReserveRun(p) \/ ClaimRun(p)
      BY <2>2 DEF BeginRefused, Plan, Throw
    <3>2. c \in Runs /\ c \in Command /\ CompanionIds \subseteq Command /\ c \notin CompanionIds
      <4>1. c \in Runs
        BY <1>1, <3>1 DEF Release, ReserveRun, ClaimRun, At, RunsTyped
      <4> QED BY <4>1, RunIds, CompanionIdsApart
    <3>3. \/ ReleaseUnstarted(c)
          \/ Reserve(c, RequestOf(p))
          \/ Claim(c, IdentityOf(p))
      BY <2>2, <3>1 DEF Release, ReserveRun, ClaimRun, Throw, vars
    <3>4. \A d \in Command : d # c => receipts'[d] = receipts[d]
      BY <1>1, <3>2, <3>3 DEF ReleaseUnstarted, Supersede, Reserve, Claim, TypeOK
    <3>5. CASE ReleaseUnstarted(c)
      <4>1. receipts'[c] = NoRow
        BY <1>1, <3>2, <3>5 DEF ReleaseUnstarted, Supersede, TypeOK
      <4> QED BY <3>2, <3>4, <4>1, RunIds
    <3>6. CASE Reserve(c, RequestOf(p))
      <4>1. proc[p].version = batch.version
        BY <1>1, <3>2, <3>6, VersionPinned DEF Reserve, RequestOf
      <4>2. proc[p].version \in Nat
        BY <1>1 DEF RunsTyped, RunsTypeOK, ProcessState
      <4>3. ~Behind(c)
        BY <4>1, <4>2 DEF Behind
      <4>4. Issued(c) = {}
        BY <1>2, <3>2, <4>3 DEF Closed
      <4>5. receipts'[c].status # "SUCCEEDED"
        BY <1>1, <3>2, <3>6 DEF Reserve, ReservedRow, TypeOK
      <4> QED BY <3>2, <3>4, <4>4, <4>5, RunIds
    <3>7. CASE Claim(c, IdentityOf(p))
      <4>1. ~Ended(c)
        BY <3>7 DEF Claim, Claimable, Ended
      <4>2. Issued(c) = {}
        BY <1>2, <3>2, <4>1 DEF Closed
      <4>3. receipts[c] \in Row
        BY <1>1, <3>2, <3>7, LiveRow DEF Claim, Claimable
      <4>4. receipts'[c].status # "SUCCEEDED"
        BY <1>1, <3>2, <3>7, <4>3 DEF Claim, TypeOK, Row
      <4> QED BY <3>2, <3>4, <4>2, <4>4, RunIds
    <3> QED BY <3>3, <3>5, <3>6, <3>7
  <2> QED BY <2>1, <2>2
<1>6. \A d \in Runs : Closed(d)'
  BY <1>1, <1>2, <1>4, <1>5, QuietlyClosed
<1>7. Elsewhere'
  BY <1>1, <1>4 DEF Elsewhere, NoTransaction
<1>8. (\A q \in Process : proc[q].version <= batch.version)'
  BY <1>1, <1>4, VersionsKept
<1> QED BY <1>6, <1>7, <1>8 DEF Handoffs

(* Steps that leave the receipts alone and start no run that handed over.  *)
LEMMA IdleStepCloses ==
  ASSUME RunsInv, Handoffs, [RunsNext]_runVars, NoTransaction, receipts' = receipts,
         \A q \in Process, d \in Runs : proc'[q].command = d =>
           \/ proc[q].command = d /\ proc'[q].version = proc[q].version
           \/ Issued(d) = {},
         \A q \in Process : proc'[q].version \in {proc[q].version, 0, batch.version}
  PROVE  /\ (\A p \in Process : proc[p].version <= batch.version)'
         /\ \A d \in Runs : Closed(d)'
<1>1. [Next]_vars
  BY RunsInvStep
<1>2. \A d \in Runs : Closed(d)
  BY BetweenTransactions
<1> QED BY <1>1, <1>2, QuietlyClosed, VersionsKept

(* The process that returns opens the transaction of its run.              *)
LEMMA ReturnOpens ==
  ASSUME RunsInv, Handoffs, NEW p \in Process, Return(p)
  PROVE  Handoffs'
<1>1. /\ RunsTyped /\ NoTransaction /\ DOMAIN <<>> = {} /\ proc[p].command \in Runs
      /\ proc[p].pc = "INVOKING" /\ receipts' = receipts
  BY DEF RunsInv, OwnedRuns, RunsTyped, Return, At, Throw
<1> PICK c \in Runs : c = proc[p].command
  BY <1>1
<1>2. \E error \in Errors : proc' = [proc EXCEPT ![p] = Idle(error)]
  BY DEF Return, Throw, Errors
<1>3. /\ \A q \in Process : q # p => proc'[q] = proc[q]
      /\ proc'[p].command = NoCommand /\ proc'[p].version = 0 /\ NoCommand \notin Runs
  BY <1>1, <1>2, RunAssumption DEF RunsTyped, RunsTypeOK, Idle
<1>4. /\ (\A q \in Process : proc[q].version <= batch.version)'
      /\ \A d \in Runs : Closed(d)'
  BY <1>1, <1>3, IdleStepCloses DEF RunsNext
<1>5. CASE Throw(p, "OUTCOME_REFUSED")
  BY <1>1, <1>4, <1>5 DEF Throw, Handoffs, Elsewhere, NoTransaction
<1>6. ASSUME NEW script \in Scripts[c], pending' = CallsOf(p, script)
      PROVE  Underway(c)'
  <2>1. Position(c, script, 0)'
    BY <1>1, <1>6, TransactionOpens
  <2>2. receipts[c] # NoRow /\ receipts[c].status = "RUNNING"
    BY <1>1 DEF RunsInv, OwnedRuns, Ownership, Holds
  <2>3. Issued(c) = {}
    <3>1. Closed(c)
      BY <1>1, BetweenTransactions
    <3> QED BY <2>2, <3>1 DEF Closed, Ended
  <2>4. Progress(c, script, 0)'
    <3>1. \A i \in 1..Len(script.companions) :
            ~(2 * i + 1 <= 0) /\ receipts[script.companions[i]] = NoRow
      <4>1. Issued(c) = {d \in CompanionsOf(c) : receipts[d] # NoRow}
        BY <1>1, CompanionIdsApart
      <4>2. \A i \in 1..Len(script.companions) : script.companions[i] \in CompanionsOf(c)
        BY <1>1, ScriptCompanions
      <4> QED BY <1>1, <2>3, <4>1, <4>2, ScriptCompanions
    <3>2. Issued(c)' = {}
      BY <1>1, <2>3 DEF Issued
    <3> QED BY <1>1, <2>2, <3>1, <3>2 DEF Progress
  <2>5. 0 \in Nat
    OBVIOUS
  <2>6. (\E t \in Scripts[c], k \in Nat : Position(c, t, k) /\ Progress(c, t, k))'
    BY <2>1, <2>4, <2>5
  <2> QED BY <1>4, <2>6 DEF Underway
<1> QED BY <1>1, <1>4, <1>5, <1>6 DEF Return, Handoffs

LEMMA HandoffsStep ==
  ASSUME RunsInv, Handoffs, [RunsNext]_runVars
  PROVE  Handoffs'
<1>1. RunsTyped /\ DOMAIN <<>> = {}
  BY DEF RunsInv, OwnedRuns
<1>2. CASE UNCHANGED runVars
  <2>1. receipts' = receipts /\ batch' = batch /\ proc' = proc /\ pending' = pending
    BY <1>2 DEF runVars
  <2>2. \A c \in Runs : Closed(c) => Closed(c)'
    BY <2>1 DEF Closed, HandedOver, Issued, Ended, Behind, Companions, SuccessfulRow
  <2>3. \A c \in Runs : \A script \in Scripts[c], n \in Nat :
          Position(c, script, n) /\ Progress(c, script, n) =>
            (Position(c, script, n) /\ Progress(c, script, n))'
    BY <2>1 DEF Position, Progress, Behind, Issued, Companions, SuccessfulRow, SettledAs
  <2>4. \A c \in Runs : Underway(c) => Underway(c)'
    BY <2>2, <2>3 DEF Underway
  <2>5. Elsewhere => Elsewhere'
    BY <2>1 DEF Elsewhere
  <2> QED BY <2>1, <2>2, <2>4, <2>5 DEF Handoffs
<1>3. ASSUME NEW p \in Process, NEW c \in Runs, Begin(p, c)
      PROVE  Handoffs'
  <2>1. /\ NoTransaction /\ receipts' = receipts /\ pending' = pending /\ Issued(c) = {}
        /\ \A q \in Process : q # p => proc'[q] = proc[q]
        /\ proc'[p].command = c /\ proc'[p].version = batch.version
    BY <1>1, <1>3 DEF Begin, At, RunsTyped, RunsTypeOK
  <2>2. /\ (\A q \in Process : proc[q].version <= batch.version)'
        /\ \A d \in Runs : Closed(d)'
    BY <1>3, <2>1, IdleStepCloses DEF RunsNext
  <2> QED BY <1>1, <2>1, <2>2 DEF Handoffs, Elsewhere, NoTransaction
<1>4. ASSUME NEW p \in Process, Crash(p)
      PROVE  Handoffs'
  <2>1. /\ NoTransaction /\ receipts' = receipts /\ pending' = pending
        /\ \A q \in Process : q # p => proc'[q] = proc[q]
        /\ proc'[p].command = NoCommand /\ proc'[p].version = 0 /\ NoCommand \notin Runs
    BY <1>1, <1>4, RunAssumption DEF Crash, Idle, RunsTyped, RunsTypeOK
  <2>2. /\ (\A q \in Process : proc[q].version <= batch.version)'
        /\ \A d \in Runs : Closed(d)'
    BY <1>4, <2>1, IdleStepCloses DEF RunsNext
  <2> QED BY <1>1, <2>1, <2>2 DEF Handoffs, Elsewhere, NoTransaction
<1>5. ASSUME (\E c \in Direct : HumanCommand(c)) \/ FixAgain
      PROVE  Handoffs'
  <2>1. NoTransaction /\ receipts' = receipts /\ proc' = proc
    BY <1>5 DEF HumanCommand, FixAgain
  <2>2. /\ (\A q \in Process : proc[q].version <= batch.version)'
        /\ \A d \in Runs : Closed(d)'
    BY <1>5, <2>1, IdleStepCloses DEF RunsNext
  <2>3. ASSUME NEW c \in Direct, HumanCommand(c)
        PROVE  Elsewhere'
    BY <1>1, <2>3, HumanTyped DEF Elsewhere
  <2>4. ASSUME FixAgain
        PROVE  Elsewhere'
    <3>1. PICK order \in SetToSeqs(Retryable) :
            pending' = [k \in DOMAIN order |-> Call("RELEASE", order[k], NoIdentity)]
      BY <2>4 DEF FixAgain
    <3>2. \A k \in DOMAIN pending' : pending'[k].command \in Retryable
      BY <3>1, SweepTyped
    <3>3. \A k \in DOMAIN pending' : pending'[k].op = "RELEASE"
      BY <3>1 DEF Call
    <3>4. ASSUME NEW d \in Retryable, d \in CompanionIds
          PROVE  FALSE
      <4>1. PICK c \in Runs : d \in CompanionsOf(c)
        BY <3>4 DEF CompanionIds, CompanionsOf, Companions
      <4>2. receipts[d] # NoRow /\ receipts[d].status = "FAILED_FINAL"
        BY DEF Retryable, FailedFinalReleasable
      <4>3. SuccessfulRow(receipts[d])
        BY <2>1, <4>1, <4>2, BetweenTransactions, CompanionIdsApart DEF Closed, HandedOver
      <4> QED BY <4>2, <4>3 DEF SuccessfulRow
    <3> QED BY <3>2, <3>3, <3>4 DEF Elsewhere
  <2> QED BY <1>5, <2>2, <2>3, <2>4 DEF Handoffs
<1>6. CASE TransactionStep
  <2>1. (\A q \in Process : proc[q].version <= batch.version)'
    BY <1>6, HeadStep, VersionsKept
  <2>2. CASE Elsewhere /\ \A c \in Runs : Closed(c)
    BY <1>6, <2>1, <2>2, ElsewhereStep DEF Handoffs
  <2>3. ASSUME NEW c \in Runs, Underway(c)
        PROVE  Handoffs'
    BY <1>6, <2>1, <2>3, UnderwayStep DEF Handoffs
  <2> QED BY <2>2, <2>3 DEF Handoffs
<1> QED BY <1>2, <1>3, <1>4, <1>5, <1>6, CallStepCloses, ReturnOpens DEF RunsNext

LEMMA HandoffsInit == RunsInit => Handoffs
<1> SUFFICES ASSUME RunsInit PROVE Handoffs
  OBVIOUS
<1>1. /\ \A p \in Process : proc[p].version = 0
      /\ pending = <<>> /\ DOMAIN <<>> = {} /\ batch.version = 0
      /\ \A c \in Command : receipts[c] = NoRow
  BY DEF RunsInit, Init, Idle
<1>2. ASSUME NEW c \in Runs
      PROVE  Issued(c) = {} /\ ~SuccessfulRow(receipts[c])
  <2>1. Issued(c) = {d \in CompanionsOf(c) : receipts[d] # NoRow}
        /\ CompanionsOf(c) \subseteq Command /\ c \in Command
    BY CompanionIdsApart, RunIds
  <2> QED BY <1>1, <2>1 DEF SuccessfulRow
<1> QED BY <1>1, <1>2 DEF Handoffs, Elsewhere, Closed, HandedOver

(* Between transactions a run that settled has handed over completely, to  *)
(* the companions of one of its scripts and to none else, whatever raced,  *)
(* crashed or was released and begun again.                                *)
THEOREM HandoffsComplete == RunsSpec => []HandoffComplete
<1>1. RunsInv /\ Handoffs => HandoffComplete
  BY BetweenTransactions DEF HandoffComplete, Closed, HandedOver
<1> QED BY <1>1, RunsInvariant, HandoffsInit, HandoffsStep, PTL DEF RunsSpec
=============================================================================
