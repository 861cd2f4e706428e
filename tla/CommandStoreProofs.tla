------------------------- MODULE CommandStoreProofs -------------------------
(***************************************************************************)
(* Theorems about the command store, for every set of commands, actors,    *)
(* shas and identities and every archive bound.                            *)
(***************************************************************************)
EXTENDS CommandStore, SequenceTheorems, TLAPS

-----------------------------------------------------------------------------
(* The kernel tables stay inside their types.                              *)
LEMMA KernelTables ==
  /\ \A s \in BlockableStates : SafeBlockedResumeState[s] \in ResumableStates
  /\ \A t \in CommandTypes \ {"RESUME_BATCH"} : TargetState[t] \in BatchStates
<1>1. ASSUME NEW s \in BlockableStates
      PROVE  SafeBlockedResumeState[s] \in ResumableStates
  BY DEF SafeBlockedResumeState, ResumableStates, BlockableStates
<1>2. ASSUME NEW t \in CommandTypes \ {"RESUME_BATCH"}
      PROVE  TargetState[t] \in BatchStates
  BY DEF TargetState, CommandTypes, BatchStates, BlockableStates, TerminalStates
<1> QED BY <1>1, <1>2

(* A command the kernel allows leads from a kernel context to another.     *)
LEMMA NextContextType ==
  ASSUME NEW t \in CommandTypes, NEW ctx \in KernelContext, StateAllows(t, ctx)
  PROVE  NextContext(t, ctx) \in KernelContext
<1>1. CASE t = "RESUME_BATCH"
  BY <1>1 DEF StateAllows, NextContext, KernelContext, ResumableStates,
              BatchStates, BlockableStates
<1>2. CASE t = "BLOCK_BATCH"
  <2>1. ctx.state \in BlockableStates
    BY <1>2 DEF StateAllows, ExpectedSourceStates, CommandTypes
  <2>2. TargetState[t] \in BatchStates /\ SafeBlockedResumeState[ctx.state] \in ResumableStates
    BY <1>2, <2>1, KernelTables
  <2> QED BY <1>2, <2>1, <2>2 DEF NextContext, KernelContext
<1>3. CASE t \notin {"RESUME_BATCH", "BLOCK_BATCH"}
  <2>1. TargetState[t] \in BatchStates
    BY <1>3, KernelTables
  <2> QED BY <1>3, <2>1 DEF NextContext, KernelContext
<1> QED BY <1>1, <1>2, <1>3

-----------------------------------------------------------------------------
(* A live receipt is a row.                                                *)
LEMMA LiveRow ==
  ASSUME TypeOK, NEW c \in Command, receipts[c] # NoRow
  PROVE  receipts[c] \in Row
BY DEF TypeOK

(* The rewrites of a row the store performs stay in Row.                   *)
LEMMA RowUpdates ==
  ASSUME NEW row \in Row
  PROVE  /\ Settled(row.effect) \in Effects
         /\ \A i \in Identity :
              [row EXCEPT !.status = "RUNNING", !.effect = "STARTING", !.identity = i] \in Row
         /\ \A s \in Statuses, e \in Effects :
              [row EXCEPT !.status = s, !.effect = e] \in Row
         /\ \A s \in Statuses, e \in Effects, v \in Nat, q \in Nat :
              [row EXCEPT !.status = s, !.effect = e, !.version = v, !.sequence = q] \in Row
BY DEF Row, Settled, Effects, Statuses

LEMMA ReservedRowType ==
  ASSUME NEW r \in Request
  PROVE  ReservedRow(r) \in Row
BY DEF ReservedRow, Row, Statuses, Effects

(* Requests enumerated from the current state are requests.                *)
LEMMA RequestsTyped ==
  ASSUME TypeOK, NEW c \in Command
  PROVE  RequestsFor(c) \subseteq Request
BY CommandAssumption DEF TypeOK, RequestsFor, Request, TargetShas, Batch

(* Superseding keeps every type, and the domain and order of the events.   *)
LEMMA SupersedeTyped ==
  ASSUME TypeOK, NEW c \in Command, receipts[c] # NoRow, Supersede(c)
  PROVE  TypeOK'
<1>1. receipts' \in [Command -> Row \cup {NoRow}]
  BY DEF TypeOK, Supersede
<1>2. archive' \in Seq([command: Command, row: Row])
  BY LiveRow DEF TypeOK, Supersede
<1>3. batch' \in Batch
  BY DEF TypeOK, Supersede
<1>4. events' \in Seq(Event)
  <2>1. Len(archive) + 1 \in Nat
    BY DEF TypeOK
  <2>2. \A n \in DOMAIN events : events[n] \in Event
    BY DEF TypeOK
  <2>3. \A n \in DOMAIN events : events'[n] \in Event
    BY <2>1, <2>2 DEF Supersede, Event
  <2>4. DOMAIN events' = 1..Len(events) /\ Len(events) \in Nat
    BY DEF Supersede, TypeOK
  <2>5. events' = [n \in 1..Len(events) |-> events'[n]]
    BY <2>4 DEF Supersede, TypeOK
  <2> QED BY <2>3, <2>4, <2>5, DOMAIN events = 1..Len(events) DEF TypeOK
<1> QED BY <1>1, <1>2, <1>3, <1>4 DEF TypeOK

(* What completing a receipt does to the receipt function.                 *)
LEMMA CompleteReceiptTyped ==
  ASSUME TypeOK, NEW c \in Command, receipts[c] # NoRow,
         NEW v \in Nat, NEW q \in Nat, CompleteReceipt(c, v, q)
  PROVE  receipts' \in [Command -> Row \cup {NoRow}]
<1>1. receipts[c] \in Row /\ Settled(receipts[c].effect) \in Effects
  BY LiveRow, RowUpdates
<1>2. [receipts[c] EXCEPT !.status = "SUCCEEDED", !.effect = Settled(receipts[c].effect),
                          !.version = v, !.sequence = q] \in Row
  BY <1>1, RowUpdates DEF Statuses
<1>3. receipts' = [receipts EXCEPT ![c] =
        [receipts[c] EXCEPT !.status = "SUCCEEDED", !.effect = Settled(receipts[c].effect),
                            !.version = v, !.sequence = q]]
  BY DEF CompleteReceipt, TypeOK
<1> QED BY <1>2, <1>3 DEF TypeOK

(* Type correctness is preserved by every step of every caller.            *)
LEMMA TypeStep ==
  ASSUME TypeOK, [Next]_vars
  PROVE  TypeOK'
<1>1. ASSUME NEW c \in Command, NEW r \in RequestsFor(c), Reserve(c, r)
      PROVE  TypeOK'
  <2>1. ReservedRow(r) \in Row
    BY <1>1, RequestsTyped, ReservedRowType
  <2> QED BY <1>1, <2>1 DEF Reserve, TypeOK
<1>2. ASSUME NEW c \in Command, ReleaseFailedFinal(c) \/ ReleaseUnstarted(c)
      PROVE  TypeOK'
  BY <1>2, SupersedeTyped DEF ReleaseFailedFinal, ReleaseUnstarted
<1>3. ASSUME NEW c \in Command, NEW i \in Identity, Claim(c, i)
      PROVE  TypeOK'
  <2>1. receipts[c] \in Row
    BY <1>3, LiveRow DEF Claim, Claimable
  <2>2. [receipts[c] EXCEPT !.status = "RUNNING", !.effect = "STARTING",
                            !.identity = i] \in Row
    BY <2>1, RowUpdates
  <2>3. receipts' = [receipts EXCEPT ![c] =
           [receipts[c] EXCEPT !.status = "RUNNING", !.effect = "STARTING", !.identity = i]]
    BY <1>3 DEF Claim, TypeOK
  <2> QED BY <1>3, <2>2, <2>3 DEF Claim, TypeOK
<1>4. ASSUME NEW c \in Command, SucceedWithBatchCreation(c)
      PROVE  TypeOK'
  <2>1. receipts[c] \in Row /\ receipts[c].request.version + 1 \in Nat
    BY <1>4, LiveRow DEF SucceedWithBatchCreation, Row, Request
  <2>2. receipts' \in [Command -> Row \cup {NoRow}]
    BY <1>4, <2>1, CompleteReceiptTyped DEF SucceedWithBatchCreation
  <2>3. NextContext("CREATE_BATCH", batch.context) \in KernelContext
    BY <1>4, NextContextType DEF SucceedWithBatchCreation, KernelAllows, TypeOK, Batch,
       CommandTypes
  <2>4. batch' \in Batch
    BY <1>4, <2>1, <2>3 DEF SucceedWithBatchCreation, Batch
  <2>5. events' \in Seq(Event)
    BY <1>4, <2>1 DEF SucceedWithBatchCreation, AppendEvent, Event, TypeOK
  <2> QED BY <1>4, <2>2, <2>4, <2>5 DEF SucceedWithBatchCreation, TypeOK
<1>5. ASSUME NEW c \in Command, NEW by \in Identity \cup {NoIdentity},
             SucceedWithTransition(c, by)
      PROVE  TypeOK'
  <2>1. receipts[c] \in Row /\ batch.version + 1 \in Nat /\ batch.sequence + 1 \in Nat
    BY <1>5, LiveRow DEF SucceedWithTransition, TypeOK, Batch
  <2>2. receipts' \in [Command -> Row \cup {NoRow}]
    BY <1>5, <2>1, CompleteReceiptTyped DEF SucceedWithTransition
  <2>3. NextContext(CommandType[c], batch.context) \in KernelContext
    BY <1>5, NextContextType, CommandAssumption
       DEF SucceedWithTransition, KernelAllows, TypeOK, Batch
  <2>4. NextBase(c) \in Sha \cup {NoSha}
    BY <2>1 DEF NextBase, TypeOK, Batch, Row, Request
  <2>5. batch' \in Batch
    BY <1>5, <2>1, <2>3, <2>4 DEF SucceedWithTransition, Batch
  <2>6. events' \in Seq(Event)
    BY <1>5, <2>1 DEF SucceedWithTransition, AppendEvent, Event, TypeOK
  <2> QED BY <1>5, <2>2, <2>5, <2>6 DEF SucceedWithTransition, TypeOK
<1>6. ASSUME NEW c \in Command, SucceedWithoutTransition(c)
      PROVE  TypeOK'
  <2>1. receipts[c] \in Row
    BY <1>6, LiveRow DEF SucceedWithoutTransition
  <2>2. [receipts[c] EXCEPT !.status = "SUCCEEDED",
                            !.effect = Settled(receipts[c].effect)] \in Row
    BY <2>1, RowUpdates DEF Statuses
  <2>3. receipts' = [receipts EXCEPT ![c] =
           [receipts[c] EXCEPT !.status = "SUCCEEDED",
                               !.effect = Settled(receipts[c].effect)]]
    BY <1>6 DEF SucceedWithoutTransition, TypeOK
  <2> QED BY <1>6, <2>2, <2>3 DEF SucceedWithoutTransition, TypeOK
<1>7. ASSUME NEW c \in Command, NEW s \in Outcomes, RecordOutcome(c, s)
      PROVE  TypeOK'
  <2> DEFINE e == IF s \in {"FAILED_FINAL", "RECONCILED"}
                  THEN Settled(receipts[c].effect) ELSE receipts[c].effect
  <2>1. receipts[c] \in Row
    BY <1>7, LiveRow DEF RecordOutcome
  <2>2. s \in Statuses /\ e \in Effects
    <3>1. receipts[c].effect \in Effects /\ Settled(receipts[c].effect) \in Effects
      BY <2>1, RowUpdates DEF Row
    <3> QED BY <3>1 DEF Outcomes, Statuses
  <2>3. [receipts[c] EXCEPT !.status = s, !.effect = e] \in Row
    BY <2>1, <2>2, RowUpdates
  <2>4. receipts' = [receipts EXCEPT ![c] = [receipts[c] EXCEPT !.status = s, !.effect = e]]
    BY <1>7 DEF RecordOutcome, TypeOK
  <2> QED BY <1>7, <2>3, <2>4 DEF RecordOutcome, TypeOK
<1>8. CASE UNCHANGED vars
  BY <1>8 DEF vars, TypeOK
<1> QED BY <1>1, <1>2, <1>3, <1>4, <1>5, <1>6, <1>7, <1>8 DEF Next

LEMMA TypeInit == Init => TypeOK
BY CommandAssumption DEF Init, TypeOK, Batch, KernelContext, NoContext

(* Every reachable state is well typed, whatever the callers do.           *)
THEOREM TypeCorrect == Spec => []TypeOK
BY TypeInit, TypeStep, PTL DEF Spec

-----------------------------------------------------------------------------
(* Every rewrite of a row keeps the receipt and its side effect agreed.    *)
LEMMA RowAgreesUpdates ==
  ASSUME NEW row \in Row, RowAgrees(row)
  PROVE  /\ \A i \in Identity : row.status = "RESERVED" /\ row.effect = "NOT_STARTED" =>
              RowAgrees([row EXCEPT !.status = "RUNNING", !.effect = "STARTING",
                                    !.identity = i])
         /\ \A v \in Nat, q \in Nat : CanComplete(row) =>
              RowAgrees([row EXCEPT !.status = "SUCCEEDED", !.effect = Settled(row.effect),
                                    !.version = v, !.sequence = q])
         /\ CanComplete(row) =>
              RowAgrees([row EXCEPT !.status = "SUCCEEDED", !.effect = Settled(row.effect)])
         /\ \A s \in {"FAILED_FINAL", "RECONCILED"} : row.status \in OutcomeSources(s) =>
              RowAgrees([row EXCEPT !.status = s, !.effect = Settled(row.effect)])
         /\ \A s \in {"TIMED_OUT", "OUTCOME_UNKNOWN"} : row.status \in OutcomeSources(s) =>
              RowAgrees([row EXCEPT !.status = s])
<1>1. ASSUME NEW i \in Identity, row.status = "RESERVED", row.effect = "NOT_STARTED"
      PROVE  RowAgrees([row EXCEPT !.status = "RUNNING", !.effect = "STARTING",
                                   !.identity = i])
  BY <1>1, CommandAssumption DEF RowAgrees, Row
<1>2. ASSUME NEW v \in Nat, NEW q \in Nat, CanComplete(row)
      PROVE  RowAgrees([row EXCEPT !.status = "SUCCEEDED", !.effect = Settled(row.effect),
                                   !.version = v, !.sequence = q])
  BY <1>2 DEF RowAgrees, Row, CanComplete, Settled
<1>3. ASSUME CanComplete(row)
      PROVE  RowAgrees([row EXCEPT !.status = "SUCCEEDED", !.effect = Settled(row.effect)])
  BY <1>3 DEF RowAgrees, Row, CanComplete, Settled
<1>4. ASSUME NEW s \in {"FAILED_FINAL", "RECONCILED"}, row.status \in OutcomeSources(s)
      PROVE  RowAgrees([row EXCEPT !.status = s, !.effect = Settled(row.effect)])
  BY <1>4 DEF RowAgrees, Row, OutcomeSources, Settled
<1>5. ASSUME NEW s \in {"TIMED_OUT", "OUTCOME_UNKNOWN"}, row.status \in OutcomeSources(s)
      PROVE  RowAgrees([row EXCEPT !.status = s])
  BY <1>5 DEF RowAgrees, Row, OutcomeSources
<1> QED BY <1>1, <1>2, <1>3, <1>4, <1>5

(* What each step makes of the row of the command it is about.  The other  *)
(* rows are left alone.                                                    *)
RowStep(c) ==
  LET row == receipts[c] IN
    \/ \E r \in Request : row = NoRow /\ receipts'[c] = ReservedRow(r)
    \/ /\ row # NoRow
       /\ FailedFinalReleasable(row) \/ UnstartedReleasable(row)
       /\ receipts'[c] = NoRow
    \/ \E i \in Identity :
         /\ Claimable(c)
         /\ receipts'[c] =
              [row EXCEPT !.status = "RUNNING", !.effect = "STARTING", !.identity = i]
    \/ \E v, q \in Nat :
         /\ row # NoRow
         /\ CanComplete(row)
         /\ receipts'[c] =
              [row EXCEPT !.status = "SUCCEEDED", !.effect = Settled(row.effect),
                          !.version = v, !.sequence = q]
    \/ /\ row # NoRow
       /\ CanComplete(row)
       /\ receipts'[c] =
            [row EXCEPT !.status = "SUCCEEDED", !.effect = Settled(row.effect)]
    \/ \E s \in {"FAILED_FINAL", "RECONCILED"} :
         /\ row # NoRow
         /\ row.status \in OutcomeSources(s)
         /\ receipts'[c] = [row EXCEPT !.status = s, !.effect = Settled(row.effect)]
    \/ \E s \in {"TIMED_OUT", "OUTCOME_UNKNOWN"} :
         /\ row # NoRow
         /\ row.status \in OutcomeSources(s)
         /\ receipts'[c] = [row EXCEPT !.status = s]

LEMMA RowSteps ==
  ASSUME TypeOK, [Next]_vars, NEW d \in Command
  PROVE  receipts'[d] = receipts[d] \/ RowStep(d)
<1>1. ASSUME NEW c \in Command, NEW r \in RequestsFor(c), Reserve(c, r)
      PROVE  receipts'[d] = receipts[d] \/ RowStep(d)
  BY <1>1, RequestsTyped DEF Reserve, RowStep, TypeOK
<1>2. ASSUME NEW c \in Command, ReleaseFailedFinal(c) \/ ReleaseUnstarted(c)
      PROVE  receipts'[d] = receipts[d] \/ RowStep(d)
  BY <1>2 DEF ReleaseFailedFinal, ReleaseUnstarted, Supersede, RowStep, TypeOK
<1>3. ASSUME NEW c \in Command, NEW i \in Identity, Claim(c, i)
      PROVE  receipts'[d] = receipts[d] \/ RowStep(d)
  BY <1>3 DEF Claim, RowStep, TypeOK
<1>4. ASSUME NEW c \in Command, NEW v \in Nat, NEW q \in Nat, receipts[c] # NoRow,
             CanComplete(receipts[c]), CompleteReceipt(c, v, q)
      PROVE  receipts'[d] = receipts[d] \/ RowStep(d)
  BY <1>4 DEF CompleteReceipt, RowStep, TypeOK
<1>5. ASSUME NEW c \in Command, SucceedWithBatchCreation(c)
      PROVE  receipts'[d] = receipts[d] \/ RowStep(d)
  <2>1. receipts[c].request.version + 1 \in Nat
    BY <1>5, LiveRow DEF SucceedWithBatchCreation, Row, Request
  <2> QED BY <1>4, <1>5, <2>1 DEF SucceedWithBatchCreation
<1>6. ASSUME NEW c \in Command, NEW by \in Identity \cup {NoIdentity},
             SucceedWithTransition(c, by)
      PROVE  receipts'[d] = receipts[d] \/ RowStep(d)
  <2>1. batch.version + 1 \in Nat /\ batch.sequence + 1 \in Nat
    BY DEF TypeOK, Batch
  <2> QED BY <1>4, <1>6, <2>1 DEF SucceedWithTransition
<1>7. ASSUME NEW c \in Command, SucceedWithoutTransition(c)
      PROVE  receipts'[d] = receipts[d] \/ RowStep(d)
  BY <1>7 DEF SucceedWithoutTransition, RowStep, TypeOK
<1>8. ASSUME NEW c \in Command, NEW s \in Outcomes, RecordOutcome(c, s)
      PROVE  receipts'[d] = receipts[d] \/ RowStep(d)
  <2>1. CASE s \in {"FAILED_FINAL", "RECONCILED"}
    BY <1>8, <2>1 DEF RecordOutcome, RowStep, TypeOK
  <2>2. CASE s \in {"TIMED_OUT", "OUTCOME_UNKNOWN"}
    <3>1. d # c => receipts'[d] = receipts[d]
      BY <1>8 DEF RecordOutcome, TypeOK
    <3>2. receipts[c] \in Row
      BY <1>8, LiveRow DEF RecordOutcome
    <3>3. receipts'[c] = [receipts[c] EXCEPT !.status = s]
      BY <1>8, <2>2, <3>2 DEF RecordOutcome, TypeOK, Row
    <3> QED BY <1>8, <2>2, <3>1, <3>3 DEF RecordOutcome, RowStep
  <2> QED BY <2>1, <2>2 DEF Outcomes
<1>9. CASE UNCHANGED vars
  BY <1>9 DEF vars
<1> QED BY <1>1, <1>2, <1>3, <1>5, <1>6, <1>7, <1>8, <1>9 DEF Next

LEMMA AgreeStep ==
  ASSUME TypeOK, ReceiptAndEffectAgree, [Next]_vars
  PROVE  ReceiptAndEffectAgree'
<1> SUFFICES ASSUME NEW d \in Command, receipts'[d] # NoRow
             PROVE  RowAgrees(receipts'[d])
  BY DEF ReceiptAndEffectAgree, RowAgrees
<1>1. CASE receipts[d] = NoRow
  <2>1. PICK r \in Request : receipts'[d] = ReservedRow(r)
    BY <1>1, RowSteps DEF RowStep, Claimable
  <2> QED BY <2>1, CommandAssumption
          DEF RowAgrees, ReservedRow, Request, SideEffectKinds, NoKind
<1>2. CASE receipts[d] # NoRow
  <2>1. receipts[d] \in Row /\ RowAgrees(receipts[d])
    BY <1>2, LiveRow DEF ReceiptAndEffectAgree
  <2> DEFINE row == receipts[d]
  <2>2. CASE receipts'[d] = row
    BY <2>1, <2>2
  <2>3. CASE Claimable(d) /\ \E i \in Identity : receipts'[d] =
               [row EXCEPT !.status = "RUNNING", !.effect = "STARTING", !.identity = i]
    BY <2>1, <2>3, RowAgreesUpdates DEF Claimable
  <2>4. CASE CanComplete(row) /\ \E v, q \in Nat : receipts'[d] =
               [row EXCEPT !.status = "SUCCEEDED", !.effect = Settled(row.effect),
                           !.version = v, !.sequence = q]
    <3>1. PICK v \in Nat, q \in Nat : receipts'[d] =
               [row EXCEPT !.status = "SUCCEEDED", !.effect = Settled(row.effect),
                           !.version = v, !.sequence = q]
      BY <2>4
    <3>2. RowAgrees([row EXCEPT !.status = "SUCCEEDED", !.effect = Settled(row.effect),
                                !.version = v, !.sequence = q])
      BY <2>1, <2>4, RowAgreesUpdates
    <3> QED BY <3>1, <3>2
  <2>5. CASE /\ CanComplete(row)
             /\ receipts'[d] =
                  [row EXCEPT !.status = "SUCCEEDED", !.effect = Settled(row.effect)]
    BY <2>1, <2>5, RowAgreesUpdates
  <2>6. CASE \E s \in {"FAILED_FINAL", "RECONCILED"} :
               /\ row.status \in OutcomeSources(s)
               /\ receipts'[d] = [row EXCEPT !.status = s, !.effect = Settled(row.effect)]
    BY <2>1, <2>6, RowAgreesUpdates
  <2>7. CASE \E s \in {"TIMED_OUT", "OUTCOME_UNKNOWN"} :
               /\ row.status \in OutcomeSources(s)
               /\ receipts'[d] = [row EXCEPT !.status = s]
    BY <2>1, <2>7, RowAgreesUpdates
  <2> QED BY <1>2, <2>2, <2>3, <2>4, <2>5, <2>6, <2>7, RowSteps DEF RowStep
<1> QED BY <1>1, <1>2

-----------------------------------------------------------------------------
(* A batch that does not exist yet is at version 0, and every command      *)
(* reserved so far was reserved against that version.                      *)
UnbornBatch ==
  batch.context.state = NoState =>
    /\ batch.version = 0
    /\ \A c \in Command : receipts[c] # NoRow => receipts[c].request.version = 0

(* A batch that exists keeps existing: no command leads to NoState.        *)
LEMMA BatchStaysBorn ==
  ASSUME NEW t \in CommandTypes, NEW ctx \in KernelContext, StateAllows(t, ctx)
  PROVE  NextContext(t, ctx).state # NoState
<1>1. CASE t = "RESUME_BATCH"
  BY <1>1 DEF StateAllows, NextContext, ResumableStates, NoState
<1>2. CASE t # "RESUME_BATCH"
  <2>1. TargetState[t] \in BatchStates
    BY <1>2, KernelTables
  <2> QED BY <1>2, <2>1
          DEF NextContext, NoState, BatchStates, BlockableStates, TerminalStates
<1> QED BY <1>1, <1>2

LEMMA RequestStays ==
  ASSUME TypeOK, [Next]_vars, NEW d \in Command, receipts[d] # NoRow, receipts'[d] # NoRow
  PROVE  receipts'[d].request = receipts[d].request
BY RowSteps, LiveRow DEF RowStep, Row, Claimable

LEMMA UnbornStep ==
  ASSUME TypeOK, UnbornBatch, [Next]_vars
  PROVE  UnbornBatch'
<1>1. ASSUME NEW c \in Command, NEW r \in RequestsFor(c), Reserve(c, r)
      PROVE  UnbornBatch'
  <2>1. ReservedRow(r).request = r /\ r.version = batch.version
    BY <1>1 DEF ReservedRow, RequestsFor
  <2> QED BY <1>1, <2>1 DEF Reserve, UnbornBatch, TypeOK
<1>2. ASSUME NEW c \in Command, KernelAllows(c),
             batch'.context = NextContext(CommandType[c], batch.context)
      PROVE  UnbornBatch'
  BY <1>2, BatchStaysBorn, CommandAssumption DEF KernelAllows, UnbornBatch, TypeOK, Batch
<1>3. ASSUME NEW c \in Command, SucceedWithBatchCreation(c)
      PROVE  UnbornBatch'
  BY <1>2, <1>3 DEF SucceedWithBatchCreation
<1>4. ASSUME NEW c \in Command, NEW by \in Identity \cup {NoIdentity},
             SucceedWithTransition(c, by)
      PROVE  UnbornBatch'
  BY <1>2, <1>4 DEF SucceedWithTransition
<1>5. ASSUME batch' = batch, \A d \in Command : receipts[d] = NoRow => receipts'[d] = NoRow
      PROVE  UnbornBatch'
  BY <1>5, RequestStays DEF UnbornBatch
<1>6. ASSUME NEW c \in Command,
             ReleaseFailedFinal(c) \/ ReleaseUnstarted(c) \/ SucceedWithoutTransition(c)
             \/ (\E i \in Identity : Claim(c, i)) \/ (\E s \in Outcomes : RecordOutcome(c, s))
      PROVE  UnbornBatch'
  <2>1. batch' = batch
    BY <1>6 DEF ReleaseFailedFinal, ReleaseUnstarted, Supersede, SucceedWithoutTransition,
                Claim, RecordOutcome
  <2>2. receipts[c] # NoRow
    BY <1>6 DEF ReleaseFailedFinal, ReleaseUnstarted, SucceedWithoutTransition,
                Claim, Claimable, RecordOutcome
  <2>3. \A d \in Command \ {c} : receipts'[d] = receipts[d]
    BY <1>6 DEF ReleaseFailedFinal, ReleaseUnstarted, Supersede, SucceedWithoutTransition,
                Claim, RecordOutcome, TypeOK
  <2> QED BY <1>5, <2>1, <2>2, <2>3
<1>7. CASE UNCHANGED vars
  BY <1>5, <1>7 DEF vars
<1> QED BY <1>1, <1>3, <1>4, <1>6, <1>7 DEF Next

-----------------------------------------------------------------------------
(* A successful receipt is final: no step of any caller touches it.        *)
LEMMA SuccessIsFinal ==
  ASSUME TypeOK, [Next]_vars, NEW d \in Command, SuccessfulRow(receipts[d])
  PROVE  receipts'[d] = receipts[d]
<1>1. receipts[d].status = "SUCCEEDED" /\ receipts[d] # NoRow
  BY DEF SuccessfulRow
<1>2. ~RowStep(d)
  BY <1>1 DEF RowStep, Claimable, FailedFinalReleasable, UnstartedReleasable, CanComplete,
              OutcomeSources
<1> QED BY <1>2, RowSteps

LEMMA EventsTyped ==
  ASSUME TypeOK
  PROVE  /\ Len(events) \in Nat
         /\ DOMAIN events = 1..Len(events)
         /\ \A n \in DOMAIN events : events[n] \in Event
         /\ \A n \in DOMAIN events : events[n].command \in Command
<1>1. Len(events) \in Nat /\ DOMAIN events = 1..Len(events)
  BY DEF TypeOK
<1>2. \A n \in DOMAIN events : events[n] \in Event
  BY DEF TypeOK
<1> QED BY <1>1, <1>2 DEF Event

(* A step that leaves the batch and the event log alone, and changes no    *)
(* resulting version, preserves the story they tell.                       *)
LEMMA LogUntouched ==
  ASSUME TypeOK, EventLogMatchesReceipts, [Next]_vars, UNCHANGED <<batch, events>>,
         \A d \in Command : receipts'[d] # NoRow /\ HasDurableState(receipts'[d]) =>
           /\ receipts[d] # NoRow
           /\ receipts'[d].version = receipts[d].version
           /\ HasDurableState(receipts[d])
  PROVE  EventLogMatchesReceipts'
<1>1. \A n \in DOMAIN events : events[n].command \in Command
  BY EventsTyped
<1>2. \A n \in DOMAIN events :
        receipts'[events[n].command] = receipts[events[n].command]
  BY <1>1, SuccessIsFinal DEF EventLogMatchesReceipts
<1> QED BY <1>2 DEF EventLogMatchesReceipts, SuccessfulRow

(* A command whose receipt can still complete has no event and no          *)
(* resulting version.                                                      *)
LEMMA OpenHasNoEvent ==
  ASSUME TypeOK, EventLogMatchesReceipts, NEW c \in Command, receipts[c] # NoRow,
         receipts[c].status # "SUCCEEDED"
  PROVE  /\ \A n \in DOMAIN events : events[n].command # c
         /\ ~HasDurableState(receipts[c]) \/ receipts[c].version = 0
<1>1. \A n \in DOMAIN events : events[n].command # c
  BY DEF EventLogMatchesReceipts, SuccessfulRow
<1> QED BY <1>1 DEF EventLogMatchesReceipts

(* Completing a receipt that was reserved against the current version      *)
(* appends the one event the story lacked.                                 *)
LEMMA LogAppended ==
  ASSUME TypeOK, EventLogMatchesReceipts, NEW c \in Command, receipts[c] # NoRow,
         CanComplete(receipts[c]), receipts[c].request.version = Len(events),
         NEW by,
         AppendEvent(c, Len(events) + 1, Len(events) + 1, by),
         CompleteReceipt(c, Len(events) + 1, Len(events) + 1),
         batch'.version = Len(events) + 1, batch'.sequence = Len(events) + 1
  PROVE  EventLogMatchesReceipts'
<1> DEFINE e == [command |-> c, archived |-> 0, version |-> Len(events) + 1,
                 sequence |-> Len(events) + 1, by |-> by]
<1>1. /\ Len(events) \in Nat
      /\ DOMAIN events = 1..Len(events)
      /\ \A n \in DOMAIN events : events[n].command \in Command
  BY EventsTyped
<1>2. events' = Append(events, e)
  BY DEF AppendEvent
<1>3. /\ Len(events') = Len(events) + 1
      /\ DOMAIN events' = 1..(Len(events) + 1)
      /\ \A n \in DOMAIN events : events'[n] = events[n]
      /\ events'[Len(events) + 1] = e
  BY <1>1, <1>2 DEF TypeOK
<1>4. receipts[c].status # "SUCCEEDED" /\ \A n \in DOMAIN events : events[n].command # c
  <2>1. receipts[c].status # "SUCCEEDED"
    BY DEF CanComplete
  <2> QED BY <2>1, OpenHasNoEvent
<1>5. \A d \in Command \ {c} : receipts'[d] = receipts[d]
  BY DEF CompleteReceipt, TypeOK
<1>6. receipts[c] \in Row
  BY LiveRow
<1>7. receipts'[c] = [receipts[c] EXCEPT !.status = "SUCCEEDED",
                        !.effect = Settled(receipts[c].effect),
                        !.version = Len(events) + 1, !.sequence = Len(events) + 1]
  BY DEF CompleteReceipt, TypeOK
<1>8. /\ receipts'[c].status = "SUCCEEDED"
      /\ receipts'[c].version = Len(events) + 1
      /\ receipts'[c].sequence = Len(events) + 1
      /\ receipts'[c].request.version = Len(events)
  BY <1>6, <1>7 DEF Row
<1>9. receipts'[c] # NoRow
  <2>1. Settled(receipts[c].effect) \in Effects
    BY <1>6, RowUpdates
  <2>2. receipts'[c] \in Row
    <3>1. [receipts[c] EXCEPT !.status = "SUCCEEDED", !.effect = Settled(receipts[c].effect),
                              !.version = Len(events) + 1, !.sequence = Len(events) + 1] \in Row
      <4>1. Len(events) + 1 \in Nat
        BY <1>1
      <4> QED BY <1>6, <2>1, <4>1, RowUpdates DEF Statuses
    <3> QED BY <1>7, <3>1
  <2> QED BY <2>2, NoRowAssumption
<1>10. ASSUME NEW n \in DOMAIN events'
       PROVE  /\ events'[n].version = n
              /\ events'[n].sequence = n
              /\ events'[n].archived = 0
              /\ SuccessfulRow(receipts'[events'[n].command])
              /\ receipts'[events'[n].command].version = n
              /\ receipts'[events'[n].command].sequence = n
              /\ receipts'[events'[n].command].request.version = n - 1
  <2>1. CASE n \in DOMAIN events
    <3>1. events'[n] = events[n] /\ events[n].command \in Command \ {c}
      BY <1>1, <1>3, <1>4, <2>1
    <3> QED BY <1>5, <2>1, <3>1 DEF EventLogMatchesReceipts, SuccessfulRow
  <2>2. CASE n = Len(events) + 1
    <3>1. events'[n] = e
      BY <1>3, <2>2
    <3> QED BY <1>1, <1>8, <1>9, <2>2, <3>1 DEF SuccessfulRow
  <2> QED BY <1>1, <1>3, <2>1, <2>2
<1>11. ASSUME NEW d \in Command, receipts'[d] # NoRow, HasDurableState(receipts'[d])
       PROVE  /\ receipts'[d].version \in DOMAIN events'
              /\ events'[receipts'[d].version].command = d
  <2>1. CASE d = c
    BY <1>1, <1>3, <1>8, <2>1
  <2>2. CASE d # c
    BY <1>1, <1>3, <1>5, <1>11, <2>2 DEF EventLogMatchesReceipts
  <2> QED BY <2>1, <2>2
<1> QED BY <1>3, <1>10, <1>11 DEF EventLogMatchesReceipts, SuccessfulRow

LEMMA LogStep ==
  ASSUME TypeOK, UnbornBatch, EventLogMatchesReceipts, [Next]_vars
  PROVE  EventLogMatchesReceipts'
<1>1. Len(events) \in Nat
  BY DEF TypeOK
<1>2. ASSUME NEW c \in Command, NEW r \in RequestsFor(c), Reserve(c, r)
      PROVE  EventLogMatchesReceipts'
  <2>1. ~HasDurableState(ReservedRow(r))
    BY DEF HasDurableState, ReservedRow
  <2>2. \A d \in Command : receipts'[d] = receipts[d] \/ receipts'[d] = ReservedRow(r)
    BY <1>2 DEF Reserve, TypeOK
  <2> QED BY <1>2, <2>1, <2>2, LogUntouched DEF Reserve
<1>3. ASSUME NEW c \in Command, ReleaseFailedFinal(c) \/ ReleaseUnstarted(c)
      PROVE  EventLogMatchesReceipts'
  <2>1. receipts[c] # NoRow /\ receipts[c].status # "SUCCEEDED" /\ Supersede(c)
    BY <1>3 DEF ReleaseFailedFinal, ReleaseUnstarted, FailedFinalReleasable,
                UnstartedReleasable
  <2>2. \A n \in DOMAIN events : events[n].command # c
    BY <2>1, OpenHasNoEvent
  <2>3. events' = events /\ batch' = batch
    <3>1. events' = [n \in DOMAIN events |-> events[n]]
      BY <2>1, <2>2 DEF Supersede
    <3> QED BY <2>1, <3>1 DEF Supersede, TypeOK
  <2>4. \A d \in Command : receipts'[d] # NoRow => receipts'[d] = receipts[d]
    BY <2>1 DEF Supersede, TypeOK
  <2> QED BY <2>3, <2>4, LogUntouched
<1>4. ASSUME NEW c \in Command, receipts[c] # NoRow, UNCHANGED <<batch, events>>,
             \A d \in Command \ {c} : receipts'[d] = receipts[d],
             receipts'[c].version = receipts[c].version,
             receipts'[c].sequence = receipts[c].sequence
      PROVE  EventLogMatchesReceipts'
  BY <1>4, LogUntouched DEF HasDurableState
<1>5. ASSUME NEW c \in Command, NEW i \in Identity, Claim(c, i)
      PROVE  EventLogMatchesReceipts'
  <2>1. receipts[c] # NoRow /\ receipts[c] \in Row
    BY <1>5, LiveRow DEF Claim, Claimable
  <2>2. /\ receipts'[c].version = receipts[c].version
        /\ receipts'[c].sequence = receipts[c].sequence
    BY <1>5, <2>1 DEF Claim, TypeOK, Row
  <2>3. \A d \in Command \ {c} : receipts'[d] = receipts[d]
    BY <1>5 DEF Claim, TypeOK
  <2> QED BY <1>4, <1>5, <2>1, <2>2, <2>3 DEF Claim
<1>6. ASSUME NEW c \in Command, SucceedWithBatchCreation(c)
      PROVE  EventLogMatchesReceipts'
  <2>1. batch.context.state = NoState
    BY <1>6 DEF SucceedWithBatchCreation, KernelAllows, StateAllows, ExpectedSourceStates,
                CommandTypes
  <2>2. batch.version = 0 /\ receipts[c].request.version = 0 /\ Len(events) = 0
    BY <1>6, <2>1 DEF SucceedWithBatchCreation, UnbornBatch, EventLogMatchesReceipts
  <2> QED BY <1>6, <2>2, LogAppended DEF SucceedWithBatchCreation
<1>7. ASSUME NEW c \in Command, NEW by \in Identity \cup {NoIdentity},
             SucceedWithTransition(c, by)
      PROVE  EventLogMatchesReceipts'
  BY <1>7, LogAppended DEF SucceedWithTransition, AtExpectedVersion, EventLogMatchesReceipts
<1>8. ASSUME NEW c \in Command, SucceedWithoutTransition(c)
      PROVE  EventLogMatchesReceipts'
  <2>1. receipts[c] # NoRow /\ receipts[c] \in Row
    BY <1>8, LiveRow DEF SucceedWithoutTransition
  <2>2. /\ receipts'[c].version = receipts[c].version
        /\ receipts'[c].sequence = receipts[c].sequence
    BY <1>8, <2>1 DEF SucceedWithoutTransition, TypeOK, Row
  <2>3. \A d \in Command \ {c} : receipts'[d] = receipts[d]
    BY <1>8 DEF SucceedWithoutTransition, TypeOK
  <2> QED BY <1>4, <1>8, <2>1, <2>2, <2>3 DEF SucceedWithoutTransition
<1>9. ASSUME NEW c \in Command, NEW s \in Outcomes, RecordOutcome(c, s)
      PROVE  EventLogMatchesReceipts'
  <2>1. receipts[c] # NoRow /\ receipts[c] \in Row
    BY <1>9, LiveRow DEF RecordOutcome
  <2>2. /\ receipts'[c].version = receipts[c].version
        /\ receipts'[c].sequence = receipts[c].sequence
    BY <1>9, <2>1 DEF RecordOutcome, TypeOK, Row
  <2>3. \A d \in Command \ {c} : receipts'[d] = receipts[d]
    BY <1>9 DEF RecordOutcome, TypeOK
  <2> QED BY <1>4, <1>9, <2>1, <2>2, <2>3 DEF RecordOutcome
<1>10. CASE UNCHANGED vars
  BY <1>10, LogUntouched DEF vars
<1> QED BY <1>2, <1>3, <1>5, <1>6, <1>7, <1>8, <1>9, <1>10 DEF Next

-----------------------------------------------------------------------------
(* The batch's block context, and who moved it.                            *)
LEMMA BlockContextStep ==
  ASSUME TypeOK, BlockContextSafe, [Next]_vars
  PROVE  BlockContextSafe'
<1>1. CASE batch'.context = batch.context
  BY <1>1 DEF BlockContextSafe
<1>2. ASSUME NEW c \in Command, KernelAllows(c),
             batch'.context = NextContext(CommandType[c], batch.context)
      PROVE  BlockContextSafe'
  <2> DEFINE t == CommandType[c]
             ctx == batch.context
  <2>1. t \in CommandTypes /\ StateAllows(t, ctx) /\ ctx \in KernelContext
    BY <1>2, CommandAssumption DEF KernelAllows, TypeOK, Batch
  <2> HIDE DEF t, ctx
  <2>2. CASE t = "BLOCK_BATCH"
    <3>1. ctx.state \in BlockableStates
      BY <2>1, <2>2 DEF StateAllows, ExpectedSourceStates
    <3>2. TargetState["BLOCK_BATCH"] = "BLOCKED"
      BY DEF TargetState, CommandTypes
    <3>3. /\ batch'.context.state = "BLOCKED"
          /\ batch'.context.blockedFrom = ctx.state
          /\ batch'.context.blockedResume = SafeBlockedResumeState[ctx.state]
      BY <1>2, <2>2, <3>2 DEF NextContext, t, ctx
    <3> QED BY <3>1, <3>3 DEF BlockContextSafe
  <2>3. CASE t = "RESUME_BATCH"
    <3>1. ctx.blockedResume \in ResumableStates
      BY <2>1, <2>3 DEF StateAllows
    <3>2. NextContext(t, ctx).state # "BLOCKED"
      BY <2>3, <3>1 DEF NextContext, ResumableStates
    <3> QED BY <1>2, <2>3, <3>2 DEF NextContext, BlockContextSafe, t, ctx
  <2>4. CASE t \notin {"BLOCK_BATCH", "RESUME_BATCH"}
    <3>1. TargetState[t] # "BLOCKED"
      BY <2>1, <2>4 DEF TargetState, CommandTypes
    <3> QED BY <1>2, <2>4, <3>1 DEF NextContext, BlockContextSafe, t, ctx
  <2> QED BY <2>2, <2>3, <2>4
<1>3. ASSUME NEW c \in Command, SucceedWithBatchCreation(c)
      PROVE  BlockContextSafe'
  BY <1>2, <1>3 DEF SucceedWithBatchCreation
<1>4. ASSUME NEW c \in Command, NEW by \in Identity \cup {NoIdentity},
             SucceedWithTransition(c, by)
      PROVE  BlockContextSafe'
  BY <1>2, <1>4 DEF SucceedWithTransition
<1>5. CASE batch' = batch
  BY <1>1, <1>5
<1> QED BY <1>3, <1>4, <1>5
        DEF Next, vars, Reserve, ReleaseFailedFinal, ReleaseUnstarted, Supersede, Claim,
            SucceedWithoutTransition, RecordOutcome

(* An event, once written, keeps its author; its receipt is final.         *)
LEMMA ActorStep ==
  ASSUME TypeOK, EventLogMatchesReceipts, TransitionActorIsClaimant, [Next]_vars
  PROVE  TransitionActorIsClaimant'
<1>1. \A n \in DOMAIN events :
        receipts'[events[n].command] = receipts[events[n].command]
  BY EventsTyped, SuccessIsFinal DEF EventLogMatchesReceipts
<1>2. ASSUME DOMAIN events' = DOMAIN events,
             \A n \in DOMAIN events : /\ events'[n].command = events[n].command
                                      /\ events'[n].by = events[n].by
      PROVE  TransitionActorIsClaimant'
  BY <1>1, <1>2 DEF TransitionActorIsClaimant
<1>3. ASSUME NEW c \in Command, receipts[c] # NoRow, NEW v, NEW q, NEW by,
             AppendEvent(c, v, q, by), receipts'[c].identity = receipts[c].identity,
             ActorBound(receipts[c], by)
      PROVE  TransitionActorIsClaimant'
  <2> DEFINE e == [command |-> c, archived |-> 0, version |-> v, sequence |-> q, by |-> by]
  <2>1. events' = Append(events, e)
    BY <1>3 DEF AppendEvent
  <2>2. /\ DOMAIN events' = 1..(Len(events) + 1)
        /\ \A n \in DOMAIN events : events'[n] = events[n]
        /\ events'[Len(events) + 1] = e
    BY <2>1, EventsTyped DEF TypeOK
  <2>3. ASSUME NEW n \in DOMAIN events', events'[n].by # NoIdentity,
               receipts'[events'[n].command].identity # NoIdentity,
               receipts'[events'[n].command] # NoRow
        PROVE  events'[n].by = receipts'[events'[n].command].identity
    <3>1. CASE n \in DOMAIN events
      BY <1>1, <2>2, <2>3, <3>1 DEF TransitionActorIsClaimant
    <3>2. CASE n = Len(events) + 1
      BY <1>3, <2>2, <2>3, <3>2 DEF ActorBound
    <3> QED BY <2>2, <3>1, <3>2, EventsTyped
  <2> QED BY <2>3 DEF TransitionActorIsClaimant
<1>4. ASSUME NEW c \in Command, receipts[c] # NoRow, NEW v \in Nat, NEW q \in Nat,
             CompleteReceipt(c, v, q)
      PROVE  receipts'[c].identity = receipts[c].identity
  <2>1. receipts[c] \in Row
    BY <1>4, LiveRow
  <2> QED BY <1>4, <2>1 DEF CompleteReceipt, TypeOK, Row
<1>5. ASSUME NEW c \in Command, SucceedWithBatchCreation(c)
      PROVE  TransitionActorIsClaimant'
  <2>1. receipts[c].request.version + 1 \in Nat
    BY <1>5, LiveRow DEF SucceedWithBatchCreation, Row, Request
  <2>2. ActorBound(receipts[c], NoIdentity)
    BY DEF ActorBound
  <2> QED BY <1>3, <1>4, <1>5, <2>1, <2>2 DEF SucceedWithBatchCreation
<1>6. ASSUME NEW c \in Command, NEW by \in Identity \cup {NoIdentity},
             SucceedWithTransition(c, by)
      PROVE  TransitionActorIsClaimant'
  <2>1. batch.version + 1 \in Nat /\ batch.sequence + 1 \in Nat
    BY DEF TypeOK, Batch
  <2> QED BY <1>3, <1>4, <1>6, <2>1 DEF SucceedWithTransition
<1>7. ASSUME NEW c \in Command, ReleaseFailedFinal(c) \/ ReleaseUnstarted(c)
      PROVE  TransitionActorIsClaimant'
  <2>1. Supersede(c)
    BY <1>7 DEF ReleaseFailedFinal, ReleaseUnstarted
  <2>2. \A n \in DOMAIN events : events[n] \in Event
    BY EventsTyped
  <2>3. DOMAIN events' = DOMAIN events
    BY <2>1 DEF Supersede
  <2>4. \A n \in DOMAIN events : /\ events'[n].command = events[n].command
                                 /\ events'[n].by = events[n].by
    BY <2>1, <2>2 DEF Supersede, Event
  <2> QED BY <1>2, <2>3, <2>4
<1>8. CASE events' = events
  BY <1>2, <1>8
<1> QED BY <1>5, <1>6, <1>7, <1>8
        DEF Next, vars, Reserve, Claim, SucceedWithoutTransition, RecordOutcome

-----------------------------------------------------------------------------
(* The inductive invariant of the store.                                   *)
StoreInv ==
  /\ TypeOK
  /\ UnbornBatch
  /\ EventLogMatchesReceipts
  /\ ReceiptAndEffectAgree
  /\ BlockContextSafe
  /\ TransitionActorIsClaimant

LEMMA StoreInvInit == Init => StoreInv
<1> SUFFICES ASSUME Init PROVE StoreInv
  OBVIOUS
<1>1. events = <<>> /\ Len(events) = 0 /\ DOMAIN events = {}
  BY DEF Init
<1>2. \A c \in Command : receipts[c] = NoRow
  BY DEF Init
<1>3. batch.version = 0 /\ batch.sequence = 0 /\ batch.context = NoContext
  BY DEF Init
<1>4. BlockContextSafe
  BY <1>3 DEF NoContext, NoState, BlockContextSafe
<1> QED BY <1>1, <1>2, <1>3, <1>4, TypeInit
        DEF StoreInv, UnbornBatch, EventLogMatchesReceipts, ReceiptAndEffectAgree,
            TransitionActorIsClaimant

LEMMA StoreInvStep == StoreInv /\ [Next]_vars => StoreInv'
BY TypeStep, UnbornStep, LogStep, AgreeStep, BlockContextStep, ActorStep DEF StoreInv

LEMMA StoreInvariant == Spec => []StoreInv
BY StoreInvInit, StoreInvStep, PTL DEF Spec

(* The event log, the aggregate and the receipts tell one story, in every  *)
(* reachable state and for every number of commands and retries.           *)
THEOREM EventLogCorrect == Spec => []EventLogMatchesReceipts
<1>1. StoreInv => EventLogMatchesReceipts
  BY DEF StoreInv
<1> QED BY <1>1, StoreInvariant, PTL

(* A receipt and its side effect never disagree.                           *)
THEOREM EffectsAgree == Spec => []ReceiptAndEffectAgree
<1>1. StoreInv => ReceiptAndEffectAgree
  BY DEF StoreInv
<1> QED BY <1>1, StoreInvariant, PTL

(* A blocked batch resumes at the safe state of its origin.                *)
THEOREM BlockContextCorrect == Spec => []BlockContextSafe
<1>1. StoreInv => BlockContextSafe
  BY DEF StoreInv
<1> QED BY <1>1, StoreInvariant, PTL

(* The author of a transition is the claimed invocation.                   *)
THEOREM ActorCorrect == Spec => []TransitionActorIsClaimant
<1>1. StoreInv => TransitionActorIsClaimant
  BY DEF StoreInv
<1> QED BY <1>1, StoreInvariant, PTL

-----------------------------------------------------------------------------
(* Which steps supersede, and what the others leave of the archive.        *)
LEMMA ArchiveSteps ==
  ASSUME [Next]_vars
  PROVE  \/ archive' = archive
         \/ \E c \in Command : /\ receipts[c] # NoRow
                               /\ receipts[c].status \notin ClosedStatuses
                               /\ Supersede(c)
<1>1. ASSUME NEW c \in Command, ReleaseFailedFinal(c) \/ ReleaseUnstarted(c)
      PROVE  /\ receipts[c] # NoRow
             /\ receipts[c].status \notin ClosedStatuses
             /\ Supersede(c)
  BY <1>1 DEF ReleaseFailedFinal, ReleaseUnstarted, FailedFinalReleasable,
              UnstartedReleasable, ClosedStatuses
<1>2. ASSUME NEW c \in Command, SucceedWithBatchCreation(c)
      PROVE  archive' = archive
  BY <1>2 DEF SucceedWithBatchCreation
<1>3. ASSUME NEW c \in Command, NEW by, SucceedWithTransition(c, by)
      PROVE  archive' = archive
  BY <1>3 DEF SucceedWithTransition
<1> QED BY <1>1, <1>2, <1>3
        DEF Next, vars, Reserve, Claim, SucceedWithoutTransition, RecordOutcome

(* Evidence of a started side effect survives every step.                  *)
LEMMA EvidenceStepHolds ==
  ASSUME TypeOK, ReceiptAndEffectAgree, [Next]_vars
  PROVE  EvidenceStep
<1> SUFFICES ASSUME NEW d \in Command, receipts[d] # NoRow, receipts[d].identity # NoIdentity
             PROVE  \/ /\ receipts'[d] # NoRow
                       /\ receipts'[d].identity = receipts[d].identity
                       /\ receipts'[d].request = receipts[d].request
                    \/ /\ Len(archive') = Len(archive) + 1
                       /\ archive'[Len(archive')] = [command |-> d, row |-> receipts[d]]
  BY DEF EvidenceStep
<1>1. receipts[d] \in Row /\ receipts[d].effect \in {"STARTING", "OUTCOME_RECORDED"}
  BY LiveRow DEF ReceiptAndEffectAgree, RowAgrees
<1>2. ASSUME NEW c \in Command, Supersede(c), receipts[c] # NoRow
      PROVE  \/ receipts'[d] = receipts[d]
             \/ /\ Len(archive') = Len(archive) + 1
                /\ archive'[Len(archive')] = [command |-> d, row |-> receipts[d]]
  BY <1>2, LiveRow DEF Supersede, TypeOK
<1>3. ASSUME receipts'[d] = receipts[d]
      PROVE  receipts'[d] # NoRow /\ receipts'[d].identity = receipts[d].identity
             /\ receipts'[d].request = receipts[d].request
  BY <1>3
<1>4. ASSUME NEW c \in Command, NEW s \in Statuses, NEW e \in Effects, receipts[c] # NoRow,
             receipts' = [receipts EXCEPT ![c] = [receipts[c] EXCEPT !.status = s, !.effect = e]]
      PROVE  receipts'[d] # NoRow /\ receipts'[d].identity = receipts[d].identity
             /\ receipts'[d].request = receipts[d].request
  <2>1. CASE d # c
    BY <1>3, <1>4, <2>1 DEF TypeOK
  <2>2. CASE d = c
    <3>1. receipts'[d] = [receipts[d] EXCEPT !.status = s, !.effect = e]
      BY <1>4, <2>2 DEF TypeOK
    <3>2. [receipts[d] EXCEPT !.status = s, !.effect = e] \in Row
      BY <1>1, RowUpdates
    <3> QED BY <1>1, <3>1, <3>2, NoRowAssumption DEF Row
  <2> QED BY <2>1, <2>2
<1>5. ASSUME NEW c \in Command, NEW v \in Nat, NEW q \in Nat, receipts[c] # NoRow,
             CompleteReceipt(c, v, q)
      PROVE  receipts'[d] # NoRow /\ receipts'[d].identity = receipts[d].identity
             /\ receipts'[d].request = receipts[d].request
  <2> DEFINE f == Settled(receipts[c].effect)
  <2>1. CASE d # c
    BY <1>3, <1>5, <2>1 DEF CompleteReceipt, TypeOK
  <2>2. CASE d = c
    <3>1. receipts'[d] =
            [receipts[d] EXCEPT !.status = "SUCCEEDED", !.effect = f,
                                !.version = v, !.sequence = q]
      BY <1>5, <2>2 DEF CompleteReceipt, TypeOK
    <3>2. f \in Effects
      BY <1>1, <2>2, RowUpdates
    <3>3. [receipts[d] EXCEPT !.status = "SUCCEEDED", !.effect = f,
                              !.version = v, !.sequence = q] \in Row
      BY <1>1, <3>2, RowUpdates DEF Statuses
    <3> QED BY <1>1, <3>1, <3>3, NoRowAssumption DEF Row
  <2> QED BY <2>1, <2>2
<1>6. ASSUME NEW c \in Command, NEW r \in RequestsFor(c), Reserve(c, r)
      PROVE  receipts'[d] = receipts[d]
  BY <1>6 DEF Reserve, TypeOK
<1>7. ASSUME NEW c \in Command, NEW i \in Identity, Claim(c, i)
      PROVE  receipts'[d] = receipts[d]
  BY <1>1, <1>7 DEF Claim, Claimable, TypeOK
<1>8. ASSUME NEW c \in Command, SucceedWithBatchCreation(c)
      PROVE  receipts'[d] # NoRow /\ receipts'[d].identity = receipts[d].identity
             /\ receipts'[d].request = receipts[d].request
  <2>1. receipts[c].request.version + 1 \in Nat
    BY <1>8, LiveRow DEF SucceedWithBatchCreation, Row, Request
  <2> QED BY <1>5, <1>8, <2>1 DEF SucceedWithBatchCreation
<1>9. ASSUME NEW c \in Command, NEW by \in Identity \cup {NoIdentity},
             SucceedWithTransition(c, by)
      PROVE  receipts'[d] # NoRow /\ receipts'[d].identity = receipts[d].identity
             /\ receipts'[d].request = receipts[d].request
  <2>1. batch.version + 1 \in Nat /\ batch.sequence + 1 \in Nat
    BY DEF TypeOK, Batch
  <2> QED BY <1>5, <1>9, <2>1 DEF SucceedWithTransition
<1>10. ASSUME NEW c \in Command, SucceedWithoutTransition(c)
       PROVE  receipts'[d] # NoRow /\ receipts'[d].identity = receipts[d].identity
              /\ receipts'[d].request = receipts[d].request
  <2>1. Settled(receipts[c].effect) \in Effects
    BY <1>10, LiveRow, RowUpdates DEF SucceedWithoutTransition
  <2>2. receipts' = [receipts EXCEPT ![c] =
           [receipts[c] EXCEPT !.status = "SUCCEEDED",
                               !.effect = Settled(receipts[c].effect)]]
    BY <1>10 DEF SucceedWithoutTransition, TypeOK
  <2> QED BY <1>4, <1>10, <2>1, <2>2 DEF SucceedWithoutTransition, Statuses
<1>11. ASSUME NEW c \in Command, NEW s \in Outcomes, RecordOutcome(c, s)
       PROVE  receipts'[d] # NoRow /\ receipts'[d].identity = receipts[d].identity
              /\ receipts'[d].request = receipts[d].request
  <2> DEFINE e == IF s \in {"FAILED_FINAL", "RECONCILED"}
                  THEN Settled(receipts[c].effect) ELSE receipts[c].effect
  <2>1. receipts[c].effect \in Effects /\ Settled(receipts[c].effect) \in Effects
    BY <1>11, LiveRow, RowUpdates DEF RecordOutcome, Row
  <2>2. s \in Statuses /\ e \in Effects
    BY <2>1 DEF Outcomes, Statuses
  <2>3. receipts' = [receipts EXCEPT ![c] = [receipts[c] EXCEPT !.status = s, !.effect = e]]
    BY <1>11 DEF RecordOutcome, TypeOK
  <2> QED BY <1>4, <1>11, <2>2, <2>3 DEF RecordOutcome
<1>12. ASSUME NEW c \in Command, ReleaseFailedFinal(c) \/ ReleaseUnstarted(c)
       PROVE  Supersede(c) /\ receipts[c] # NoRow
  BY <1>12 DEF ReleaseFailedFinal, ReleaseUnstarted
<1>13. CASE UNCHANGED vars
  BY <1>13 DEF vars
<1> QED BY <1>2, <1>3, <1>6, <1>7, <1>8, <1>9, <1>10, <1>11, <1>12, <1>13 DEF Next

(* No started side effect is ever forgotten or handed to another request.  *)
THEOREM EvidenceIsKept == Spec => EvidenceKept
<1>1. StoreInv /\ [Next]_vars => [EvidenceStep]_vars
  BY EvidenceStepHolds DEF StoreInv
<1> QED BY <1>1, StoreInvariant, PTL DEF Spec, EvidenceKept

-----------------------------------------------------------------------------
(* Refinement: the store implements CommandLedger.                         *)

(* A command's closing depends on its own row only.                        *)
LEMMA ClosedAfter ==
  ASSUME NEW c \in Command, \A d \in Command \ {c} : receipts'[d] = receipts[d]
  PROVE  /\ (ClosedRow(receipts'[c]) <=> ClosedRow(receipts[c])) =>
              LedgerClosed' = LedgerClosed
         /\ ~ClosedRow(receipts[c]) /\ ClosedRow(receipts'[c]) =>
              /\ c \notin LedgerClosed
              /\ LedgerClosed' = LedgerClosed \cup {c}
BY DEF LedgerClosed, ClosedRow

(* A step that archives nothing and binds no identity grants nothing.      *)
LEMMA InvokedAfter ==
  ASSUME archive' = archive,
         \A d \in Command, i \in Identity :
           (receipts'[d] # NoRow /\ receipts'[d].identity = i) <=>
           (receipts[d] # NoRow /\ receipts[d].identity = i)
  PROVE  LedgerInvoked' = LedgerInvoked
BY DEF LedgerInvoked

(* Reserving and superseding are invisible to the ledger.                  *)
LEMMA ReserveStutters ==
  ASSUME TypeOK, NEW c \in Command, NEW r \in RequestsFor(c), Reserve(c, r)
  PROVE  UNCHANGED <<LedgerClosed, LedgerApplied, LedgerInvoked>>
<1>1. /\ receipts[c] = NoRow
      /\ receipts'[c] = ReservedRow(r)
      /\ \A d \in Command \ {c} : receipts'[d] = receipts[d]
  BY DEF Reserve, TypeOK
<1>2. LedgerClosed' = LedgerClosed
  <2>1. ~ClosedRow(receipts[c]) /\ ~ClosedRow(receipts'[c])
    BY <1>1 DEF ClosedRow, ClosedStatuses, ReservedRow
  <2> QED BY <1>1, <2>1, ClosedAfter
<1>3. LedgerApplied' = LedgerApplied
  BY DEF Reserve, LedgerApplied
<1>4. LedgerInvoked' = LedgerInvoked
  <2>1. \A i \in Identity : ReservedRow(r).identity # i
    BY CommandAssumption DEF ReservedRow
  <2>2. archive' = archive
    BY DEF Reserve
  <2> QED BY <1>1, <2>1, <2>2, InvokedAfter
<1> QED BY <1>2, <1>3, <1>4

LEMMA SupersedeStutters ==
  ASSUME TypeOK, NEW c \in Command, receipts[c] # NoRow,
         receipts[c].status \notin ClosedStatuses, Supersede(c)
  PROVE  UNCHANGED <<LedgerClosed, LedgerApplied, LedgerInvoked>>
<1>1. /\ receipts'[c] = NoRow
      /\ \A d \in Command \ {c} : receipts'[d] = receipts[d]
  BY DEF Supersede, TypeOK
<1>2. LedgerClosed' = LedgerClosed
  BY <1>1, ClosedAfter DEF ClosedRow
<1>3. LedgerApplied' = LedgerApplied
  <2>1. DOMAIN events' = DOMAIN events
    BY DEF Supersede
  <2>2. \A n \in DOMAIN events : events'[n].command = events[n].command
    BY EventsTyped DEF Supersede, Event
  <2> QED BY <2>1, <2>2 DEF LedgerApplied
<1>4. LedgerInvoked' = LedgerInvoked
  <2> DEFINE new == [command |-> c, row |-> receipts[c]]
  <2>1. archive' = Append(archive, new)
    BY DEF Supersede
  <2>2. /\ Len(archive) \in Nat
        /\ DOMAIN archive = 1..Len(archive)
        /\ DOMAIN archive' = 1..(Len(archive) + 1)
        /\ \A k \in DOMAIN archive : archive'[k] = archive[k]
        /\ archive'[Len(archive) + 1] = new
    BY <2>1 DEF TypeOK
  <2>3. ASSUME NEW d \in Command, NEW i \in Identity
        PROVE  (\E k \in DOMAIN archive' :
                  archive'[k].command = d /\ archive'[k].row.identity = i)
               <=> \/ d = c /\ receipts[c].identity = i
                   \/ \E k \in DOMAIN archive :
                        archive[k].command = d /\ archive[k].row.identity = i
    BY <2>2
  <2> QED BY <1>1, <2>3 DEF LedgerInvoked
<1> QED BY <1>2, <1>3, <1>4

(* Claiming is the ledger's Invoke.                                        *)
LEMMA ClaimInvokes ==
  ASSUME TypeOK, ReceiptAndEffectAgree, NEW c \in Command, NEW i \in Identity, Claim(c, i)
  PROVE  Ledger!Invoke(c, i)
<1>1. receipts[c] # NoRow /\ receipts[c] \in Row /\ receipts[c].status = "RESERVED"
  BY LiveRow DEF Claim, Claimable
<1>2. \A d \in Command \ {c} : receipts'[d] = receipts[d]
  BY DEF Claim, TypeOK
<1>3. /\ receipts'[c].status = "RUNNING"
      /\ receipts'[c].identity = i
      /\ receipts'[c] # NoRow
  <2>1. receipts'[c] = [receipts[c] EXCEPT !.status = "RUNNING", !.effect = "STARTING",
                                           !.identity = i]
    BY DEF Claim, TypeOK
  <2>2. [receipts[c] EXCEPT !.status = "RUNNING", !.effect = "STARTING",
                            !.identity = i] \in Row
    BY <1>1, RowUpdates
  <2> QED BY <1>1, <2>1, <2>2, NoRowAssumption DEF Row
<1>4. c \notin LedgerClosed /\ LedgerClosed' = LedgerClosed
  <2>1. ~ClosedRow(receipts[c]) /\ ~ClosedRow(receipts'[c])
    BY <1>1, <1>3 DEF ClosedRow, ClosedStatuses
  <2> QED BY <1>2, <2>1, ClosedAfter DEF LedgerClosed
<1>5. ~Ledger!Granted(i)
  BY DEF Claim, IdentityBound, Ledger!Granted, LedgerInvoked
<1>6. LedgerInvoked' = LedgerInvoked \cup {<<c, i>>}
  <2>1. archive' = archive
    BY DEF Claim
  <2>2. \A j \in Identity : receipts[c].identity # j
    BY CommandAssumption DEF Claim, Claimable, ReceiptAndEffectAgree, RowAgrees
  <2> QED BY <1>1, <1>2, <1>3, <2>1, <2>2 DEF LedgerInvoked
<1>7. LedgerApplied' = LedgerApplied
  BY DEF Claim, LedgerApplied
<1> QED BY <1>4, <1>5, <1>6, <1>7 DEF Ledger!Invoke

(* Completion with an event is the ledger's Apply.                         *)
LEMMA CompletionApplies ==
  ASSUME TypeOK, NEW c \in Command, receipts[c] # NoRow, CanComplete(receipts[c]),
         NEW v \in Nat, NEW q \in Nat, NEW by,
         CompleteReceipt(c, v, q), AppendEvent(c, v, q, by), archive' = archive
  PROVE  Ledger!Apply(c)
<1>1. receipts[c] \in Row /\ Settled(receipts[c].effect) \in Effects
  BY LiveRow, RowUpdates
<1>2. \A d \in Command \ {c} : receipts'[d] = receipts[d]
  BY DEF CompleteReceipt, TypeOK
<1>3. /\ receipts'[c].status = "SUCCEEDED"
      /\ receipts'[c].identity = receipts[c].identity
      /\ receipts'[c] # NoRow
  <2> DEFINE new == [receipts[c] EXCEPT !.status = "SUCCEEDED",
                       !.effect = Settled(receipts[c].effect), !.version = v, !.sequence = q]
  <2>1. receipts'[c] = new
    BY DEF CompleteReceipt, TypeOK
  <2>2. new \in Row
    BY <1>1, RowUpdates DEF Statuses
  <2> QED BY <1>1, <2>1, <2>2, NoRowAssumption DEF Row
<1>4. c \notin LedgerClosed /\ LedgerClosed' = LedgerClosed \cup {c}
  <2>1. ~ClosedRow(receipts[c]) /\ ClosedRow(receipts'[c])
    BY <1>3 DEF ClosedRow, ClosedStatuses, CanComplete
  <2> QED BY <1>2, <2>1, ClosedAfter
<1>5. LedgerInvoked' = LedgerInvoked
  BY <1>2, <1>3, InvokedAfter
<1>6. LedgerApplied' = Append(LedgerApplied, c)
  <2> DEFINE e == [command |-> c, archived |-> 0, version |-> v, sequence |-> q, by |-> by]
  <2>1. events' = Append(events, e)
    BY DEF AppendEvent
  <2>2. /\ Len(events) \in Nat
        /\ DOMAIN events = 1..Len(events)
        /\ \A n \in DOMAIN events : events[n].command \in Command
    BY EventsTyped
  <2>3. /\ DOMAIN events' = 1..(Len(events) + 1)
        /\ \A n \in DOMAIN events : events'[n] = events[n]
        /\ events'[Len(events) + 1] = e
    BY <2>1, <2>2 DEF TypeOK
  <2>4. LedgerApplied' = [n \in 1..(Len(events) + 1) |-> events'[n].command]
    BY <2>3 DEF LedgerApplied
  <2>5. LedgerApplied = [n \in 1..Len(events) |-> events[n].command]
    BY <2>2 DEF LedgerApplied
  <2>6. LedgerApplied \in Seq(Command) /\ Len(LedgerApplied) = Len(events)
    BY <2>2, <2>5
  <2>7. \A n \in 1..(Len(events) + 1) :
          events'[n].command = IF n \in 1..Len(events) THEN LedgerApplied[n] ELSE c
    BY <2>2, <2>3, <2>5
  <2> DEFINE new == Append(LedgerApplied, c)
  <2>8. /\ new \in Seq(Command)
        /\ Len(new) = Len(events) + 1
        /\ \A n \in 1..(Len(events) + 1) :
             new[n] = IF n \in 1..Len(events) THEN LedgerApplied[n] ELSE c
    BY <2>2, <2>6
  <2>9. /\ LedgerApplied' \in Seq(Command)
        /\ Len(LedgerApplied') = Len(events) + 1
        /\ \A n \in 1..(Len(events) + 1) : LedgerApplied'[n] = new[n]
    BY <2>2, <2>3, <2>4, <2>7, <2>8
  <2> QED BY <2>8, <2>9, SeqEqual
<1> QED BY <1>4, <1>5, <1>6 DEF Ledger!Apply

(* Settling without an event closes the command, or leaves it as it was.   *)
LEMMA SettlementCloses ==
  ASSUME TypeOK, NEW c \in Command, receipts[c] # NoRow,
         NEW s \in Statuses, NEW e \in Effects,
         receipts' = [receipts EXCEPT ![c] = [receipts[c] EXCEPT !.status = s, !.effect = e]],
         UNCHANGED <<archive, events>>,
         s \notin ClosedStatuses => receipts[c].status \notin ClosedStatuses
  PROVE  Ledger!Close(c) \/ UNCHANGED <<LedgerClosed, LedgerApplied, LedgerInvoked>>
<1>1. receipts[c] \in Row
  BY LiveRow
<1>2. \A d \in Command \ {c} : receipts'[d] = receipts[d]
  BY DEF TypeOK
<1>3. /\ receipts'[c].status = s
      /\ receipts'[c].identity = receipts[c].identity
      /\ receipts'[c] # NoRow
  <2>1. receipts'[c] = [receipts[c] EXCEPT !.status = s, !.effect = e]
    BY DEF TypeOK
  <2>2. [receipts[c] EXCEPT !.status = s, !.effect = e] \in Row
    BY <1>1, RowUpdates
  <2> QED BY <1>1, <2>1, <2>2, NoRowAssumption DEF Row
<1>4. LedgerInvoked' = LedgerInvoked /\ LedgerApplied' = LedgerApplied
  BY <1>2, <1>3, InvokedAfter DEF LedgerApplied
<1>5. CASE ClosedRow(receipts'[c]) <=> ClosedRow(receipts[c])
  BY <1>2, <1>4, <1>5, ClosedAfter
<1>6. CASE ~ClosedRow(receipts[c]) /\ ClosedRow(receipts'[c])
  BY <1>2, <1>4, <1>6, ClosedAfter DEF Ledger!Close
<1>7. CASE ClosedRow(receipts[c]) /\ ~ClosedRow(receipts'[c])
  BY <1>3, <1>7 DEF ClosedRow
<1> QED BY <1>5, <1>6, <1>7

LEMMA LedgerStep ==
  ASSUME StoreInv, [Next]_vars
  PROVE  [Ledger!Next]_<<LedgerClosed, LedgerApplied, LedgerInvoked>>
<1> DEFINE Stutter == UNCHANGED <<LedgerClosed, LedgerApplied, LedgerInvoked>>
<1>1. TypeOK /\ ReceiptAndEffectAgree
  BY DEF StoreInv
<1>2. ASSUME NEW c \in Command, NEW r \in RequestsFor(c), Reserve(c, r)
      PROVE  Stutter
  BY <1>1, <1>2, ReserveStutters
<1>3. ASSUME NEW c \in Command, ReleaseFailedFinal(c) \/ ReleaseUnstarted(c)
      PROVE  Stutter
  <2>1. receipts[c] # NoRow /\ receipts[c].status \notin ClosedStatuses /\ Supersede(c)
    BY <1>3 DEF ReleaseFailedFinal, ReleaseUnstarted, FailedFinalReleasable,
                UnstartedReleasable, ClosedStatuses
  <2> QED BY <1>1, <2>1, SupersedeStutters
<1>4. ASSUME NEW c \in Command, NEW i \in Identity, Claim(c, i)
      PROVE  Ledger!Next
  BY <1>1, <1>4, ClaimInvokes DEF Ledger!Next
<1>5. ASSUME NEW c \in Command, SucceedWithBatchCreation(c)
      PROVE  Ledger!Next
  <2>1. receipts[c].request.version + 1 \in Nat
    BY <1>1, <1>5, LiveRow DEF SucceedWithBatchCreation, Row, Request
  <2>2. Ledger!Apply(c)
    BY <1>1, <1>5, <2>1, CompletionApplies DEF SucceedWithBatchCreation
  <2> QED BY <2>2 DEF Ledger!Next
<1>6. ASSUME NEW c \in Command, NEW by \in Identity \cup {NoIdentity},
             SucceedWithTransition(c, by)
      PROVE  Ledger!Next
  <2>1. batch.version + 1 \in Nat /\ batch.sequence + 1 \in Nat
    BY <1>1 DEF TypeOK, Batch
  <2>2. Ledger!Apply(c)
    BY <1>1, <1>6, <2>1, CompletionApplies DEF SucceedWithTransition
  <2> QED BY <2>2 DEF Ledger!Next
<1>7. ASSUME NEW c \in Command, SucceedWithoutTransition(c)
      PROVE  Ledger!Next \/ Stutter
  <2>1. Settled(receipts[c].effect) \in Effects
    BY <1>1, <1>7, LiveRow, RowUpdates DEF SucceedWithoutTransition
  <2>2. receipts' = [receipts EXCEPT ![c] =
           [receipts[c] EXCEPT !.status = "SUCCEEDED",
                               !.effect = Settled(receipts[c].effect)]]
    BY <1>1, <1>7 DEF SucceedWithoutTransition, TypeOK
  <2>3. Ledger!Close(c) \/ Stutter
    BY <1>1, <1>7, <2>1, <2>2, SettlementCloses
       DEF SucceedWithoutTransition, Statuses, ClosedStatuses
  <2> QED BY <2>3 DEF Ledger!Next
<1>8. ASSUME NEW c \in Command, NEW s \in Outcomes, RecordOutcome(c, s)
      PROVE  Ledger!Next \/ Stutter
  <2> DEFINE e == IF s \in {"FAILED_FINAL", "RECONCILED"}
                  THEN Settled(receipts[c].effect) ELSE receipts[c].effect
  <2>1. receipts[c].effect \in Effects /\ Settled(receipts[c].effect) \in Effects
    BY <1>1, <1>8, LiveRow, RowUpdates DEF RecordOutcome, Row
  <2>2. s \in Statuses /\ e \in Effects
    BY <2>1 DEF Outcomes, Statuses
  <2>3. receipts' = [receipts EXCEPT ![c] = [receipts[c] EXCEPT !.status = s, !.effect = e]]
    BY <1>1, <1>8 DEF RecordOutcome, TypeOK
  <2>4. s \notin ClosedStatuses => receipts[c].status \notin ClosedStatuses
    BY <1>8 DEF RecordOutcome, OutcomeSources, Outcomes, ClosedStatuses
  <2>5. Ledger!Close(c) \/ Stutter
    <3> HIDE DEF e
    <3> QED BY <1>1, <1>8, <2>2, <2>3, <2>4, SettlementCloses DEF RecordOutcome
  <2> QED BY <2>5 DEF Ledger!Next
<1>9. CASE UNCHANGED vars
  BY <1>9 DEF vars, LedgerClosed, LedgerApplied, LedgerInvoked, ClosedRow
<1> QED BY <1>2, <1>3, <1>4, <1>5, <1>6, <1>7, <1>8, <1>9 DEF Next

LEMMA LedgerInit == Init => Ledger!Init
<1> SUFFICES ASSUME Init PROVE Ledger!Init
  OBVIOUS
<1>1. LedgerClosed = {}
  BY DEF Init, LedgerClosed, ClosedRow
<1>2. LedgerApplied = <<>>
  <2>1. DOMAIN events = {}
    BY DEF Init
  <2> QED BY <2>1 DEF LedgerApplied
<1>3. LedgerInvoked = {}
  BY DEF Init, LedgerInvoked
<1> QED BY <1>1, <1>2, <1>3 DEF Ledger!Init

(* The store implements the ledger: at most one application and no         *)
(* invocation after closing, for any number of commands and callers.       *)
THEOREM StoreImplementsLedger == Spec => ImplementsLedger
<1>1. StoreInv /\ [Next]_vars => [Ledger!Next]_<<LedgerClosed, LedgerApplied, LedgerInvoked>>
  BY LedgerStep
<1>2. Ledger!ledger = <<LedgerClosed, LedgerApplied, LedgerInvoked>>
  BY DEF Ledger!ledger
<1> QED BY <1>1, <1>2, LedgerInit, StoreInvariant, PTL
        DEF Spec, ImplementsLedger, Ledger!Spec, Ledger!ledger

=============================================================================
