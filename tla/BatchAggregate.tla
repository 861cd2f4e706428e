---------------------------- MODULE BatchAggregate ----------------------------
(***************************************************************************)
(* A batch as its readers and single-transaction writers see it: the       *)
(* kernel context and the aggregate version.  A command that runs no agent *)
(* is reserved and applied in one transaction of the command store         *)
(* (reserve, then succeedWithTransition): the reservation is refused       *)
(* unless the batch still has the version its issuer read, and the         *)
(* transition is derived again from the stored state.  CommandStore models *)
(* the receipts of that transaction; here only its effect on the batch.    *)
(***************************************************************************)
EXTENDS BatchKernel, Naturals

CONSTANT MaxVersion     \* bound: transitions of one batch in a behaviour

ASSUME VersionAssumption == MaxVersion \in Nat

VARIABLE aggregate

BatchTypeOK == aggregate \in [context: KernelContext, version: 0..MaxVersion]

(* A batch entering the modelled phase in state s.                         *)
BatchIn(s) ==
  [context |-> [state |-> s, blockedFrom |-> NoState, blockedResume |-> NoState],
   version |-> 0]

BatchState == aggregate.context.state

(* The batch after one applied transition.                                 *)
After(type, b) ==
  [context |-> NextContext(type, b.context), version |-> b.version + 1]

(* Seeded fault: the reservation does not compare the aggregate version.   *)
UnversionedIssue(type, version) ==
  /\ StateAllows(type, aggregate.context)
  /\ aggregate.version < MaxVersion
  /\ aggregate' = After(type, aggregate)

(* One transaction: a command read against that version is applied.        *)
Issue(type, version) ==
  /\ aggregate.version = version
  /\ StateAllows(type, aggregate.context)
  /\ aggregate.version < MaxVersion
  /\ aggregate' = After(type, aggregate)

(* A command whose issuer reads the batch inside the same transaction.     *)
IssueNow(type) == Issue(type, aggregate.version)

(* Two commands applied one after the other in one transaction.            *)
IssueBoth(first, second, version) ==
  /\ aggregate.version = version
  /\ StateAllows(first, aggregate.context)
  /\ StateAllows(second, After(first, aggregate).context)
  /\ aggregate.version + 1 < MaxVersion
  /\ aggregate' = After(second, After(first, aggregate))

=============================================================================
