---------------------------- MODULE CommandLedger ----------------------------
(***************************************************************************)
(* What the command store promises, without receipts, side-effect rows,    *)
(* versions or archives: each command id moves its batch at most once, an  *)
(* invocation identity is granted at most once, and a closed command       *)
(* (succeeded, timed out, unknown or reconciled) never invokes and never   *)
(* moves anything again.  Only a command that is still open may be tried   *)
(* again under a fresh identity.                                           *)
(***************************************************************************)
EXTENDS Naturals, Sequences

CONSTANTS Command, Identity

VARIABLES
  closed,     \* commands whose outcome is settled for good
  applied,    \* commands that moved the batch, in order
  invoked     \* <<command, identity>>: the invocations ever granted

ledger == <<closed, applied, invoked>>

Init == closed = {} /\ applied = <<>> /\ invoked = {}

Granted(i) == \E p \in invoked : p[2] = i

Invoke(c, i) ==
  /\ c \notin closed
  /\ ~Granted(i)
  /\ invoked' = invoked \cup {<<c, i>>}
  /\ UNCHANGED <<closed, applied>>

Apply(c) ==
  /\ c \notin closed
  /\ closed' = closed \cup {c}
  /\ applied' = Append(applied, c)
  /\ UNCHANGED invoked

Close(c) ==
  /\ c \notin closed
  /\ closed' = closed \cup {c}
  /\ UNCHANGED <<applied, invoked>>

Next == \E c \in Command : Apply(c) \/ Close(c) \/ \E i \in Identity : Invoke(c, i)

Spec == Init /\ [][Next]_ledger
=============================================================================
