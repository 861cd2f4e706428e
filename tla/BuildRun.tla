-------------------------------- MODULE BuildRun --------------------------------
(* One run of codemoot build: a row with status, phase and counters, and a   *)
(* log of events.  Commands (build event, build review) of several processes *)
(* read the row in one statement and later write row and event in a          *)
(* transaction, from what they have read.                                    *)
EXTENDS Naturals

CONSTANTS
  Builder,       \* processes that run a command of the build
  LastEvent      \* bound: events of the log

ASSUME BuildAssumption == LastEvent \in Nat \ {0}

VARIABLES
  build,         \* the row of build_runs
  happened,      \* the events of the log, counted by kind
  builder        \* what each process is doing

buildVars == <<build, happened, builder>>

Counter == 0..(LastEvent + 1)

Counted == {"plan_approved", "impl_completed", "review_verdict", "fix_completed", "other"}

(* A verdict event names what the payload says, which may be nothing.      *)
BuildVerdict == {"approved", "needs_revision", "none"}

NoCommand == [pc |-> "IDLE", event |-> "other", verdict |-> "none",
              version |-> 0, cycles |-> 0, loop |-> 0]

BuildTypeOK ==
  /\ build \in [status: {"planning", "implementing", "reviewing", "fixing", "completed"},
                phase: {"debate", "plan_approved", "review", "fix", "done"},
                version: Counter, cycles: Counter, loop: Counter, seq: Counter]
  /\ happened \in [kinds: [Counted -> Counter], approved: BOOLEAN]
  /\ builder \in [Builder -> [pc: {"IDLE", "EVENT", "CALL", "RECORD", "SETTLE"}, event: Counted,
                              verdict: BuildVerdict, version: Counter, cycles: Counter, loop: Counter]]

(* build start creates the row, and then writes the first event.           *)
BuildInit ==
  /\ build = [status |-> "planning", phase |-> "debate", version |-> 0, cycles |-> 0, loop |-> 0,
              seq |-> 0]
  /\ happened = [kinds |-> [k \in Counted |-> 0], approved |-> FALSE]
  /\ builder = [p \in Builder |-> NoCommand]

BuilderAt(p, pc) == builder[p].pc = pc

(* updateWithEvent: the event takes the next number, whatever was read.    *)
Writes(fields, event, approved) ==
  /\ build.seq < LastEvent
  /\ build' = [fields EXCEPT !.seq = build.seq + 1]
  /\ happened' = [kinds |-> [happened.kinds EXCEPT ![event] = @ + 1],
                  approved |-> happened.approved \/ approved]

Resting(p) == builder' = [builder EXCEPT ![p] = NoCommand]

BuilderDies(p) ==
  /\ ~BuilderAt(p, "IDLE") /\ Resting(p) /\ UNCHANGED <<build, happened>>

(***************************************************************************)
(* build event.                                                            *)
(***************************************************************************)
ReadsBuild(p, pc, event, verdict) ==
  /\ BuilderAt(p, "IDLE")
  /\ builder' = [builder EXCEPT ![p] =
       [pc |-> pc, event |-> event, verdict |-> verdict,
        version |-> build.version, cycles |-> build.cycles, loop |-> build.loop]]
  /\ UNCHANGED <<build, happened>>

EventBegins(p, event, verdict) ==
  /\ event = "review_verdict" \/ verdict = "none"
  /\ ReadsBuild(p, "EVENT", event, verdict)

(* Seeded fault: what is not refused is approved.                          *)
NotRefused(verdict) == verdict # "needs_revision"

VerdictApproves(verdict) == verdict = "approved"

(* What an event makes of the row, from the counters as they were read.    *)
AfterEvent(read) ==
  CASE read.event = "plan_approved" ->
         [build EXCEPT !.phase = "plan_approved", !.status = "implementing", !.version = read.version + 1]
    [] read.event = "impl_completed" -> [build EXCEPT !.phase = "review", !.status = "reviewing"]
    [] read.event = "review_verdict" /\ VerdictApproves(read.verdict) ->
         [build EXCEPT !.phase = "done", !.status = "completed"]
    [] read.event = "review_verdict" /\ ~VerdictApproves(read.verdict) ->
         [build EXCEPT !.phase = "fix", !.status = "fixing", !.cycles = read.cycles + 1]
    [] read.event = "fix_completed" ->
         [build EXCEPT !.phase = "review", !.status = "reviewing", !.loop = read.loop + 1]
    [] OTHER -> build

EventWritten(p) ==
  /\ BuilderAt(p, "EVENT") /\ Resting(p)
  /\ Writes(AfterEvent(builder[p]), builder[p].event, builder[p].verdict = "approved")

(***************************************************************************)
(* build review: the agent is called, its verdict is recorded, and the     *)
(* phase follows in another transaction.                                   *)
(***************************************************************************)
ReviewBegins(p) == ReadsBuild(p, "CALL", "review_verdict", "none")

ReviewAnswered(p, verdict) ==
  /\ BuilderAt(p, "CALL")
  /\ builder' = [builder EXCEPT ![p].pc = "RECORD", ![p].verdict = verdict]
  /\ UNCHANGED <<build, happened>>

VerdictRecorded(p) ==
  /\ BuilderAt(p, "RECORD")
  /\ Writes([build EXCEPT !.cycles = builder[p].cycles + 1], "review_verdict",
            builder[p].verdict = "approved")
  /\ builder' = [builder EXCEPT ![p].pc = "SETTLE"]

ReviewSettles(p) ==
  /\ BuilderAt(p, "SETTLE") /\ Resting(p)
  /\ Writes(IF VerdictApproves(builder[p].verdict)
              THEN [build EXCEPT !.phase = "done", !.status = "completed"]
              ELSE [build EXCEPT !.phase = "fix", !.status = "fixing"], "other", FALSE)

BuildNext ==
  \E p \in Builder :
    \/ BuilderDies(p) \/ EventWritten(p) \/ ReviewBegins(p) \/ VerdictRecorded(p) \/ ReviewSettles(p)
    \/ \E event \in Counted, verdict \in BuildVerdict : EventBegins(p, event, verdict)
    \/ \E verdict \in BuildVerdict : ReviewAnswered(p, verdict)

BuildSpec == BuildInit /\ [][BuildNext]_buildVars

(***************************************************************************)
(* Properties.                                                             *)
(***************************************************************************)
(* The log explains the row, though commands write from stale reads and    *)
(* die between their transactions: a build is done only if an approving    *)
(* verdict is in the log, status and phase tell the same story, and no     *)
(* counter is ahead of the events it counts.                               *)
LogExplainsBuild ==
  /\ build.phase = "done" => happened.approved
  /\ build.status = "completed" <=> build.phase = "done"
  /\ build.version <= happened.kinds["plan_approved"]
  /\ build.cycles <= happened.kinds["review_verdict"]
  /\ build.loop <= happened.kinds["fix_completed"]
=============================================================================
