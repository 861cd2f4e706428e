-------------------------------- MODULE CliCall --------------------------------
(* One call of an agent's command line: the child processes it starts one  *)
(* after the other, the timers that watch their silence, and how it is     *)
(* settled.  CODEX is the adapter of cli-adapter.ts, STREAM the runner     *)
(* that the Claude and Cursor adapters share.                              *)
EXTENDS Naturals, Sequences

CONSTANTS
  MaxExtensions,   \* of an idle deadline, before output restores them
  MaxSends         \* attempts callModel makes of one call

ASSUME CliAssumption == {MaxExtensions, MaxSends} \subseteq Nat \ {0}

VARIABLES
  call,       \* what was asked, and how it stands
  watch,      \* the timers and the CPU baseline of the running attempt
  children    \* every process started for the call

cliVars == <<call, watch, children>>

Call ==
  [adapter: {"CODEX", "STREAM"}, resumes: BOOLEAN, strict: BOOLEAN, probing: BOOLEAN,
   status: {"READY", "WAITING", "RESOLVED", "REJECTED", "CRASHED"}]

(* sampled: the middle of this silence has passed.  burned: the process    *)
(* tree used CPU since the baseline was taken.                             *)
Watch ==
  [sampled: BOOLEAN, baseline: BOOLEAN, burned: BOOLEAN, extensions: 0..MaxExtensions]

(* worked: used CPU since its last output.  spared: its deadline was       *)
(* extended although it had wedged.                                        *)
Child ==
  [alive: BOOLEAN, wedged: BOOLEAN, worked: BOOLEAN, spared: BOOLEAN, replied: BOOLEAN,
   code: {"ZERO", "OTHER"}, signal: {"NONE", "TERM", "KILL"}]

CliTypeOK ==
  /\ call \in Call
  /\ watch \in Watch
  /\ children \in Seq(Child) /\ Len(children) <= MaxSends + 1

Rested == [sampled |-> FALSE, baseline |-> FALSE, burned |-> FALSE, extensions |-> 0]

Started ==
  [alive |-> TRUE, wedged |-> FALSE, worked |-> FALSE, spared |-> FALSE, replied |-> FALSE,
   code |-> "ZERO", signal |-> "NONE"]

CliInit ==
  /\ call \in [adapter: {"CODEX", "STREAM"}, resumes: BOOLEAN, strict: BOOLEAN,
               probing: BOOLEAN, status: {"READY"}]
  /\ watch = Rested
  /\ children = <<>>

Waiting == call.status = "WAITING"

Newest == Len(children)
Current == children[Newest]

Running == Waiting /\ Current.alive

(***************************************************************************)
(* Settling.  A failed attempt is the last one, unless a Codex resume may  *)
(* fall back to a fresh run, or callModel takes the error for a network    *)
(* error and sends again.                                                  *)
(***************************************************************************)
FallsBack == call.adapter = "CODEX" /\ call.resumes /\ ~call.strict

Fails ==
  \/ call' = [call EXCEPT !.status = IF FallsBack THEN "READY" ELSE "REJECTED",
                          !.resumes = @ /\ ~FallsBack]
  \/ ~call.resumes /\ Len(children) < MaxSends /\ call' = [call EXCEPT !.status = "READY"]

Signalled(child) == [child EXCEPT !.signal = IF child.alive THEN "TERM" ELSE @]

(* killProcessTree and fail.                                               *)
KillsAndFails ==
  /\ children' = [children EXCEPT ![Newest] = Signalled(@)]
  /\ Fails

Spawns ==
  /\ call.status = "READY"
  /\ call' = [call EXCEPT !.status = "WAITING"]
  /\ children' = Append(children, Started)
  /\ watch' = Rested

SpawnFails ==
  /\ call.status = "READY" /\ call' = [call EXCEPT !.status = "REJECTED"]
  /\ UNCHANGED <<watch, children>>

(***************************************************************************)
(* The child.                                                              *)
(***************************************************************************)
Works ==
  /\ Running /\ ~Current.wedged /\ ~(Current.worked /\ watch.burned)
  /\ watch' = [watch EXCEPT !.burned = TRUE]
  /\ children' = [children EXCEPT ![Newest].worked = TRUE]
  /\ UNCHANGED call

(* The child no longer does anything, and will not end by itself.          *)
Wedges ==
  /\ Running /\ ~Current.wedged
  /\ children' = [children EXCEPT ![Newest].wedged = TRUE]
  /\ UNCHANGED <<call, watch>>

(* Seeded fault: the CPU used before the output still counts.              *)
ForgetsExtensions(w) == [w EXCEPT !.sampled = FALSE, !.extensions = 0]

(* Output ends the silence, its baseline and its extensions.               *)
AfterOutput(w) == Rested

Outputs ==
  /\ Running /\ ~Current.wedged
  /\ \E reply \in BOOLEAN :
       children' = [children EXCEPT ![Newest].worked = FALSE, ![Newest].replied = @ \/ reply]
  /\ watch' = AfterOutput(watch)
  /\ UNCHANGED call

(* The capture limit; Codex only stops recording there.                    *)
OutputOverflows ==
  /\ Running /\ ~Current.wedged /\ call.adapter = "STREAM"
  /\ KillsAndFails
  /\ UNCHANGED watch

(* A signalled process may end as if it had finished.                      *)
Exits ==
  \E n \in DOMAIN children, code \in {"ZERO", "OTHER"} :
    /\ children[n].alive /\ (children[n].wedged => children[n].signal # "NONE")
    /\ children' = [children EXCEPT ![n].alive = FALSE, ![n].code = code]
    /\ UNCHANGED <<call, watch>>

(* Five seconds after the first signal.                                    *)
Escalates ==
  \E n \in DOMAIN children :
    /\ children[n].alive /\ children[n].signal = "TERM"
    /\ children' = [children EXCEPT ![n].alive = FALSE, ![n].code = "OTHER", ![n].signal = "KILL"]
    /\ UNCHANGED <<call, watch>>

(***************************************************************************)
(* The timers and events of the runner.                                    *)
(***************************************************************************)
(* Half way through the silence; ps may fail.                              *)
SamplesBaseline ==
  /\ Waiting /\ call.probing /\ ~watch.sampled
  /\ watch' = IF Current.alive
              THEN [watch EXCEPT !.sampled = TRUE, !.baseline = TRUE, !.burned = FALSE]
              ELSE [watch EXCEPT !.sampled = TRUE]
  /\ UNCHANGED <<call, children>>

SampleFails ==
  /\ Waiting /\ call.probing /\ ~watch.sampled
  /\ watch' = [watch EXCEPT !.sampled = TRUE]
  /\ UNCHANGED <<call, children>>

AtDeadline == Waiting /\ (call.probing => watch.sampled)

(* probeLocalActivity: everything ambiguous is a kill.                     *)
ProvesWork ==
  /\ call.probing /\ watch.extensions < MaxExtensions
  /\ Current.alive /\ watch.baseline /\ watch.burned

DeadlineExtended ==
  /\ AtDeadline /\ ProvesWork
  /\ watch' = [Rested EXCEPT !.baseline = TRUE, !.extensions = watch.extensions + 1]
  /\ children' = [children EXCEPT ![Newest].spared = Current.wedged]
  /\ UNCHANGED call

(* The process tree may have been unreadable.                              *)
DeadlineKills ==
  /\ AtDeadline
  /\ KillsAndFails
  /\ UNCHANGED watch

AbsoluteTimeout ==
  /\ Waiting
  /\ KillsAndFails
  /\ UNCHANGED watch

(* The caller's abort signal, of the streaming runner only.                *)
Aborts ==
  /\ Waiting /\ call.adapter = "STREAM"
  /\ children' = [children EXCEPT ![Newest] = Signalled(@)]
  /\ call' = [call EXCEPT !.status = "REJECTED"]
  /\ UNCHANGED watch

(* The child takes no input: the streaming runner fails the call and lets  *)
(* the child live; Codex has no handler, and the error ends the process.   *)
InputFails ==
  /\ Waiting
  /\ IF call.adapter = "STREAM" THEN Fails ELSE call' = [call EXCEPT !.status = "CRASHED"]
  /\ UNCHANGED <<watch, children>>

(* A reply is an agent message (CODEX) or a result (STREAM).               *)
CloseResolves ==
  /\ Waiting /\ ~Current.alive /\ Current.code = "ZERO" /\ Current.replied
  /\ call' = [call EXCEPT !.status = "RESOLVED"]
  /\ UNCHANGED <<watch, children>>

CloseRejects ==
  /\ Waiting /\ ~Current.alive /\ ~(Current.code = "ZERO" /\ Current.replied)
  /\ Fails
  /\ UNCHANGED <<watch, children>>

CliNext ==
  \/ Spawns \/ SpawnFails \/ Works \/ Wedges \/ Outputs \/ OutputOverflows \/ Exits \/ Escalates
  \/ SamplesBaseline \/ SampleFails \/ DeadlineExtended \/ DeadlineKills \/ AbsoluteTimeout
  \/ Aborts \/ InputFails \/ CloseResolves \/ CloseRejects

CliSpec == CliInit /\ [][CliNext]_cliVars

(***************************************************************************)
(* Properties.                                                             *)
(***************************************************************************)
(* Quiet is not dead, and dead is not quiet (process-liveness.ts): the     *)
(* deadline of a wedged process is extended only on CPU it used after its  *)
(* last output, before it wedged, and once at most.                        *)
WedgedNotSpared ==
  [][DeadlineExtended /\ Current.wedged => Current.worked /\ ~Current.spared]_cliVars
=============================================================================
