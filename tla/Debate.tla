--------------------------------- MODULE Debate ---------------------------------
(* One debate (codemoot debate start, turn, complete): a ledger with one     *)
(* message per round, a mirror row for the critic that says how far the      *)
(* debate is, and the thread of the session that all commands share.  Every  *)
(* statement commits by itself; commands of several processes interleave,    *)
(* and a process may die between any two.  What is said is left out.         *)
EXTENDS Naturals

CONSTANTS
  Speaker,        \* processes that run a command of the debate
  MaxRounds,      \* maxRounds of the debate
  Thread,         \* conversation threads of the agent
  NoThread

ASSUME DebateAssumption == MaxRounds \in Nat \ {0} /\ NoThread \notin Thread

VARIABLES
  ledger,         \* debate_messages: the status of the message of each round
  critic,         \* debate_turns, the critic's row
  session,        \* codex_thread_id of the unified session
  speaker         \* what each process is doing

debateVars == <<ledger, critic, session, speaker>>

Round == 1..MaxRounds

MessageStatus == {"NONE", "queued", "running", "completed", "failed"}

NoTurn == [pc |-> "IDLE", round |-> 0, before |-> 0, thread |-> NoThread, known |-> FALSE,
           reply |-> NoThread]

Turn ==
  [pc: {"IDLE", "LOOKUP", "RECOVER", "FIND", "PREPARE", "RUN", "PREFLIGHT", "CALL", "COMPLETE",
       "SESSION", "MIRROR", "FAIL"},
   round: 0..MaxRounds,
   before: 0..MaxRounds,            \* the critic's round as it was read
   thread: Thread \cup {NoThread},  \* the thread to resume
   known: BOOLEAN,                  \* a message of the round was found
   reply: Thread \cup {NoThread}]   \* the thread the agent answered on

DebateTypeOK ==
  /\ ledger \in [Round -> MessageStatus]
  /\ critic \in [round: 0..MaxRounds, status: {"active", "completed"},
                 thread: Thread \cup {NoThread}]
  /\ session \in Thread \cup {NoThread}
  /\ speaker \in [Speaker -> Turn]

(* The session may hold a thread of an earlier command.                     *)
DebateInit ==
  /\ ledger = [r \in Round |-> "NONE"]
  /\ critic = [round |-> 0, status |-> "active", thread |-> NoThread]
  /\ session \in Thread \cup {NoThread}
  /\ speaker = [p \in Speaker |-> NoTurn]

Does(p, pc) == speaker[p].pc = pc

Then(p, pc) == speaker' = [speaker EXCEPT ![p] = IF pc = "IDLE" THEN NoTurn ELSE [@ EXCEPT !.pc = pc]]

Marks(r, status) == ledger' = [ledger EXCEPT ![r] = status]

(* upsert: round and status are overwritten, the thread only by another.    *)
Mirrors(round, thread) ==
  critic' = [round |-> round, status |-> "active",
             thread |-> IF thread = NoThread THEN critic.thread ELSE thread]

SpeakerDies(p) ==
  /\ speaker[p] # NoTurn /\ Then(p, "IDLE")
  /\ UNCHANGED <<ledger, critic, session>>

(***************************************************************************)
(* A turn, for the next round or the one that is asked for.                *)
(***************************************************************************)
TurnBegins(p, round) ==
  /\ speaker[p] = NoTurn /\ critic.status # "completed"
  /\ speaker' = [speaker EXCEPT ![p] = [NoTurn EXCEPT !.pc = "LOOKUP", !.round = round,
                   !.before = critic.round, !.thread = critic.thread]]
  /\ UNCHANGED <<ledger, critic, session>>

(* A round already answered is answered from the ledger; the mirror is     *)
(* brought forward if the turn that answered died before it did, with the  *)
(* thread it answered on, if there was one.                                *)
TurnLooksUp(p, answered) ==
  LET t == speaker[p] IN
  /\ Does(p, "LOOKUP")
  /\ IF ledger[t.round] = "completed"
       THEN /\ IF t.before < t.round
                 THEN Mirrors(t.round, IF answered = NoThread THEN t.thread ELSE answered)
                 ELSE UNCHANGED critic
            /\ Then(p, "IDLE")
       ELSE /\ speaker' = [speaker EXCEPT ![p].pc = "RECOVER", ![p].before = 0]
            /\ UNCHANGED critic
  /\ UNCHANGED <<ledger, session>>

(* Running messages that look old are failed: those of dead turns, and of  *)
(* live ones too, which may call twice and outlast the threshold.          *)
StaleRecovered(p, old) ==
  /\ Does(p, "RECOVER") /\ old \subseteq {r \in Round : ledger[r] = "running"}
  /\ ledger' = [r \in Round |-> IF r \in old THEN "failed" ELSE ledger[r]]
  /\ Then(p, "FIND")
  /\ UNCHANGED <<critic, session>>

TurnFinds(p) ==
  /\ Does(p, "FIND")
  /\ speaker' = [speaker EXCEPT ![p].pc = "PREPARE",
                                ![p].known = ledger[speaker[p].round] # "NONE"]
  /\ UNCHANGED <<ledger, critic, session>>

(* Inserted, or its prompt renewed; an insert that lost the race throws.   *)
TurnPrepares(p) ==
  LET t == speaker[p] IN
  /\ Does(p, "PREPARE")
  /\ speaker' = [speaker EXCEPT ![p] =
       IF t.known \/ ledger[t.round] = "NONE" THEN [t EXCEPT !.pc = "RUN", !.known = FALSE] ELSE NoTurn]
  /\ IF t.known \/ ledger[t.round] # "NONE" THEN UNCHANGED ledger ELSE Marks(t.round, "queued")
  /\ UNCHANGED <<critic, session>>

TurnRuns(p) ==
  /\ Does(p, "RUN")
  /\ IF ledger[speaker[p].round] \in {"queued", "failed"}
       THEN Marks(speaker[p].round, "running") /\ Then(p, "PREFLIGHT")
       ELSE UNCHANGED ledger /\ Then(p, "IDLE")
  /\ UNCHANGED <<critic, session>>

(* Over its token budget a turn exits, and leaves its message running.     *)
TurnPreflights(p, allowed) ==
  LET t == speaker[p] IN
  /\ Does(p, "PREFLIGHT")
  /\ speaker' = [speaker EXCEPT ![p] =
       IF ~allowed THEN NoTurn
       ELSE [t EXCEPT !.pc = "CALL", !.thread = IF session # NoThread THEN session ELSE t.thread]]
  /\ UNCHANGED <<ledger, critic, session>>

(* The agent resumes the thread or answers on another; a thread that could *)
(* not be resumed is dropped from the session.                             *)
CallAnswered(p, reply) ==
  /\ Does(p, "CALL")
  /\ session' = IF speaker[p].thread \notin {NoThread, reply} THEN NoThread ELSE session
  /\ speaker' = [speaker EXCEPT ![p].pc = "COMPLETE", ![p].reply = reply,
                                ![p].thread = NoThread]
  /\ UNCHANGED <<ledger, critic>>

CallLost(p) ==
  /\ Does(p, "CALL")
  /\ session' = IF speaker[p].thread # NoThread THEN NoThread ELSE session
  /\ Then(p, "FAIL")
  /\ UNCHANGED <<ledger, critic>>

TurnFails(p) ==
  LET r == speaker[p].round IN
  /\ Does(p, "FAIL")
  /\ IF ledger[r] = "running" THEN Marks(r, "failed") ELSE UNCHANGED ledger
  /\ Then(p, "IDLE")
  /\ UNCHANGED <<critic, session>>

(* Seeded fault: the turn goes on although the ledger refused its answer.  *)
GoesOn(recorded) == "SESSION"

AfterRecording(recorded) == IF recorded THEN "SESSION" ELSE "IDLE"

TurnCompletes(p) ==
  LET r == speaker[p].round
      recorded == ledger[r] = "running"
  IN
  /\ Does(p, "COMPLETE")
  /\ IF recorded THEN Marks(r, "completed") ELSE UNCHANGED ledger
  /\ Then(p, AfterRecording(recorded))
  /\ UNCHANGED <<critic, session>>

SessionUpdated(p) ==
  /\ Does(p, "SESSION")
  /\ session' = IF speaker[p].reply = NoThread THEN session ELSE speaker[p].reply
  /\ Then(p, "MIRROR")
  /\ UNCHANGED <<ledger, critic>>

TurnMirrored(p) ==
  /\ Does(p, "MIRROR")
  /\ Mirrors(speaker[p].round, speaker[p].reply) /\ Then(p, "IDLE")
  /\ UNCHANGED <<ledger, session>>

(***************************************************************************)
(* Completing the debate; other commands replace the session's thread.     *)
(***************************************************************************)
DebateCompleted ==
  /\ critic.status # "completed" /\ critic' = [critic EXCEPT !.status = "completed"]
  /\ UNCHANGED <<ledger, session, speaker>>

SessionUsedElsewhere(thread) ==
  /\ session' = thread
  /\ UNCHANGED <<ledger, critic, speaker>>

DebateNext ==
  \/ \E p \in Speaker :
       \/ SpeakerDies(p)
       \/ \E round \in Round : TurnBegins(p, round)
       \/ TurnFinds(p) \/ TurnPrepares(p) \/ TurnRuns(p)
       \/ \E old \in SUBSET Round : StaleRecovered(p, old)
       \/ \E allowed \in BOOLEAN : TurnPreflights(p, allowed)
       \/ \E reply \in Thread \cup {NoThread} : CallAnswered(p, reply) \/ TurnLooksUp(p, reply)
       \/ CallLost(p) \/ TurnFails(p) \/ TurnCompletes(p)
       \/ SessionUpdated(p) \/ TurnMirrored(p)
  \/ DebateCompleted
  \/ \E thread \in Thread : SessionUsedElsewhere(thread)

DebateSpec == DebateInit /\ [][DebateNext]_debateVars

(***************************************************************************)
(* Properties.                                                             *)
(***************************************************************************)
(* The mirror never runs ahead of the ledger: the round the debate counts  *)
(* its next turn from is one whose answer is recorded, however turns race, *)
(* die, or are recovered while they still run.                             *)
MirrorBehindLedger == critic.round # 0 => ledger[critic.round] = "completed"
=============================================================================
