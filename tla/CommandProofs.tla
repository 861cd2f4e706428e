----------------------------- MODULE CommandProofs -----------------------------
(* Commands that run beside each other and share a ledger, a queue, a log or   *)
(* a setting: debates (Debate), jobs (WatchQueue), builds (BuildRun) and the   *)
(* guard of the push address (PushGuard); and the legacy engine, whose model   *)
(* calls share slots (Engine).                                                 *)
EXTENDS MCWorkers, WorkflowRunnerProofs, FiniteSetTheorems, WellFoundedInduction, TLAPS

(***************************************************************************)
(* The push address.  A blocked address was put there by a run that had    *)
(* saved the user's, or had read that another one did; what a run puts     *)
(* back is always the user's.                                              *)
(***************************************************************************)
SavedFirst ==
  /\ original \in {"NOTHING", UserUrl}
  /\ pushurl = "BLOCKED" =>
       original = UserUrl /\ (abandoned \/ \E p \in GuardedRun : guarded[p] # "OUT")
  /\ \A p \in GuardedRun :
       /\ guarded[p] \notin {"OUT", "SAVE"} => original = UserUrl
       /\ guarded[p] = "SAVE" => \/ unread[p] = UserUrl
                                 \/ unread[p] = "BLOCKED" /\ original = UserUrl
       /\ guarded[p] \in {"UNBLOCK", "RESTORE"} => unread[p] = UserUrl

GuardInv == GuardTypeOK /\ SavedFirst

LEMMA GuardTypes ==
  ASSUME GuardInv, [GuardNext]_guardVars
  PROVE  GuardTypeOK'
<1> USE DEF GuardInv, GuardTypeOK, GuardGoes, Reads, PushUrl
<1>1. CASE UNCHANGED guardVars
  BY <1>1 DEF guardVars
<1>2. ASSUME NEW p \in GuardedRun, ReadsPushUrl(p) \/ SavesPushUrl(p) \/ GuardAbandoned(p)
      PROVE  GuardTypeOK'
  BY <1>2 DEF ReadsPushUrl, SavesPushUrl, GuardAbandoned, IsUsers, SavedFirst
<1>3. ASSUME NEW p \in GuardedRun, NEW from \in {"BLOCK", "PUSH"}, BlocksPush(p, from)
      PROVE  GuardTypeOK'
  BY <1>3 DEF BlocksPush
<1>4. ASSUME NEW p \in GuardedRun, NEW next \in {"UNBLOCK", "RESTORE"}, ReadsOriginal(p, next)
      PROVE  GuardTypeOK'
  BY <1>4 DEF ReadsOriginal
<1>5. ASSUME NEW p \in GuardedRun,
             PutsBack(p, "UNBLOCK", "PUSH") \/ PutsBack(p, "RESTORE", "OUT")
      PROVE  GuardTypeOK'
  BY <1>5 DEF PutsBack, SavedFirst
<1> QED
  BY <1>1, <1>2, <1>3, <1>4, <1>5 DEF GuardNext

LEMMA GuardStep ==
  ASSUME GuardInv, [GuardNext]_guardVars
  PROVE  GuardInv'
<1>1. GuardTypeOK /\ GuardTypeOK'
  BY GuardTypes DEF GuardInv
<1> USE GuardAssumption
<1>2. CASE UNCHANGED guardVars
  BY <1>1, <1>2 DEF GuardInv, SavedFirst, guardVars
<1>3. ASSUME NEW p \in GuardedRun, ReadsPushUrl(p) PROVE SavedFirst'
  BY <1>1, <1>3 DEF GuardInv, GuardTypeOK, SavedFirst, ReadsPushUrl, GuardGoes, Reads, PushUrl
<1>4. ASSUME NEW p \in GuardedRun, SavesPushUrl(p) PROVE SavedFirst'
  BY <1>1, <1>4 DEF GuardInv, GuardTypeOK, SavedFirst, SavesPushUrl, GuardGoes, Reads, IsUsers
<1>5. ASSUME NEW p \in GuardedRun, NEW from \in {"BLOCK", "PUSH"}, BlocksPush(p, from)
      PROVE  SavedFirst'
  BY <1>1, <1>5 DEF GuardInv, GuardTypeOK, SavedFirst, BlocksPush, GuardGoes
<1>6. ASSUME NEW p \in GuardedRun, NEW next \in {"UNBLOCK", "RESTORE"}, ReadsOriginal(p, next)
      PROVE  SavedFirst'
  BY <1>1, <1>6 DEF GuardInv, GuardTypeOK, SavedFirst, ReadsOriginal, GuardGoes, Reads
<1>7. ASSUME NEW p \in GuardedRun,
             PutsBack(p, "UNBLOCK", "PUSH") \/ PutsBack(p, "RESTORE", "OUT")
      PROVE  SavedFirst'
  BY <1>1, <1>7 DEF GuardInv, GuardTypeOK, SavedFirst, PutsBack, GuardGoes, Reads
<1>8. ASSUME NEW p \in GuardedRun, GuardAbandoned(p) PROVE SavedFirst'
  BY <1>1, <1>8 DEF GuardInv, GuardTypeOK, SavedFirst, GuardAbandoned, Reads
<1> QED
  BY <1>1, <1>2, <1>3, <1>4, <1>5, <1>6, <1>7, <1>8 DEF GuardInv, GuardNext

LEMMA GuardInvariance == GuardSpec => []GuardInv
<1>1. GuardInit => GuardInv
  BY GuardAssumption DEF GuardInit, GuardInv, GuardTypeOK, SavedFirst, PushUrl
<1>2. GuardInv /\ [GuardNext]_guardVars => GuardInv'
  BY GuardStep
<1> QED
  BY <1>1, <1>2, PTL DEF GuardSpec

(* Runs, setting and file keep their types.                                *)
THEOREM GuardTyped == GuardSpec => []GuardTypeOK
<1>1. GuardInv => GuardTypeOK
  BY DEF GuardInv
<1> QED
  BY GuardInvariance, <1>1, PTL

(* For any number of runs that install, push, end and are killed in any    *)
(* order: the user's push address is configured, or saved and still to be  *)
(* put back (push-guard.ts).                                               *)
THEOREM UserUrlSurvives == GuardSpec => []UserUrlKept
<1>1. GuardInv => UserUrlKept
  BY DEF GuardInv, GuardTypeOK, SavedFirst, UserUrlKept, PushUrl
<1> QED
  BY GuardInvariance, <1>1, PTL

(***************************************************************************)
(* Debates.  A turn that goes on to the session and the mirror has its     *)
(* answer in the ledger, and a completed message stays completed.          *)
(***************************************************************************)
RecordedFirst ==
  \A p \in Speaker :
    /\ speaker[p].pc # "IDLE" => speaker[p].round \in Round
    /\ speaker[p].pc \in {"SESSION", "MIRROR"} => ledger[speaker[p].round] = "completed"

DebateInv == DebateTypeOK /\ RecordedFirst /\ MirrorBehindLedger

LEMMA TurnTyped ==
  ASSUME DebateTypeOK
  PROVE  /\ \A p \in Speaker : speaker[p] \in Turn
         /\ NoTurn \in Turn /\ NoTurn.pc = "IDLE"
         /\ Round \subseteq 0..MaxRounds /\ 0 \notin Round
BY DebateAssumption DEF DebateTypeOK, Turn, NoTurn, Round

LEMMA TurnMoves ==
  ASSUME DebateTypeOK, NEW p \in Speaker,
         NEW pc \in {"IDLE", "LOOKUP", "RECOVER", "FIND", "PREPARE", "RUN", "PREFLIGHT", "CALL",
                     "COMPLETE", "SESSION", "MIRROR", "FAIL"},
         Then(p, pc)
  PROVE  /\ speaker' \in [Speaker -> Turn] /\ speaker'[p].pc = pc
         /\ pc # "IDLE" => speaker'[p].round = speaker[p].round
         /\ \A q \in Speaker \ {p} : speaker'[q] = speaker[q]
BY TurnTyped DEF Then, DebateTypeOK, Turn

(* What a step that does not touch the critic's row may do.                *)
LEMMA TurnKeeps ==
  ASSUME DebateInv, NEW p \in Speaker, UNCHANGED critic,
         session' \in Thread \cup {NoThread}, ledger' \in [Round -> MessageStatus],
         speaker' \in [Speaker -> Turn], \A q \in Speaker \ {p} : speaker'[q] = speaker[q],
         \A r \in Round : ledger[r] = "completed" => ledger'[r] = "completed",
         speaker'[p].pc # "IDLE" => speaker'[p].round \in Round,
         speaker'[p].pc \in {"SESSION", "MIRROR"} => ledger'[speaker'[p].round] = "completed"
  PROVE  DebateInv'
<1>1. DebateTypeOK'
  BY DEF DebateInv, DebateTypeOK
<1>2. RecordedFirst'
  BY DEF DebateInv, RecordedFirst
<1>3. MirrorBehindLedger'
  BY DebateAssumption DEF DebateInv, DebateTypeOK, MirrorBehindLedger, Round
<1> QED
  BY <1>1, <1>2, <1>3 DEF DebateInv

(* A step that moves the critic's row on to a round that is answered.      *)
LEMMA MirrorKeeps ==
  ASSUME DebateInv, NEW p \in Speaker, UNCHANGED <<ledger, session>>, Then(p, "IDLE"),
         NEW round \in Round, ledger[round] = "completed",
         NEW thread \in Thread \cup {NoThread}, Mirrors(round, thread)
  PROVE  DebateInv'
<1>1. /\ speaker' \in [Speaker -> Turn] /\ speaker'[p].pc = "IDLE"
      /\ \A q \in Speaker \ {p} : speaker'[q] = speaker[q]
  BY TurnMoves DEF DebateInv
<1>2. critic'.round = round /\ round \in 0..MaxRounds
      /\ critic' \in [round: 0..MaxRounds, status: {"active", "completed"},
                      thread: Thread \cup {NoThread}]
  BY TurnTyped DEF DebateInv, DebateTypeOK, Mirrors
<1>3. DebateTypeOK'
  BY <1>1, <1>2 DEF DebateInv, DebateTypeOK
<1>4. RecordedFirst'
  BY <1>1 DEF DebateInv, RecordedFirst
<1>5. MirrorBehindLedger'
  BY <1>2 DEF MirrorBehindLedger
<1> QED
  BY <1>3, <1>4, <1>5 DEF DebateInv

LEMMA LooksUp ==
  ASSUME DebateInv, NEW p \in Speaker, NEW answered \in Thread \cup {NoThread},
         TurnLooksUp(p, answered)
  PROVE  DebateInv'
<1> DEFINE t == speaker[p]
<1>1. t \in Turn /\ t.round \in Round
  BY TurnTyped DEF DebateInv, RecordedFirst, TurnLooksUp, Does
<1>2. CASE ledger[t.round] = "completed" /\ t.before < t.round
  <2>1. PICK thread \in Thread \cup {NoThread} : Mirrors(t.round, thread)
    BY <1>1, <1>2 DEF TurnLooksUp, Turn
  <2> QED
    BY <1>1, <1>2, <2>1, MirrorKeeps DEF TurnLooksUp
<1>3. CASE ledger[t.round] = "completed" /\ ~(t.before < t.round)
  <2>1. Then(p, "IDLE") /\ UNCHANGED <<critic, ledger, session>>
    BY <1>3 DEF TurnLooksUp
  <2> QED
    BY <2>1, TurnMoves, TurnKeeps DEF DebateInv, DebateTypeOK
<1>4. CASE ledger[t.round] # "completed"
  <2>1. /\ speaker' \in [Speaker -> Turn] /\ \A q \in Speaker \ {p} : speaker'[q] = speaker[q]
        /\ speaker'[p].pc = "RECOVER" /\ speaker'[p].round = t.round
        /\ UNCHANGED <<critic, ledger, session>>
    BY <1>1, <1>4, DebateAssumption DEF TurnLooksUp, DebateInv, DebateTypeOK, Turn
  <2> QED
    BY <1>1, <2>1, TurnKeeps DEF DebateInv, DebateTypeOK
<1> QED
  BY <1>2, <1>3, <1>4

(* The steps of a turn that leave ledger and mirror alone.                 *)
LEMMA TurnGoesOn ==
  ASSUME DebateInv, NEW p \in Speaker,
         \/ SpeakerDies(p) \/ (\E round \in Round : TurnBegins(p, round)) \/ TurnFinds(p)
         \/ (\E allowed \in BOOLEAN : TurnPreflights(p, allowed))
         \/ (\E reply \in Thread \cup {NoThread} : CallAnswered(p, reply))
         \/ CallLost(p) \/ SessionUpdated(p)
  PROVE  DebateInv'
<1>1. /\ speaker[p] \in Turn /\ NoTurn \in Turn /\ NoTurn.pc = "IDLE" /\ Round \subseteq 0..MaxRounds
      /\ speaker \in [Speaker -> Turn]
      /\ critic.round \in 0..MaxRounds /\ critic.thread \in Thread \cup {NoThread}
      /\ session \in Thread \cup {NoThread}
  BY TurnTyped DEF DebateInv, DebateTypeOK
<1>2. UNCHANGED <<ledger, critic>>
  BY DEF SpeakerDies, TurnBegins, TurnFinds, TurnPreflights, CallAnswered, CallLost, SessionUpdated
<1>3. /\ speaker' \in [Speaker -> Turn] /\ \A q \in Speaker \ {p} : speaker'[q] = speaker[q]
      /\ session' \in Thread \cup {NoThread}
      /\ speaker'[p].pc # "IDLE" => speaker'[p].round \in Round
      /\ speaker'[p].pc = "MIRROR" => speaker'[p].round = speaker[p].round /\ speaker[p].pc = "SESSION"
      /\ speaker'[p].pc # "SESSION"
  <2>1. CASE SpeakerDies(p)
    BY <1>1, <2>1, TurnMoves DEF SpeakerDies, DebateInv
  <2>2. CASE \E round \in Round : TurnBegins(p, round)
    <3>1. PICK round \in Round : TurnBegins(p, round)
      BY <2>2
    <3> DEFINE record == [NoTurn EXCEPT !.pc = "LOOKUP", !.round = round,
                                        !.before = critic.round, !.thread = critic.thread]
    <3>2. record \in Turn /\ record.pc = "LOOKUP" /\ record.round = round
      BY <1>1 DEF Turn
    <3>3. speaker' = [speaker EXCEPT ![p] = record] /\ UNCHANGED session
      BY <3>1 DEF TurnBegins
    <3> HIDE DEF record
    <3> QED
      BY <1>1, <3>2, <3>3
  <2>3. CASE TurnFinds(p)
    <3> DEFINE found == ledger[speaker[p].round] # "NONE"
    <3>1. [speaker[p] EXCEPT !.pc = "PREPARE", !.known = found] \in Turn
      <4>1. found \in BOOLEAN
        OBVIOUS
      <4> HIDE DEF found
      <4> QED
        BY <1>1, <4>1 DEF Turn
    <3>2. speaker' = [speaker EXCEPT ![p] = [speaker[p] EXCEPT !.pc = "PREPARE", !.known = found]]
          /\ UNCHANGED session /\ speaker[p].pc = "FIND"
      BY <1>1, <2>3 DEF TurnFinds, Turn, Does
    <3> HIDE DEF found
    <3> QED
      BY <1>1, <3>1, <3>2 DEF Turn, DebateInv, RecordedFirst
  <2>4. CASE \E allowed \in BOOLEAN : TurnPreflights(p, allowed)
    <3>1. PICK allowed \in BOOLEAN : TurnPreflights(p, allowed)
      BY <2>4
    <3> DEFINE record == [speaker[p] EXCEPT !.pc = "CALL",
                            !.thread = IF session # NoThread THEN session ELSE speaker[p].thread]
    <3>2. record \in Turn /\ record.pc = "CALL" /\ record.round = speaker[p].round
      BY <1>1 DEF Turn
    <3>3. \/ speaker' = [speaker EXCEPT ![p] = NoTurn]
          \/ speaker' = [speaker EXCEPT ![p] = record]
      <4>1. speaker' = [speaker EXCEPT ![p] = IF ~allowed THEN NoTurn ELSE record]
        BY <3>1 DEF TurnPreflights
      <4> HIDE DEF record
      <4> QED
        BY <4>1
    <3>4. UNCHANGED session /\ speaker[p].pc = "PREFLIGHT"
      BY <3>1 DEF TurnPreflights, Does
    <3> HIDE DEF record
    <3> QED
      BY <1>1, <3>2, <3>3, <3>4 DEF DebateInv, RecordedFirst
  <2>5. CASE \E reply \in Thread \cup {NoThread} : CallAnswered(p, reply)
    <3>1. PICK reply \in Thread \cup {NoThread} : CallAnswered(p, reply)
      BY <2>5
    <3> DEFINE record == [speaker[p] EXCEPT !.pc = "COMPLETE", !.reply = reply, !.thread = NoThread]
    <3>2. record \in Turn /\ record.pc = "COMPLETE" /\ record.round = speaker[p].round
      BY <1>1 DEF Turn
    <3>3. speaker' = [speaker EXCEPT ![p] = record]
      BY <3>1 DEF CallAnswered
    <3>4. session' \in Thread \cup {NoThread} /\ speaker[p].pc = "CALL"
      BY <1>1, <3>1 DEF CallAnswered, Does
    <3> HIDE DEF record
    <3> QED
      BY <1>1, <3>2, <3>3, <3>4 DEF DebateInv, RecordedFirst
  <2>6. CASE CallLost(p)
    BY <1>1, <2>6, TurnMoves DEF CallLost, DebateInv, RecordedFirst, Does
  <2>7. CASE SessionUpdated(p)
    <3>1. speaker[p].reply \in Thread \cup {NoThread}
      BY <1>1 DEF Turn
    <3> QED
      BY <1>1, <2>7, <3>1, TurnMoves DEF SessionUpdated, DebateInv, RecordedFirst, Does
  <2> QED
    BY <2>1, <2>2, <2>3, <2>4, <2>5, <2>6, <2>7
<1> QED
  BY <1>2, <1>3, TurnKeeps DEF DebateInv, DebateTypeOK, RecordedFirst

(* The steps that write a message.                                         *)
LEMMA TurnWrites ==
  ASSUME DebateInv, NEW p \in Speaker,
         \/ (\E old \in SUBSET Round : StaleRecovered(p, old))
         \/ TurnPrepares(p) \/ TurnRuns(p) \/ TurnFails(p) \/ TurnCompletes(p)
  PROVE  DebateInv'
<1>1. /\ speaker[p] \in Turn /\ NoTurn \in Turn /\ NoTurn.pc = "IDLE"
      /\ speaker \in [Speaker -> Turn] /\ ledger \in [Round -> MessageStatus]
      /\ speaker[p].round \in Round
  BY TurnTyped DEF DebateInv, DebateTypeOK, RecordedFirst, StaleRecovered, TurnPrepares, TurnRuns,
     TurnFails, TurnCompletes, Does
<1>2. UNCHANGED <<critic, session>>
  BY DEF StaleRecovered, TurnPrepares, TurnRuns, TurnFails, TurnCompletes
<1>3. /\ ledger' \in [Round -> MessageStatus]
      /\ \A r \in Round : ledger[r] = "completed" => ledger'[r] = "completed"
  <2>1. CASE \E old \in SUBSET Round : StaleRecovered(p, old)
    BY <1>1, <2>1 DEF StaleRecovered, MessageStatus
  <2>2. CASE TurnPrepares(p) \/ TurnRuns(p) \/ TurnFails(p) \/ TurnCompletes(p)
    BY <1>1, <2>2 DEF TurnPrepares, TurnRuns, TurnFails, TurnCompletes, Marks, MessageStatus
  <2> QED
    BY <2>1, <2>2
<1>4. /\ speaker' \in [Speaker -> Turn] /\ \A q \in Speaker \ {p} : speaker'[q] = speaker[q]
      /\ speaker'[p].pc # "IDLE" => speaker'[p].round = speaker[p].round
      /\ speaker'[p].pc # "MIRROR"
      /\ speaker'[p].pc = "SESSION" => ledger'[speaker[p].round] = "completed"
  <2>1. CASE TurnPrepares(p)
    BY <1>1, <2>1 DEF TurnPrepares, Turn
  <2>2. CASE \E old \in SUBSET Round : StaleRecovered(p, old)
    BY <1>1, <2>2, TurnMoves DEF StaleRecovered, DebateInv
  <2>3. CASE TurnRuns(p) \/ TurnFails(p)
    BY <1>1, <2>3, TurnMoves DEF TurnRuns, TurnFails, DebateInv
  <2>4. CASE TurnCompletes(p)
    BY <1>1, <2>4, TurnMoves DEF TurnCompletes, AfterRecording, Marks, DebateInv
  <2> QED
    BY <2>1, <2>2, <2>3, <2>4
<1> QED
  BY <1>1, <1>2, <1>3, <1>4, TurnKeeps DEF DebateInv, DebateTypeOK

LEMMA DebateStep ==
  ASSUME DebateInv, [DebateNext]_debateVars
  PROVE  DebateInv'
<1>1. CASE UNCHANGED debateVars
  BY <1>1 DEF debateVars, DebateInv, DebateTypeOK, RecordedFirst, MirrorBehindLedger
<1>2. CASE DebateCompleted \/ \E thread \in Thread : SessionUsedElsewhere(thread)
  BY <1>2 DEF DebateCompleted, SessionUsedElsewhere, DebateInv, DebateTypeOK, RecordedFirst,
     MirrorBehindLedger
<1>3. ASSUME NEW p \in Speaker, TurnMirrored(p) PROVE DebateInv'
  <2>1. speaker[p].round \in Round /\ ledger[speaker[p].round] = "completed"
        /\ speaker[p].reply \in Thread \cup {NoThread}
    BY <1>3, TurnTyped DEF TurnMirrored, Does, DebateInv, RecordedFirst, Turn
  <2> QED
    BY <1>3, <2>1, MirrorKeeps DEF TurnMirrored
<1> QED
  BY <1>1, <1>2, <1>3, LooksUp, TurnGoesOn, TurnWrites DEF DebateNext

LEMMA DebateInvariance == DebateSpec => []DebateInv
<1>1. DebateInit => DebateInv
  BY TurnTyped, DebateAssumption
     DEF DebateInit, DebateInv, DebateTypeOK, RecordedFirst, MirrorBehindLedger, MessageStatus,
         NoTurn, Turn, Round
<1>2. DebateInv /\ [DebateNext]_debateVars => DebateInv'
  BY DebateStep
<1> QED
  BY <1>1, <1>2, PTL DEF DebateSpec

(* Turns, messages and the mirror keep their types.                        *)
THEOREM DebateTyped == DebateSpec => []DebateTypeOK
<1>1. DebateInv => DebateTypeOK
  BY DEF DebateInv
<1> QED
  BY DebateInvariance, <1>1, PTL

(* For any number of turns that race, die, or are recovered while they run *)
(* (debate.ts, message-store.ts): the round the debate counts its next     *)
(* turn from is one whose answer is recorded.                              *)
THEOREM MirrorFollowsLedger == DebateSpec => []MirrorBehindLedger
<1>1. DebateInv => MirrorBehindLedger
  BY DEF DebateInv
<1> QED
  BY DebateInvariance, <1>1, PTL

(***************************************************************************)
(* Jobs.  A claim uses up one queueing, and a retry is one more.           *)
(***************************************************************************)
JobRow == [status: {"NONE", "queued", "running", "succeeded", "failed", "canceled"},
           watching: BOOLEAN, retries: Nat]

QueueTyped == queue \in [QueueId -> JobRow] /\ claims \in [QueueId -> Nat]

ClaimsExplained ==
  \A j \in QueueId :
    /\ queue[j].status = "NONE" => claims[j] = 0
    /\ queue[j].status = "queued" => claims[j] <= queue[j].retries
    /\ claims[j] <= 1 + queue[j].retries

WatchInv == QueueTyped /\ ClaimsExplained

(* The rows have an oldest one.                                            *)
LEMMA OldestIsThere ==
  ASSUME NEW S \in SUBSET QueueId, S # {}
  PROVE  Oldest(S) \in S
<1>1. S \subseteq Nat /\ Queued \in Nat
  BY WatchAssumption DEF QueueId
<1>2. PICK j \in S : \A other \in S : ~(<<other, j>> \in OpToRel(<, Nat))
  BY <1>1, NatLessThanWellFounded, WFMin
<1>3. \A other \in S : j <= other
  <2> SUFFICES ASSUME NEW other \in S, ~(j <= other) PROVE FALSE
    OBVIOUS
  <2>1. j \in Nat /\ other \in Nat /\ other < j
    BY <1>1
  <2>2. <<other, j>> \in OpToRel(<, Nat)
    BY <2>1 DEF OpToRel
  <2> QED
    BY <1>2, <2>2
<1> QED
  BY <1>3 DEF Oldest

(* A row that is written leaves the others alone.                          *)
LEMMA RowWritten ==
  ASSUME WatchInv, NEW j \in QueueId, NEW written \in JobRow,
         queue' = [queue EXCEPT ![j] = written], claims' \in [QueueId -> Nat],
         \A i \in QueueId \ {j} : claims'[i] = claims[i],
         written.status # "NONE",
         written.status = "queued" => claims'[j] <= written.retries,
         claims'[j] <= 1 + written.retries
  PROVE  WatchInv'
BY DEF WatchInv, QueueTyped, ClaimsExplained

LEMMA EnqueueKeeps ==
  ASSUME WatchInv, NEW watching \in BOOLEAN, Enqueued(watching), UNCHANGED claims
  PROVE  WatchInv'
<1> DEFINE j == Oldest(HasStatus({"NONE"}))
           written == [status |-> "queued", watching |-> watching, retries |-> 0]
<1>1. j \in HasStatus({"NONE"})
  BY OldestIsThere DEF Enqueued, HasStatus
<1>2. j \in QueueId /\ claims[j] = 0
  BY <1>1 DEF HasStatus, WatchInv, ClaimsExplained
<1>3. written \in JobRow /\ written.status = "queued" /\ written.retries = 0
  BY DEF JobRow
<1>4. queue' = [queue EXCEPT ![j] = written]
  BY DEF Enqueued
<1> HIDE DEF j, written
<1>5. claims' = claims /\ claims \in [QueueId -> Nat]
      /\ claims'[j] <= written.retries /\ claims'[j] <= 1 + written.retries
  BY <1>2, <1>3 DEF WatchInv, QueueTyped
<1> QED
  BY <1>2, <1>3, <1>4, <1>5, RowWritten

LEMMA UnwrittenKeeps ==
  ASSUME WatchInv, UNCHANGED <<queue, claims>>
  PROVE  WatchInv'
BY DEF WatchInv, QueueTyped, ClaimsExplained

LEMMA WatchStep ==
  ASSUME WatchInv, [WatchNext]_watchVars
  PROVE  WatchInv'
<1>1. ASSUME BatchReviewed, UNCHANGED claims PROVE WatchInv'
  BY <1>1, EnqueueKeeps, UnwrittenKeeps DEF BatchReviewed
<1>2. CASE \/ JobEnqueued \/ (\E files \in 1..FlushAt : FileChanges(files))
           \/ (\E timer \in {"quiet", "maxWait"} : TimerFires(timer))
           \/ \E killed \in BOOLEAN : WatcherStops(killed)
  BY <1>1, <1>2, EnqueueKeeps, UnwrittenKeeps
     DEF JobEnqueued, FileChanges, TimerFires, WatcherStops, Flushed, worked
<1>3. CASE CooldownEnds \/ SelectsJob \/ UNCHANGED watchVars
  BY <1>3, UnwrittenKeeps DEF CooldownEnds, SelectsJob, watchVars, worked
<1>4. ASSUME NEW j \in QueueId, JobberDies(j) \/ RetryReads(j) PROVE WatchInv'
  BY <1>4, UnwrittenKeeps DEF JobberDies, RetryReads, worked
<1>5. ASSUME NEW j \in QueueId PROVE queue[j] \in JobRow /\ queue[j].retries \in Nat
                                     /\ claims[j] \in Nat /\ claims[j] <= 1 + queue[j].retries
  BY <1>5 DEF WatchInv, QueueTyped, ClaimsExplained, JobRow
<1>6. ASSUME NEW j \in QueueId, ClaimsJob(j) PROVE WatchInv'
  <2>1. CASE Claimable(j)
    <3> DEFINE written == [queue[j] EXCEPT !.status = "running"]
    <3>1. written \in JobRow /\ written.status = "running" /\ written.retries = queue[j].retries
      BY <1>5 DEF JobRow
    <3>2. queue' = [queue EXCEPT ![j] = written] /\ claims' = [claims EXCEPT ![j] = @ + 1]
      BY <1>6, <2>1 DEF ClaimsJob, OneMore
    <3>3. claims[j] <= queue[j].retries
      BY <2>1 DEF Claimable, WatchInv, ClaimsExplained
    <3>4. /\ claims' \in [QueueId -> Nat] /\ claims'[j] = claims[j] + 1
          /\ \A i \in QueueId \ {j} : claims'[i] = claims[i]
      BY <3>2 DEF WatchInv, QueueTyped
    <3>5. claims'[j] <= 1 + written.retries
      BY <1>5, <3>1, <3>3, <3>4
    <3> HIDE DEF written
    <3> QED
      BY <3>1, <3>2, <3>4, <3>5, RowWritten
  <2>2. CASE ~Claimable(j)
    BY <1>6, <2>2, UnwrittenKeeps DEF ClaimsJob
  <2> QED
    BY <2>1, <2>2
<1>7. ASSUME NEW j \in QueueId,
             CancelsJob(j) \/ \E outcome \in {"succeeded", "failed"} : SettlesJob(j, outcome)
      PROVE  WatchInv'
  <2>1. UNCHANGED claims
    BY <1>7 DEF CancelsJob, SettlesJob, worked
  <2>2. UNCHANGED queue \/ \E status \in {"succeeded", "failed", "canceled"} :
          queue' = [queue EXCEPT ![j].status = status]
    BY <1>7 DEF CancelsJob, SettlesJob
  <2>3. ASSUME NEW status \in {"succeeded", "failed", "canceled"},
               queue' = [queue EXCEPT ![j].status = status]
        PROVE  WatchInv'
    <3> DEFINE written == [queue[j] EXCEPT !.status = status]
    <3>1. written \in JobRow /\ written.status = status /\ written.retries = queue[j].retries
      BY <1>5, <2>3 DEF JobRow
    <3>2. queue' = [queue EXCEPT ![j] = written]
      BY <2>3
    <3> HIDE DEF written
    <3> QED
      BY <1>5, <2>1, <3>1, <3>2, RowWritten DEF WatchInv, QueueTyped
  <2> QED
    BY <2>1, <2>2, <2>3, UnwrittenKeeps
<1>8. ASSUME NEW j \in QueueId, RetryWrites(j) PROVE WatchInv'
  <2> DEFINE next == queue[j].retries + 1
             written == [queue[j] EXCEPT !.status = "queued", !.retries = next]
  <2>1. written \in JobRow /\ written.status = "queued" /\ written.retries = queue[j].retries + 1
    <3>1. next \in Nat
      BY <1>5
    <3> HIDE DEF next
    <3>2. written \in JobRow /\ written.status = "queued" /\ written.retries = next
      BY <1>5, <3>1 DEF JobRow
    <3> QED
      BY <3>2 DEF next
  <2>2. queue' = [queue EXCEPT ![j] = written] /\ UNCHANGED claims
    BY <1>8 DEF RetryWrites, worked
  <2>3. claims[j] <= written.retries /\ claims[j] <= 1 + written.retries
    BY <1>5, <2>1
  <2> HIDE DEF written
  <2> QED
    BY <1>5, <2>1, <2>2, <2>3, RowWritten DEF WatchInv, QueueTyped
<1> QED
  BY <1>2, <1>3, <1>4, <1>6, <1>7, <1>8 DEF WatchNext

(* For any number of workers, retries and cancellations in any order       *)
(* (job-store.ts): the agent is called for a job at most once each time    *)
(* the job was put into the queue.                                         *)
THEOREM ClaimsAreQueued == WatchSpec => []ClaimedOncePerQueueing
<1>1. WatchInit => WatchInv
  BY DEF WatchInit, WatchInv, QueueTyped, ClaimsExplained, JobRow, Nobody
<1>2. WatchInv /\ [WatchNext]_watchVars => WatchInv'
  BY WatchStep
<1>3. WatchInv => ClaimedOncePerQueueing
  BY DEF WatchInv, ClaimsExplained, ClaimedOncePerQueueing
<1> QED
  BY <1>1, <1>2, <1>3, PTL DEF WatchSpec

(***************************************************************************)
(* The sum of a function on a finite set (Count).  It is a fold, that is a *)
(* recursive function on sets: that such a function exists is shown for    *)
(* the small sets first, by the least size for which it would not.         *)
(***************************************************************************)
(* One step of the sum over a set, by the value it has for smaller ones.   *)
OneOf(s) == CHOOSE x \in s : TRUE

SumStep(f, g, s) == IF s = {} THEN 0 ELSE f[OneOf(s)] + g[s \ {OneOf(s)}]

Sums(f) == CHOOSE g : g = [s \in SUBSET DOMAIN f |-> SumStep(f, g, s)]

LEMMA CountIsSum ==
  ASSUME NEW f
  PROVE  Count(f) = Sums(f)[DOMAIN f]
BY DEF Count, FoldFunction, FoldFunctionOnSet, MapThenFoldSet, Sums, SumStep, OneOf

LEMMA OneOfIsThere ==
  ASSUME NEW s, s # {}
  PROVE  OneOf(s) \in s
BY DEF OneOf

(* The subsets with at most n elements.                                    *)
Small(S, n) == {s \in SUBSET S : Cardinality(s) <= n}

(* The sums of the small sets can be taken: for none of them there is      *)
(* nothing to do, and one more element needs one step more.                *)
LEMMA SmallSums ==
  ASSUME NEW f, IsFiniteSet(DOMAIN f), NEW n \in Nat
  PROVE  \E g : g = [s \in Small(DOMAIN f, n) |-> SumStep(f, g, s)]
<1> DEFINE S == DOMAIN f
           Summed(m) == \E g : g = [s \in Small(S, m) |-> SumStep(f, g, s)]
           T == {m \in Nat : ~Summed(m)}
<1>1. \A s \in SUBSET S : IsFiniteSet(s) /\ Cardinality(s) \in Nat
  BY FS_Subset, FS_CardinalityType
<1>2. Summed(0)
  <2> DEFINE g == [s \in Small(S, 0) |-> 0]
  <2>1. \A s \in Small(S, 0) : s = {}
    BY <1>1, FS_EmptySet DEF Small
  <2>2. g = [s \in Small(S, 0) |-> SumStep(f, g, s)]
    BY <2>1 DEF SumStep
  <2> QED
    BY <2>2
<1>3. ASSUME NEW m \in Nat, Summed(m) PROVE Summed(m + 1)
  <2>1. PICK g : g = [s \in Small(S, m) |-> SumStep(f, g, s)]
    BY <1>3
  <2> DEFINE h == [s \in Small(S, m + 1) |-> SumStep(f, g, s)]
  <2>2. ASSUME NEW s \in Small(S, m) PROVE h[s] = g[s]
    <3>1. s \in Small(S, m + 1)
      BY <1>1 DEF Small
    <3> QED
      BY <2>1, <3>1
  <2>3. ASSUME NEW s \in Small(S, m + 1), s # {} PROVE s \ {OneOf(s)} \in Small(S, m)
    <3>1. OneOf(s) \in s /\ IsFiniteSet(s) /\ Cardinality(s) \in Nat /\ Cardinality(s) <= m + 1
      BY <1>1, <2>3, OneOfIsThere DEF Small
    <3>2. Cardinality(s \ {OneOf(s)}) = Cardinality(s) - 1
      BY <3>1, FS_RemoveElement
    <3> QED
      BY <3>1, <3>2 DEF Small
  <2>4. ASSUME NEW s \in Small(S, m + 1) PROVE SumStep(f, g, s) = SumStep(f, h, s)
    BY <2>2, <2>3, <2>4 DEF SumStep
  <2>5. h = [s \in Small(S, m + 1) |-> SumStep(f, h, s)]
    BY <2>4
  <2> QED
    BY <2>5
<1> HIDE DEF Summed
<1>4. T = {}
  <2> SUFFICES ASSUME T # {} PROVE FALSE
    OBVIOUS
  <2>1. PICK m \in T : \A k \in T : ~(<<k, m>> \in OpToRel(<, Nat))
    BY NatLessThanWellFounded, WFMin
  <2>2. m \in Nat \ {0}
    BY <1>2, <2>1
  <2>3. m - 1 \in Nat /\ <<m - 1, m>> \in OpToRel(<, Nat)
    BY <2>2 DEF OpToRel
  <2>4. Summed(m - 1)
    BY <2>1, <2>3
  <2> QED
    <3>1. Summed((m - 1) + 1)
      BY <1>3, <2>3, <2>4
    <3>2. (m - 1) + 1 = m
      BY <2>2
    <3> QED
      BY <2>1, <3>1, <3>2
<1> QED
  BY <1>4 DEF Summed

LEMMA SumsAreTaken ==
  ASSUME NEW f, IsFiniteSet(DOMAIN f), NEW s \in SUBSET DOMAIN f
  PROVE  Sums(f)[s] = SumStep(f, Sums(f), s)
<1>1. PICK n \in Nat : n = Cardinality(DOMAIN f)
  BY FS_CardinalityType
<1>2. Small(DOMAIN f, n) = SUBSET DOMAIN f
  BY <1>1, FS_Subset DEF Small
<1>3. \E g : g = [t \in SUBSET DOMAIN f |-> SumStep(f, g, t)]
  <2>1. \E g : g = [t \in Small(DOMAIN f, n) |-> SumStep(f, g, t)]
    BY SmallSums
  <2> QED
    BY <1>2, <2>1
<1>4. Sums(f) = [t \in SUBSET DOMAIN f |-> SumStep(f, Sums(f), t)]
  BY <1>3 DEF Sums
<1> QED
  BY <1>4

(* A sum of numbers is a number, and no less than each of them.            *)
LEMMA CountBounds ==
  ASSUME NEW S, IsFiniteSet(S), NEW f \in [S -> Nat]
  PROVE  Count(f) \in Nat /\ \A x \in S : f[x] <= Count(f)
<1> DEFINE Bounds(s) == Sums(f)[s] \in Nat /\ \A x \in s : f[x] <= Sums(f)[s]
           T == {m \in Nat : \E s \in SUBSET S : Cardinality(s) = m /\ ~Bounds(s)}
<1>1. DOMAIN f = S
  OBVIOUS
<1>2. \A s \in SUBSET S : IsFiniteSet(s) /\ Cardinality(s) \in Nat
  BY FS_Subset, FS_CardinalityType
<1>3. T = {}
  <2> SUFFICES ASSUME T # {} PROVE FALSE
    OBVIOUS
  <2>1. PICK m \in T : \A k \in T : ~(<<k, m>> \in OpToRel(<, Nat))
    BY NatLessThanWellFounded, WFMin
  <2>2. PICK s \in SUBSET S : Cardinality(s) = m /\ ~Bounds(s)
    BY <2>1
  <2>3. Sums(f)[s] = SumStep(f, Sums(f), s)
    BY <1>1, SumsAreTaken
  <2>4. s # {}
    BY <2>2, <2>3 DEF SumStep
  <2> DEFINE x == OneOf(s)
             rest == s \ {x}
  <2>5. x \in s /\ IsFiniteSet(s) /\ Cardinality(s) \in Nat
    BY <1>2, <2>4, OneOfIsThere
  <2>6. Cardinality(rest) = m - 1 /\ Cardinality(rest) \in Nat /\ rest \in SUBSET S
    BY <1>2, <2>2, <2>5, FS_RemoveElement
  <2>7. <<m - 1, m>> \in OpToRel(<, Nat)
    BY <2>2, <2>5, <2>6 DEF OpToRel
  <2>8. Bounds(rest)
    BY <2>1, <2>6, <2>7
  <2>9. Sums(f)[s] = f[x] + Sums(f)[rest]
    BY <2>3, <2>4 DEF SumStep
  <2> QED
    BY <2>2, <2>5, <2>8, <2>9
<1>4. Bounds(S)
  BY <1>2, <1>3
<1> QED
  BY <1>1, <1>4, CountIsSum

(***************************************************************************)
(* The bounds of the queue.  A job is in the hands of no more processes    *)
(* than there are, and a retry that has read a row may still add one to    *)
(* its retries.                                                            *)
(***************************************************************************)
DebouncerTyped ==
  /\ pending \in 0..FlushAt
  /\ timers = IF pending = 0 THEN {} ELSE {"quiet", "maxWait"}
  /\ cooling \in BOOLEAN

HandsBounded ==
  /\ selecting \in [QueueId -> Nat] /\ calling \in [QueueId -> Nat]
  /\ \A j \in QueueId : selecting[j] + calling[j] <= Workers

BoundedRow ==
  [status: {"NONE", "queued", "running", "succeeded", "failed", "canceled"},
   watching: BOOLEAN, retries: 0..MostRetries]

RetriesBounded ==
  /\ queue \in [QueueId -> BoundedRow] /\ retrying \in [QueueId -> 0..Retriers]
  /\ \A j \in QueueId : queue[j].retries + retrying[j] <= MostRetries

WatchBounds == DebouncerTyped /\ HandsBounded /\ RetriesBounded

LEMMA CountsFinite ==
  ASSUME NEW f \in [QueueId -> Nat]
  PROVE  Count(f) \in Nat /\ \A j \in QueueId : f[j] <= Count(f)
<1>1. IsFiniteSet(QueueId)
  BY WatchAssumption, FS_Interval DEF QueueId
<1> QED
  BY <1>1, CountBounds

LEMMA DebouncerKeeps ==
  ASSUME DebouncerTyped, [WatchNext]_watchVars
  PROVE  DebouncerTyped'
<1>1. FlushAt \in Nat \ {0}
  BY WatchAssumption
<1>2. ASSUME NEW files \in 1..FlushAt, FileChanges(files) PROVE DebouncerTyped'
  <2>1. CASE files >= FlushAt
    BY <1>1, <1>2, <2>1 DEF FileChanges, Flushed, DebouncerTyped
  <2>2. CASE ~(files >= FlushAt)
    <3>1. /\ pending' = files /\ UNCHANGED cooling
          /\ timers' = timers \cup {"quiet"} \cup IF pending = 0 THEN {"maxWait"} ELSE {}
      BY <1>2, <2>2 DEF FileChanges
    <3>2. files # 0 /\ files \in 0..FlushAt
      BY <1>1
    <3>3. timers' = {"quiet", "maxWait"}
      BY <3>1 DEF DebouncerTyped
    <3> QED
      BY <3>1, <3>2, <3>3 DEF DebouncerTyped
  <2> QED
    BY <2>1, <2>2
<1>3. CASE (\E timer \in {"quiet", "maxWait"} : TimerFires(timer))
           \/ \E killed \in BOOLEAN : WatcherStops(killed)
  <2>1. pending' = 0 /\ timers' = {} /\ cooling' \in BOOLEAN
    BY <1>3 DEF TimerFires, WatcherStops, Flushed
  <2> QED
    BY <1>1, <2>1 DEF DebouncerTyped
<1>4. CASE CooldownEnds
  BY <1>4 DEF CooldownEnds, DebouncerTyped
<1>5. CASE UNCHANGED debounced
  BY <1>5 DEF debounced, DebouncerTyped
<1>6. ASSUME NEW j \in QueueId,
             \/ ClaimsJob(j) \/ JobberDies(j) \/ CancelsJob(j) \/ RetryReads(j) \/ RetryWrites(j)
             \/ \E outcome \in {"succeeded", "failed"} : SettlesJob(j, outcome)
      PROVE  UNCHANGED debounced
  BY <1>6 DEF ClaimsJob, JobberDies, CancelsJob, RetryReads, RetryWrites, SettlesJob
<1>7. JobEnqueued \/ SelectsJob \/ UNCHANGED watchVars => UNCHANGED debounced
  BY DEF JobEnqueued, SelectsJob, watchVars, debounced
<1> QED
  BY <1>2, <1>3, <1>4, <1>5, <1>6, <1>7 DEF WatchNext

(* One hand more, if some process is free; or one hand less.               *)
LEMMA HandsKeep ==
  ASSUME HandsBounded, [WatchNext]_watchVars
  PROVE  HandsBounded'
<1>1. Workers \in Nat /\ \A j \in QueueId : selecting[j] \in Nat /\ calling[j] \in Nat
  BY WatchAssumption DEF HandsBounded
<1>2. CASE SelectsJob
  <2> DEFINE j == Oldest(HasStatus({"queued"}))
  <2>1. j \in QueueId
    BY <1>2, OldestIsThere DEF SelectsJob, HasStatus
  <2>2. /\ selecting' = [selecting EXCEPT ![j] = @ + 1] /\ calling' = calling
        /\ Count(selecting) + Count(calling) < Workers
    BY <1>2 DEF SelectsJob, OneMore
  <2> HIDE DEF j
  <2>3. /\ Count(selecting) \in Nat /\ selecting[j] <= Count(selecting)
        /\ Count(calling) \in Nat /\ calling[j] <= Count(calling)
    BY <2>1, CountsFinite DEF HandsBounded
  <2>4. selecting[j] + calling[j] < Workers
    BY <1>1, <2>1, <2>2, <2>3
  <2> QED
    BY <1>1, <2>1, <2>2, <2>4 DEF HandsBounded
<1>3. ASSUME NEW j \in QueueId, ClaimsJob(j) PROVE HandsBounded'
  <2>1. /\ selecting[j] > 0 /\ selecting' = [selecting EXCEPT ![j] = @ - 1]
        /\ calling' = [calling EXCEPT ![j] = @ + 1] \/ calling' = calling
    BY <1>3 DEF ClaimsJob, OneLess, OneMore
  <2> QED
    BY <1>1, <2>1 DEF HandsBounded
<1>4. ASSUME NEW j \in QueueId,
             JobberDies(j) \/ \E outcome \in {"succeeded", "failed"} : SettlesJob(j, outcome)
      PROVE  HandsBounded'
  <2>1. \/ /\ selecting[j] > 0 /\ selecting' = [selecting EXCEPT ![j] = @ - 1]
           /\ calling' = calling
        \/ /\ calling[j] > 0 /\ calling' = [calling EXCEPT ![j] = @ - 1]
           /\ selecting' = selecting
    BY <1>4 DEF JobberDies, SettlesJob, OneLess
  <2> QED
    BY <1>1, <2>1 DEF HandsBounded
<1>5. CASE UNCHANGED <<selecting, calling>>
  BY <1>5 DEF HandsBounded
<1> QED
  BY <1>2, <1>3, <1>4, <1>5
     DEF WatchNext, watchVars, worked, JobEnqueued, CancelsJob, RetryReads, RetryWrites, FileChanges,
         TimerFires, WatcherStops, CooldownEnds

LEMMA BoundedRowWritten ==
  ASSUME RetriesBounded, NEW j \in QueueId, NEW written \in BoundedRow,
         queue' = [queue EXCEPT ![j] = written], retrying' \in [QueueId -> 0..Retriers],
         \A i \in QueueId \ {j} : retrying'[i] = retrying[i],
         written.retries + retrying'[j] <= MostRetries
  PROVE  RetriesBounded'
BY DEF RetriesBounded

LEMMA RetriesKeep ==
  ASSUME RetriesBounded, [WatchNext]_watchVars
  PROVE  RetriesBounded'
<1>1. Retriers \in Nat /\ MaxRetries \in Nat /\ MostRetries = MaxRetries + Retriers /\ MostRetries \in Nat
  BY WatchAssumption DEF MostRetries
<1>2. ASSUME NEW j \in QueueId
      PROVE  /\ queue[j] \in BoundedRow /\ queue[j].retries \in Nat /\ retrying[j] \in 0..Retriers
             /\ queue[j].retries + retrying[j] <= MostRetries
  BY <1>1, <1>2 DEF RetriesBounded, BoundedRow
<1>3. ASSUME UNCHANGED <<queue, retrying>> PROVE RetriesBounded'
  BY <1>3 DEF RetriesBounded
<1>4. ASSUME NEW watching \in BOOLEAN, Enqueued(watching), UNCHANGED retrying PROVE RetriesBounded'
  <2> DEFINE j == Oldest(HasStatus({"NONE"}))
             written == [status |-> "queued", watching |-> watching, retries |-> 0]
  <2>1. j \in QueueId
    BY <1>4, OldestIsThere DEF Enqueued, HasStatus
  <2>2. written \in BoundedRow /\ written.retries = 0
    BY <1>1 DEF BoundedRow
  <2>3. queue' = [queue EXCEPT ![j] = written]
    BY <1>4 DEF Enqueued
  <2> HIDE DEF j, written
  <2>4. written.retries + retrying'[j] <= MostRetries
    BY <1>1, <1>2, <1>4, <2>1, <2>2
  <2> QED
    BY <1>4, <2>1, <2>2, <2>3, <2>4, BoundedRowWritten DEF RetriesBounded
<1>5. ASSUME BatchReviewed, UNCHANGED retrying PROVE RetriesBounded'
  BY <1>3, <1>4, <1>5 DEF BatchReviewed
<1>6. CASE \/ JobEnqueued \/ (\E files \in 1..FlushAt : FileChanges(files))
           \/ (\E timer \in {"quiet", "maxWait"} : TimerFires(timer))
           \/ \E killed \in BOOLEAN : WatcherStops(killed)
  BY <1>3, <1>4, <1>5, <1>6 DEF JobEnqueued, FileChanges, TimerFires, WatcherStops, Flushed
<1>7. ASSUME NEW j \in QueueId, NEW status \in {"running", "succeeded", "failed", "canceled"},
             queue' = [queue EXCEPT ![j].status = status], UNCHANGED retrying
      PROVE  RetriesBounded'
  <2> DEFINE written == [queue[j] EXCEPT !.status = status]
  <2>1. written \in BoundedRow /\ written.retries = queue[j].retries
    BY <1>2 DEF BoundedRow
  <2>2. queue' = [queue EXCEPT ![j] = written]
    BY <1>7
  <2> HIDE DEF written
  <2>3. written.retries + retrying'[j] <= MostRetries
    BY <1>2, <1>7, <2>1
  <2> QED
    BY <1>7, <2>1, <2>2, <2>3, BoundedRowWritten DEF RetriesBounded
<1>8. ASSUME NEW j \in QueueId, \/ ClaimsJob(j) \/ CancelsJob(j) \/ JobberDies(j)
                                \/ \E outcome \in {"succeeded", "failed"} : SettlesJob(j, outcome)
      PROVE  RetriesBounded'
  <2>1. UNCHANGED retrying
    BY <1>8 DEF ClaimsJob, CancelsJob, JobberDies, SettlesJob
  <2>2. \/ UNCHANGED queue
        \/ \E status \in {"running", "succeeded", "failed", "canceled"} :
             queue' = [queue EXCEPT ![j].status = status]
    BY <1>8 DEF ClaimsJob, CancelsJob, JobberDies, SettlesJob
  <2> QED
    BY <1>3, <1>7, <2>1, <2>2
<1>9. ASSUME NEW j \in QueueId, RetryReads(j) PROVE RetriesBounded'
  <2>1. /\ Count(retrying) < Retriers /\ queue[j].retries < MaxRetries
        /\ retrying' = [retrying EXCEPT ![j] = @ + 1] /\ UNCHANGED queue
    BY <1>9 DEF RetryReads, OneMore
  <2>2. retrying \in [QueueId -> Nat]
    BY <1>1 DEF RetriesBounded
  <2>3. retrying[j] < Retriers
    BY <1>1, <1>2, <2>1, <2>2, CountsFinite
  <2>4. retrying[j] + 1 \in 0..Retriers /\ queue[j].retries + (retrying[j] + 1) <= MostRetries
    BY <1>1, <1>2, <2>1, <2>3
  <2> QED
    BY <2>1, <2>4 DEF RetriesBounded
<1>10. ASSUME NEW j \in QueueId, RetryWrites(j) PROVE RetriesBounded'
  <2> DEFINE next == queue[j].retries + 1
             written == [queue[j] EXCEPT !.status = "queued", !.retries = next]
  <2>1. /\ retrying[j] > 0 /\ retrying' = [retrying EXCEPT ![j] = @ - 1]
        /\ queue' = [queue EXCEPT ![j] = written]
    BY <1>10 DEF RetryWrites, OneLess
  <2>2. next \in 0..MostRetries /\ next + (retrying[j] - 1) <= MostRetries
        /\ retrying[j] - 1 \in 0..Retriers
    BY <1>1, <1>2, <2>1
  <2> HIDE DEF next
  <2>3. written \in BoundedRow /\ written.retries = next
    BY <1>2, <2>2 DEF BoundedRow
  <2>4. /\ retrying' \in [QueueId -> 0..Retriers] /\ retrying'[j] = retrying[j] - 1
        /\ \A i \in QueueId \ {j} : retrying'[i] = retrying[i]
    BY <2>1, <2>2 DEF RetriesBounded
  <2> HIDE DEF written
  <2>5. written.retries + retrying'[j] <= MostRetries
    BY <2>2, <2>3, <2>4
  <2> QED
    BY <2>1, <2>3, <2>4, <2>5, BoundedRowWritten
<1>11. CASE CooldownEnds \/ SelectsJob \/ UNCHANGED watchVars
  BY <1>3, <1>11 DEF CooldownEnds, SelectsJob, watchVars
<1> QED
  BY <1>6, <1>8, <1>9, <1>10, <1>11 DEF WatchNext

(* Each bound of the watcher, its queue and its workers holds.             *)
THEOREM WatchTyped == WatchSpec => []WatchTypeOK
<1>1. WatchInit => WatchInv
  BY DEF WatchInit, WatchInv, QueueTyped, ClaimsExplained, JobRow, Nobody
<1>2. WatchInit => WatchBounds
  <2> SUFFICES ASSUME WatchInit PROVE WatchBounds
    OBVIOUS
  <2>1. FlushAt \in Nat /\ Workers \in Nat /\ Retriers \in Nat /\ MostRetries \in Nat
    BY WatchAssumption DEF MostRetries
  <2>2. DebouncerTyped
    <3>1. pending = 0 /\ timers = {} /\ cooling = FALSE
      BY DEF WatchInit
    <3>2. 0 \in 0..FlushAt
      BY <2>1
    <3> QED
      BY <3>1, <3>2 DEF DebouncerTyped
  <2>3. HandsBounded
    BY <2>1 DEF WatchInit, HandsBounded, Nobody
  <2>4. RetriesBounded
    BY <2>1 DEF WatchInit, RetriesBounded, BoundedRow, Nobody
  <2> QED
    BY <2>2, <2>3, <2>4 DEF WatchBounds
<1>3. WatchInv /\ WatchBounds /\ [WatchNext]_watchVars => WatchInv' /\ WatchBounds'
  BY WatchStep, DebouncerKeeps, HandsKeep, RetriesKeep DEF WatchBounds
<1>4. WatchInv /\ WatchBounds => WatchTypeOK
  BY WatchAssumption
  DEF WatchInv, QueueTyped, WatchBounds, DebouncerTyped, HandsBounded, RetriesBounded, BoundedRow,
      WatchTypeOK
<1> QED
  BY <1>1, <1>2, <1>3, <1>4, PTL DEF WatchSpec

(***************************************************************************)
(* Builds.  Each event counts one more of its kind, and what a command has *)
(* read was explained by the log when it read it.                          *)
(***************************************************************************)
CountedByLog ==
  /\ build.seq <= LastEvent
  /\ \A k \in Counted : happened.kinds[k] <= build.seq

Explained(read) ==
  /\ read.version <= happened.kinds["plan_approved"]
  /\ read.cycles <= happened.kinds["review_verdict"]
  /\ read.loop <= happened.kinds["fix_completed"]

ReadsExplained ==
  \A p \in Builder :
    builder[p].pc # "IDLE" =>
      /\ Explained(builder[p])
      /\ builder[p].pc = "SETTLE" /\ builder[p].verdict = "approved" => happened.approved

BuildInv == BuildTypeOK /\ LogExplainsBuild /\ CountedByLog /\ ReadsExplained

(* The log after one more event.                                           *)
LEMMA LogGrows ==
  ASSUME BuildInv, NEW fields, NEW event \in Counted, NEW approved \in BOOLEAN,
         Writes(fields, event, approved)
  PROVE  /\ happened' \in [kinds: [Counted -> Counter], approved: BOOLEAN]
         /\ happened'.kinds[event] = happened.kinds[event] + 1
         /\ \A k \in Counted \ {event} : happened'.kinds[k] = happened.kinds[k]
         /\ \A k \in Counted : happened.kinds[k] <= happened'.kinds[k]
         /\ happened.approved \/ approved <=> happened'.approved
         /\ \A k \in Counted : happened'.kinds[k] <= build.seq + 1
         /\ build.seq + 1 \in Counter /\ build.seq + 1 <= LastEvent
<1>1. /\ build.seq \in Nat /\ build.seq < LastEvent /\ LastEvent \in Nat
      /\ happened.kinds \in [Counted -> Counter] /\ happened.approved \in BOOLEAN
      /\ \A k \in Counted : happened.kinds[k] \in Nat /\ happened.kinds[k] <= build.seq
  BY BuildAssumption DEF Writes, BuildInv, BuildTypeOK, CountedByLog, Counter
<1> DEFINE kinds == [happened.kinds EXCEPT ![event] = @ + 1]
<1>2. kinds \in [Counted -> Counter] /\ kinds[event] = happened.kinds[event] + 1
      /\ \A k \in Counted \ {event} : kinds[k] = happened.kinds[k]
  BY <1>1 DEF Counter
<1>3. happened' = [kinds |-> kinds, approved |-> happened.approved \/ approved]
  BY DEF Writes
<1> HIDE DEF kinds
<1>4. happened'.kinds = kinds /\ happened'.approved = (happened.approved \/ approved)
  BY <1>3
<1>5. happened' \in [kinds: [Counted -> Counter], approved: BOOLEAN]
  BY <1>1, <1>2, <1>3
<1>6. build.seq + 1 \in Counter /\ build.seq + 1 <= LastEvent
  BY <1>1 DEF Counter
<1>7. \A k \in Counted : happened.kinds[k] <= kinds[k] /\ kinds[k] <= build.seq + 1
  BY <1>1, <1>2
<1> QED
  BY <1>2, <1>4, <1>5, <1>6, <1>7

BuildRow ==
  [status: {"planning", "implementing", "reviewing", "fixing", "completed"},
   phase: {"debate", "plan_approved", "review", "fix", "done"},
   version: Counter, cycles: Counter, loop: Counter, seq: Counter]

BuildCommand ==
  [pc: {"IDLE", "EVENT", "CALL", "RECORD", "SETTLE"}, event: Counted, verdict: BuildVerdict,
   version: Counter, cycles: Counter, loop: Counter]

LEMMA CommandTyped ==
  ASSUME BuildInv
  PROVE  /\ build \in BuildRow /\ \A p \in Builder : builder[p] \in BuildCommand
         /\ NoCommand \in BuildCommand /\ NoCommand.pc = "IDLE"
BY BuildAssumption DEF BuildInv, BuildTypeOK, BuildRow, BuildCommand, NoCommand, Counter, Counted,
   BuildVerdict

(* The row and an event are written, by a command that then rests or goes  *)
(* on to settle what it has recorded.                                      *)
LEMMA WriteKeeps ==
  ASSUME BuildInv, NEW p \in Builder, builder[p].pc # "IDLE",
         NEW fields \in BuildRow, NEW event \in Counted, NEW approved \in BOOLEAN,
         Writes(fields, event, approved),
         fields.status = "completed" <=> fields.phase = "done",
         fields.phase = "done" => happened'.approved,
         fields.version <= happened'.kinds["plan_approved"],
         fields.cycles <= happened'.kinds["review_verdict"],
         fields.loop <= happened'.kinds["fix_completed"],
         NEW pc \in {"IDLE", "SETTLE"},
         pc = "SETTLE" /\ builder[p].verdict = "approved" => approved,
         builder' = [builder EXCEPT ![p] = IF pc = "IDLE" THEN NoCommand ELSE [@ EXCEPT !.pc = pc]]
  PROVE  BuildInv'
<1>1. /\ happened' \in [kinds: [Counted -> Counter], approved: BOOLEAN]
      /\ \A k \in Counted : happened.kinds[k] <= happened'.kinds[k]
      /\ \A k \in Counted : happened'.kinds[k] <= build.seq + 1
      /\ happened.approved => happened'.approved
      /\ approved => happened'.approved
      /\ build.seq + 1 \in Counter /\ build.seq + 1 <= LastEvent
  BY LogGrows
<1>2. /\ build' = [fields EXCEPT !.seq = build.seq + 1] /\ build' \in BuildRow
      /\ build'.status = fields.status /\ build'.phase = fields.phase
      /\ build'.version = fields.version /\ build'.cycles = fields.cycles
      /\ build'.loop = fields.loop /\ build'.seq = build.seq + 1
  <2> DEFINE next == build.seq + 1
  <2>1. build' = [fields EXCEPT !.seq = next] /\ next \in Counter
    BY <1>1 DEF Writes
  <2> HIDE DEF next
  <2>2. /\ build' \in BuildRow
        /\ build'.status = fields.status /\ build'.phase = fields.phase
        /\ build'.version = fields.version /\ build'.cycles = fields.cycles
        /\ build'.loop = fields.loop /\ build'.seq = next
    BY <2>1 DEF BuildRow
  <2> QED
    BY <2>1, <2>2 DEF next
<1>3. /\ builder' \in [Builder -> BuildCommand]
      /\ \A q \in Builder \ {p} : builder'[q] = builder[q]
      /\ builder'[p].pc = pc
      /\ pc # "IDLE" => /\ builder'[p].verdict = builder[p].verdict
                        /\ builder'[p].version = builder[p].version
                        /\ builder'[p].cycles = builder[p].cycles
                        /\ builder'[p].loop = builder[p].loop
  <2>1. builder \in [Builder -> BuildCommand]
    BY DEF BuildInv, BuildTypeOK, BuildCommand
  <2>2. CASE pc = "IDLE"
    BY <2>1, <2>2, CommandTyped
  <2>3. CASE pc = "SETTLE"
    BY <2>1, <2>3, CommandTyped DEF BuildCommand
  <2> QED
    BY <2>2, <2>3
<1>4. BuildTypeOK'
  BY <1>1, <1>2, <1>3 DEF BuildTypeOK, BuildRow, BuildCommand
<1>5. LogExplainsBuild'
  BY <1>2 DEF LogExplainsBuild
<1>6. CountedByLog'
  BY <1>1, <1>2 DEF CountedByLog
<1>7. ASSUME NEW q \in Builder, builder[q].pc # "IDLE"
      PROVE  /\ builder[q].version <= happened'.kinds["plan_approved"]
             /\ builder[q].cycles <= happened'.kinds["review_verdict"]
             /\ builder[q].loop <= happened'.kinds["fix_completed"]
  <2>1. /\ {"plan_approved", "review_verdict", "fix_completed"} \subseteq Counted
        /\ \A k \in Counted : happened.kinds[k] \in Nat /\ happened'.kinds[k] \in Nat
        /\ builder[q].version \in Nat /\ builder[q].cycles \in Nat /\ builder[q].loop \in Nat
    BY <1>1, CommandTyped DEF BuildInv, BuildTypeOK, Counted, Counter, BuildCommand
  <2>2. Explained(builder[q])
    BY <1>7 DEF BuildInv, ReadsExplained
  <2> QED
    BY <1>1, <2>1, <2>2 DEF Explained
<1>8. ReadsExplained'
  <2> SUFFICES ASSUME NEW q \in Builder, builder'[q].pc # "IDLE"
               PROVE  /\ Explained(builder[q])'
                      /\ builder'[q].pc = "SETTLE" /\ builder'[q].verdict = "approved" =>
                           happened'.approved
    BY DEF ReadsExplained
  <2>1. CASE q = p
    BY <1>1, <1>3, <1>7, <2>1 DEF Explained
  <2>2. CASE q # p
    BY <1>1, <1>3, <1>7, <2>2 DEF Explained, BuildInv, ReadsExplained
  <2> QED
    BY <2>1, <2>2
<1> QED
  BY <1>4, <1>5, <1>6, <1>8 DEF BuildInv

(* Nothing is written.                                                     *)
LEMMA CommandKeeps ==
  ASSUME BuildInv, NEW p \in Builder, UNCHANGED <<build, happened>>,
         NEW command \in BuildCommand, builder' = [builder EXCEPT ![p] = command],
         command.pc # "IDLE" => Explained(command), command.pc # "SETTLE"
  PROVE  BuildInv'
<1>1. /\ builder' \in [Builder -> BuildCommand] /\ builder'[p] = command
      /\ \A q \in Builder \ {p} : builder'[q] = builder[q]
  BY DEF BuildInv, BuildTypeOK, BuildCommand
<1>2. BuildTypeOK'
  BY <1>1 DEF BuildInv, BuildTypeOK, BuildCommand
<1>3. LogExplainsBuild' /\ CountedByLog'
  BY DEF BuildInv, LogExplainsBuild, CountedByLog
<1>4. ReadsExplained'
  BY <1>1 DEF BuildInv, ReadsExplained, Explained
<1> QED
  BY <1>2, <1>3, <1>4 DEF BuildInv

LEMMA CommandReads ==
  ASSUME BuildInv, NEW p \in Builder,
         \/ BuilderDies(p) \/ ReviewBegins(p)
         \/ (\E event \in Counted, verdict \in BuildVerdict : EventBegins(p, event, verdict))
         \/ (\E verdict \in BuildVerdict : ReviewAnswered(p, verdict))
  PROVE  BuildInv'
<1>1. CASE BuilderDies(p)
  BY <1>1, CommandTyped, CommandKeeps DEF BuilderDies, Resting
<1>2. ASSUME NEW pc \in {"EVENT", "CALL"}, NEW event \in Counted, NEW verdict \in BuildVerdict,
             ReadsBuild(p, pc, event, verdict)
      PROVE  BuildInv'
  <2> DEFINE command == [pc |-> pc, event |-> event, verdict |-> verdict,
                         version |-> build.version, cycles |-> build.cycles, loop |-> build.loop]
  <2>1. command \in BuildCommand /\ command.pc = pc
    BY CommandTyped DEF BuildCommand, BuildRow
  <2>2. Explained(command)
    BY DEF BuildInv, LogExplainsBuild, Explained
  <2>3. builder' = [builder EXCEPT ![p] = command] /\ UNCHANGED <<build, happened>>
    BY <1>2 DEF ReadsBuild
  <2> HIDE DEF command
  <2> QED
    BY <2>1, <2>2, <2>3, CommandKeeps
<1>3. ASSUME NEW verdict \in BuildVerdict, ReviewAnswered(p, verdict) PROVE BuildInv'
  <2> DEFINE command == [builder[p] EXCEPT !.pc = "RECORD", !.verdict = verdict]
  <2>1. /\ command \in BuildCommand /\ command.pc = "RECORD" /\ command.version = builder[p].version
        /\ command.cycles = builder[p].cycles /\ command.loop = builder[p].loop
    BY CommandTyped DEF BuildCommand
  <2>2. Explained(command)
    BY <1>3, <2>1 DEF ReviewAnswered, BuilderAt, BuildInv, ReadsExplained, Explained
  <2>3. builder' = [builder EXCEPT ![p] = command] /\ UNCHANGED <<build, happened>>
    BY <1>3 DEF ReviewAnswered
  <2> HIDE DEF command
  <2> QED
    BY <2>1, <2>2, <2>3, CommandKeeps
<1>4. "review_verdict" \in Counted /\ "none" \in BuildVerdict
  BY DEF Counted, BuildVerdict
<1> QED
  BY <1>1, <1>2, <1>3, <1>4 DEF ReviewBegins, EventBegins

(* What the log says of the row and of a command before and after an event.*)
LEMMA LogCounts ==
  ASSUME BuildInv, NEW p \in Builder, builder[p].pc # "IDLE",
         NEW fields, NEW event \in Counted, NEW approved \in BOOLEAN,
         Writes(fields, event, approved)
  PROVE  /\ build.version <= happened'.kinds["plan_approved"]
         /\ build.cycles <= happened'.kinds["review_verdict"]
         /\ build.loop <= happened'.kinds["fix_completed"]
         /\ event = "plan_approved" => /\ builder[p].version + 1 \in Counter
                                       /\ builder[p].version + 1 <= happened'.kinds["plan_approved"]
         /\ event = "review_verdict" => /\ builder[p].cycles + 1 \in Counter
                                        /\ builder[p].cycles + 1 <= happened'.kinds["review_verdict"]
         /\ event = "fix_completed" => /\ builder[p].loop + 1 \in Counter
                                       /\ builder[p].loop + 1 <= happened'.kinds["fix_completed"]
<1>1. /\ happened'.kinds[event] = happened.kinds[event] + 1
      /\ \A k \in Counted : happened.kinds[k] <= happened'.kinds[k]
      /\ \A k \in Counted : happened'.kinds[k] <= build.seq + 1
      /\ build.seq + 1 <= LastEvent
      /\ \A k \in Counted : happened.kinds[k] \in Nat /\ happened'.kinds[k] \in Nat
  BY LogGrows DEF BuildInv, BuildTypeOK, Counter
<1>2. /\ {"plan_approved", "review_verdict", "fix_completed"} \subseteq Counted
      /\ LastEvent \in Nat
      /\ build.version \in Nat /\ build.cycles \in Nat /\ build.loop \in Nat /\ build.seq \in Nat
      /\ builder[p].version \in Nat /\ builder[p].cycles \in Nat /\ builder[p].loop \in Nat
  BY CommandTyped, BuildAssumption DEF BuildRow, BuildCommand, Counter, Counted
<1>3. Explained(builder[p]) /\ LogExplainsBuild
  BY DEF BuildInv, ReadsExplained
<1> QED
  BY <1>1, <1>2, <1>3 DEF Explained, LogExplainsBuild, Counter

LEMMA EventKeeps ==
  ASSUME BuildInv, NEW p \in Builder, EventWritten(p)
  PROVE  BuildInv'
<1> DEFINE read == builder[p]
           fields == AfterEvent(read)
           approved == read.verdict = "approved"
<1>1. /\ read \in BuildCommand /\ build \in BuildRow /\ read.event \in Counted
      /\ approved \in BOOLEAN /\ read.pc = "EVENT" /\ Writes(fields, read.event, approved)
  BY CommandTyped DEF EventWritten, BuilderAt, BuildCommand
<1>2. /\ happened.approved => happened'.approved
      /\ approved => happened'.approved
  BY <1>1, LogGrows
<1>3. /\ build.version <= happened'.kinds["plan_approved"]
      /\ build.cycles <= happened'.kinds["review_verdict"]
      /\ build.loop <= happened'.kinds["fix_completed"]
      /\ read.event = "plan_approved" => /\ read.version + 1 \in Counter
                                         /\ read.version + 1 <= happened'.kinds["plan_approved"]
      /\ read.event = "review_verdict" => /\ read.cycles + 1 \in Counter
                                          /\ read.cycles + 1 <= happened'.kinds["review_verdict"]
      /\ read.event = "fix_completed" => /\ read.loop + 1 \in Counter
                                         /\ read.loop + 1 <= happened'.kinds["fix_completed"]
  BY <1>1, LogCounts
<1>4. /\ fields \in BuildRow
      /\ fields.status = "completed" <=> fields.phase = "done"
      /\ fields.phase = "done" => happened'.approved
      /\ fields.version <= happened'.kinds["plan_approved"]
      /\ fields.cycles <= happened'.kinds["review_verdict"]
      /\ fields.loop <= happened'.kinds["fix_completed"]
  <2>1. LogExplainsBuild
    BY DEF BuildInv
  <2>2. CASE read.event = "plan_approved"
    <3> DEFINE next == read.version + 1
    <3>1. fields = [build EXCEPT !.phase = "plan_approved", !.status = "implementing", !.version = next]
      BY <2>2 DEF AfterEvent
    <3>2. next \in Counter /\ next <= happened'.kinds["plan_approved"]
      BY <1>3, <2>2
    <3> HIDE DEF next, fields
    <3> QED
      BY <1>1, <1>3, <3>1, <3>2 DEF BuildRow
  <2>3. CASE read.event = "impl_completed"
    <3>1. fields = [build EXCEPT !.phase = "review", !.status = "reviewing"]
      BY <2>3 DEF AfterEvent
    <3> HIDE DEF fields
    <3> QED
      BY <1>1, <1>3, <3>1 DEF BuildRow
  <2>4. CASE read.event = "review_verdict" /\ approved
    <3>1. fields = [build EXCEPT !.phase = "done", !.status = "completed"]
      BY <2>4 DEF AfterEvent, VerdictApproves
    <3> HIDE DEF fields
    <3> QED
      BY <1>1, <1>2, <1>3, <2>4, <3>1 DEF BuildRow
  <2>5. CASE read.event = "review_verdict" /\ ~approved
    <3> DEFINE next == read.cycles + 1
    <3>1. fields = [build EXCEPT !.phase = "fix", !.status = "fixing", !.cycles = next]
      BY <2>5 DEF AfterEvent, VerdictApproves
    <3>2. next \in Counter /\ next <= happened'.kinds["review_verdict"]
      BY <1>3, <2>5
    <3> HIDE DEF next, fields
    <3> QED
      BY <1>1, <1>3, <3>1, <3>2 DEF BuildRow
  <2>6. CASE read.event = "fix_completed"
    <3> DEFINE next == read.loop + 1
    <3>1. fields = [build EXCEPT !.phase = "review", !.status = "reviewing", !.loop = next]
      BY <2>6 DEF AfterEvent
    <3>2. next \in Counter /\ next <= happened'.kinds["fix_completed"]
      BY <1>3, <2>6
    <3> HIDE DEF next, fields
    <3> QED
      BY <1>1, <1>3, <3>1, <3>2 DEF BuildRow
  <2>7. CASE read.event = "other"
    <3>1. fields = build
      BY <2>7 DEF AfterEvent
    <3> HIDE DEF fields
    <3> QED
      BY <1>1, <1>2, <1>3, <2>1, <3>1 DEF LogExplainsBuild
  <2> QED
    BY <1>1, <2>2, <2>3, <2>4, <2>5, <2>6, <2>7 DEF Counted
<1>5. builder' = [builder EXCEPT ![p] = NoCommand]
  BY DEF EventWritten, Resting
<1> HIDE DEF fields, approved
<1> QED
  BY <1>1, <1>4, <1>5, WriteKeeps

LEMMA VerdictKeeps ==
  ASSUME BuildInv, NEW p \in Builder, VerdictRecorded(p)
  PROVE  BuildInv'
<1> DEFINE next == builder[p].cycles + 1
           fields == [build EXCEPT !.cycles = next]
           approved == builder[p].verdict = "approved"
<1>1. /\ build \in BuildRow /\ "review_verdict" \in Counted /\ approved \in BOOLEAN
      /\ builder[p].pc # "IDLE" /\ Writes(fields, "review_verdict", approved)
  BY CommandTyped DEF VerdictRecorded, BuilderAt, Counted
<1>2. happened.approved => happened'.approved
  BY <1>1, LogGrows
<1>3. /\ build.version <= happened'.kinds["plan_approved"]
      /\ build.loop <= happened'.kinds["fix_completed"]
      /\ next \in Counter /\ next <= happened'.kinds["review_verdict"]
  BY <1>1, LogCounts
<1>4. /\ fields \in BuildRow
      /\ fields.status = "completed" <=> fields.phase = "done"
      /\ fields.phase = "done" => happened'.approved
      /\ fields.version <= happened'.kinds["plan_approved"]
      /\ fields.cycles <= happened'.kinds["review_verdict"]
      /\ fields.loop <= happened'.kinds["fix_completed"]
  <2>1. LogExplainsBuild
    BY DEF BuildInv
  <2> HIDE DEF next
  <2> QED
    BY <1>1, <1>2, <1>3, <2>1 DEF LogExplainsBuild, BuildRow
<1>5. builder' = [builder EXCEPT ![p] = [@ EXCEPT !.pc = "SETTLE"]]
  BY DEF VerdictRecorded
<1>6. approved => builder[p].verdict = "approved"
  OBVIOUS
<1>7. builder[p].verdict = "approved" => approved
  OBVIOUS
<1> HIDE DEF fields, approved
<1> QED
  BY <1>1, <1>4, <1>5, <1>7, WriteKeeps

LEMMA SettleKeeps ==
  ASSUME BuildInv, NEW p \in Builder, ReviewSettles(p)
  PROVE  BuildInv'
<1> DEFINE fields == IF VerdictApproves(builder[p].verdict)
                       THEN [build EXCEPT !.phase = "done", !.status = "completed"]
                       ELSE [build EXCEPT !.phase = "fix", !.status = "fixing"]
<1>1. /\ build \in BuildRow /\ "other" \in Counted
      /\ builder[p].pc = "SETTLE" /\ Writes(fields, "other", FALSE)
  BY CommandTyped DEF ReviewSettles, BuilderAt, Counted
<1>2. happened.approved => happened'.approved
  BY <1>1, LogGrows
<1>3. /\ build.version <= happened'.kinds["plan_approved"]
      /\ build.cycles <= happened'.kinds["review_verdict"]
      /\ build.loop <= happened'.kinds["fix_completed"]
  BY <1>1, LogCounts
<1>4. VerdictApproves(builder[p].verdict) => happened.approved
  BY <1>1 DEF VerdictApproves, BuildInv, ReadsExplained
<1>5. /\ fields \in BuildRow
      /\ fields.status = "completed" <=> fields.phase = "done"
      /\ fields.phase = "done" => happened'.approved
      /\ fields.version <= happened'.kinds["plan_approved"]
      /\ fields.cycles <= happened'.kinds["review_verdict"]
      /\ fields.loop <= happened'.kinds["fix_completed"]
  BY <1>1, <1>2, <1>3, <1>4 DEF BuildRow
<1>6. builder' = [builder EXCEPT ![p] = NoCommand]
  BY DEF ReviewSettles, Resting
<1> HIDE DEF fields
<1> QED
  BY <1>1, <1>5, <1>6, WriteKeeps

LEMMA BuildInvariance == BuildSpec => []BuildInv
<1>1. BuildInit => BuildInv
  <2> SUFFICES ASSUME BuildInit PROVE BuildInv
    OBVIOUS
  <2>1. 0 \in Counter /\ LastEvent \in Nat /\ 0 <= LastEvent
    BY BuildAssumption DEF Counter
  <2>2. BuildTypeOK
    BY <2>1 DEF BuildInit, BuildTypeOK, NoCommand, Counted, BuildVerdict
  <2>3. LogExplainsBuild /\ CountedByLog /\ ReadsExplained
    BY <2>1 DEF BuildInit, LogExplainsBuild, CountedByLog, ReadsExplained, NoCommand, Counted
  <2> QED
    BY <2>2, <2>3 DEF BuildInv
<1>2. BuildInv /\ [BuildNext]_buildVars => BuildInv'
  <2> SUFFICES ASSUME BuildInv, [BuildNext]_buildVars PROVE BuildInv'
    OBVIOUS
  <2>1. CASE UNCHANGED buildVars
    BY <2>1 DEF buildVars, BuildInv, BuildTypeOK, LogExplainsBuild, CountedByLog, ReadsExplained,
       Explained
  <2> QED
    BY <2>1, CommandReads, EventKeeps, VerdictKeeps, SettleKeeps DEF BuildNext
<1> QED
  BY <1>1, <1>2, PTL DEF BuildSpec

(* The row of a build, its log and its commands keep their types.          *)
THEOREM BuildTyped == BuildSpec => []BuildTypeOK
<1>1. BuildInv => BuildTypeOK
  BY DEF BuildInv
<1> QED
  BY BuildInvariance, <1>1, PTL

(* For any number of commands that write from what they read earlier and   *)
(* die between their transactions (build.ts, build-store.ts): the log      *)
(* explains the row.                                                       *)
THEOREM BuildIsExplained == BuildSpec => []LogExplainsBuild
<1>1. BuildInv => LogExplainsBuild
  BY DEF BuildInv
<1> QED
  BY BuildInvariance, <1>1, PTL

(***************************************************************************)
(* A session.  Its phases are saved one by one; while one is open nothing  *)
(* is delivered yet, and afterwards nothing is generated any more.         *)
(***************************************************************************)
SessionRecord ==
  [command: {"run", "plan"}, phase: Nat, step: {"GENERATE", "REVIEW", "USAGE", "GONE"},
   iteration: Nat, status: {"running", "completed", "failed"}, made: Nat, judged: Nat,
   output: Nat, saved: Nat, logged: Nat, total: Nat]

Phases(command) == Len(SessionPhases[command])

Delivered(s) ==
  s.output = s.judged /\ s.judged = s.made /\ s.saved = Phases(s.command) /\ s.total \in {0, s.logged}

PhaseOpen(s) ==
  s.status = "running" /\ s.total = 0 /\ s.saved + 1 = s.phase /\ s.phase <= Phases(s.command)

SessionHeld(s) ==
  /\ s \in SessionRecord
  /\ s.step \in {"GENERATE", "REVIEW"} => PhaseOpen(s)
  /\ s.step = "USAGE" => s.status = "completed"
  /\ s.status = "completed" => s.step \in {"USAGE", "GONE"} /\ Delivered(s)

LEMMA PhaseCount ==
  /\ Phases("run") = 3 /\ Phases("plan") = 1
  /\ SessionPhases["run"][1] = "PLAN" /\ SessionPhases["run"][2] = "IMPLEMENT"
  /\ SessionPhases["run"][3] = "CODE" /\ SessionPhases["plan"][1] = "PLAN"
BY DEF Phases, SessionPhases

(* The end of a phase: the last one delivers.                              *)
LEMMA PhaseEnded ==
  ASSUME NEW s \in SessionRecord, PhaseOpen(s), NEW output \in Nat,
         s.phase = Phases(s.command) => output = s.judged /\ s.judged = s.made
  PROVE  SessionHeld(PhaseEnds(s, output))
<1>1. PICK saved, kept : saved = s.saved + 1 /\ kept = [s EXCEPT !.output = output, !.saved = saved]
  OBVIOUS
<1>2. saved \in Nat
  BY <1>1 DEF SessionRecord
<1>3. PhaseEnds(s, output) =
        IF s.phase = Phases(s.command)
          THEN [kept EXCEPT !.status = "completed", !.step = "USAGE"]
          ELSE [kept EXCEPT !.phase = @ + 1, !.step = "GENERATE", !.iteration = 1]
  BY <1>1 DEF PhaseEnds, Phases
<1>4. /\ kept \in SessionRecord /\ kept.output = output /\ kept.saved = saved
      /\ kept.phase = s.phase /\ kept.command = s.command /\ kept.status = s.status
      /\ kept.judged = s.judged /\ kept.made = s.made /\ kept.total = s.total
      /\ kept.logged = s.logged
  BY <1>1, <1>2 DEF SessionRecord
<1>5. CASE s.phase = Phases(s.command)
  <2>1. PICK e : e = [kept EXCEPT !.status = "completed", !.step = "USAGE"]
    OBVIOUS
  <2>2. /\ e \in SessionRecord /\ e.status = "completed" /\ e.step = "USAGE"
        /\ e.output = kept.output /\ e.judged = kept.judged /\ e.made = kept.made
        /\ e.saved = kept.saved /\ e.command = kept.command /\ e.total = kept.total
    BY <1>4, <2>1 DEF SessionRecord
  <2>3. Delivered(e)
    BY <1>1, <1>4, <1>5, <2>2 DEF Delivered, PhaseOpen
  <2> QED
    BY <1>3, <1>5, <2>1, <2>2, <2>3 DEF SessionHeld
<1>6. CASE s.phase # Phases(s.command)
  <2>1. PICK next : next = kept.phase + 1
    OBVIOUS
  <2>2. next \in Nat /\ s.phase \in Nat /\ s.saved \in Nat
    BY <1>4, <2>1 DEF SessionRecord
  <2>3. PICK e : e = [kept EXCEPT !.phase = next, !.step = "GENERATE", !.iteration = 1]
    OBVIOUS
  <2>4. /\ e \in SessionRecord /\ e.status = kept.status /\ e.step = "GENERATE"
        /\ e.phase = next /\ e.total = kept.total /\ e.saved = kept.saved
        /\ e.command = kept.command
    BY <1>4, <2>2, <2>3 DEF SessionRecord
  <2>5. Phases(s.command) \in Nat
    BY PhaseCount DEF SessionRecord
  <2>6. PhaseOpen(e)
    BY <1>1, <1>4, <1>6, <2>1, <2>2, <2>4, <2>5 DEF PhaseOpen
  <2> QED
    BY <1>3, <1>6, <2>1, <2>3, <2>4, <2>6, <1>4 DEF SessionHeld, PhaseOpen
<1> QED
  BY <1>5, <1>6

LEMMA SessionStep ==
  ASSUME SessionHeld(work), [SessionNext]_sessionVars
  PROVE  SessionHeld(work')
<1>1. CASE CallFails
  <2>1. work' = [work EXCEPT !.status = "failed", !.step = "GONE"]
    BY <1>1 DEF CallFails
  <2> QED
    BY <2>1 DEF SessionHeld, SessionRecord
<1>2. CASE Generates
  <2>1. PICK made, logged, s :
          /\ made = work.made + 1 /\ logged = work.logged + 1
          /\ s = [work EXCEPT !.made = made, !.logged = logged]
    OBVIOUS
  <2>2. work.step = "GENERATE" /\ PhaseOpen(work) /\ made \in Nat /\ logged \in Nat
    BY <1>2, <2>1 DEF Generates, SessionHeld, SessionRecord
  <2>3. /\ s \in SessionRecord /\ PhaseOpen(s) /\ s.made = made
        /\ s.command = work.command /\ s.phase = work.phase /\ s.status = work.status
    BY <2>1, <2>2 DEF SessionHeld, SessionRecord, PhaseOpen
  <2>4. work' = IF PhaseOf(work) = "IMPLEMENT" THEN PhaseEnds(s, s.made)
                                               ELSE [s EXCEPT !.step = "REVIEW"]
    BY <1>2, <2>1 DEF Generates
  <2>5. CASE PhaseOf(work) = "IMPLEMENT"
    <3>1. s.phase # Phases(s.command)
      BY <2>2, <2>3, <2>5, PhaseCount DEF PhaseOf, SessionRecord, PhaseOpen
    <3> QED
      BY <2>2, <2>3, <2>4, <2>5, <3>1, PhaseEnded
  <2>6. CASE PhaseOf(work) # "IMPLEMENT"
    BY <2>2, <2>3, <2>4, <2>6 DEF SessionHeld, SessionRecord, PhaseOpen
  <2> QED
    BY <2>5, <2>6
<1>3. ASSUME NEW approves \in BOOLEAN, NEW scores \in BOOLEAN, Judges(approves, scores)
      PROVE  SessionHeld(work')
  <2>1. PICK logged, s :
          logged = work.logged + 1 /\ s = [work EXCEPT !.judged = work.made, !.logged = logged]
    OBVIOUS
  <2>2. work.step = "REVIEW" /\ PhaseOpen(work) /\ logged \in Nat
    BY <1>3, <2>1 DEF Judges, SessionHeld, SessionRecord
  <2>3. /\ s \in SessionRecord /\ PhaseOpen(s) /\ s.judged = s.made /\ s.made \in Nat
        /\ s.status = work.status
    BY <2>1, <2>2 DEF SessionHeld, SessionRecord, PhaseOpen
  <2>4. \/ work' = PhaseEnds(s, s.made)
        \/ work' = [s EXCEPT !.step = "GENERATE", !.iteration = @ + 1]
    BY <1>3, <2>1 DEF Judges, LastGenerated
  <2>5. CASE work' = PhaseEnds(s, s.made)
    BY <2>3, <2>5, PhaseEnded
  <2>6. CASE work' = [s EXCEPT !.step = "GENERATE", !.iteration = @ + 1]
    <3>1. PICK n : n = s.iteration + 1
      OBVIOUS
    <3>2. n \in Nat /\ work' = [s EXCEPT !.step = "GENERATE", !.iteration = n]
      BY <2>3, <2>6, <3>1 DEF SessionRecord
    <3> QED
      BY <2>3, <3>2 DEF SessionHeld, SessionRecord, PhaseOpen
  <2> QED
    BY <2>4, <2>5, <2>6
<1>4. CASE AddsUsage
  <2>1. work.step = "USAGE" /\ work' = [work EXCEPT !.total = work.logged, !.step = "GONE"]
    BY <1>4 DEF AddsUsage
  <2> QED
    BY <2>1 DEF SessionHeld, SessionRecord, Delivered
<1>5. CASE SessionDies
  <2>1. work' = [work EXCEPT !.step = "GONE"]
    BY <1>5 DEF SessionDies
  <2> QED
    BY <2>1 DEF SessionHeld, SessionRecord, Delivered
<1>6. CASE UNCHANGED work
  BY <1>6
<1> QED
  BY <1>1, <1>2, <1>3, <1>4, <1>5, <1>6 DEF SessionNext, sessionVars

(***************************************************************************)
(* A debate: the critique is of the proposal of its round.                 *)
(***************************************************************************)
ArgumentHeld ==
  /\ argument.turn \in {"PROPOSE", "CRITIQUE", "SUMMARISE"} => argument.reason = "none"
  /\ argument.turn = "CRITIQUE" => argument.proposed = argument.round
  /\ argument.reason = "converged" =>
       argument.proposed = argument.criticised /\ Converged(argument.stances)

ArgumentRecord ==
  [round: Nat, turn: {"PROPOSE", "CRITIQUE", "SUMMARISE", "OVER"}, proposed: Nat,
   criticised: Nat, summary: Nat, stances: Seq(BOOLEAN),
   reason: {"none", "converged", "max_rounds", "time_budget", "failed"}]

ArgumentInv == argument \in ArgumentRecord /\ ArgumentHeld

LEMMA ArgumentStep ==
  ASSUME ArgumentInv, [ArgumentNext]_argumentVars
  PROVE  ArgumentInv'
<1>1. CASE ArgumentFails
  <2>1. argument' = [argument EXCEPT !.turn = "OVER", !.reason = "failed"]
    BY <1>1 DEF ArgumentFails, ArgumentEnds
  <2> QED
    BY <2>1 DEF ArgumentInv, ArgumentHeld, ArgumentRecord
<1>2. CASE Summarises
  <2>1. PICK n : n = argument.round + 1
    OBVIOUS
  <2>2. n \in Nat /\ argument.turn = "SUMMARISE"
        /\ argument' = [argument EXCEPT !.turn = "PROPOSE", !.round = n, !.summary = argument.round]
    BY <1>2, <2>1 DEF Summarises, ArgumentInv, ArgumentRecord
  <2> QED
    BY <2>2 DEF ArgumentInv, ArgumentHeld, ArgumentRecord
<1>3. ASSUME NEW late \in BOOLEAN, Proposes(late) PROVE ArgumentInv'
  <2>1. PICK a : a = [argument EXCEPT !.proposed = argument.round, !.turn = "CRITIQUE"]
    OBVIOUS
  <2>2. /\ a \in ArgumentRecord /\ a.proposed = a.round /\ a.turn = "CRITIQUE"
        /\ a.reason = "none"
    BY <1>3, <2>1 DEF Proposes, ArgumentInv, ArgumentHeld, ArgumentRecord
  <2>3. argument' = a \/ argument' = [a EXCEPT !.turn = "OVER", !.reason = "time_budget"]
    BY <1>3, <2>1 DEF Proposes, ArgumentEnds
  <2> QED
    BY <2>2, <2>3 DEF ArgumentInv, ArgumentHeld, ArgumentRecord
<1>4. ASSUME NEW late \in BOOLEAN, NEW supports \in BOOLEAN, Criticises(supports, late)
      PROVE  ArgumentInv'
  <2>1. PICK stances, a :
          /\ stances = Append(argument.stances, supports)
          /\ a = [argument EXCEPT !.criticised = argument.round, !.stances = stances]
    OBVIOUS
  <2>2. stances \in Seq(BOOLEAN)
    BY <2>1 DEF ArgumentInv, ArgumentRecord
  <2>3. /\ a \in ArgumentRecord /\ a.proposed = a.criticised /\ a.reason = "none"
        /\ a.stances = stances /\ a.turn = "CRITIQUE"
    BY <1>4, <2>1, <2>2 DEF Criticises, ArgumentInv, ArgumentHeld, ArgumentRecord
  <2>4. PICK reason : reason = StopReason(a, late)
    OBVIOUS
  <2>5. argument' = IF reason # "none" THEN [a EXCEPT !.turn = "OVER", !.reason = reason]
                                       ELSE [a EXCEPT !.turn = "SUMMARISE"]
    BY <1>4, <2>1, <2>4 DEF Criticises, ArgumentEnds
  <2>6. /\ reason \in {"none", "converged", "max_rounds", "time_budget"}
        /\ reason = "converged" => Converged(stances)
    BY <2>3, <2>4 DEF StopReason
  <2> QED
    BY <2>3, <2>5, <2>6 DEF ArgumentInv, ArgumentHeld, ArgumentRecord
<1>5. CASE UNCHANGED argument
  BY <1>5 DEF ArgumentInv, ArgumentHeld
<1> QED
  BY <1>1, <1>2, <1>3, <1>4, <1>5 DEF ArgumentNext, argumentVars

(* What a session delivers is what was judged last, which was made last    *)
(* (executeSession, executeLoop), and a debate that converged did so over  *)
(* its last proposal (DebateEngine.run); for any numbers of rounds.        *)
THEOREM DeliveredIsJudged == SessionsSpec /\ ArgumentsSpec => []DeliversWhatWasJudged
<1>1. SessionInit => SessionHeld(work)
  BY PhaseCount DEF SessionInit, SessionHeld, SessionRecord, PhaseOpen
<1>2. ArgumentInit => ArgumentInv
  BY DEF ArgumentInit, ArgumentInv, ArgumentHeld, ArgumentRecord
<1>3. SessionHeld(work) /\ [SessionNext]_sessionVars => SessionHeld(work)'
  BY SessionStep DEF SessionHeld
<1>4. ArgumentInv /\ [ArgumentNext]_argumentVars => ArgumentInv'
  BY ArgumentStep
<1>5. SessionHeld(work) /\ ArgumentInv => DeliversWhatWasJudged
  BY DEF SessionHeld, Delivered, Phases, ArgumentInv, ArgumentHeld, DeliversWhatWasJudged
<1> QED
  BY <1>1, <1>2, <1>3, <1>4, <1>5, PTL DEF SessionsSpec, ArgumentsSpec

(***************************************************************************)
(* The types of a session.  What the phases before have generated and cost *)
(* at most, and the open one so far.                                       *)
(***************************************************************************)
MadeBefore(phase) == CASE phase = 1 -> 0 [] phase = 2 -> Iterations [] phase = 3 -> Iterations + 1

PaidBefore(phase) ==
  CASE phase = 1 -> 0 [] phase = 2 -> 2 * Iterations [] phase = 3 -> 2 * Iterations + 1

SessionWithin(s) ==
  /\ s.phase \in 1..3 /\ s.iteration \in 1..Iterations /\ s.saved \in 0..3
  /\ s.made \in 0..(1 + 2 * Iterations) /\ s.judged <= s.made /\ s.output <= s.made
  /\ s.logged \in 0..(1 + 4 * Iterations) /\ s.total <= s.logged

SoFar(s) ==
  /\ s.phase = 2 => s.step # "REVIEW" /\ s.iteration = 1
  /\ s.step = "GENERATE" => /\ s.made <= MadeBefore(s.phase) + s.iteration - 1
                            /\ s.logged <= PaidBefore(s.phase) + 2 * s.iteration - 2
  /\ s.step = "REVIEW" => /\ s.made <= MadeBefore(s.phase) + s.iteration
                          /\ s.logged <= PaidBefore(s.phase) + 2 * s.iteration - 1

SessionBounded(s) == SessionHeld(s) /\ SessionWithin(s) /\ SoFar(s)

LEMMA PhaseBases ==
  /\ MadeBefore(1) = 0 /\ MadeBefore(2) = Iterations /\ MadeBefore(3) = Iterations + 1
  /\ PaidBefore(1) = 0 /\ PaidBefore(2) = 2 * Iterations /\ PaidBefore(3) = 2 * Iterations + 1
BY DEF MadeBefore, PaidBefore

LEMMA PhaseEndBounded ==
  ASSUME NEW s \in SessionRecord, PhaseOpen(s), SessionWithin(s), NEW output \in Nat, output <= s.made,
         s.phase < 3 => /\ s.made <= MadeBefore(s.phase + 1)
                        /\ s.logged <= PaidBefore(s.phase + 1)
  PROVE  SessionWithin(PhaseEnds(s, output)) /\ SoFar(PhaseEnds(s, output))
<1>1. PICK saved, kept : saved = s.saved + 1 /\ kept = [s EXCEPT !.output = output, !.saved = saved]
  OBVIOUS
<1>2. /\ saved \in 1..3 /\ saved \in Nat /\ s.phase \in 1..3 /\ s.saved \in Nat
      /\ s.phase # Phases(s.command) => s.phase < 3
      /\ Iterations \in Nat \ {0}
  BY <1>1, PhaseCount, EngineAssumption DEF SessionRecord, PhaseOpen, SessionWithin
<1>3. PhaseEnds(s, output) =
        IF s.phase = Phases(s.command)
          THEN [kept EXCEPT !.status = "completed", !.step = "USAGE"]
          ELSE [kept EXCEPT !.phase = @ + 1, !.step = "GENERATE", !.iteration = 1]
  BY <1>1 DEF PhaseEnds, Phases
<1>4. /\ kept \in SessionRecord /\ kept.output = output /\ kept.saved = saved
      /\ kept.phase = s.phase /\ kept.judged = s.judged /\ kept.made = s.made
      /\ kept.total = s.total /\ kept.logged = s.logged /\ kept.iteration = s.iteration
  BY <1>1, <1>2 DEF SessionRecord
<1>5. CASE s.phase = Phases(s.command)
  <2>1. PICK e : e = [kept EXCEPT !.status = "completed", !.step = "USAGE"]
    OBVIOUS
  <2>2. /\ e.step = "USAGE" /\ e.output = output /\ e.judged = s.judged /\ e.made = s.made
        /\ e.saved = saved /\ e.phase = s.phase /\ e.iteration = s.iteration
        /\ e.logged = s.logged /\ e.total = s.total
    BY <1>4, <2>1 DEF SessionRecord
  <2>3. s.phase # 2
    BY <1>5, PhaseCount DEF SessionRecord
  <2> QED
    BY <1>2, <1>3, <1>5, <2>1, <2>2, <2>3 DEF SessionWithin, SoFar
<1>6. CASE s.phase # Phases(s.command)
  <2>1. PICK next : next = s.phase + 1
    OBVIOUS
  <2>2. PICK e : e = [kept EXCEPT !.phase = next, !.step = "GENERATE", !.iteration = 1]
    OBVIOUS
  <2>3. /\ e.step = "GENERATE" /\ e.output = output /\ e.judged = s.judged /\ e.made = s.made
        /\ e.saved = saved /\ e.phase = next /\ e.iteration = 1
        /\ e.logged = s.logged /\ e.total = s.total
    BY <1>4, <2>2 DEF SessionRecord
  <2>4. next \in 2..3 /\ s.made <= MadeBefore(next) /\ s.logged <= PaidBefore(next)
    BY <1>2, <1>6, <2>1
  <2>5. s.made \in Nat /\ s.logged \in Nat /\ MadeBefore(next) \in Nat /\ PaidBefore(next) \in Nat
    BY <1>2, <2>4, PhaseBases DEF SessionRecord
  <2>6. SessionWithin(e)
    BY <1>2, <2>3, <2>4 DEF SessionWithin
  <2>7. SoFar(e)
    BY <2>3, <2>4, <2>5 DEF SoFar
  <2>8. PhaseEnds(s, output) = e
    BY <1>3, <1>4, <1>6, <2>1, <2>2
  <2> QED
    BY <2>6, <2>7, <2>8
<1> QED
  BY <1>5, <1>6

LEMMA SessionBoundedStep ==
  ASSUME SessionBounded(work), [SessionNext]_sessionVars
  PROVE  SessionBounded(work')
<1>1. SessionHeld(work') /\ SessionHeld(work) /\ SessionWithin(work) /\ SoFar(work)
  BY SessionStep DEF SessionBounded
<1>2. /\ Iterations \in Nat \ {0} /\ work \in SessionRecord
      /\ work.made \in Nat /\ work.logged \in Nat /\ work.judged \in Nat /\ work.output \in Nat
      /\ work.iteration \in 1..Iterations /\ work.phase \in 1..3
  BY <1>1, EngineAssumption DEF SessionHeld, SessionRecord, SessionWithin
<1>3. /\ MadeBefore(work.phase) \in Nat /\ PaidBefore(work.phase) \in Nat
      /\ MadeBefore(work.phase) <= Iterations + 1 /\ PaidBefore(work.phase) <= 2 * Iterations + 1
      /\ work.phase # 3 /\ (work.phase = 2 => work.iteration = 1) =>
           /\ MadeBefore(work.phase) + work.iteration <= Iterations + 1
           /\ PaidBefore(work.phase) + 2 * work.iteration <= 2 * Iterations + 2
  BY <1>2, PhaseBases
<1>4. CASE CallFails \/ SessionDies \/ AddsUsage
  <2>1. \E status \in {"running", "completed", "failed"}, total \in {work.total, work.logged} :
          work' = [work EXCEPT !.status = status, !.total = total, !.step = "GONE"]
    <3>1. CASE CallFails
      <4>1. work' = [work EXCEPT !.status = "failed", !.total = work.total, !.step = "GONE"]
        BY <1>2, <3>1 DEF CallFails, SessionRecord
      <4> QED
        BY <4>1
    <3>2. CASE SessionDies
      <4>1. work' = [work EXCEPT !.status = work.status, !.total = work.total, !.step = "GONE"]
        BY <1>2, <3>2 DEF SessionDies, SessionRecord
      <4> QED
        BY <1>2, <4>1 DEF SessionRecord
    <3>3. CASE AddsUsage
      <4>1. work' = [work EXCEPT !.status = work.status, !.total = work.logged, !.step = "GONE"]
        BY <1>2, <3>3 DEF AddsUsage, SessionRecord
      <4> QED
        BY <1>2, <4>1 DEF SessionRecord
    <3> QED
      BY <1>4, <3>1, <3>2, <3>3
  <2>2. PICK status \in {"running", "completed", "failed"}, total \in {work.total, work.logged} :
          work' = [work EXCEPT !.status = status, !.total = total, !.step = "GONE"]
    BY <2>1
  <2>3. /\ work'.step = "GONE" /\ work'.made = work.made /\ work'.logged = work.logged
        /\ work'.phase = work.phase /\ work'.iteration = work.iteration
        /\ work'.judged = work.judged /\ work'.output = work.output /\ work'.saved = work.saved
        /\ work'.total = total
    BY <1>2, <2>2 DEF SessionRecord
  <2>4. total <= work.logged
    BY <1>1, <1>2 DEF SessionWithin
  <2>5. SessionWithin(work')
    BY <1>1, <2>3, <2>4 DEF SessionWithin
  <2>6. SoFar(work')
    BY <1>1, <2>3 DEF SoFar
  <2> QED
    BY <1>1, <2>5, <2>6 DEF SessionBounded
<1>5. CASE Generates
  <2>1. PICK made, logged, s :
          /\ made = work.made + 1 /\ logged = work.logged + 1
          /\ s = [work EXCEPT !.made = made, !.logged = logged]
    OBVIOUS
  <2>2. /\ work.step = "GENERATE" /\ PhaseOpen(work) /\ made \in Nat /\ logged \in Nat
        /\ work.made <= MadeBefore(work.phase) + work.iteration - 1
        /\ work.logged <= PaidBefore(work.phase) + 2 * work.iteration - 2
        /\ work.phase = 2 => work.iteration = 1
    BY <1>1, <1>2, <1>5, <2>1 DEF Generates, SessionHeld, SoFar
  <2>3. /\ s \in SessionRecord /\ s.made = made /\ s.logged = logged
        /\ s.command = work.command /\ s.phase = work.phase /\ s.status = work.status
        /\ s.iteration = work.iteration /\ s.judged = work.judged /\ s.output = work.output
        /\ s.saved = work.saved /\ s.total = work.total /\ s.step = "GENERATE"
    BY <1>2, <2>1, <2>2 DEF SessionRecord
  <2>4. PhaseOpen(s)
    BY <2>2, <2>3 DEF PhaseOpen
  <2>5. /\ made <= MadeBefore(work.phase) + work.iteration
        /\ logged <= PaidBefore(work.phase) + 2 * work.iteration - 1
    BY <1>2, <1>3, <2>1, <2>2
  <2>6. made \in 0..(1 + 2 * Iterations) /\ logged \in 0..(1 + 4 * Iterations)
    BY <1>2, <1>3, <2>2, <2>5
  <2>7. SessionWithin(s)
    BY <1>1, <1>2, <2>1, <2>3, <2>6 DEF SessionWithin, SessionRecord
  <2>8. work' = IF PhaseOf(work) = "IMPLEMENT" THEN PhaseEnds(s, s.made)
                                               ELSE [s EXCEPT !.step = "REVIEW"]
    BY <1>5, <2>1 DEF Generates
  <2>9. CASE PhaseOf(work) = "IMPLEMENT"
    <3>1. work.phase = 2
      BY <1>2, <2>2, <2>9, PhaseCount DEF PhaseOf, SessionRecord, PhaseOpen
    <3>2. made <= MadeBefore(s.phase + 1) /\ logged <= PaidBefore(s.phase + 1)
      BY <1>2, <2>2, <2>3, <2>5, <3>1, PhaseBases
    <3> QED
      BY <1>1, <2>2, <2>3, <2>4, <2>7, <2>8, <2>9, <3>2, PhaseEndBounded DEF SessionBounded
  <2>10. CASE PhaseOf(work) # "IMPLEMENT"
    <3>1. work.phase # 2
      BY <1>2, <2>2, <2>10, PhaseCount DEF PhaseOf, SessionRecord, PhaseOpen
    <3>2. PICK e : e = [s EXCEPT !.step = "REVIEW"]
      OBVIOUS
    <3>3. /\ e.step = "REVIEW" /\ e.made = made /\ e.logged = logged /\ e.phase = work.phase
          /\ e.iteration = work.iteration /\ e.judged = s.judged /\ e.output = s.output
          /\ e.saved = s.saved /\ e.total = s.total
      BY <2>3, <3>2 DEF SessionRecord
    <3>4. SessionWithin(e)
      BY <2>3, <2>7, <3>3 DEF SessionWithin
    <3>5. SoFar(e)
      BY <2>5, <3>1, <3>3 DEF SoFar
    <3> QED
      BY <1>1, <2>8, <2>10, <3>2, <3>4, <3>5 DEF SessionBounded
  <2> QED
    BY <2>9, <2>10
<1>6. ASSUME NEW approves \in BOOLEAN, NEW scores \in BOOLEAN, Judges(approves, scores)
      PROVE  SessionBounded(work')
  <2>1. PICK logged, s :
          logged = work.logged + 1 /\ s = [work EXCEPT !.judged = work.made, !.logged = logged]
    OBVIOUS
  <2>2. /\ work.step = "REVIEW" /\ PhaseOpen(work) /\ logged \in Nat /\ work.phase # 2
        /\ work.made <= MadeBefore(work.phase) + work.iteration
        /\ work.logged <= PaidBefore(work.phase) + 2 * work.iteration - 1
    BY <1>1, <1>2, <1>6, <2>1 DEF Judges, SessionHeld, SoFar
  <2>3. /\ s \in SessionRecord /\ s.made = work.made /\ s.logged = logged
        /\ s.command = work.command /\ s.phase = work.phase /\ s.status = work.status
        /\ s.iteration = work.iteration /\ s.judged = work.made /\ s.output = work.output
        /\ s.saved = work.saved /\ s.total = work.total
    BY <1>2, <2>1, <2>2 DEF SessionRecord
  <2>4. PhaseOpen(s)
    BY <2>2, <2>3 DEF PhaseOpen
  <2>5. logged <= PaidBefore(work.phase) + 2 * work.iteration
    BY <1>2, <1>3, <2>1, <2>2
  <2>6. logged \in 0..(1 + 4 * Iterations)
    BY <1>2, <1>3, <2>2, <2>5
  <2>7. SessionWithin(s)
    BY <1>1, <1>2, <2>1, <2>3, <2>6 DEF SessionWithin, SessionRecord
  <2>8. \/ work' = PhaseEnds(s, s.made)
        \/ work.iteration # Iterations /\ work' = [s EXCEPT !.step = "GENERATE", !.iteration = @ + 1]
    BY <1>6, <2>1 DEF Judges, LastGenerated
  <2>9. CASE work' = PhaseEnds(s, s.made)
    <3>1. s.phase < 3 => s.phase = 1
      BY <1>2, <2>2, <2>3
    <3>2. s.phase < 3 => s.made <= MadeBefore(s.phase + 1) /\ s.logged <= PaidBefore(s.phase + 1)
      BY <1>2, <2>2, <2>3, <2>5, <3>1, PhaseBases
    <3> QED
      BY <1>1, <1>2, <2>3, <2>4, <2>7, <2>9, <3>2, PhaseEndBounded DEF SessionBounded
  <2>10. CASE work.iteration # Iterations /\ work' = [s EXCEPT !.step = "GENERATE", !.iteration = @ + 1]
    <3>1. PICK n : n = work.iteration + 1
      OBVIOUS
    <3>2. n \in 2..Iterations
      BY <1>2, <2>10, <3>1
    <3>3. PICK e : e = [s EXCEPT !.step = "GENERATE", !.iteration = n]
      OBVIOUS
    <3>4. /\ e.step = "GENERATE" /\ e.made = s.made /\ e.logged = logged /\ e.phase = work.phase
          /\ e.iteration = n /\ e.judged = s.judged /\ e.output = s.output
          /\ e.saved = s.saved /\ e.total = s.total
      BY <2>3, <3>3 DEF SessionRecord
    <3>5. SessionWithin(e)
      BY <1>2, <2>3, <2>7, <3>2, <3>4 DEF SessionWithin
    <3>6. SoFar(e)
      BY <1>2, <2>2, <2>3, <2>5, <3>1, <3>4, PhaseBases DEF SoFar
    <3>7. work' = e
      BY <2>3, <2>10, <3>1, <3>3
    <3> QED
      BY <1>1, <3>5, <3>6, <3>7 DEF SessionBounded
  <2> QED
    BY <2>8, <2>9, <2>10
<1>7. CASE UNCHANGED work
  BY <1>7
<1> QED
  BY <1>4, <1>5, <1>6, <1>7 DEF SessionNext, sessionVars

(* The limits of rounds bound what a session generates, reviews and pays.  *)
THEOREM SessionsTyped == SessionsSpec => []SessionTypeOK
<1>1. SessionInit => SessionBounded(work)
  BY PhaseCount, PhaseBases, EngineAssumption
  DEF SessionInit, SessionBounded, SessionHeld, SessionRecord, PhaseOpen, SessionWithin, SoFar
<1>2. SessionBounded(work) /\ [SessionNext]_sessionVars => SessionBounded(work)'
  BY SessionBoundedStep DEF SessionBounded, SessionHeld, SessionWithin, SoFar
<1>3. SessionBounded(work) => SessionTypeOK
  <2> SUFFICES ASSUME SessionBounded(work) PROVE SessionTypeOK
    OBVIOUS
  <2>1. work \in SessionRecord /\ SessionWithin(work) /\ Iterations \in Nat
    BY EngineAssumption DEF SessionBounded, SessionHeld
  <2>2. /\ work.judged \in 0..(1 + 2 * Iterations) /\ work.output \in 0..(1 + 2 * Iterations)
        /\ work.total \in 0..(1 + 4 * Iterations)
    BY <2>1 DEF SessionWithin, SessionRecord
  <2> QED
    BY <2>1, <2>2 DEF SessionTypeOK, SessionRecord, SessionWithin
<1> QED
  BY <1>1, <1>2, <1>3, PTL DEF SessionsSpec

(***************************************************************************)
(* The types of a debate: a stance for each round of critique, and a       *)
(* summary, and with it a next round, only before the last one.            *)
(***************************************************************************)
ArgumentBounded ==
  /\ argument.round \in 1..DebateRounds
  /\ argument.proposed <= argument.round /\ argument.criticised <= argument.round
  /\ argument.summary <= argument.round
  /\ Len(argument.stances) <= argument.round
  /\ argument.turn \in {"PROPOSE", "CRITIQUE"} => Len(argument.stances) < argument.round
  /\ argument.turn = "SUMMARISE" => argument.round < DebateRounds

LEMMA ArgumentBoundedStep ==
  ASSUME ArgumentInv, ArgumentBounded, [ArgumentNext]_argumentVars
  PROVE  ArgumentBounded'
<1>1. /\ DebateRounds \in Nat \ {0} /\ argument \in ArgumentRecord
      /\ argument.round \in Nat /\ argument.proposed \in Nat /\ argument.criticised \in Nat
      /\ argument.summary \in Nat /\ argument.stances \in Seq(BOOLEAN)
      /\ Len(argument.stances) \in Nat
  BY EngineAssumption DEF ArgumentInv, ArgumentRecord
<1>2. CASE ArgumentFails
  <2>1. argument' = [argument EXCEPT !.turn = "OVER", !.reason = "failed"]
    BY <1>2 DEF ArgumentFails, ArgumentEnds
  <2>2. /\ argument'.turn = "OVER" /\ argument'.round = argument.round
        /\ argument'.proposed = argument.proposed /\ argument'.criticised = argument.criticised
        /\ argument'.summary = argument.summary /\ argument'.stances = argument.stances
    BY <1>1, <2>1 DEF ArgumentRecord
  <2> QED
    BY <2>2 DEF ArgumentBounded
<1>3. CASE Summarises
  <2>1. PICK n : n = argument.round + 1
    OBVIOUS
  <2>2. argument.turn = "SUMMARISE"
        /\ argument' = [argument EXCEPT !.turn = "PROPOSE", !.round = n, !.summary = argument.round]
    BY <1>3, <2>1 DEF Summarises
  <2>3. /\ argument'.turn = "PROPOSE" /\ argument'.round = n
        /\ argument'.proposed = argument.proposed /\ argument'.criticised = argument.criticised
        /\ argument'.summary = argument.round /\ argument'.stances = argument.stances
    BY <1>1, <2>2 DEF ArgumentRecord
  <2> QED
    BY <1>1, <2>1, <2>2, <2>3 DEF ArgumentBounded
<1>4. ASSUME NEW late \in BOOLEAN, Proposes(late) PROVE ArgumentBounded'
  <2>1. \E turn \in {"CRITIQUE", "OVER"}, reason \in {argument.reason, "time_budget"} :
          argument' = [argument EXCEPT !.proposed = argument.round, !.turn = turn, !.reason = reason]
    <3>1. PICK a : a = [argument EXCEPT !.proposed = argument.round, !.turn = "CRITIQUE"]
      OBVIOUS
    <3>2. argument' = a \/ argument' = [a EXCEPT !.turn = "OVER", !.reason = "time_budget"]
      BY <1>4, <3>1 DEF Proposes, ArgumentEnds
    <3>3. a = [argument EXCEPT !.proposed = argument.round, !.turn = "CRITIQUE",
                               !.reason = argument.reason]
      BY <1>1, <3>1 DEF ArgumentRecord
    <3>4. [a EXCEPT !.turn = "OVER", !.reason = "time_budget"] =
            [argument EXCEPT !.proposed = argument.round, !.turn = "OVER", !.reason = "time_budget"]
      BY <1>1, <3>1 DEF ArgumentRecord
    <3> QED
      BY <3>2, <3>3, <3>4
  <2>2. argument.turn = "PROPOSE"
    BY <1>4 DEF Proposes
  <2>3. /\ argument'.turn \in {"CRITIQUE", "OVER"} /\ argument'.round = argument.round
        /\ argument'.proposed = argument.round /\ argument'.criticised = argument.criticised
        /\ argument'.summary = argument.summary /\ argument'.stances = argument.stances
    BY <1>1, <2>1 DEF ArgumentRecord
  <2> QED
    BY <1>1, <2>2, <2>3 DEF ArgumentBounded
<1>5. ASSUME NEW late \in BOOLEAN, NEW supports \in BOOLEAN, Criticises(supports, late)
      PROVE  ArgumentBounded'
  <2>1. PICK stances, a :
          /\ stances = Append(argument.stances, supports)
          /\ a = [argument EXCEPT !.criticised = argument.round, !.stances = stances]
    OBVIOUS
  <2>2. stances \in Seq(BOOLEAN) /\ Len(stances) = Len(argument.stances) + 1
    BY <1>1, <2>1
  <2>3. /\ a \in ArgumentRecord /\ a.round = argument.round /\ a.proposed = argument.proposed
        /\ a.criticised = argument.round /\ a.summary = argument.summary /\ a.stances = stances
    BY <1>1, <2>1, <2>2 DEF ArgumentRecord
  <2>4. PICK reason : reason = StopReason(a, late)
    OBVIOUS
  <2>5. argument.turn = "CRITIQUE"
        /\ argument' = IF reason # "none" THEN [a EXCEPT !.turn = "OVER", !.reason = reason]
                                          ELSE [a EXCEPT !.turn = "SUMMARISE"]
    BY <1>5, <2>1, <2>4 DEF Criticises, ArgumentEnds
  <2>6. reason = "none" => argument.round < DebateRounds
    <3>1. SUFFICES ASSUME ~(argument.round < DebateRounds) PROVE reason # "none"
      OBVIOUS
    <3>2. a.round >= DebateRounds
      BY <1>1, <2>3, <3>1
    <3> QED
      BY <2>3, <2>4, <3>2 DEF StopReason
  <2>7. \/ argument' = [a EXCEPT !.turn = "OVER", !.reason = reason]
        \/ argument.round < DebateRounds /\ argument' = [a EXCEPT !.turn = "SUMMARISE"]
    BY <2>5, <2>6
  <2>8. /\ \/ argument'.turn = "OVER"
           \/ argument'.turn = "SUMMARISE" /\ argument.round < DebateRounds
        /\ argument'.round = argument.round
        /\ argument'.proposed = argument.proposed /\ argument'.criticised = argument.round
        /\ argument'.summary = argument.summary /\ argument'.stances = stances
    BY <2>3, <2>7 DEF ArgumentRecord
  <2> QED
    BY <1>1, <2>2, <2>5, <2>8 DEF ArgumentBounded
<1>6. CASE UNCHANGED argument
  BY <1>6 DEF ArgumentBounded
<1> QED
  BY <1>2, <1>3, <1>4, <1>5, <1>6 DEF ArgumentNext, argumentVars

(* A debate has no more rounds, proposals, critiques and stances than its  *)
(* limit of rounds allows.                                                 *)
THEOREM ArgumentsTyped == ArgumentsSpec => []ArgumentTypeOK
<1>1. ArgumentInit => ArgumentInv /\ ArgumentBounded
  BY EngineAssumption
  DEF ArgumentInit, ArgumentInv, ArgumentHeld, ArgumentRecord, ArgumentBounded
<1>2. ArgumentInv /\ ArgumentBounded /\ [ArgumentNext]_argumentVars
        => ArgumentInv' /\ ArgumentBounded'
  BY ArgumentStep, ArgumentBoundedStep
<1>3. ArgumentInv /\ ArgumentBounded => ArgumentTypeOK
  <2> SUFFICES ASSUME ArgumentInv, ArgumentBounded PROVE ArgumentTypeOK
    OBVIOUS
  <2>1. /\ argument \in ArgumentRecord /\ DebateRounds \in Nat
        /\ argument.round \in 1..DebateRounds
        /\ argument.proposed \in 0..DebateRounds /\ argument.criticised \in 0..DebateRounds
        /\ argument.summary \in 0..DebateRounds
    BY EngineAssumption DEF ArgumentInv, ArgumentRecord, ArgumentBounded
  <2>2. /\ argument.stances \in [1..Len(argument.stances) -> BOOLEAN]
        /\ Len(argument.stances) \in 0..DebateRounds
    BY <2>1 DEF ArgumentRecord, ArgumentBounded
  <2>3. argument.stances \in UNION {[1..n -> BOOLEAN] : n \in 0..DebateRounds}
    BY <2>2
  <2> QED
    BY <2>1, <2>3 DEF ArgumentTypeOK, ArgumentRecord
<1> QED
  BY <1>1, <1>2, <1>3, PTL DEF ArgumentsSpec

(***************************************************************************)
(* A question to many models.  First how they are counted as they ask.     *)
(***************************************************************************)
Asked(kind, m) == {n \in 1..m : KindOf(n) = kind}

LEMMA AskingIsCount ==
  ASSUME NEW kind, NEW m \in Nat
  PROVE  /\ IsFiniteSet(Asked(kind, m)) /\ Asking(kind, m) = Cardinality(Asked(kind, m))
         /\ Asking(kind, m) \in Nat
<1>1. IsFiniteSet(1..m)
  BY FS_Interval
<1>2. Asked(kind, m) \in SUBSET (1..m)
  BY DEF Asked
<1>3. IsFiniteSet(Asked(kind, m))
  BY <1>1, <1>2, FS_Subset
<1> QED
  BY <1>3, FS_CardinalityType DEF Asking, Asked

(* One more of the kind counts one more.                                   *)
LEMMA AskingNext ==
  ASSUME NEW kind, NEW m \in Nat \ {0}
  PROVE  Asking(kind, m) = Asking(kind, m - 1) + (IF KindOf(m) = kind THEN 1 ELSE 0)
<1>1. m - 1 \in Nat /\ m \notin Asked(kind, m - 1)
  BY DEF Asked
<1>2. IsFiniteSet(Asked(kind, m - 1)) /\ Asking(kind, m - 1) = Cardinality(Asked(kind, m - 1))
      /\ Asking(kind, m) = Cardinality(Asked(kind, m))
  BY <1>1, AskingIsCount
<1>3. CASE KindOf(m) = kind
  <2>1. Asked(kind, m) = Asked(kind, m - 1) \cup {m}
    BY <1>3 DEF Asked
  <2> QED
    BY <1>1, <1>2, <1>3, <2>1, FS_AddElement
<1>4. CASE KindOf(m) # kind
  <2>1. Asked(kind, m) = Asked(kind, m - 1)
    BY <1>4 DEF Asked
  <2>2. Asking(kind, m - 1) \in Nat
    BY <1>1, AskingIsCount
  <2> QED
    BY <1>2, <1>4, <2>1, <2>2
<1> QED
  BY <1>3, <1>4

LEMMA AskingGrows ==
  ASSUME NEW kind, NEW n \in Nat, NEW m \in Nat, n <= m
  PROVE  Asking(kind, n) <= Asking(kind, m)
<1>1. Asked(kind, n) \in SUBSET Asked(kind, m)
  BY DEF Asked
<1> QED
  BY <1>1, AskingIsCount, FS_Subset

(* Later in the order of asking is further in the count of one's kind.     *)
LEMMA LaterCountsMore ==
  ASSUME NEW n \in Nat, NEW m \in Nat, n < m
  PROVE  Asking(KindOf(m), n) < Asking(KindOf(m), m)
<1>1. m \in Nat \ {0} /\ m - 1 \in Nat /\ n <= m - 1
  OBVIOUS
<1>2. Asking(KindOf(m), n) <= Asking(KindOf(m), m - 1)
  BY <1>1, AskingGrows
<1>3. Asking(KindOf(m), m) = Asking(KindOf(m), m - 1) + 1
  BY <1>1, AskingNext
<1>4. Asking(KindOf(m), n) \in Nat /\ Asking(KindOf(m), m - 1) \in Nat
  BY <1>1, AskingIsCount
<1> QED
  BY <1>2, <1>3, <1>4

(* Every number up to the count of a kind is the number of one of them.    *)
LEMMA EveryNumberIsAsked ==
  ASSUME NEW kind, NEW r \in 1..Asking(kind, Models)
  PROVE  \E m \in Model : KindOf(m) = kind /\ Asking(kind, m) = r
<1> DEFINE T == {m \in Model : r <= Asking(kind, m)}
<1>1. Models \in Nat \ {0} /\ Model \subseteq Nat \ {0} /\ r \in Nat \ {0}
  BY EngineAssumption, AskingIsCount DEF Model
<1>2. Models \in T
  BY <1>1, AskingIsCount DEF Model
<1>3. PICK m \in T : \A n \in T : ~(<<n, m>> \in OpToRel(<, Nat))
  BY <1>1, <1>2, NatLessThanWellFounded, WFMin
<1>4. m \in Nat \ {0} /\ m - 1 \in Nat /\ r <= Asking(kind, m)
  BY <1>1
<1>5. Asking(kind, m - 1) < r
  <2>1. CASE m = 1
    <3>1. Asked(kind, m - 1) = {}
      BY <2>1 DEF Asked
    <3> QED
      BY <1>1, <1>4, <3>1, AskingIsCount, FS_EmptySet
  <2>2. CASE m # 1
    <3>1. m - 1 \in Model
      BY <1>1, <1>4, <2>2 DEF Model
    <3>2. <<m - 1, m>> \in OpToRel(<, Nat)
      BY <1>4 DEF OpToRel
    <3>3. m - 1 \notin T
      BY <1>3, <3>2
    <3> QED
      BY <1>1, <1>4, <3>1, <3>3, AskingIsCount
  <2> QED
    BY <2>1, <2>2
<1>6. Asking(kind, m) = Asking(kind, m - 1) + (IF KindOf(m) = kind THEN 1 ELSE 0)
  BY <1>4, AskingNext
<1>7. Asking(kind, m - 1) \in Nat
  BY <1>4, AskingIsCount
<1> QED
  BY <1>1, <1>4, <1>5, <1>6, <1>7

(* Who is let in at first: all of a kind, or as many as its limit.         *)
LEMMA FirstFill ==
  ASSUME NEW kind \in Kinds
  PROVE  Cardinality({m \in Model : KindOf(m) = kind /\ FirstOfKind(m)}) =
           IF Asking(kind, Models) <= SlotsOf[kind] THEN Asking(kind, Models) ELSE SlotsOf[kind]
<1> DEFINE first == {m \in Model : KindOf(m) = kind /\ FirstOfKind(m)}
<1>1. Models \in Nat /\ Model = 1..Models /\ SlotsOf[kind] \in Nat \ {0}
  BY EngineAssumption DEF Model, Kinds
<1>2. \A m \in Model : KindOf(m) = kind => (m \in first <=> Asking(kind, m) <= SlotsOf[kind])
  BY DEF FirstOfKind
<1>3. CASE Asking(kind, Models) <= SlotsOf[kind]
  <2>1. \A m \in Model : Asking(kind, m) <= SlotsOf[kind]
    BY <1>1, <1>3, AskingGrows, AskingIsCount
  <2>2. first = Asked(kind, Models)
    BY <1>1, <1>2, <2>1 DEF Asked
  <2> QED
    BY <1>1, <1>3, <2>2, AskingIsCount
<1>4. CASE ~(Asking(kind, Models) <= SlotsOf[kind])
  <2>1. SlotsOf[kind] \in 1..Asking(kind, Models)
    BY <1>1, <1>4, AskingIsCount
  <2>2. PICK last \in Model : KindOf(last) = kind /\ Asking(kind, last) = SlotsOf[kind]
    BY <2>1, EveryNumberIsAsked
  <2>3. \A m \in Model : m <= last => Asking(kind, m) <= SlotsOf[kind]
    BY <1>1, <2>2, AskingGrows
  <2>4. ASSUME NEW m \in Model, KindOf(m) = kind, ~(m <= last) PROVE ~(Asking(kind, m) <= SlotsOf[kind])
    BY <1>1, <2>2, <2>4, LaterCountsMore, AskingIsCount
  <2>5. first = Asked(kind, last)
    BY <1>1, <1>2, <2>2, <2>3, <2>4 DEF Asked
  <2>6. last \in Nat
    BY <1>1
  <2>7. Cardinality(first) = SlotsOf[kind]
    BY <2>2, <2>5, <2>6, AskingIsCount
  <2> QED
    BY <1>4, <2>7
<1> QED
  BY <1>3, <1>4

(***************************************************************************)
(* Slots and lines.                                                        *)
(***************************************************************************)
Holders(kind) == {m \in Model : asked[m] \in {"ADMITTED", "CALLING"} /\ KindOf(m) = kind}

(* Who is in line waits there once.                                        *)
InLine(kind) ==
  \A i \in 1..Len(waiting[kind]) :
    /\ asked[waiting[kind][i]] = "WAITING" /\ KindOf(waiting[kind][i]) = kind
    /\ \A j \in 1..Len(waiting[kind]) : waiting[kind][i] = waiting[kind][j] => i = j

Filled(kind) ==
  /\ slots[kind] = Cardinality(Holders(kind)) /\ slots[kind] <= SlotsOf[kind]
  /\ waiting[kind] # << >> => Cardinality(Holders(kind)) = SlotsOf[kind]

FanInv ==
  /\ asked \in [Model -> {"WAITING", "ADMITTED", "CALLING", "ANSWERED", "FAILED"}]
  /\ slots \in [Kinds -> Nat]
  /\ waiting \in [Kinds -> Seq(Model)]
  /\ \A kind \in Kinds : InLine(kind) /\ Filled(kind)

LEMMA FanStarts == FanInit => FanInv
<1> SUFFICES ASSUME FanInit PROVE FanInv
  OBVIOUS
<1>1. /\ asked = [m \in Model |-> IF FirstOfKind(m) THEN "ADMITTED" ELSE "WAITING"]
      /\ slots = [kind \in Kinds |-> Cardinality({m \in Model : KindOf(m) = kind /\ FirstOfKind(m)})]
      /\ waiting = [kind \in Kinds |-> Line(kind)]
  BY DEF FanInit
<1>2. ASSUME NEW kind \in Kinds
      PROVE  slots[kind] \in Nat /\ waiting[kind] \in Seq(Model) /\ InLine(kind) /\ Filled(kind)
  <2> DEFINE free == SlotsOf[kind]
             late == Asking(kind, Models) - free
  <2>1. /\ free \in Nat \ {0} /\ Asking(kind, Models) \in Nat /\ Models \in Nat
        /\ waiting[kind] = Line(kind)
    BY <1>1, EngineAssumption, AskingIsCount DEF Kinds
  <2>2. Holders(kind) = {m \in Model : KindOf(m) = kind /\ FirstOfKind(m)}
    BY <1>1 DEF Holders
  <2>3. slots[kind] = Cardinality(Holders(kind))
        /\ slots[kind] = IF Asking(kind, Models) <= free THEN Asking(kind, Models) ELSE free
    BY <1>1, <2>2, FirstFill
  <2>4. ASSUME NEW i \in 1..late
        PROVE  /\ Line(kind)[i] \in Model /\ KindOf(Line(kind)[i]) = kind
               /\ Asking(kind, Line(kind)[i]) = free + i
    <3>1. free + i \in 1..Asking(kind, Models)
      BY <2>1
    <3>2. \E m \in Model : KindOf(m) = kind /\ Asking(kind, m) = free + i
      BY <3>1, EveryNumberIsAsked
    <3>3. Line(kind)[i] = CHOOSE m \in Model : KindOf(m) = kind /\ Asking(kind, m) = free + i
      BY DEF Line
    <3> QED
      BY <3>2, <3>3
  <2>5. Line(kind) \in [1..late -> Model]
    BY <2>4 DEF Line
  <2>6. PICK length \in Nat : 1..late = 1..length /\ (late <= 0 => length = 0)
    BY <2>1
  <2>7. Line(kind) \in Seq(Model) /\ Len(Line(kind)) = length
    <3>1. PICK s : s = Line(kind)
      OBVIOUS
    <3>2. s \in [1..length -> Model]
      BY <2>5, <2>6, <3>1
    <3>3. s \in Seq(Model) /\ Len(s) = length
      BY <3>2
    <3> QED
      BY <3>1, <3>3
  <2>8. InLine(kind)
    <3> SUFFICES ASSUME NEW i \in 1..late
                 PROVE  /\ asked[Line(kind)[i]] = "WAITING" /\ KindOf(Line(kind)[i]) = kind
                        /\ \A j \in 1..late : Line(kind)[i] = Line(kind)[j] => i = j
      BY <2>1, <2>6, <2>7 DEF InLine
    <3>1. Line(kind)[i] \in Model /\ ~FirstOfKind(Line(kind)[i])
      BY <2>1, <2>4 DEF FirstOfKind
    <3>2. \A j \in 1..late : Line(kind)[i] = Line(kind)[j] => free + i = free + j
      BY <2>4
    <3> QED
      BY <1>1, <2>1, <2>4, <3>1, <3>2
  <2>9. waiting[kind] # << >> => ~(Asking(kind, Models) <= free)
    <3>1. ASSUME Asking(kind, Models) <= free PROVE Line(kind) = << >>
      BY <2>1, <2>6, <2>7, <3>1
    <3> QED
      BY <2>1, <3>1
  <2> QED
    BY <2>1, <2>3, <2>7, <2>8, <2>9 DEF Filled
<1> QED
  BY <1>1, <1>2 DEF FanInv

(* A released slot is given on, once, or is free.                          *)
LEMMA SlotGivenOn ==
  ASSUME FanInv, NEW m \in Model, asked[m] \in {"ADMITTED", "CALLING"},
         NEW outcome \in {"ANSWERED", "FAILED"}, Releases(m, outcome)
  PROVE  FanInv'
<1> DEFINE kind == KindOf(m)
           line == waiting[kind]
           woken == NextWaiter(line)
           next == {line[i] : i \in 1..woken}
<1>1. /\ kind \in Kinds /\ line \in Seq(Model) /\ InLine(kind) /\ Filled(kind)
      /\ m \in Holders(kind) /\ SlotsOf[kind] \in Nat /\ slots[kind] \in Nat
  BY EngineAssumption DEF FanInv, KindOf, Kinds, Holders
<1>2. /\ asked' = [n \in Model |-> CASE n = m -> outcome
                                     [] n \in next -> "ADMITTED"
                                     [] OTHER -> asked[n]]
      /\ slots' = [slots EXCEPT ![kind] = @ - 1 + woken]
      /\ waiting' = [waiting EXCEPT ![kind] = SubSeq(@, woken + 1, Len(@))]
  BY DEF Releases
<1>3. \A other \in Kinds : IsFiniteSet(Holders(other))
  <2>1. IsFiniteSet(Model)
    BY EngineAssumption, FS_Interval DEF Model
  <2> QED
    BY <2>1, FS_Subset DEF Holders
<1>4. \A n \in next : n \in Model /\ asked[n] = "WAITING" /\ KindOf(n) = kind /\ n # m
  BY <1>1 DEF InLine, NextWaiter
<1>5. asked' \in [Model -> {"WAITING", "ADMITTED", "CALLING", "ANSWERED", "FAILED"}]
  BY <1>2 DEF FanInv
<1>6. /\ asked'[m] = outcome /\ \A n \in next : asked'[n] = "ADMITTED"
      /\ \A n \in Model : n # m /\ n \notin next => asked'[n] = asked[n]
  BY <1>2, <1>4
<1>7. ASSUME NEW other \in Kinds \ {kind} PROVE InLine(other)' /\ Filled(other)'
  <2>1. slots'[other] = slots[other] /\ waiting'[other] = waiting[other]
    BY <1>2 DEF FanInv
  <2>2. Holders(other)' = Holders(other)
    BY <1>4, <1>6 DEF Holders
  <2>3. InLine(other) /\ Filled(other) /\ waiting[other] \in Seq(Model)
    BY DEF FanInv
  <2>4. \A i \in 1..Len(waiting[other]) : asked'[waiting[other][i]] = "WAITING"
    BY <1>4, <1>6, <2>3 DEF InLine
  <2> QED
    BY <2>1, <2>2, <2>3, <2>4 DEF InLine, Filled
<1>8. CASE line = << >>
  <2>1. woken = 0 /\ next = {}
    BY <1>8 DEF NextWaiter
  <2>2. /\ waiting'[kind] = << >> /\ slots'[kind] = slots[kind] - 1
        /\ waiting' \in [Kinds -> Seq(Model)]
    BY <1>1, <1>2, <1>8, <2>1 DEF FanInv
  <2>3. Holders(kind)' = Holders(kind) \ {m}
    BY <1>6, <2>1 DEF Holders
  <2>4. Cardinality(Holders(kind)') = Cardinality(Holders(kind)) - 1
    BY <1>1, <1>3, <2>3, FS_RemoveElement
  <2>5. Cardinality(Holders(kind)') \in Nat
    BY <1>1, <1>3, <2>3, FS_RemoveElement, FS_CardinalityType
  <2>6. slots' \in [Kinds -> Nat]
    BY <1>1, <1>2, <2>1, <2>2, <2>4, <2>5 DEF FanInv, Filled
  <2>7. InLine(kind)' /\ Filled(kind)'
    BY <1>1, <2>2, <2>4 DEF InLine, Filled
  <2> QED
    BY <1>5, <1>7, <2>2, <2>6, <2>7 DEF FanInv
<1>9. CASE line # << >>
  <2>1. woken = 1 /\ next = {line[1]} /\ Len(line) \in Nat \ {0}
    BY <1>1, <1>9 DEF NextWaiter
  <2>2. PICK rest : rest = SubSeq(line, 2, Len(line))
    OBVIOUS
  <2>3. /\ rest \in Seq(Model) /\ Len(rest) = Len(line) - 1
        /\ \A i \in 1..Len(rest) : rest[i] = line[i + 1]
    BY <1>1, <2>1, <2>2
  <2>4. /\ waiting'[kind] = rest /\ waiting' \in [Kinds -> Seq(Model)]
        /\ slots'[kind] = slots[kind] /\ slots' \in [Kinds -> Nat]
    BY <1>1, <1>2, <2>1, <2>2, <2>3 DEF FanInv
  <2>5. Holders(kind)' = (Holders(kind) \ {m}) \cup {line[1]}
    BY <1>4, <1>6, <2>1 DEF Holders
  <2>6. line[1] \notin Holders(kind)
    BY <1>4, <2>1 DEF Holders
  <2>7. /\ IsFiniteSet(Holders(kind) \ {m})
        /\ Cardinality(Holders(kind) \ {m}) = Cardinality(Holders(kind)) - 1
    BY <1>1, <1>3, FS_RemoveElement
  <2>8. Cardinality(Holders(kind)') = Cardinality(Holders(kind))
    <3>1. Cardinality(Holders(kind)') = Cardinality(Holders(kind) \ {m}) + 1
      BY <2>5, <2>6, <2>7, FS_AddElement
    <3>2. Cardinality(Holders(kind)) \in Nat
      BY <1>1, <1>3, FS_CardinalityType
    <3> QED
      BY <2>7, <3>1, <3>2
  <2>9. InLine(kind)'
    <3> SUFFICES ASSUME NEW i \in 1..Len(rest)
                 PROVE  /\ asked'[rest[i]] = "WAITING" /\ KindOf(rest[i]) = kind
                        /\ \A j \in 1..Len(rest) : rest[i] = rest[j] => i = j
      BY <2>4 DEF InLine
    <3>1. i + 1 \in 1..Len(line) /\ rest[i] = line[i + 1] /\ rest[i] \in Model
      BY <2>1, <2>3
    <3>2. rest[i] \notin next /\ rest[i] # m
      BY <1>1, <2>1, <3>1 DEF InLine
    <3>3. asked[rest[i]] = "WAITING" /\ KindOf(rest[i]) = kind
      BY <1>1, <3>1 DEF InLine
    <3>4. \A j \in 1..Len(rest) : rest[i] = rest[j] => i + 1 = j + 1
      BY <1>1, <2>1, <2>3, <3>1 DEF InLine
    <3> QED
      BY <1>6, <2>3, <3>1, <3>2, <3>3, <3>4
  <2>10. Filled(kind)'
    BY <1>1, <1>9, <2>4, <2>8 DEF Filled
  <2> QED
    BY <1>5, <1>7, <2>4, <2>9, <2>10 DEF FanInv
<1> QED
  BY <1>8, <1>9

LEMMA FanStep ==
  ASSUME FanInv, [FanNext]_fanVars
  PROVE  FanInv'
<1>1. CASE UNCHANGED <<asked, slots, waiting>>
  <2>1. asked' = asked /\ slots' = slots /\ waiting' = waiting
    BY <1>1
  <2>2. ASSUME NEW kind \in Kinds PROVE InLine(kind)' /\ Filled(kind)'
    <3>1. Holders(kind)' = Holders(kind)
      BY <2>1 DEF Holders
    <3>2. InLine(kind) /\ Filled(kind)
      BY DEF FanInv
    <3> QED
      BY <2>1, <3>1, <3>2 DEF InLine, Filled
  <2> QED
    BY <2>1, <2>2 DEF FanInv
<1>2. ASSUME NEW m \in Model, CallsModel(m) PROVE FanInv'
  <2>1. CASE revoked
    <3>1. asked[m] = "ADMITTED" /\ Releases(m, "FAILED")
      BY <1>2, <2>1 DEF CallsModel
    <3> QED
      BY <3>1, SlotGivenOn
  <2>2. CASE ~revoked
    <3>1. asked[m] = "ADMITTED" /\ asked' = [asked EXCEPT ![m] = "CALLING"]
          /\ UNCHANGED <<slots, waiting>>
      BY <1>2, <2>2 DEF CallsModel
    <3>2. asked' \in [Model -> {"WAITING", "ADMITTED", "CALLING", "ANSWERED", "FAILED"}]
      BY <3>1 DEF FanInv
    <3>3. ASSUME NEW kind \in Kinds PROVE InLine(kind)' /\ Filled(kind)'
      <4>1. Holders(kind)' = Holders(kind)
        BY <3>1 DEF Holders, FanInv
      <4>2. InLine(kind) /\ Filled(kind) /\ waiting[kind] \in Seq(Model)
        BY DEF FanInv
      <4>3. InLine(kind)'
        BY <3>1, <4>2 DEF InLine, FanInv
      <4> QED
        BY <3>1, <4>1, <4>2, <4>3 DEF Filled
    <3> QED
      BY <3>1, <3>2, <3>3 DEF FanInv
  <2> QED
    BY <2>1, <2>2
<1>3. ASSUME NEW m \in Model, NEW outcome \in {"ANSWERED", "FAILED"}, ModelSettles(m, outcome)
      PROVE  FanInv'
  BY <1>3, SlotGivenOn DEF ModelSettles
<1> QED
  BY <1>1, <1>2, <1>3 DEF FanNext, fanVars, QuestionRevoked, Concludes

(* The calls of a kind never exceed its limit, and no model waits while a  *)
(* slot of its kind is free (AsyncSemaphore in Orchestrator.debate, which  *)
(* asks all models at once); for any number of models and any limits.      *)
THEOREM SlotsAreBounded == FanSpec => []SlotsBounded
<1>1. FanInv => SlotsBounded
  BY DEF FanInv, Filled, Holders, SlotsBounded
<1> QED
  BY <1>1, FanStarts, FanStep, PTL DEF FanSpec

(* Slots in use are calls of models, and lines are lines of models.        *)
THEOREM FansTyped == FanSpec => []FanTypeOK
<1> DEFINE Ended == revoked \in BOOLEAN /\ conclusion \in {"none", "success", "partial", "failed"}
<1>1. FanInit => Ended
  BY DEF FanInit
<1>2. Ended /\ [FanNext]_fanVars => Ended'
  BY DEF FanNext, fanVars, QuestionRevoked, Concludes, CallsModel, ModelSettles, Releases
<1>3. FanInv /\ Ended => FanTypeOK
  <2> SUFFICES ASSUME FanInv, Ended PROVE FanTypeOK
    OBVIOUS
  <2>1. IsFiniteSet(Model)
    BY EngineAssumption, FS_Interval DEF Model
  <2>2. ASSUME NEW kind \in Kinds PROVE slots[kind] \in 0..Cardinality(Model)
    <3>1. Holders(kind) \in SUBSET Model
      BY DEF Holders
    <3>2. /\ Cardinality(Holders(kind)) <= Cardinality(Model)
          /\ Cardinality(Holders(kind)) \in Nat /\ Cardinality(Model) \in Nat
      BY <2>1, <3>1, FS_Subset, FS_CardinalityType
    <3>3. slots[kind] = Cardinality(Holders(kind))
      BY DEF FanInv, Filled
    <3> QED
      BY <3>2, <3>3
  <2> QED
    BY <2>2 DEF FanInv, FanTypeOK
<1> QED
  BY FanStarts, FanStep, <1>1, <1>2, <1>3, PTL DEF FanSpec

(***************************************************************************)
(* The commands as they are checked together.                              *)
(***************************************************************************)
(* Whichever component a behaviour picks, what happens is a behaviour of   *)
(* each model, since the others stutter: all that is proved of the runner  *)
(* and of the commands is thereby true of the specification that is        *)
(* checked.                                                                *)
THEOREM CommandsAreBehaviours ==
  WorkersSpec => /\ RunnerSpec /\ DebateSpec /\ WatchSpec /\ SessionsSpec
                 /\ ArgumentsSpec /\ FanSpec /\ BuildSpec /\ GuardSpec
<1>1. WorkersInit => /\ RunnerInit /\ DebateInit /\ WatchInit /\ SessionInit
                     /\ ArgumentInit /\ FanInit /\ BuildInit /\ GuardInit
  BY DEF WorkersInit
<1>2. ASSUME [WorkersNext]_<<runnerVars, debateVars, watchVars, sessionVars, argumentVars, fanVars,
                             buildVars, guardVars, working>>
      PROVE  /\ [RunnerNext]_runnerVars /\ [DebateNext]_debateVars /\ [WatchNext]_watchVars
             /\ [SessionNext]_sessionVars /\ [ArgumentNext]_argumentVars /\ [FanNext]_fanVars
             /\ [BuildNext]_buildVars /\ [GuardNext]_guardVars
  BY <1>2 DEF WorkersNext, RunnerWorks, DebateWorks, WatchWorks, SessionWorks, ArgumentWorks,
              QuestionWorks, BuildWorks, GuardWorks
<1> QED
  BY <1>1, <1>2, PTL
  DEF WorkersSpec, RunnerSpec, DebateSpec, WatchSpec, SessionsSpec, ArgumentsSpec, FanSpec,
      BuildSpec, GuardSpec

(* The component that is picked keeps its types, and one is picked.        *)
THEOREM WorkersTyped == WorkersSpec => []WorkersTypeOK
<1> DEFINE Picked ==
      working \in {"RUNNER", "DEBATE", "WATCH", "SESSION", "ARGUMENT", "QUESTION", "BUILD", "GUARD"}
<1>1. WorkersInit => Picked
  BY DEF WorkersInit
<1>2. Picked /\ [WorkersNext]_<<runnerVars, debateVars, watchVars, sessionVars, argumentVars,
                               fanVars, buildVars, guardVars, working>> => Picked'
  BY DEF WorkersNext, RunnerWorks, DebateWorks, WatchWorks, SessionWorks, ArgumentWorks,
         QuestionWorks, BuildWorks, GuardWorks
<1>3. WorkersSpec => []Picked
  BY <1>1, <1>2, PTL DEF WorkersSpec
<1>4. /\ Picked /\ RunnerTypeOK /\ DebateTypeOK /\ WatchTypeOK /\ SessionTypeOK
      /\ ArgumentTypeOK /\ FanTypeOK /\ BuildTypeOK /\ GuardTypeOK
      => WorkersTypeOK
  BY DEF WorkersTypeOK
<1> QED
  BY CommandsAreBehaviours, RunnerTyped, DebateTyped, WatchTyped, SessionsTyped, ArgumentsTyped,
     FansTyped, BuildTyped, GuardTyped, <1>3, <1>4, PTL
=============================================================================
