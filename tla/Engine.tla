--------------------------------- MODULE Engine ---------------------------------
(* The legacy engine behind codemoot run and plan and the server's tools:    *)
(* a session of model calls in phases (plan and its review, implementation,  *)
(* code and its review), a debate of a proposer and a critic over rounds,    *)
(* and a question put to several models at once, each behind a limit on the  *)
(* calls of its kind that run at a time.  What the models say is left out:   *)
(* an artifact is the number of the call that generated it.                  *)
EXTENDS Naturals, Sequences, FiniteSets

CONSTANTS
  Iterations,    \* maxIterations of a review loop
  DebateRounds,  \* maxRounds of a debate
  StableRounds,  \* requiredStableRounds: critiques in favour that end it
  Models,        \* number of models a question is put to, in their order
  CliModel,      \* those that are called through a command line
  SlotsOf        \* limit of calls at a time, for "cli" and "api"

ASSUME EngineAssumption ==
  /\ Iterations \in Nat \ {0} /\ DebateRounds \in Nat \ {0} /\ StableRounds \in Nat \ {0}
  /\ Models \in Nat \ {0} /\ CliModel \subseteq 1..Models
  /\ SlotsOf \in [{"cli", "api"} -> Nat \ {0}]

VARIABLES
  work,          \* one session
  argument,      \* one debate of a proposer and a critic
  asked,         \* what became of the call of each model
  slots,         \* calls counted as running, by kind
  waiting,       \* models queued for a slot, by kind
  revoked,       \* the question was cancelled
  conclusion     \* what became of the question

sessionVars == <<work>>
argumentVars == <<argument>>
fanVars == <<asked, slots, waiting, revoked, conclusion>>
engineVars == <<work, argument, asked, slots, waiting, revoked, conclusion>>

(***************************************************************************)
(* Sessions.                                                               *)
(***************************************************************************)
SessionPhases == [run |-> <<"PLAN", "IMPLEMENT", "CODE">>, plan |-> <<"PLAN">>]

SessionTypeOK ==
  work \in [command: {"run", "plan"}, phase: 1..3, step: {"GENERATE", "REVIEW", "USAGE", "GONE"},
            iteration: 1..Iterations, status: {"running", "completed", "failed"},
            made: 0..(1 + 2 * Iterations),      \* artifacts generated
            judged: 0..(1 + 2 * Iterations),    \* the one reviewed last
            output: 0..(1 + 2 * Iterations),    \* finalOutput
            saved: 0..3,                        \* phases whose artifact is kept
            logged: 0..(1 + 4 * Iterations),    \* calls whose cost is logged
            total: 0..(1 + 4 * Iterations)]     \* calls the session's usage counts

SessionInit ==
  work \in {[command |-> c, phase |-> 1, step |-> "GENERATE", iteration |-> 1, status |-> "running",
             made |-> 0, judged |-> 0, output |-> 0, saved |-> 0, logged |-> 0, total |-> 0] :
            c \in {"run", "plan"}}

PhaseOf(s) == SessionPhases[s.command][s.phase]

(* A call that fails, after its retries, fails the session and costs       *)
(* nothing that is logged.                                                 *)
CallFails ==
  /\ work.step \in {"GENERATE", "REVIEW"} /\ work.status = "running"
  /\ work' = [work EXCEPT !.status = "failed", !.step = "GONE"]

(* The phase keeps its artifact; after the last the session is completed,  *)
(* and its usage is added by another statement.                            *)
PhaseEnds(s, output) ==
  LET kept == [s EXCEPT !.output = output, !.saved = @ + 1] IN
  IF s.phase = Len(SessionPhases[s.command])
    THEN [kept EXCEPT !.status = "completed", !.step = "USAGE"]
    ELSE [kept EXCEPT !.phase = @ + 1, !.step = "GENERATE", !.iteration = 1]

Generates ==
  LET s == [work EXCEPT !.made = @ + 1, !.logged = @ + 1] IN
  /\ work.step = "GENERATE"
  /\ work' = IF PhaseOf(work) = "IMPLEMENT" THEN PhaseEnds(s, s.made)
                                            ELSE [s EXCEPT !.step = "REVIEW"]

(* Seeded fault: a loop that ends unapproved delivers the round before.    *)
RoundBefore(s) == IF s.iteration = Iterations THEN s.made - 1 ELSE s.made

LastGenerated(s) == s.made

(* A score can approve a plan of the plan command from the second round.   *)
Judges(approves, scores) ==
  LET s == [work EXCEPT !.judged = work.made, !.logged = @ + 1]
      approved == approves \/ (scores /\ work.command = "plan" /\ work.iteration >= 2)
  IN
  /\ work.step = "REVIEW"
  /\ work' = IF approved \/ work.iteration = Iterations
               THEN PhaseEnds(s, LastGenerated(s))
               ELSE [s EXCEPT !.step = "GENERATE", !.iteration = @ + 1]

AddsUsage ==
  /\ work.step = "USAGE"
  /\ work' = [work EXCEPT !.total = work.logged, !.step = "GONE"]

(* The row of a session whose process died stays as it is.                 *)
SessionDies ==
  /\ work.step # "GONE" /\ work' = [work EXCEPT !.step = "GONE"]

SessionNext ==
  \/ CallFails \/ Generates \/ AddsUsage \/ SessionDies
  \/ \E approves, scores \in BOOLEAN : Judges(approves, scores)

SessionsSpec == SessionInit /\ [][SessionNext]_sessionVars

(***************************************************************************)
(* Debates.                                                                *)
(***************************************************************************)
ArgumentTypeOK ==
  argument \in [round: 1..DebateRounds, turn: {"PROPOSE", "CRITIQUE", "SUMMARISE", "OVER"},
                proposed: 0..DebateRounds,     \* round of the last proposal
                criticised: 0..DebateRounds,   \* round of the last critique
                summary: 0..DebateRounds,      \* round of the running summary
                stances: UNION {[1..n -> BOOLEAN] : n \in 0..DebateRounds},
                reason: {"none", "converged", "max_rounds", "time_budget", "failed"}]

ArgumentInit ==
  argument = [round |-> 1, turn |-> "PROPOSE", proposed |-> 0, criticised |-> 0, summary |-> 0,
              stances |-> << >>, reason |-> "none"]

ArgumentEnds(a, reason) == [a EXCEPT !.turn = "OVER", !.reason = reason]

(* A call that fails ends the debate without a result.                     *)
ArgumentFails ==
  argument.turn # "OVER" /\ argument' = ArgumentEnds(argument, "failed")

Proposes(late) ==
  LET a == [argument EXCEPT !.proposed = argument.round, !.turn = "CRITIQUE"] IN
  /\ argument.turn = "PROPOSE"
  /\ argument' = IF late THEN ArgumentEnds(a, "time_budget") ELSE a

(* The critic's last stances are all in favour.                            *)
Converged(stances) ==
  /\ Len(stances) >= StableRounds
  /\ \A i \in 1..Len(stances) : i > Len(stances) - StableRounds => stances[i]

(* Time and rounds are looked at before the stances.                       *)
StopReason(a, late) ==
  CASE late -> "time_budget"
    [] ~late /\ a.round >= DebateRounds -> "max_rounds"
    [] ~late /\ a.round < DebateRounds /\ Converged(a.stances) -> "converged"
    [] OTHER -> "none"

Criticises(supports, late) ==
  LET a == [argument EXCEPT !.criticised = argument.round, !.stances = Append(@, supports)]
      reason == StopReason(a, late)
  IN
  /\ argument.turn = "CRITIQUE"
  /\ argument' = IF reason # "none" THEN ArgumentEnds(a, reason) ELSE [a EXCEPT !.turn = "SUMMARISE"]

Summarises ==
  /\ argument.turn = "SUMMARISE"
  /\ argument' = [argument EXCEPT !.turn = "PROPOSE", !.round = @ + 1, !.summary = argument.round]

ArgumentNext ==
  \/ ArgumentFails \/ Summarises
  \/ \E late \in BOOLEAN : Proposes(late) \/ \E supports \in BOOLEAN : Criticises(supports, late)

ArgumentsSpec == ArgumentInit /\ [][ArgumentNext]_argumentVars

(***************************************************************************)
(* One question, many models.                                              *)
(***************************************************************************)
Model == 1..Models

Kinds == {"cli", "api"}

KindOf(m) == IF m \in CliModel THEN "cli" ELSE "api"

FanTypeOK ==
  /\ asked \in [Model -> {"WAITING", "ADMITTED", "CALLING", "ANSWERED", "FAILED"}]
  /\ slots \in [Kinds -> 0..Cardinality(Model)]
  /\ \A kind \in Kinds : waiting[kind] \in Seq(Model)
  /\ revoked \in BOOLEAN
  /\ conclusion \in {"none", "success", "partial", "failed"}

(* All of them ask for a slot, in their order, before any is called.       *)
Asking(kind, m) == Cardinality({n \in 1..m : KindOf(n) = kind})

FirstOfKind(m) == Asking(KindOf(m), m) <= SlotsOf[KindOf(m)]

(* Who finds no slot free waits in line, in the order of asking.           *)
Line(kind) ==
  [i \in 1..(Asking(kind, Models) - SlotsOf[kind]) |->
     CHOOSE m \in Model : KindOf(m) = kind /\ Asking(kind, m) = SlotsOf[kind] + i]

FanInit ==
  /\ asked = [m \in Model |-> IF FirstOfKind(m) THEN "ADMITTED" ELSE "WAITING"]
  /\ slots = [kind \in Kinds |-> Cardinality({m \in Model : KindOf(m) = kind /\ FirstOfKind(m)})]
  /\ waiting = [kind \in Kinds |-> Line(kind)]
  /\ revoked = FALSE
  /\ conclusion = "none"

(* Seeded fault: a released slot wakes every waiter.                       *)
EveryWaiter(line) == Len(line)

NextWaiter(line) == IF line = << >> THEN 0 ELSE 1

(* A slot that is released goes to the waiter that came first.             *)
Releases(m, outcome) ==
  LET kind == KindOf(m)
      woken == NextWaiter(waiting[kind])
      next == {waiting[kind][i] : i \in 1..woken}
  IN
  /\ asked' = [n \in Model |-> CASE n = m -> outcome
                                 [] n \in next -> "ADMITTED"
                                 [] OTHER -> asked[n]]
  /\ slots' = [slots EXCEPT ![kind] = @ - 1 + woken]
  /\ waiting' = [waiting EXCEPT ![kind] = SubSeq(@, woken + 1, Len(@))]
  /\ UNCHANGED <<revoked, conclusion>>

(* A model that is let in after the cancellation is not called any more.   *)
CallsModel(m) ==
  /\ asked[m] = "ADMITTED"
  /\ IF revoked THEN Releases(m, "FAILED")
       ELSE asked' = [asked EXCEPT ![m] = "CALLING"]
            /\ UNCHANGED <<slots, waiting, revoked, conclusion>>

ModelSettles(m, outcome) == asked[m] = "CALLING" /\ Releases(m, outcome)

QuestionRevoked ==
  ~revoked /\ revoked' = TRUE /\ UNCHANGED <<asked, slots, waiting, conclusion>>

(* Answers are put together by one more call, which takes no slot.         *)
Concludes(synthesised) ==
  LET answers == {m \in Model : asked[m] = "ANSWERED"} IN
  /\ conclusion = "none" /\ \A m \in Model : asked[m] \in {"ANSWERED", "FAILED"}
  /\ conclusion' = IF answers = {} \/ (Cardinality(answers) > 1 /\ ~synthesised) THEN "failed"
                   ELSE IF answers = Model THEN "success" ELSE "partial"
  /\ UNCHANGED <<asked, slots, waiting, revoked>>

FanNext ==
  \/ QuestionRevoked
  \/ \E synthesised \in BOOLEAN : Concludes(synthesised)
  \/ \E m \in Model :
       \/ CallsModel(m)
       \/ \E outcome \in {"ANSWERED", "FAILED"} : ModelSettles(m, outcome)

FanSpec == FanInit /\ [][FanNext]_fanVars

(***************************************************************************)
(* Properties.                                                             *)
(***************************************************************************)
(* What a session delivers, and what a debate calls settled, is the last   *)
(* artifact that was generated and the one its last review was about; the  *)
(* usage of a session counts every call that was logged for it.            *)
DeliversWhatWasJudged ==
  /\ work.status = "completed" =>
       /\ work.output = work.judged /\ work.judged = work.made
       /\ work.saved = Len(SessionPhases[work.command])
       /\ work.total \in {0, work.logged}
  /\ argument.reason = "converged" =>
       argument.proposed = argument.criticised /\ Converged(argument.stances)

(* The calls of a kind that run at a time never exceed its limit, and no   *)
(* model waits while a slot of its kind is free.                           *)
SlotsBounded ==
  \A kind \in Kinds :
    LET holders == {m \in Model : asked[m] \in {"ADMITTED", "CALLING"} /\ KindOf(m) = kind} IN
    /\ slots[kind] = Cardinality(holders) /\ slots[kind] <= SlotsOf[kind]
    /\ waiting[kind] # << >> => Cardinality(holders) = SlotsOf[kind]
=============================================================================
