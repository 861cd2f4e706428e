------------------------------ MODULE MCWorkers ------------------------------
(* The runner of a workflow, and the commands that work beside it: debate,  *)
(* watch and its jobs, the engine of run and plan, build, and the guard of  *)
(* the push address.  They share no state: a behaviour picks one of them    *)
(* and leaves the others where they start.                                  *)
EXTENDS WorkflowRunner, Debate, WatchQueue, Engine, BuildRun, PushGuard

CONSTANTS p1, p2, p3

VARIABLE working

MCSlotsOf == [cli |-> 2, api |-> 1]

(* What is not picked starts in one state only.                            *)
WorkersInit ==
  /\ working \in {"RUNNER", "DEBATE", "WATCH", "SESSION", "ARGUMENT", "QUESTION", "BUILD", "GUARD"}
  /\ RunnerInit /\ DebateInit /\ WatchInit /\ SessionInit /\ ArgumentInit /\ FanInit
  /\ BuildInit /\ GuardInit
  /\ working # "RUNNER" => row.scope = Batches
  /\ working # "DEBATE" => session = NoThread
  /\ working # "SESSION" => work.command = "plan"

RunnerWorks ==
  /\ working = "RUNNER" /\ RunnerNext
  /\ UNCHANGED <<debateVars, watchVars, sessionVars, argumentVars, fanVars, buildVars, guardVars, working>>

DebateWorks ==
  /\ working = "DEBATE" /\ DebateNext
  /\ UNCHANGED <<runnerVars, watchVars, sessionVars, argumentVars, fanVars, buildVars, guardVars, working>>

WatchWorks ==
  /\ working = "WATCH" /\ WatchNext
  /\ UNCHANGED <<runnerVars, debateVars, sessionVars, argumentVars, fanVars, buildVars, guardVars, working>>

SessionWorks ==
  /\ working = "SESSION" /\ SessionNext
  /\ UNCHANGED <<runnerVars, debateVars, watchVars, argumentVars, fanVars, buildVars, guardVars, working>>

ArgumentWorks ==
  /\ working = "ARGUMENT" /\ ArgumentNext
  /\ UNCHANGED <<runnerVars, debateVars, watchVars, sessionVars, fanVars, buildVars, guardVars, working>>

QuestionWorks ==
  /\ working = "QUESTION" /\ FanNext
  /\ UNCHANGED <<runnerVars, debateVars, watchVars, sessionVars, argumentVars, buildVars, guardVars, working>>

BuildWorks ==
  /\ working = "BUILD" /\ BuildNext
  /\ UNCHANGED <<runnerVars, debateVars, watchVars, sessionVars, argumentVars, fanVars, guardVars, working>>

GuardWorks ==
  /\ working = "GUARD" /\ GuardNext
  /\ UNCHANGED <<runnerVars, debateVars, watchVars, sessionVars, argumentVars, fanVars, buildVars, working>>

WorkersNext ==
  \/ RunnerWorks \/ DebateWorks \/ WatchWorks \/ SessionWorks \/ ArgumentWorks
  \/ QuestionWorks \/ BuildWorks \/ GuardWorks

(* The runner's workers are scheduled fairly, as alone.                    *)
WorkersSpec ==
  /\ WorkersInit
  /\ [][WorkersNext]_<<runnerVars, debateVars, watchVars, sessionVars, argumentVars, fanVars, buildVars, guardVars,
                      working>>
  /\ \A p \in Process : WF_runnerVars(working = "RUNNER" /\ WorkerStep(p))

(* Nothing is claimed once a worker has lost its lease, so nothing is      *)
(* explored from there.                                                    *)
WhileTenured == ~outrun

(* The component that runs keeps its types.                                *)
WorkersTypeOK ==
  CASE working = "RUNNER" -> RunnerTypeOK
    [] working = "DEBATE" -> DebateTypeOK
    [] working = "WATCH" -> WatchTypeOK
    [] working = "SESSION" -> SessionTypeOK
    [] working = "ARGUMENT" -> ArgumentTypeOK
    [] working = "QUESTION" -> FanTypeOK
    [] working = "BUILD" -> BuildTypeOK
    [] working = "GUARD" -> GuardTypeOK
=============================================================================
