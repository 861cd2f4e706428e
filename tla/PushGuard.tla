-------------------------------- MODULE PushGuard -------------------------------
(* The push address of the repository while autonomous runs are under way.   *)
(* A run replaces remote.origin.pushurl by a blocking one, having saved the   *)
(* user's in a file, puts the saved one back for its own pushes, and when it  *)
(* ends.  Runs of a workflow and relays share the key and the file, and       *)
(* nothing keeps them apart; each git command and file access is a step.      *)
CONSTANTS
  GuardedRun,    \* processes that run a workflow or a relay
  UserUrl        \* the user's setting: an address, or that there is none

ASSUME GuardAssumption == UserUrl \notin {"BLOCKED", "NOTHING"}

VARIABLES
  pushurl,       \* the setting in the repository's configuration
  original,      \* the file original-pushurl, NOTHING before it is written
  guarded,       \* what each run is doing
  unread,        \* the setting each run has read
  abandoned      \* a run ended without taking its guard out

guardVars == <<pushurl, original, guarded, unread, abandoned>>

PushUrl == {UserUrl, "BLOCKED"}

GuardTypeOK ==
  /\ pushurl \in PushUrl
  /\ original \in PushUrl \cup {"NOTHING"}
  /\ guarded \in [GuardedRun -> {"OUT", "SAVE", "BLOCK", "RUN", "UNBLOCK", "PUSH", "RESTORE"}]
  /\ unread \in [GuardedRun -> PushUrl \cup {"NOTHING"}]
  /\ abandoned \in BOOLEAN

GuardInit ==
  /\ pushurl = UserUrl /\ original = "NOTHING"
  /\ guarded = [p \in GuardedRun |-> "OUT"] /\ unread = [p \in GuardedRun |-> "NOTHING"]
  /\ abandoned = FALSE

GuardGoes(p, from, to) == guarded[p] = from /\ guarded' = [guarded EXCEPT ![p] = to]

Reads(p, value) == unread' = [unread EXCEPT ![p] = value]

(***************************************************************************)
(* Installing the guard.                                                   *)
(***************************************************************************)
ReadsPushUrl(p) ==
  /\ GuardGoes(p, "OUT", "SAVE") /\ Reads(p, pushurl)
  /\ UNCHANGED <<pushurl, original, abandoned>>

(* Seeded fault: whatever is configured is saved as the user's.            *)
AlwaysSaved(value) == TRUE

IsUsers(value) == value # "BLOCKED"

SavesPushUrl(p) ==
  /\ GuardGoes(p, "SAVE", "BLOCK")
  /\ original' = IF IsUsers(unread[p]) THEN unread[p] ELSE original
  /\ Reads(p, "NOTHING") /\ UNCHANGED <<pushurl, abandoned>>

BlocksPush(p, from) ==
  /\ GuardGoes(p, from, "RUN") /\ pushurl' = "BLOCKED"
  /\ UNCHANGED <<original, unread, abandoned>>

(***************************************************************************)
(* A push of the run itself, and the end of the run.                       *)
(***************************************************************************)
ReadsOriginal(p, next) ==
  /\ GuardGoes(p, "RUN", next) /\ Reads(p, original)
  /\ UNCHANGED <<pushurl, original, abandoned>>

(* When none was saved the setting is taken out.                           *)
PutsBack(p, from, next) ==
  /\ GuardGoes(p, from, next) /\ pushurl' = unread[p]
  /\ Reads(p, "NOTHING") /\ UNCHANGED <<original, abandoned>>

(* A run that is killed, or a relay that finds the run taken after it       *)
(* installed its guard, leaves everything as it is.                        *)
GuardAbandoned(p) ==
  /\ guarded[p] # "OUT"
  /\ guarded' = [guarded EXCEPT ![p] = "OUT"] /\ Reads(p, "NOTHING") /\ abandoned' = TRUE
  /\ UNCHANGED <<pushurl, original>>

GuardNext ==
  \E p \in GuardedRun :
    \/ ReadsPushUrl(p) \/ SavesPushUrl(p) \/ GuardAbandoned(p)
    \/ \E from \in {"BLOCK", "PUSH"} : BlocksPush(p, from)
    \/ ReadsOriginal(p, "UNBLOCK") \/ PutsBack(p, "UNBLOCK", "PUSH")
    \/ ReadsOriginal(p, "RESTORE") \/ PutsBack(p, "RESTORE", "OUT")

GuardSpec == GuardInit /\ [][GuardNext]_guardVars

(***************************************************************************)
(* Properties.                                                             *)
(***************************************************************************)
(* The user's push address survives all runs, however they overlap, push   *)
(* and are killed: it is configured, or it is saved and a run that is      *)
(* under way still has to put it back - or one was killed, and the next    *)
(* run that ends will.                                                     *)
UserUrlKept ==
  \/ pushurl = UserUrl
  \/ original = UserUrl /\ (abandoned \/ \E p \in GuardedRun : guarded[p] # "OUT")
=============================================================================
