---------------------------- MODULE DesktopDaemon ----------------------------
(***************************************************************************)
(* The daemon manager of the desktop app: the state it shows, the poll of  *)
(* /health, the start, stop and restart of the daemon through the CLI, the *)
(* deferred restart after a CLI update and the probe of the login.  The    *)
(* manager is one thread; operations interleave at their awaits.           *)
(***************************************************************************)
EXTENDS Integers

CONSTANTS
  Guarded,     \* the slot of the operations under withGuard
  Background,  \* slots of auto-start, re-authentication and version restarts
  MaxTrouble   \* bound: user operations, deaths, failures, tasks, lost logins together

ASSUME DesktopAssumption == Guarded \notin Background /\ MaxTrouble \in Nat

VARIABLES
  launched,    \* bootstrapCli has started the poll
  proc,        \* the daemon process: off, booting or up
  updated,     \* it runs the bundled CLI version
  busy,        \* it executes a task
  login,       \* the server accepts its token
  shown,       \* currentState
  attempt,     \* startingSince is set; "late" once AUTH_PROBE_GRACE_MS have passed
  probed,      \* authProbeDone
  expired,     \* authExpired
  pendingVersionRestart,
  ops,         \* the operation in each slot: its next step, and whether it restarts
  poll,        \* the /health answer a poll has got, or "probe", or "none"
  failed,      \* history: a CLI call has failed
  trouble

daemonVars == <<launched, proc, updated, busy, login, shown, attempt, probed, expired,
                pendingVersionRestart, ops, poll, failed, trouble>>
worldVars == <<proc, updated, busy, login>>
attemptVars == <<attempt, probed, expired>>

Slots == {Guarded} \cup Background
IdleOp == [pc |-> "idle", restart |-> FALSE]
DesktopInit ==
  /\ launched = FALSE
  /\ proc \in {"off", "up"} /\ updated = FALSE /\ busy = FALSE /\ login = TRUE
  /\ shown = "installing_cli"
  /\ attempt = "none" /\ probed = FALSE /\ expired = FALSE
  /\ pendingVersionRestart = FALSE
  /\ ops = [o \in Slots |-> IdleOp]
  /\ poll = "none"
  /\ failed = FALSE /\ trouble = 0

Step(o, from, to) == ops[o].pc = from /\ ops' = [ops EXCEPT ![o].pc = to]
Trouble == trouble < MaxTrouble /\ trouble' = trouble + 1
(* a daemon binds /health at some point of its boot *)
Health == CASE proc = "up" -> {"running"} [] proc = "booting" -> {"starting", "nothing"}
            [] proc = "off" -> {"nothing"}

-----------------------------------------------------------------------------
(* Operations *)

(* bootstrapCli *)
Launch ==
  /\ ~launched /\ launched' = TRUE /\ shown' = "stopped"
  /\ UNCHANGED <<worldVars, attemptVars, pendingVersionRestart, ops, poll, failed, trouble>>

(* daemon:start, daemon:stop, daemon:restart are refused while one is in progress *)
UserOperation ==
  /\ launched /\ ops[Guarded].pc = "idle" /\ Trouble
  /\ \E op \in {[pc |-> "start", restart |-> FALSE], [pc |-> "stop", restart |-> FALSE],
                [pc |-> "stop", restart |-> TRUE]} :
       ops' = [ops EXCEPT ![Guarded] = op]
  /\ UNCHANGED <<launched, worldVars, shown, attemptVars, pendingVersionRestart, poll, failed>>

(* daemon:auto-start after a sign-in *)
AutoStart(o) ==
  /\ launched /\ Trouble /\ Step(o, "idle", "auto")
  /\ UNCHANGED <<launched, worldVars, shown, attemptVars, pendingVersionRestart, poll, failed>>
AutoStartChecks(o) ==
  /\ \E h \in Health : Step(o, "auto", IF h = "running" THEN "version" ELSE "start")
  /\ UNCHANGED <<launched, worldVars, shown, attemptVars, pendingVersionRestart, poll, failed,
                 trouble>>

(* daemon:reauthenticate: a new token, then a restart *)
Reauthenticate(o) ==
  /\ launched /\ ~login /\ login' = TRUE
  /\ ops[o].pc = "idle" /\ ops' = [ops EXCEPT ![o] = [pc |-> "stop", restart |-> TRUE]]
  /\ UNCHANGED <<launched, proc, updated, busy, shown, attemptVars, pendingVersionRestart, poll,
                 failed, trouble>>

VersionCheck_OnceDeferred(o) ==  \* mutant: a restart deferred again is forgotten
  /\ ops[o].pc = "version"
  /\ pendingVersionRestart' = (proc = "up" /\ ~updated /\ busy /\ ~pendingVersionRestart)
  /\ ops' = [ops EXCEPT ![o] = IF proc = "up" /\ ~updated /\ ~busy
                               THEN [pc |-> "stop", restart |-> TRUE] ELSE IdleOp]
  /\ UNCHANGED <<launched, worldVars, shown, attemptVars, poll, failed, trouble>>
(* ensureRunningDaemonVersionMatches, decideVersionAction *)
VersionCheck(o) ==
  /\ ops[o].pc = "version"
  /\ pendingVersionRestart' = (proc = "up" /\ ~updated /\ busy)
  /\ ops' = [ops EXCEPT ![o] = IF proc = "up" /\ ~updated /\ ~busy
                               THEN [pc |-> "stop", restart |-> TRUE] ELSE IdleOp]
  /\ UNCHANGED <<launched, worldVars, shown, attemptVars, poll, failed, trouble>>

StopDaemon(o) ==
  /\ Step(o, "stop", "stopping")
  /\ shown' = "stopping" /\ expired' = FALSE /\ attempt' = "none"
  /\ UNCHANGED <<launched, worldVars, probed, pendingVersionRestart, poll, failed, trouble>>
(* the CLI returns; a failed stop ends a restart *)
Stopped(o) ==
  /\ ops[o].pc = "stopping" /\ shown' = "stopped"
  /\ \/ /\ proc' = "off" /\ busy' = FALSE
        /\ ops' = [ops EXCEPT ![o] = IF ops[o].restart THEN [pc |-> "start", restart |-> FALSE]
                                     ELSE IdleOp]
        /\ UNCHANGED <<failed, trouble>>
     \/ /\ Trouble /\ failed' = TRUE
        /\ ops' = [ops EXCEPT ![o] = IdleOp]
        /\ UNCHANGED <<proc, busy>>
  /\ UNCHANGED <<launched, updated, login, attemptVars, pendingVersionRestart, poll>>

StartDaemon(o) ==
  \E h \in Health :
    \/ h # "nothing" /\ Step(o, "start", "idle") /\ UNCHANGED <<shown, attemptVars>>
    \/ h = "nothing" /\ Step(o, "start", "starting")
       /\ shown' = "starting" /\ attempt' = "early" /\ probed' = FALSE /\ expired' = FALSE
StartDaemonStep(o) ==
  /\ StartDaemon(o)
  /\ UNCHANGED <<launched, worldVars, pendingVersionRestart, poll, failed, trouble>>
(* the CLI returns: the process is spawned, or one is there already, or it failed *)
Started(o) ==
  /\ Step(o, "starting", "idle")
  /\ \/ /\ proc = "off" /\ proc' = "booting" /\ updated' = TRUE
        /\ UNCHANGED <<shown, failed, trouble>>
     \/ proc # "off" /\ shown' = "stopped" /\ UNCHANGED <<proc, updated, failed, trouble>>
     \/ Trouble /\ failed' = TRUE /\ shown' = "stopped" /\ UNCHANGED <<proc, updated>>
  /\ UNCHANGED <<launched, busy, login, attemptVars, pendingVersionRestart, poll>>

-----------------------------------------------------------------------------
(* The poll: fetchHealth and pollOnce *)

PollReads ==
  /\ launched /\ poll = "none" /\ poll' \in Health
  /\ UNCHANGED <<launched, worldVars, shown, attemptVars, pendingVersionRestart, ops, failed,
                 trouble>>

ProbeDue == shown = "starting" /\ ~expired /\ ~probed /\ attempt = "late"
PollProbes ==
  /\ poll \in {"starting", "nothing"} /\ ProbeDue
  /\ probed' = TRUE /\ poll' = IF poll = "starting" THEN "probe_starting" ELSE "probe"
  /\ UNCHANGED <<launched, worldVars, shown, attempt, expired, pendingVersionRestart, ops,
                 failed, trouble>>
(* 401, or no conclusion; the verdict is of the token at this time *)
ProbeAnswers ==
  /\ poll \in {"probe", "probe_starting"}
  /\ expired' \in {expired, expired \/ ~login}
  /\ shown' = IF expired' THEN "auth_expired"
              ELSE IF poll = "probe_starting" \/ shown = "starting" THEN "starting" ELSE "stopped"
  /\ poll' = "none"
  /\ UNCHANGED <<launched, worldVars, attempt, probed, pendingVersionRestart, ops, failed,
                 trouble>>

PollFindsNone_KeepsState ==  \* mutant: a daemon that does not answer changes nothing
  /\ poll \in {"starting", "nothing"} /\ ~ProbeDue
  /\ shown' = IF expired THEN "auth_expired" ELSE IF poll = "starting" THEN "starting" ELSE shown
  /\ poll' = "none"
  /\ UNCHANGED <<launched, worldVars, attemptVars, pendingVersionRestart, ops, failed, trouble>>
PollFindsNone ==
  /\ poll \in {"starting", "nothing"} /\ ~ProbeDue
  /\ shown' = IF expired THEN "auth_expired"
              ELSE IF poll = "starting" \/ shown = "starting" THEN "starting" ELSE "stopped"
  /\ poll' = "none"
  /\ UNCHANGED <<launched, worldVars, attemptVars, pendingVersionRestart, ops, failed, trouble>>

(* a deferred version restart is tried again *)
PollFindsRunning ==
  /\ poll = "running" /\ poll' = "none" /\ shown' = "running"
  /\ expired' = FALSE /\ attempt' = "none"
  /\ \/ pendingVersionRestart /\ \E o \in Background : Step(o, "idle", "version")
     \/ /\ ~pendingVersionRestart \/ \A o \in Background : ops[o].pc # "idle"
        /\ UNCHANGED ops
  /\ UNCHANGED <<launched, worldVars, probed, pendingVersionRestart, failed, trouble>>

GraceEnds ==
  /\ attempt = "early" /\ attempt' = "late"
  /\ UNCHANGED <<launched, worldVars, shown, probed, expired, pendingVersionRestart, ops, poll,
                 failed, trouble>>

-----------------------------------------------------------------------------
(* The daemon *)

Boots ==
  /\ proc = "booting"
  /\ proc' = IF login THEN "up" ELSE "off"
  /\ UNCHANGED <<launched, updated, busy, login, shown, attemptVars, pendingVersionRestart, ops,
                 poll, failed, trouble>>
Dies ==
  /\ proc # "off" /\ Trouble /\ proc' = "off" /\ busy' = FALSE
  /\ UNCHANGED <<launched, updated, login, shown, attemptVars, pendingVersionRestart, ops, poll,
                 failed>>
TaskArrives ==
  /\ proc = "up" /\ ~busy /\ Trouble /\ busy' = TRUE
  /\ UNCHANGED <<launched, proc, updated, login, shown, attemptVars, pendingVersionRestart, ops,
                 poll, failed>>
TaskDone ==
  /\ busy /\ busy' = FALSE
  /\ UNCHANGED <<launched, proc, updated, login, shown, attemptVars, pendingVersionRestart, ops,
                 poll, failed, trouble>>
LoginExpires ==
  /\ launched /\ login /\ Trouble /\ login' = FALSE
  /\ UNCHANGED <<launched, proc, updated, busy, shown, attemptVars, pendingVersionRestart, ops,
                 poll, failed>>

OperationStep(o) ==
  AutoStartChecks(o) \/ VersionCheck(o) \/ StopDaemon(o) \/ Stopped(o) \/ StartDaemonStep(o)
  \/ Started(o)
PollEnds == PollProbes \/ ProbeAnswers \/ PollFindsNone \/ PollFindsRunning

DesktopNext ==
  \/ Launch \/ UserOperation
  \/ \E o \in Background : AutoStart(o) \/ Reauthenticate(o)
  \/ \E o \in Slots : OperationStep(o)
  \/ PollReads \/ PollEnds \/ GraceEnds
  \/ Boots \/ Dies \/ TaskArrives \/ TaskDone \/ LoginExpires

(* Calls of the CLI and of /health have timeouts, the poll has an interval timer, tasks
   and boots end *)
DesktopFairness ==
  /\ \A o \in Slots : WF_daemonVars(OperationStep(o))
  /\ WF_daemonVars(PollReads \/ PollEnds) /\ WF_daemonVars(GraceEnds)
  /\ WF_daemonVars(Boots) /\ WF_daemonVars(TaskDone)

-----------------------------------------------------------------------------
(* Properties *)

ShownIsTrue == IF proc = "off" THEN shown \in {"stopped", "auth_expired"} ELSE shown = "running"
(* a start whose daemon went away, whose one probe found nothing wrong with the login, or
   that the app has not begun itself *)
SpinsForever == shown = "starting" /\ proc = "off" /\ (probed \/ attempt = "none")

(* Whatever polls, operations, probes and the daemon do to each other, the app comes to
   show the true state of the daemon for good, the spinner of a lost start excepted *)
ShownComesTrue == <>[](launched => ShownIsTrue \/ SpinsForever)

(* A version restart that was deferred happens once the daemon is idle, unless a CLI
   call fails or the daemon goes away *)
DeferredRestartHappens ==
  pendingVersionRestart ~> (updated \/ proc = "off" \/ failed)
=============================================================================
