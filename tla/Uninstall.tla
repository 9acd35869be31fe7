----------------------------- MODULE Uninstall -----------------------------
(***************************************************************************)
(* oo-agent uninstall on Linux (lifecycle.py uninstall), beside the daemon *)
(* it stops and a restart that a self-update has scheduled.  What          *)
(* systemctl is asked to do may fail, and the next step follows all the    *)
(* same; what root removes is removed.  systemd is external.               *)
(***************************************************************************)
EXTENDS Integers

CONSTANTS Prefixed   \* whether the agent runs from a directory of its own

ASSUME UninstallAssumption == Prefixed \in BOOLEAN

VARIABLES removal,     \* the next step of the command, "no", "aborted", or "done": exit code 0
          unitFile,    \* the unit file is there
          unitLoaded,  \* systemd knows the unit and restarts the daemon
          alive,       \* the daemon runs
          credentials, \* /etc/oo-agent holds a token
          state,       \* /var/lib/oo-agent holds a queue
          installed,   \* the files of the agent
          detached,    \* the detached shells: subset of {"restart", "remove"}
          stopped,     \* systemctl disable --now has worked
          revived      \* systemctl restart has started the daemon since

host0         == <<unitFile, unitLoaded, installed>>
files         == <<credentials, state>>
history       == <<stopped, revived>>
uninstallVars == <<removal, alive, detached, host0, files, history>>

UninstallInit ==
    /\ removal = "no" /\ unitFile = TRUE /\ unitLoaded = TRUE /\ alive = TRUE
    /\ credentials = TRUE /\ state = TRUE /\ installed = TRUE
    /\ detached = {} /\ stopped = FALSE /\ revived = FALSE

\* Mutant: the directories are removed before the service is stopped.
FollowsFilesFirst(step) ==
    [no |-> "config", config |-> "state", state |-> "stop", stop |-> "unit",
     unit |-> "reload", reload |-> "done"][step]

\* The steps, in order.
Follows(step) == [no |-> "stop", stop |-> "unit", unit |-> "reload", reload |-> "config",
                  config |-> "state", state |-> "done"][step]

Step(step) == removal = step /\ removal' = Follows(step)

\* The question; --yes answers it.
Confirm ==
    /\ Step("no") \/ (removal = "no" /\ removal' = "aborted")
    /\ UNCHANGED <<alive, detached, host0, files, history>>

\* systemctl disable --now: its exit code is not looked at.
StopService ==
    /\ Step("stop") /\ stopped' \in BOOLEAN
    /\ alive' = (alive /\ ~stopped')
    /\ UNCHANGED <<detached, host0, files, revived>>

RemoveUnit ==
    /\ Step("unit") /\ unitFile' = FALSE
    /\ UNCHANGED <<alive, detached, unitLoaded, installed, files, history>>

Reload ==
    /\ Step("reload") /\ unitLoaded' \in {unitLoaded, FALSE}
    /\ UNCHANGED <<alive, detached, unitFile, installed, files, history>>

RemoveConfig ==
    /\ Step("config") /\ credentials' = FALSE
    /\ UNCHANGED <<alive, detached, host0, state, history>>

\* The other directory; the removal of the prefix is left to a detached shell.
RemoveState ==
    /\ Step("state") /\ state' = FALSE
    /\ detached' = detached \cup (IF Prefixed THEN {"remove"} ELSE {})
    /\ UNCHANGED <<alive, host0, credentials, history>>

RemovePrefix ==
    /\ "remove" \in detached /\ detached' = detached \ {"remove"} /\ installed' = FALSE
    /\ UNCHANGED <<removal, alive, unitFile, unitLoaded, files, history>>

-----------------------------------------------------------------------------
\* The daemon and systemd

\* self_update has installed a release.
ScheduleRestart ==
    /\ alive /\ detached' = detached \cup {"restart"}
    /\ UNCHANGED <<removal, alive, host0, files, history>>

Restart ==
    /\ "restart" \in detached /\ detached' = detached \ {"restart"}
    /\ alive' = (alive \/ (unitLoaded /\ installed))
    /\ revived' = (revived \/ (stopped /\ alive'))
    /\ UNCHANGED <<removal, host0, files, stopped>>

\* Both create their directory.
WriteToken  == alive /\ credentials' = TRUE /\ UNCHANGED state
OpenQueue   == alive /\ credentials /\ state' = TRUE /\ UNCHANGED credentials
DaemonWrites ==
    /\ WriteToken \/ OpenQueue
    /\ UNCHANGED <<removal, alive, detached, host0, history>>

\* A crash; systemd starts it again while it knows the unit.
DaemonCrashes ==
    /\ alive /\ alive' = (unitLoaded /\ installed)
    /\ UNCHANGED <<removal, detached, host0, files, history>>

UninstallNext ==
    \/ Confirm \/ StopService \/ RemoveUnit \/ Reload \/ RemoveConfig \/ RemoveState
    \/ RemovePrefix \/ ScheduleRestart \/ Restart \/ DaemonWrites \/ DaemonCrashes

UninstallSpec == UninstallInit /\ [][UninstallNext]_uninstallVars

-----------------------------------------------------------------------------
\* Properties

\* "Stop the service and remove the agent, its config, token and state from this
\* machine." (lifecycle.py 77-78), "removed service unit, /etc/oo-agent and
\* /var/lib/oo-agent" (118): what the command reports when it exits with 0.
NothingIsLeft == removal = "done" => ~alive /\ ~credentials /\ ~state

\* So it is, for good, if systemctl could stop the service and no restart that
\* an update had scheduled revived it before systemd forgot the unit: the
\* daemon is stopped before its directories go, or it would create them again
\* (lifecycle.py 106-118).
NothingIsLeftIfStopped == stopped /\ ~revived => NothingIsLeft
=============================================================================
