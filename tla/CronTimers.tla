----------------------------- MODULE CronTimers -----------------------------
(***************************************************************************)
(* The systemd timers of CronCollector (collectors/cron.py, _timer_jobs):  *)
(* systemctl is asked three times, for the list of the timers, for the     *)
(* timers and for the services they start, while jobs start and end, and   *)
(* any of the three calls may fail (_run then returns "").                 *)
(*                                                                         *)
(* systemd is external.  A time stamp is reduced to whether there is one.  *)
(***************************************************************************)
EXTENDS Integers

CONSTANTS Timers,
          Persistent   \* the timers whose last trigger survives a reboot

ASSUME TimersAssumption == Persistent \subseteq Timers

VARIABLES triggered, \* the timers that have a LastTriggerUSec
          started,   \* the timers whose service has an ExecMainStartTimestamp
          result,    \* Result of the service of each
          running,   \* the timers whose service is running
          ended,     \* how the last run ended: "never", "ok" or "failed"
          settled,   \* the timers whose Result is that of an ended run
          call,      \* the call of the pass that is next, or "none"
          shown,     \* the timers that the second call showed
          wasTriggered, \* those of them that had a LastTriggerUSec
          status     \* last_status of each timer that the last pass shipped

systemd    == <<triggered, started, result, running, ended, settled>>
timerVars  == <<systemd, call, shown, wasTriggered, status>>

NoStatus == [t \in {} |-> "unknown"]

TimersInit ==
    /\ triggered = {} /\ started = {} /\ running = {} /\ settled = {}
    /\ result = [t \in Timers |-> "success"] /\ ended = [t \in Timers |-> "never"]
    /\ call = "none" /\ shown = {} /\ wasTriggered = {} /\ status = NoStatus

-----------------------------------------------------------------------------
\* systemd

Trigger(t) ==
    /\ t \notin running
    /\ triggered' = triggered \cup {t} /\ started' = started \cup {t}
    /\ running' = running \cup {t} /\ settled' = settled \ {t}
    /\ result' = [result EXCEPT ![t] = "success"]
    /\ UNCHANGED <<ended, call, shown, wasTriggered, status>>

End(t) ==
    /\ t \in running /\ running' = running \ {t} /\ settled' = settled \cup {t}
    /\ \E how \in {"ok", "failed"} :
          /\ ended' = [ended EXCEPT ![t] = how]
          /\ result' = [result EXCEPT ![t] = IF how = "ok" THEN "success" ELSE "exit-code"]
    /\ UNCHANGED <<triggered, started, call, shown, wasTriggered, status>>

\* A reboot forgets the runs; the agent starts anew.
Reboot ==
    /\ triggered' = triggered \cap Persistent /\ started' = {} /\ running' = {}
    /\ settled' = {} /\ result' = [t \in Timers |-> "success"]
    /\ call' = "none" /\ shown' = {} /\ wasTriggered' = {} /\ status' = NoStatus
    /\ UNCHANGED ended

-----------------------------------------------------------------------------
\* The pass

ListTimers ==
    /\ call = "none" /\ call' = "timers"
    /\ UNCHANGED <<systemd, shown, wasTriggered, status>>

\* The list and the timers; without a list there is nothing to show.
ShowTimers ==
    /\ call = "timers" /\ call' = "services"
    /\ shown' \in {Timers, {}} /\ wasTriggered' = triggered \cap shown'
    /\ UNCHANGED <<systemd, status>>

\* Mutant: only the timer can tell whether the job has ever run.
LastStatusByTimer(t, answered) ==
    CASE t \notin wasTriggered                    -> "unknown"
      [] answered /\ result[t] = "success"      -> "ok"
      [] OTHER                                  -> "failed"

\* The last run by the service's start or the timer's last trigger, then
\* "ok" for a Result of "success", "failed" for any other and for none.
LastStatus(t, answered) ==
    CASE ~(answered /\ t \in started) /\ t \notin wasTriggered -> "unknown"
      [] answered /\ result[t] = "success"      -> "ok"
      [] OTHER                                  -> "failed"

\* The third call, and the rows that are shipped.
ShowServices(answered) ==
    /\ call = "services" /\ call' = "none"
    /\ status' = [t \in shown |-> LastStatus(t, answered)]
    /\ shown' = {} /\ wasTriggered' = {} /\ UNCHANGED systemd

TimersNext ==
    \/ ListTimers \/ ShowTimers \/ ShowServices(TRUE) \/ ShowServices(FALSE)
    \/ \E t \in Timers : Trigger(t) \/ End(t)
    \/ Reboot

TimersSpec == TimersInit /\ [][TimersNext]_timerVars

-----------------------------------------------------------------------------
\* Properties

\* "ok / failed - systemd timers only; the platform records real results there"
\* (docs/PAYLOAD.md:303-304): a job whose last run has ended in this boot and
\* that has not started again is shipped as what that run was, also when it
\* started or ended between two of the calls - as long as the services answer
\* (cron.py 457-470).
StatusTellsLastRun ==
    [][ ShowServices(TRUE) =>
          \A t \in shown \cap settled : status'[t] = ended[t] ]_timerVars
=============================================================================
