----------------------------- MODULE Scheduler -----------------------------
(***************************************************************************)
(* core/scheduler.py: the single-threaded loop that runs the due           *)
(* collectors, backs off the ones that raise, assembles one payload per    *)
(* pass and hands it to the sink; with the service manager that restarts   *)
(* it and kills it when the watchdog is not pinged.                        *)
(*                                                                         *)
(* Monotonic time is kept as what is left of each timer: retryIn[c] is     *)
(* max(retry_at - now, 0), nextIn[c] is max(next_run - now, 0).  Collectors *)
(* and the sink are external: a call takes some time and ends in one of    *)
(* the outcomes the code tells apart.                                      *)
(***************************************************************************)
EXTENDS Integers, FiniteSets

CONSTANTS Collectors,   \* names of the discovered entries
          Interval,     \* entry.interval
          Behaviour,    \* the outcomes each collector may have
          Duration,     \* how long a call of each collector may take
          SinkDuration, \* how long a call of the sink may take
          Base, Ceiling,  \* _BACKOFF_BASE, _BACKOFF_MAX
          FloatLimit,   \* 1024: 2 ** k is no float from k = 1024 on
          Watchdog,     \* WatchdogSec
          MaxFailures,  \* bound: failures in a row are counted up to here
          MayStop       \* a service wrapper may ask for a stop

Outcomes ==
    {"full",       \* metrics, sensors or inventory that end up in the payload
     "sensors",    \* sensors in units that have no flat metric, nothing else
     "empty",      \* {} or None
     "raises",     \* an exception
     "malformed"}  \* a mirrored sensor without "id", or no dict at all

ASSUME SchedulerAssumption ==
    /\ Interval \in [Collectors -> Nat]
    /\ Behaviour \in [Collectors -> SUBSET Outcomes]
    /\ Duration \in [Collectors -> SUBSET Nat] /\ SinkDuration \subseteq Nat
    /\ Base \in Nat \ {0} /\ Ceiling \in Nat \ {0} /\ Base <= Ceiling
    /\ FloatLimit \in Nat /\ Watchdog \in Nat \ {0} /\ MaxFailures \in Nat
    /\ MayStop \in BOOLEAN

VARIABLES pc,        \* "down", "loop", "run", "sink", "sleep" or "exited"
          todo,      \* due collectors this pass has not run yet
          failures,  \* entry.failures
          retryIn,   \* time until entry.retry_at
          nextIn,    \* time until next_run
          failedAgo, \* time since a failure of entry.failures, up to Ceiling
          unpinged,  \* time since the last watchdog_ping
          payload,   \* the payload under assembly; see NoPayload
          stopAsked  \* should_stop()

timers == <<retryIn, nextIn, failedAgo>>
vars   == <<pc, todo, failures, timers, unpinged, payload, stopAsked>>

\* What a pass has put together: collectors whose result was merged, whether
\* "metrics" or "inventory" is non-empty, and "capabilities".
NoPayload == [from |-> {}, filled |-> FALSE, capabilities |-> {}]

Fresh == [c \in Collectors |-> 0]

LongAgo == [c \in Collectors |-> Ceiling]

TypeOK ==
    /\ pc \in {"down", "loop", "run", "sink", "sleep", "exited"}
    /\ todo \subseteq Collectors
    /\ failures \in [Collectors -> 0 .. MaxFailures]
    /\ retryIn \in [Collectors -> 0 .. Ceiling]
    /\ nextIn \in [Collectors -> Nat]
    /\ failedAgo \in [Collectors -> 0 .. Ceiling]
    /\ unpinged \in 0 .. Watchdog
    /\ payload \in [from : SUBSET Collectors, filled : BOOLEAN,
                    capabilities : SUBSET Collectors]
    /\ stopAsked \in BOOLEAN

Init ==
    /\ pc = "loop" /\ todo = {} /\ failures = Fresh
    /\ retryIn = Fresh /\ nextIn = Fresh /\ failedAgo = LongAgo
    /\ unpinged = 0 /\ payload = NoPayload /\ stopAsked = FALSE

After(timer, d) == [c \in Collectors |-> IF timer[c] > d THEN timer[c] - d ELSE 0]

Longer(d) == [c \in Collectors |-> IF failedAgo[c] + d < Ceiling THEN failedAgo[c] + d ELSE Ceiling]

\* min(_BACKOFF_BASE * 2 ** (n - 1), _BACKOFF_MAX)
Cooldown(n) ==
    IF \E k \in 0 .. n - 1 : Base * 2 ^ k >= Ceiling THEN Ceiling ELSE Base * 2 ^ (n - 1)

\* The process is gone; systemd starts it again (Restart=always).
Dies ==
    /\ pc' = "down" /\ todo' = {} /\ failures' = Fresh
    /\ retryIn' = Fresh /\ nextIn' = Fresh /\ failedAgo' = LongAgo
    /\ unpinged' = 0 /\ payload' = NoPayload

Restart ==
    /\ pc = "down" /\ pc' = "loop"
    /\ UNCHANGED <<todo, failures, timers, unpinged, payload, stopAsked>>

-----------------------------------------------------------------------------
\* run_forever

\* Mutant: retry_at is not looked at.
DueByInterval == {c \in Collectors : nextIn[c] = 0}

Due == {c \in Collectors : nextIn[c] = 0 /\ retryIn[c] = 0}

\* Mutant: a stop is only seen between two passes with nothing due.
LoopBusy ==
    /\ pc = "loop"
    /\ IF stopAsked /\ Due = {}
       THEN pc' = "exited" /\ UNCHANGED <<todo, nextIn, unpinged, payload>>
       ELSE /\ unpinged' = 0
            /\ todo' = Due
            /\ nextIn' = [c \in Collectors |-> IF c \in Due THEN Interval[c] ELSE nextIn[c]]
            /\ payload' = [NoPayload EXCEPT !.capabilities = {c \in Collectors : retryIn[c] = 0}]
            /\ pc' = IF Due = {} THEN "sleep" ELSE "run"
    /\ UNCHANGED <<failures, retryIn, failedAgo, stopAsked>>

\* Mutant: capabilities() leaves out what has failed since its last success.
LoopUnfailed ==
    /\ pc = "loop" /\ ~stopAsked
    /\ unpinged' = 0
    /\ todo' = Due
    /\ nextIn' = [c \in Collectors |-> IF c \in Due THEN Interval[c] ELSE nextIn[c]]
    /\ payload' = [NoPayload EXCEPT !.capabilities = {c \in Collectors : failures[c] = 0}]
    /\ pc' = IF Due = {} THEN "sleep" ELSE "run"
    /\ UNCHANGED <<failures, retryIn, failedAgo, stopAsked>>

\* The head of the loop.  capabilities() is computed before the pass runs.
Loop ==
    /\ pc = "loop"
    /\ IF stopAsked
       THEN pc' = "exited" /\ UNCHANGED <<todo, nextIn, unpinged, payload>>
       ELSE /\ unpinged' = 0
            /\ todo' = Due
            /\ nextIn' = [c \in Collectors |-> IF c \in Due THEN Interval[c] ELSE nextIn[c]]
            /\ payload' = [NoPayload EXCEPT !.capabilities = {c \in Collectors : retryIn[c] = 0}]
            /\ pc' = IF Due = {} THEN "sleep" ELSE "run"
    /\ UNCHANGED <<failures, retryIn, failedAgo, stopAsked>>

\* Mutant: a sleep that does not move the timers of entries in cooldown.
SleepFrozen ==
    /\ pc = "sleep" /\ pc' = "loop"
    /\ nextIn' = After(nextIn, 1) /\ failedAgo' = Longer(1)
    /\ unpinged' = IF unpinged < Watchdog THEN unpinged + 1 ELSE unpinged
    /\ UNCHANGED <<todo, failures, retryIn, payload, stopAsked>>

\* time.sleep(1)
Sleep ==
    /\ pc = "sleep" /\ pc' = "loop"
    /\ retryIn' = After(retryIn, 1) /\ nextIn' = After(nextIn, 1) /\ failedAgo' = Longer(1)
    /\ unpinged' = IF unpinged < Watchdog THEN unpinged + 1 ELSE unpinged
    /\ UNCHANGED <<todo, failures, payload, stopAsked>>

\* A call that keeps the loop from pinging for WatchdogSec is its last.
TooLong(d) == unpinged + d >= Watchdog

Takes(d) == unpinged' = unpinged + d /\ nextIn' = After(nextIn, d)

Killed ==
    /\ \/ pc = "run" /\ \E c \in todo : \E d \in Duration[c] : TooLong(d)
       \/ pc = "sink" /\ \E d \in SinkDuration : TooLong(d)
    /\ Dies /\ UNCHANGED stopAsked

\* The next entry of the pass; entries run in the order of discovery, which
\* matters to nothing here.
Calls(c, outcome, d) ==
    /\ pc = "run" /\ c \in todo /\ outcome \in Behaviour[c]
    /\ d \in Duration[c] /\ ~TooLong(d)

\* Mutant: the exception of a collector ends the pass.
BackOffEscapes(c) ==
    /\ \E d \in Duration[c] : Calls(c, "raises", d)
    /\ Dies /\ UNCHANGED stopAsked

\* Mutant: retry_at counts from the beginning of the call.
BackOffFromStart(c) ==
    \E d \in Duration[c] :
        /\ Calls(c, "raises", d) /\ Takes(d)
        /\ failures[c] < FloatLimit
        /\ failures' = [failures EXCEPT ![c] = IF @ < MaxFailures THEN @ + 1 ELSE @]
        /\ retryIn' = After([retryIn EXCEPT ![c] = Cooldown(failures[c] + 1)], d)
        /\ failedAgo' = [Longer(d) EXCEPT ![c] = 0]
        /\ todo' = todo \ {c}
        /\ UNCHANGED <<pc, payload, stopAsked>>

\* _run_entry returns a payload and _merge adds it.
Collect(c) ==
    \E outcome \in {"full", "sensors", "empty"}, d \in Duration[c] :
        /\ Calls(c, outcome, d) /\ Takes(d)
        /\ failures' = [failures EXCEPT ![c] = 0]
        /\ retryIn' = [After(retryIn, d) EXCEPT ![c] = 0]
        /\ failedAgo' = [Longer(d) EXCEPT ![c] = Ceiling]
        /\ payload' = IF outcome = "empty" THEN payload
                      ELSE [payload EXCEPT !.from = @ \cup {c},
                                           !.filled = @ \/ outcome = "full"]
        /\ todo' = todo \ {c}
        /\ UNCHANGED <<pc, stopAsked>>

\* _run_entry catches the exception and backs the entry off.
BackOff(c) ==
    \E d \in Duration[c] :
        /\ Calls(c, "raises", d) /\ Takes(d)
        /\ failures[c] < FloatLimit
        /\ failures' = [failures EXCEPT ![c] = IF @ < MaxFailures THEN @ + 1 ELSE @]
        /\ retryIn' = [After(retryIn, d) EXCEPT ![c] = Cooldown(failures[c] + 1)]
        /\ failedAgo' = [Longer(d) EXCEPT ![c] = 0]
        /\ todo' = todo \ {c}
        /\ UNCHANGED <<pc, payload, stopAsked>>

\* The product 300.0 * 2 ** (failures - 1) does not fit a float: OverflowError
\* inside the except clause, which nothing catches.
BackOffOverflows(c) ==
    /\ \E d \in Duration[c] : Calls(c, "raises", d)
    /\ failures[c] >= FloatLimit
    /\ Dies /\ UNCHANGED stopAsked

\* _merge runs outside the try of _run_entry: KeyError, AttributeError.
MergeRaises(c) ==
    /\ \E d \in Duration[c] : Calls(c, "malformed", d)
    /\ Dies /\ UNCHANGED stopAsked

\* Mutant: a pass in which a collector failed is not sent.
FinishWhole ==
    /\ pc = "run" /\ todo = {}
    /\ pc' = IF payload.filled /\ \A c \in Collectors : failures[c] = 0 THEN "sink" ELSE "sleep"
    /\ UNCHANGED <<todo, failures, timers, unpinged, payload, stopAsked>>

\* The pass is over; a payload without metrics and inventory is let go.
Finish ==
    /\ pc = "run" /\ todo = {}
    /\ pc' = IF payload.filled THEN "sink" ELSE "sleep"
    /\ UNCHANGED <<todo, failures, timers, unpinged, payload, stopAsked>>

Sink ==
    /\ pc = "sink" /\ pc' = "sleep"
    /\ \E d \in SinkDuration : /\ ~TooLong(d) /\ Takes(d)
                               /\ retryIn' = After(retryIn, d) /\ failedAgo' = Longer(d)
    /\ UNCHANGED <<todo, failures, payload, stopAsked>>

\* SvcStop of the Windows service.
AskStop ==
    /\ MayStop /\ ~stopAsked /\ stopAsked' = TRUE
    /\ UNCHANGED <<pc, todo, failures, timers, unpinged, payload>>

RunEntry == \E c \in Collectors :
                Collect(c) \/ BackOff(c) \/ BackOffOverflows(c) \/ MergeRaises(c)

Stopped == pc = "exited" /\ UNCHANGED vars

Next ==
    \/ Restart \/ Loop \/ Sleep \/ RunEntry \/ Finish \/ Sink \/ Killed
    \/ AskStop \/ Stopped

Spec == Init /\ [][Next]_vars

\* The loop never waits for anything but calls that return or are killed,
\* and systemd restarts the process.
FairSpec ==
    Spec /\ WF_vars(Restart \/ Loop \/ Sleep \/ RunEntry \/ Finish \/ Sink \/ Killed)

-----------------------------------------------------------------------------
\* Properties

\* "The agent itself never dies because of one broken collector"
\* (scheduler.py 7-8).
Survives == pc /= "down"

\* What is left of the cooldown that n failures in a row ask for.
Owed(n, ago) == IF n > 0 /\ Cooldown(n) > ago THEN Cooldown(n) - ago ELSE 0

\* A collector waits for exactly what its failures in a row ask for, counted
\* from the end of the call that failed last: as long as that and no longer,
\* whatever the other calls, the sink and the sleeps of the loop take, and not at
\* all after a success (scheduler.py 45-51).
BackedOffByFailures ==
    \A c \in Collectors : retryIn[c] = Owed(failures[c], failedAgo[c])

\* A collector that raises is retried "at exponentially growing" distance: in
\* a pass it is called only when its whole cooldown is over, however slow the
\* other collectors of the pass are (scheduler.py 126-134).
NotCalledInCooldown ==
    [][\A c \in Collectors : c \in todo /\ c \notin todo' /\ pc' = "run" => retryIn[c] = 0]_vars

\* "one transient hiccup must not silence a source until restart"
\* (scheduler.py 4-8): every collector is called again and again, whatever it
\* and the others raise.
KeepsCalling ==
    \A c \in Collectors : []<>(stopAsked \/ (pc = "run" /\ c \in todo))

\* A healthy collector is heard: payloads with its results keep reaching the
\* sink, whatever the others do ("a broken library disables that collector
\* only, the agent keeps running", README 15-16).
Healthy == {c \in Collectors : Behaviour[c] = {"full"}}

KeepsReporting ==
    \A c \in Healthy : []<>(stopAsked \/ (pc = "sink" /\ c \in payload.from))

\* Whatever a payload carries comes from a collector it lists in
\* "capabilities", which is computed before the collectors of the pass run
\* (scheduler.py 86-105; docs/PAYLOAD.md 53-54: the collectors "that
\* initialized successfully this run"): also when a collector comes back
\* from a cooldown in that very pass, or another one of the pass fails.
SourcesAreListed == pc = "sink" => payload.from \subseteq payload.capabilities

\* A stop that is asked for happens (scheduler.py 118-123).
StopsWhenAsked == stopAsked ~> pc = "exited"
=============================================================================
