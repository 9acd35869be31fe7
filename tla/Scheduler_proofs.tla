-------------------------- MODULE Scheduler_proofs --------------------------
(***************************************************************************)
(* What the scheduler guarantees for any set of collectors, whatever they  *)
(* do, at any intervals and with any backoff.                              *)
(***************************************************************************)
EXTENDS Scheduler, FiniteSetTheorems, TLAPS

\* What a pass has still to run is not in cooldown: the entries were due when
\* the pass began, and only the call of an entry itself puts it in cooldown.
ReadyToRun ==
    /\ todo \subseteq Collectors
    /\ retryIn = [c \in Collectors |-> retryIn[c]]
    /\ \A c \in todo : retryIn[c] = 0

\* A timer that has run out stays at 0, whatever time passes.
LEMMA AfterZero ==
    ASSUME NEW timer, NEW d \in Nat, NEW c \in Collectors, timer[c] = 0
    PROVE  After(timer, d)[c] = 0
BY DEF After

\* Durations are natural numbers.
LEMMA DurationsAreNat ==
    /\ \A c \in Collectors : Duration[c] \subseteq Nat
    /\ SinkDuration \subseteq Nat
BY SchedulerAssumption DEF SchedulerAssumption

\* One call of an entry keeps what is left of the pass ready to run.
LEMMA CallKeepsReady ==
    ASSUME ReadyToRun, NEW c \in Collectors,
           Collect(c) \/ BackOff(c) \/ BackOffOverflows(c) \/ MergeRaises(c)
    PROVE  ReadyToRun'
<1>1. ASSUME NEW d \in Duration[c], NEW value,
             retryIn' = [After(retryIn, d) EXCEPT ![c] = value],
             todo' = todo \ {c}
      PROVE  ReadyToRun'
  <2>1. d \in Nat
    BY <1>1, DurationsAreNat
  <2>2. retryIn' = [b \in Collectors |-> retryIn'[b]]
    BY <1>1 DEF After
  <2>3. \A b \in todo' : retryIn'[b] = 0
    <3>. SUFFICES ASSUME NEW b \in todo'
                  PROVE  retryIn'[b] = 0
      OBVIOUS
    <3>1. b \in Collectors /\ b /= c /\ retryIn[b] = 0
      BY <1>1 DEF ReadyToRun
    <3>2. retryIn'[b] = After(retryIn, d)[b]
      BY <1>1, <3>1 DEF After
    <3>. QED
      BY <2>1, <3>1, <3>2, AfterZero
  <2>. QED
    BY <1>1, <2>2, <2>3 DEF ReadyToRun
<1>2. CASE Collect(c)
  BY <1>1, <1>2 DEF Collect
<1>3. CASE BackOff(c)
  BY <1>1, <1>3 DEF BackOff
<1>4. CASE BackOffOverflows(c) \/ MergeRaises(c)
  BY <1>4 DEF BackOffOverflows, MergeRaises, Dies, ReadyToRun, Fresh
<1>. QED
  BY <1>2, <1>3, <1>4

\* ReadyToRun is an invariant of the scheduler.
THEOREM Readiness == Spec => []ReadyToRun
<1>1. Init => ReadyToRun
  BY DEF Init, ReadyToRun, Fresh
<1>2. ReadyToRun /\ [Next]_vars => ReadyToRun'
  <2>. SUFFICES ASSUME ReadyToRun, [Next]_vars
                PROVE  ReadyToRun'
    OBVIOUS
  <2>1. CASE Restart
    BY <2>1 DEF Restart, ReadyToRun, timers
  <2>2. CASE Loop
    BY <2>2 DEF Loop, ReadyToRun, Due
  <2>3. CASE Sleep
    <3>1. \A c \in todo : After(retryIn, 1)[c] = 0
      BY AfterZero DEF ReadyToRun
    <3>. QED
      BY <2>3, <3>1 DEF Sleep, ReadyToRun, After
  <2>4. CASE RunEntry
    BY <2>4, CallKeepsReady DEF RunEntry
  <2>5. CASE Finish
    BY <2>5 DEF Finish, ReadyToRun, timers
  <2>6. CASE Sink
    <3>1. PICK d \in SinkDuration : retryIn' = After(retryIn, d)
      BY <2>6 DEF Sink
    <3>2. todo' = todo
      BY <2>6 DEF Sink
    <3>3. \A c \in todo : After(retryIn, d)[c] = 0
      BY DurationsAreNat, AfterZero DEF ReadyToRun
    <3>. QED
      BY <3>1, <3>2, <3>3 DEF ReadyToRun, After
  <2>7. CASE Killed
    BY <2>7 DEF Killed, Dies, ReadyToRun, Fresh
  <2>8. CASE AskStop \/ Stopped \/ UNCHANGED vars
    BY <2>8 DEF AskStop, Stopped, vars, timers, ReadyToRun
  <2>. QED
    BY <2>1, <2>2, <2>3, <2>4, <2>5, <2>6, <2>7, <2>8 DEF Next
<1>. QED
  BY <1>1, <1>2, PTL DEF Spec

\* A collector is called only when its whole cooldown is over
\* (scheduler.py 126-134), for any number of collectors, any outcomes, any
\* durations and any backoff, and across restarts and watchdog kills.
THEOREM NeverCalledInCooldown == Spec => NotCalledInCooldown
<1>1. ReadyToRun =>
        (\A c \in Collectors : c \in todo /\ c \notin todo' /\ pc' = "run" => retryIn[c] = 0)
  BY DEF ReadyToRun
<1>. QED
  BY <1>1, Readiness, PTL DEF NotCalledInCooldown

-----------------------------------------------------------------------------
\* What a pass has still to run, and what it has heard, is in the list that
\* was computed at its beginning.
Listed ==
    /\ payload \in [from : SUBSET Collectors, filled : BOOLEAN,
                    capabilities : SUBSET Collectors]
    /\ pc \in {"run", "sink"} => payload.from \cup todo \subseteq payload.capabilities

\* Nothing is left of a pass when the process dies.
LEMMA DeathKeepsListed == Dies => Listed'
<1>. SUFFICES ASSUME Dies PROVE Listed'
  OBVIOUS
<1>1. pc' = "down" /\ payload' = NoPayload
  BY DEF Dies
<1>2. NoPayload \in [from : SUBSET Collectors, filled : BOOLEAN,
                    capabilities : SUBSET Collectors]
  BY DEF NoPayload
<1>. QED
  BY <1>1, <1>2 DEF Listed

\* No call of an entry takes anything off the list.
LEMMA CallKeepsListed ==
    ASSUME Listed, NEW c \in Collectors,
           Collect(c) \/ BackOff(c) \/ BackOffOverflows(c) \/ MergeRaises(c)
    PROVE  Listed'
<1>1. CASE Collect(c)
  <2>1. PICK outcome \in {"full", "sensors", "empty"}, d \in Duration[c] :
            /\ Calls(c, outcome, d)
            /\ payload' = IF outcome = "empty" THEN payload
                          ELSE [payload EXCEPT !.from = @ \cup {c},
                                               !.filled = @ \/ outcome = "full"]
            /\ todo' = todo \ {c}
            /\ pc' = pc
    BY <1>1 DEF Collect
  <2>2. pc = "run" /\ c \in todo
    BY <2>1 DEF Calls
  <2>3. payload.from \cup todo \subseteq payload.capabilities
    BY <2>2 DEF Listed
  <2>4. CASE outcome = "empty"
    BY <2>1, <2>3, <2>4 DEF Listed
  <2>5. CASE outcome /= "empty"
    <3>1. /\ payload'.from = payload.from \cup {c}
          /\ payload'.capabilities = payload.capabilities
          /\ payload' \in [from : SUBSET Collectors, filled : BOOLEAN,
                           capabilities : SUBSET Collectors]
      BY <2>1, <2>5 DEF Listed
    <3>. QED
      BY <2>1, <2>2, <2>3, <3>1 DEF Listed
  <2>. QED
    BY <2>4, <2>5
<1>2. CASE BackOff(c)
  BY <1>2 DEF BackOff, Listed
<1>3. CASE BackOffOverflows(c) \/ MergeRaises(c)
  BY <1>3, DeathKeepsListed DEF BackOffOverflows, MergeRaises
<1>. QED
  BY <1>1, <1>2, <1>3

\* The list is complete from the first call of a pass to the sink.
THEOREM ListedEver == Spec => []Listed
<1>1. Init => Listed
  BY DEF Init, Listed, NoPayload
<1>2. Listed /\ [Next]_vars => Listed'
  <2>. SUFFICES ASSUME Listed, [Next]_vars
                PROVE  Listed'
    OBVIOUS
  <2>1. CASE Restart
    BY <2>1 DEF Restart, Listed
  <2>2. CASE Loop
    <3>1. CASE stopAsked
      BY <2>2, <3>1 DEF Loop, Listed
    <3>2. CASE ~stopAsked
      <4>1. /\ todo' = Due
            /\ payload' = [NoPayload EXCEPT !.capabilities = {c \in Collectors : retryIn[c] = 0}]
        BY <2>2, <3>2 DEF Loop
      <4>. QED
        BY <4>1 DEF Due, NoPayload, Listed
    <3>. QED
      BY <3>1, <3>2
  <2>3. CASE Sleep
    BY <2>3 DEF Sleep, Listed
  <2>4. CASE RunEntry
    BY <2>4, CallKeepsListed DEF RunEntry
  <2>5. CASE Finish
    BY <2>5 DEF Finish, Listed
  <2>6. CASE Sink
    BY <2>6 DEF Sink, Listed
  <2>7. CASE Killed
    BY <2>7, DeathKeepsListed DEF Killed
  <2>8. CASE AskStop \/ Stopped \/ UNCHANGED vars
    BY <2>8 DEF AskStop, Stopped, vars, Listed
  <2>. QED
    BY <2>1, <2>2, <2>3, <2>4, <2>5, <2>6, <2>7, <2>8 DEF Next
<1>. QED
  BY <1>1, <1>2, PTL DEF Spec

\* A payload that reaches the sink lists the source of everything it carries
\* (scheduler.py 86-105), for any collectors, outcomes, durations and
\* backoff, and across restarts and watchdog kills.
THEOREM SourcesAlwaysListed == Spec => []SourcesAreListed
<1>1. Listed => SourcesAreListed
  BY DEF Listed, SourcesAreListed
<1>. QED
  BY <1>1, ListedEver, PTL

-----------------------------------------------------------------------------
\* The cooldown

\* A power of two counts the subsets of a set.
LEMMA PowerOfTwo ==
    ASSUME NEW n \in Nat
    PROVE  2 ^ n \in Nat
<1>1. IsFiniteSet(1 .. n) /\ Cardinality(1 .. n) = n
  BY FS_Interval
<1>2. IsFiniteSet(SUBSET (1 .. n)) /\ Cardinality(SUBSET (1 .. n)) = 2 ^ n
  BY <1>1, FS_SUBSET
<1>. QED
  BY <1>2, FS_CardinalityType

\* What an entry is made to wait is a time, and never more than _BACKOFF_MAX
\* (scheduler.py 49-51).
LEMMA CooldownIsCapped ==
    ASSUME NEW n \in Nat, n >= 1
    PROVE  Cooldown(n) \in 0 .. Ceiling
<1>1. Base \in Nat /\ Ceiling \in Nat
  BY SchedulerAssumption DEF SchedulerAssumption
<1>2. CASE \E k \in 0 .. n - 1 : Base * 2 ^ k >= Ceiling
  BY <1>1, <1>2 DEF Cooldown
<1>3. CASE ~ \E k \in 0 .. n - 1 : Base * 2 ^ k >= Ceiling
  <2>1. n - 1 \in 0 .. n - 1 /\ n - 1 \in Nat
    OBVIOUS
  <2>2. 2 ^ (n - 1) \in Nat
    BY <2>1, PowerOfTwo
  <2>3. ~(Base * 2 ^ (n - 1) >= Ceiling)
    BY <1>3, <2>1
  <2>4. Base * 2 ^ (n - 1) \in 0 .. Ceiling
    BY <1>1, <2>2, <2>3
  <2>. QED
    BY <1>3, <2>4 DEF Cooldown
<1>. QED
  BY <1>2, <1>3

\* The timers are times, and the counters count.
TimesInv ==
    /\ failures \in [Collectors -> 0 .. MaxFailures]
    /\ retryIn \in [Collectors -> 0 .. Ceiling]
    /\ nextIn \in [Collectors -> Nat]
    /\ failedAgo \in [Collectors -> 0 .. Ceiling]
    /\ unpinged \in 0 .. Watchdog

LEMMA Quantities ==
    /\ Interval \in [Collectors -> Nat] /\ Ceiling \in Nat /\ MaxFailures \in Nat
    /\ Watchdog \in Nat \ {0}
  BY SchedulerAssumption DEF SchedulerAssumption

LEMMA TimePassesWithinTypes ==
    ASSUME TimesInv, NEW d \in Nat
    PROVE  /\ After(nextIn, d) \in [Collectors -> Nat]
           /\ After(retryIn, d) \in [Collectors -> 0 .. Ceiling]
           /\ Longer(d) \in [Collectors -> 0 .. Ceiling]
  BY Quantities DEF TimesInv, After, Longer

\* One call leaves the other entries alone but for the time it takes.
LEMMA CallKeepsTimes ==
    ASSUME TimesInv, NEW c \in Collectors,
           Collect(c) \/ BackOff(c) \/ BackOffOverflows(c) \/ MergeRaises(c)
    PROVE  TimesInv'
<1>1. CASE Collect(c) \/ BackOff(c)
  <2>1. PICK d \in Duration[c], n \in 0 .. MaxFailures, cooldown \in 0 .. Ceiling,
             ago \in 0 .. Ceiling :
            /\ ~TooLong(d) /\ Takes(d)
            /\ failures' = [failures EXCEPT ![c] = n]
            /\ retryIn' = [After(retryIn, d) EXCEPT ![c] = cooldown]
            /\ failedAgo' = [Longer(d) EXCEPT ![c] = ago]
    <3>1. CASE Collect(c)
      <4>1. 0 \in 0 .. MaxFailures /\ 0 \in 0 .. Ceiling /\ Ceiling \in 0 .. Ceiling
        BY Quantities
      <4>. QED
        BY <3>1, <4>1 DEF Collect, Calls
    <3>2. CASE BackOff(c)
      <4>1. failures[c] \in 0 .. MaxFailures
        BY DEF TimesInv
      <4>2. Cooldown(failures[c] + 1) \in 0 .. Ceiling
        BY <4>1, CooldownIsCapped
      <4>3. (IF failures[c] < MaxFailures THEN failures[c] + 1 ELSE failures[c])
                \in 0 .. MaxFailures
        BY <4>1, Quantities
      <4>4. PICK d \in Duration[c] :
                /\ ~TooLong(d) /\ Takes(d)
                /\ failures' = [failures EXCEPT ![c] = IF @ < MaxFailures THEN @ + 1 ELSE @]
                /\ retryIn' = [After(retryIn, d) EXCEPT ![c] = Cooldown(failures[c] + 1)]
                /\ failedAgo' = [Longer(d) EXCEPT ![c] = 0]
        BY <3>2 DEF BackOff, Calls
      <4>5. 0 \in 0 .. Ceiling
        BY Quantities
      <4>. QED
        BY <4>2, <4>3, <4>4, <4>5
    <3>. QED
      BY <1>1, <3>1, <3>2
  <2>2. d \in Nat
    BY DurationsAreNat
  <2>3. unpinged' \in 0 .. Watchdog
    BY <2>1, <2>2, Quantities DEF TooLong, Takes, TimesInv
  <2>. QED
    BY <2>1, <2>2, <2>3, TimePassesWithinTypes DEF TimesInv, Takes
<1>2. CASE BackOffOverflows(c) \/ MergeRaises(c)
  BY <1>2, Quantities DEF BackOffOverflows, MergeRaises, Dies, Fresh, LongAgo, TimesInv
<1>. QED
  BY <1>1, <1>2

LEMMA TimesStep == TimesInv /\ [Next]_vars => TimesInv'
<1>. SUFFICES ASSUME TimesInv, [Next]_vars
              PROVE  TimesInv'
  OBVIOUS
<1>1. CASE Restart \/ Finish \/ AskStop \/ Stopped \/ UNCHANGED vars
  BY <1>1 DEF Restart, Finish, AskStop, Stopped, vars, timers, TimesInv
<1>2. CASE Loop
  BY <1>2, Quantities DEF Loop, TimesInv
<1>3. CASE Sleep
  <2>1. unpinged' \in 0 .. Watchdog
    BY <1>3, Quantities DEF Sleep, TimesInv
  <2>. QED
    BY <1>3, <2>1, TimePassesWithinTypes DEF Sleep, TimesInv
<1>4. CASE RunEntry
  BY <1>4, CallKeepsTimes DEF RunEntry
<1>5. CASE Sink
  <2>1. PICK d \in SinkDuration : /\ ~TooLong(d) /\ Takes(d)
                                  /\ retryIn' = After(retryIn, d) /\ failedAgo' = Longer(d)
    BY <1>5 DEF Sink
  <2>2. d \in Nat /\ failures' = failures
    BY <1>5, DurationsAreNat DEF Sink
  <2>3. unpinged' \in 0 .. Watchdog
    BY <2>1, <2>2, Quantities DEF TooLong, Takes, TimesInv
  <2>. QED
    BY <2>1, <2>2, <2>3, TimePassesWithinTypes DEF Takes, TimesInv
<1>6. CASE Killed
  BY <1>6, Quantities DEF Killed, Dies, Fresh, LongAgo, TimesInv
<1>. QED
  BY <1>1, <1>2, <1>3, <1>4, <1>5, <1>6 DEF Next

LEMMA TimesInit == Init => TimesInv
  BY Quantities DEF Init, Fresh, LongAgo, TimesInv

-----------------------------------------------------------------------------
\* What the theorem assumes of the bound on the failures that are counted: the
\* backoff has reached its ceiling there.
Saturated == \E k \in 0 .. MaxFailures - 1 : Base * 2 ^ k >= Ceiling

LEMMA SaturatedAtCeiling ==
    ASSUME Saturated
    PROVE  MaxFailures # 0 /\ Cooldown(MaxFailures) = Ceiling
           /\ Cooldown(MaxFailures + 1) = Ceiling
<1>1. PICK k \in 0 .. MaxFailures - 1 : Base * 2 ^ k >= Ceiling
  BY DEF Saturated
<1>2. MaxFailures # 0 /\ k \in 0 .. (MaxFailures + 1) - 1
  BY <1>1, Quantities
<1>. QED
  BY <1>1, <1>2 DEF Cooldown

\* Time takes away from what is owed as much as has passed.
LEMMA TimePaysOff ==
    ASSUME NEW n \in Nat, NEW ago \in 0 .. Ceiling, NEW d \in Nat
    PROVE  Owed(n, IF ago + d < Ceiling THEN ago + d ELSE Ceiling)
             = IF Owed(n, ago) > d THEN Owed(n, ago) - d ELSE 0
<1>. DEFINE cooldown == Cooldown(n)
            later == IF ago + d < Ceiling THEN ago + d ELSE Ceiling
<1>1. CASE n = 0
  BY <1>1 DEF Owed
<1>2. CASE n > 0
  <2>1. cooldown \in 0 .. Ceiling /\ Ceiling \in Nat /\ ago \in Nat /\ ago <= Ceiling
    BY <1>2, CooldownIsCapped, Quantities
  <2>2. /\ Owed(n, ago) = IF cooldown > ago THEN cooldown - ago ELSE 0
        /\ Owed(n, later) = IF cooldown > later THEN cooldown - later ELSE 0
    BY <1>2 DEF Owed
  <2>. HIDE DEF cooldown
  <2>. QED
    BY <2>1, <2>2
<1>. QED
  BY <1>1, <1>2

\* An entry that is left alone goes on paying.
LEMMA OthersKeepBackOff ==
    ASSUME TimesInv, BackedOffByFailures, NEW d \in Nat, NEW b \in Collectors,
           failures'[b] = failures[b],
           retryIn'[b] = After(retryIn, d)[b], failedAgo'[b] = Longer(d)[b]
    PROVE  retryIn'[b] = Owed(failures'[b], failedAgo'[b])
<1>1. failures[b] \in Nat /\ failedAgo[b] \in 0 .. Ceiling
  BY Quantities DEF TimesInv
<1>2. retryIn[b] = Owed(failures[b], failedAgo[b])
  BY DEF BackedOffByFailures
<1>3. retryIn'[b] = IF retryIn[b] > d THEN retryIn[b] - d ELSE 0
  BY DEF After
<1>4. failedAgo'[b] = IF failedAgo[b] + d < Ceiling THEN failedAgo[b] + d ELSE Ceiling
  BY DEF Longer
<1>. QED
  BY <1>1, <1>2, <1>3, <1>4, TimePaysOff

LEMMA CallKeepsBackOff ==
    ASSUME Saturated, TimesInv, BackedOffByFailures, NEW c \in Collectors,
           Collect(c) \/ BackOff(c) \/ BackOffOverflows(c) \/ MergeRaises(c)
    PROVE  BackedOffByFailures'
<1>1. ASSUME NEW d \in Duration[c], NEW n, NEW cooldown, NEW ago,
             failures' = [failures EXCEPT ![c] = n],
             retryIn' = [After(retryIn, d) EXCEPT ![c] = cooldown],
             failedAgo' = [Longer(d) EXCEPT ![c] = ago],
             cooldown = Owed(n, ago)
      PROVE  BackedOffByFailures'
  <2>1. d \in Nat
    BY DurationsAreNat
  <2>2. /\ failures'[c] = n /\ retryIn'[c] = cooldown /\ failedAgo'[c] = ago
        /\ \A b \in Collectors \ {c} :
              /\ failures'[b] = failures[b] /\ retryIn'[b] = After(retryIn, d)[b]
              /\ failedAgo'[b] = Longer(d)[b]
    BY <1>1 DEF TimesInv, After, Longer
  <2>3. \A b \in Collectors \ {c} : retryIn'[b] = Owed(failures'[b], failedAgo'[b])
    BY <2>1, <2>2, OthersKeepBackOff
  <2>. QED
    BY <1>1, <2>2, <2>3 DEF BackedOffByFailures
<1>2. CASE Collect(c)
  <2>1. Owed(0, Ceiling) = 0
    BY DEF Owed
  <2>. QED
    BY <1>1, <1>2, <2>1 DEF Collect
<1>3. CASE BackOff(c)
  <2>. DEFINE n == IF failures[c] < MaxFailures THEN failures[c] + 1 ELSE failures[c]
  <2>1. failures[c] \in Nat /\ failures[c] <= MaxFailures
    BY Quantities DEF TimesInv
  <2>2. n \in Nat /\ n > 0 /\ Cooldown(n) = Cooldown(failures[c] + 1)
    <3>1. CASE failures[c] < MaxFailures
      BY <2>1, <3>1
    <3>2. CASE ~(failures[c] < MaxFailures)
      <4>1. failures[c] = MaxFailures /\ n = MaxFailures
        BY <2>1, <3>2, Quantities
      <4>. HIDE DEF n
      <4>. QED
        BY <2>1, <4>1, SaturatedAtCeiling
    <3>. QED
      BY <3>1, <3>2
  <2>3. Cooldown(n) \in 0 .. Ceiling /\ Ceiling \in Nat
    BY <2>2, CooldownIsCapped, Quantities
  <2>4. Cooldown(failures[c] + 1) = Owed(n, 0)
    <3>. HIDE DEF n
    <3>. QED
      BY <2>2, <2>3 DEF Owed
  <2>5. PICK d \in Duration[c] :
            /\ failures' = [failures EXCEPT ![c] = n]
            /\ retryIn' = [After(retryIn, d) EXCEPT ![c] = Cooldown(failures[c] + 1)]
            /\ failedAgo' = [Longer(d) EXCEPT ![c] = 0]
    BY <1>3 DEF BackOff
  <2>. HIDE DEF n
  <2>. QED
    BY <1>1, <2>4, <2>5
<1>4. CASE BackOffOverflows(c) \/ MergeRaises(c)
  BY <1>4 DEF BackOffOverflows, MergeRaises, Dies, Fresh, LongAgo, Owed, BackedOffByFailures
<1>. QED
  BY <1>2, <1>3, <1>4

\* A collector waits for exactly what is left of the cooldown that its failures
\* in a row ask for (scheduler.py 45-51): no loop that backs off too early or not
\* at all, and none that makes it wait longer, for any collectors, outcomes,
\* durations and backoff.
THEOREM BackedOffEver == Saturated /\ Spec => []BackedOffByFailures
<1>1. Init => BackedOffByFailures
  BY DEF Init, Fresh, Owed, BackedOffByFailures
<1>2. Saturated /\ TimesInv /\ BackedOffByFailures /\ [Next]_vars => BackedOffByFailures'
  <2>. SUFFICES ASSUME Saturated, TimesInv, BackedOffByFailures, [Next]_vars
                PROVE  BackedOffByFailures'
    OBVIOUS
  <2>1. CASE UNCHANGED <<failures, retryIn, failedAgo>>
    BY <2>1 DEF BackedOffByFailures
  <2>2. CASE Restart \/ Loop \/ Finish \/ AskStop \/ Stopped \/ UNCHANGED vars
    BY <2>1, <2>2 DEF Restart, Loop, Finish, AskStop, Stopped, vars, timers
  <2>3. CASE Sleep
    BY <2>3, OthersKeepBackOff DEF Sleep, BackedOffByFailures
  <2>4. CASE RunEntry
    BY <2>4, CallKeepsBackOff DEF RunEntry
  <2>5. CASE Sink
    <3>1. PICK d \in SinkDuration : /\ retryIn' = After(retryIn, d) /\ failures' = failures
                                    /\ failedAgo' = Longer(d)
      BY <2>5 DEF Sink
    <3>2. d \in Nat
      BY DurationsAreNat
    <3>. QED
      BY <3>1, <3>2, OthersKeepBackOff DEF BackedOffByFailures
  <2>6. CASE Killed
    BY <2>6 DEF Killed, Dies, Fresh, Owed, BackedOffByFailures
  <2>. QED
    BY <2>2, <2>3, <2>4, <2>5, <2>6 DEF Next
<1>3. Saturated => []Saturated
  <2>. SUFFICES ASSUME Saturated PROVE []Saturated
    OBVIOUS
  <2>. QED
    BY PTL
<1>. QED
  BY <1>1, <1>2, <1>3, TimesInit, TimesStep, PTL DEF Spec

-----------------------------------------------------------------------------
Control == /\ pc \in {"down", "loop", "run", "sink", "sleep", "exited"}
           /\ todo \subseteq Collectors
StopFlag == stopAsked \in BOOLEAN

\* Every variable keeps its type, across overflows, deaths and stops.
THEOREM SchedulerTyped == Spec => []TypeOK
<1>1. Init => Control
  BY DEF Init, Control
<1>2. Control /\ [Next]_vars => Control'
  <2>. SUFFICES ASSUME Control, [Next]_vars
                PROVE  Control'
    OBVIOUS
  <2>. USE DEF Control
  <2>1. CASE Dies
    BY <2>1 DEF Dies
  <2>2. CASE RunEntry
    BY <2>1, <2>2 DEF RunEntry, Collect, BackOff, BackOffOverflows, MergeRaises
  <2>3. CASE Restart \/ Sleep \/ Finish \/ Sink \/ Killed
    BY <2>1, <2>3 DEF Restart, Sleep, Finish, Sink, Killed
  <2>4. CASE Loop
    BY <2>4 DEF Loop, Due
  <2>5. CASE AskStop \/ Stopped \/ UNCHANGED vars
    BY <2>5 DEF AskStop, Stopped, vars
  <2>. QED
    BY <2>2, <2>3, <2>4, <2>5 DEF Next
<1>3. Init => StopFlag
  BY DEF Init, StopFlag
<1>4. StopFlag /\ [Next]_vars => StopFlag'
  BY DEF StopFlag, Next, Restart, Loop, Sleep, RunEntry, Collect, BackOff, BackOffOverflows, MergeRaises,
         Finish, Sink, Killed, AskStop, Stopped, vars
<1>5. Control /\ TimesInv /\ Listed /\ StopFlag => TypeOK
  BY DEF Control, StopFlag, TimesInv, Listed, TypeOK
<1>. QED
  BY <1>1, <1>2, <1>3, <1>4, <1>5, TimesInit, TimesStep, ListedEver, PTL DEF Spec

-----------------------------------------------------------------------------
\* What the agent survives

\* The three ways to die, excluded: results that _merge cannot read, so many
\* failures in a row that the backoff is no float, and a pass that may take
\* longer than the watchdog allows, when no call takes longer than D.
Mergeable == \A c \in Collectors : "malformed" \notin Behaviour[c]
Floats    == MaxFailures < FloatLimit

Timely(D) ==
    /\ IsFiniteSet(Collectors) /\ D \in Nat
    /\ \A c \in Collectors : \A d \in Duration[c] : d <= D
    /\ \A d \in SinkDuration : d <= D
    /\ (Cardinality(Collectors) + 1) * D < Watchdog

\* What was not pinged for and what the pass has left stay within the pass.
InBudget(D) ==
    /\ pc # "down" /\ Control /\ unpinged \in Nat
    /\ failures \in [Collectors -> 0 .. MaxFailures]
    /\ pc = "run" => unpinged + Cardinality(todo) * D <= Cardinality(Collectors) * D
    /\ pc = "sink" => unpinged <= Cardinality(Collectors) * D

\* A call, or the sink, is not too long for what the pass has used.
LEMMA Budget ==
    ASSUME NEW D, Timely(D)
    PROVE  /\ D \in Nat /\ Cardinality(Collectors) * D \in Nat /\ Watchdog \in Nat
           /\ Cardinality(Collectors) * D + D < Watchdog
           /\ \A S \in SUBSET Collectors :
                /\ IsFiniteSet(S) /\ Cardinality(S) \in Nat /\ Cardinality(S) * D \in Nat
                /\ Cardinality(S) * D <= Cardinality(Collectors) * D
<1>1. /\ D \in Nat /\ Watchdog \in Nat /\ Cardinality(Collectors) \in Nat
      /\ (Cardinality(Collectors) + 1) * D < Watchdog
  BY Quantities, FS_CardinalityType DEF Timely
<1>2. Cardinality(Collectors) * D \in Nat /\ Cardinality(Collectors) * D + D < Watchdog
  <2> DEFINE n == Cardinality(Collectors)
  <2> HIDE DEF n
  <2>1. (n + 1) * D = n * D + D /\ n * D \in Nat
    BY <1>1 DEF n
  <2>2. (n + 1) * D < Watchdog
    BY <1>1 DEF n
  <2>3. n * D \in Nat /\ n * D + D < Watchdog
    BY <2>1, <2>2
  <2> QED BY <2>3 DEF n
<1>3. ASSUME NEW S \in SUBSET Collectors
      PROVE  /\ IsFiniteSet(S) /\ Cardinality(S) \in Nat /\ Cardinality(S) * D \in Nat
             /\ Cardinality(S) * D <= Cardinality(Collectors) * D
  <2> DEFINE n == Cardinality(Collectors)
             m == Cardinality(S)
  <2>1. IsFiniteSet(S) /\ m \in Nat /\ n \in Nat /\ m <= n
    BY <1>1, FS_Subset, FS_CardinalityType DEF Timely
  <2> HIDE DEF n, m
  <2>2. PICK k \in Nat : n = m + k
    <3>1. n - m \in Nat /\ n = m + (n - m)
      BY <2>1
    <3> QED BY <3>1
  <2>3. n * D = m * D + k * D /\ m * D \in Nat /\ k * D \in Nat
    BY <1>1, <2>1, <2>2
  <2>4. m * D \in Nat /\ m * D <= n * D
    BY <2>3
  <2> QED BY <2>1, <2>4 DEF n, m
<1> QED BY <1>1, <1>2, <1>3

LEMMA CallKeepsBudget ==
    ASSUME NEW D, Timely(D), Mergeable, Floats, InBudget(D), NEW c \in Collectors,
           Collect(c) \/ BackOff(c) \/ BackOffOverflows(c) \/ MergeRaises(c)
    PROVE  InBudget(D)'
<1>1. ~MergeRaises(c)
  BY DEF MergeRaises, Calls, Mergeable
<1>2. ~BackOffOverflows(c)
  <2>1. failures[c] \in 0 .. MaxFailures /\ MaxFailures \in Nat /\ FloatLimit \in Nat
    BY Quantities, SchedulerAssumption DEF InBudget, SchedulerAssumption
  <2> QED BY <2>1 DEF BackOffOverflows, Floats
<1>3. PICK d \in Duration[c] :
        /\ pc = "run" /\ c \in todo /\ unpinged' = unpinged + d
        /\ todo' = todo \ {c} /\ UNCHANGED pc
        /\ failures' \in {[failures EXCEPT ![c] = 0],
                          [failures EXCEPT ![c] = IF @ < MaxFailures THEN @ + 1 ELSE @]}
  BY <1>1, <1>2 DEF Collect, BackOff, Calls, Takes
<1>4. d \in Nat /\ d <= D /\ MaxFailures \in Nat
  BY DurationsAreNat, Quantities DEF Timely
<1>5. todo \in SUBSET Collectors /\ todo' \in SUBSET Collectors
  BY <1>3 DEF InBudget, Control
<1>6. Cardinality(todo) = Cardinality(todo') + 1
  <2>1. IsFiniteSet(todo) /\ Cardinality(todo) \in Nat
    BY <1>5, Budget
  <2>2. Cardinality(todo \ {c}) = Cardinality(todo) - 1
    BY <1>3, <2>1, FS_RemoveElement
  <2> QED BY <1>3, <2>1, <2>2
<1>7. unpinged' + Cardinality(todo') * D <= Cardinality(Collectors) * D
  <2> DEFINE n == Cardinality(todo')
             all == Cardinality(Collectors) * D
  <2>1. n \in Nat /\ D \in Nat /\ all \in Nat
    BY <1>5, Budget
  <2>2. unpinged \in Nat /\ unpinged + (n + 1) * D <= all
    BY <1>3, <1>6 DEF InBudget
  <2> HIDE DEF n, all
  <2>3. (n + 1) * D = n * D + D /\ n * D \in Nat
    BY <2>1
  <2>4. unpinged' + n * D <= all
    BY <1>3, <1>4, <2>1, <2>2, <2>3
  <2> QED BY <2>4 DEF n, all
<1>8. failures' \in [Collectors -> 0 .. MaxFailures]
  BY <1>3, <1>4 DEF InBudget
<1> QED BY <1>3, <1>4, <1>5, <1>7, <1>8 DEF InBudget, Control

\* The agent survives whatever collectors raise, in any pass that fits the
\* watchdog: it has no other way to die (scheduler.py 7-8, 34-63).
THEOREM AgentSurvives ==
    ASSUME NEW D, Timely(D), Mergeable, Floats
    PROVE  Spec => []Survives
<1>1. Init => InBudget(D)
  BY Quantities DEF Init, InBudget, Control, Fresh
<1>2. InBudget(D) /\ [Next]_vars => InBudget(D)'
  <2> SUFFICES ASSUME InBudget(D), [Next]_vars PROVE InBudget(D)'
    OBVIOUS
  <2>1. D \in Nat /\ Cardinality(Collectors) * D + D < Watchdog
        /\ Cardinality(Collectors) * D \in Nat /\ Watchdog \in Nat
    BY Budget
  <2>2. CASE RunEntry
    BY <2>2, CallKeepsBudget DEF RunEntry
  <2>3. CASE Loop
    <3>1. Due \in SUBSET Collectors
      BY DEF Due
    <3>2. Cardinality(Due) * D \in Nat /\ Cardinality(Due) * D <= Cardinality(Collectors) * D
      BY <3>1, Budget
    <3>3. CASE stopAsked
      BY <2>3, <3>3 DEF Loop, InBudget, Control
    <3>4. CASE ~stopAsked
      <4>1. /\ unpinged' = 0 /\ todo' = Due /\ pc' \in {"sleep", "run"} /\ UNCHANGED failures
        BY <2>3, <3>4 DEF Loop
      <4> QED BY <3>1, <3>2, <4>1 DEF InBudget, Control
    <3> QED BY <3>3, <3>4
  <2>4. CASE Finish
    <3>1. pc = "run" /\ todo = {} /\ pc' \in {"sink", "sleep"} /\ UNCHANGED <<todo, failures, unpinged>>
      BY <2>4 DEF Finish, timers
    <3>2. Cardinality(todo) * D \in Nat
      BY Budget DEF InBudget, Control
    <3>3. unpinged <= Cardinality(Collectors) * D
      BY <2>1, <3>1, <3>2 DEF InBudget
    <3> QED BY <3>1, <3>3 DEF InBudget, Control
  <2>5. CASE Sink
    <3>1. \A d \in SinkDuration : d \in Nat
      BY DurationsAreNat
    <3> QED BY <2>5, <3>1 DEF Sink, Takes, InBudget, Control
  <2>6. CASE Sleep
    BY <2>1, <2>6 DEF Sleep, InBudget, Control
  <2>7. CASE Killed
    <3>1. ASSUME NEW c \in todo, NEW d \in Duration[c], pc = "run", TooLong(d) PROVE FALSE
      <4>1. c \in Collectors /\ d \in Nat /\ d <= D
        BY <3>1, DurationsAreNat DEF InBudget, Control, Timely
      <4>2. todo \in SUBSET Collectors
        BY DEF InBudget, Control
      <4>3. Cardinality(todo) * D \in Nat /\ unpinged \in Nat
        BY <4>2, Budget DEF InBudget
      <4>4. unpinged + Cardinality(todo) * D <= Cardinality(Collectors) * D
        BY <3>1 DEF InBudget
      <4> QED BY <2>1, <3>1, <4>1, <4>3, <4>4 DEF TooLong
    <3>2. ASSUME NEW d \in SinkDuration, pc = "sink", TooLong(d) PROVE FALSE
      <4>1. d \in Nat /\ d <= D
        BY DurationsAreNat DEF Timely
      <4> QED BY <2>1, <3>2, <4>1 DEF TooLong, InBudget
    <3> QED BY <2>7, <3>1, <3>2 DEF Killed
  <2>8. CASE Restart
    BY <2>8 DEF Restart, InBudget
  <2>9. CASE AskStop \/ Stopped \/ UNCHANGED vars
    BY <2>9 DEF AskStop, Stopped, vars, InBudget, Control
  <2> QED BY <2>2, <2>3, <2>4, <2>5, <2>6, <2>7, <2>8, <2>9 DEF Next
<1>3. InBudget(D) => Survives
  BY DEF InBudget, Survives
<1> QED BY <1>1, <1>2, <1>3, PTL DEF Spec
=============================================================================
