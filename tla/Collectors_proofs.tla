-------------------------- MODULE Collectors_proofs --------------------------
(***************************************************************************)
(* What the collectors tell is true: rates, the state of systemd timers,   *)
(* the ids of sensors, the temperatures of cards, the statistics and       *)
(* uptimes of containers, for any number of keys, timers, chips, cards and *)
(* containers.                                                             *)
(***************************************************************************)
EXTENDS CronSchedule_proofs, Rates, CronTimers, Hwmon, NvidiaVram, Containers,
        FiniteSetTheorems

-----------------------------------------------------------------------------
\* Rates

\* The counters count.
Counts ==
    /\ counter \in [Keys -> Nat] /\ moved \in [Keys -> Nat]
    /\ readable \subseteq Keys /\ steady \subseteq DOMAIN sample
    /\ DOMAIN sample \subseteq Keys /\ sample = [k \in DOMAIN sample |-> sample[k]]
    /\ \A k \in DOMAIN sample : sample[k] \in Nat

\* A counter stands no higher above its sample than what moved since, and
\* exactly as high if it never fell.
Balance ==
    \A k \in DOMAIN sample :
        /\ counter[k] <= sample[k] + moved[k]
        /\ k \in steady => counter[k] = sample[k] + moved[k]

RatesInv == Counts /\ Balance /\ NoSpike /\ SteadyIsExact

-----------------------------------------------------------------------------
\* A new sample is in balance whatever the old one was (prime, rates.py 25-27).
LEMMA ResampleBalances ==
    ASSUME Counts, Resample, UNCHANGED kernel
    PROVE  Counts' /\ Balance'
  BY DEF Counts, Balance, Resample, Reading, kernel

\* The trackers begin with nothing to ship.
LEMMA RatesInitInv == RatesInit => RatesInv
  BY RatesAssumption
  DEF RatesInit, RatesInv, Counts, Balance, NoSpike, SteadyIsExact, Nothing

\* Every step keeps the balance of the counters and their samples.
LEMMA RatesStep == RatesInv /\ [RatesNext]_ratesVars => RatesInv'
<1> SUFFICES ASSUME RatesInv, [RatesNext]_ratesVars
             PROVE  RatesInv'
  OBVIOUS
<1> USE DEF RatesInv, account, kernel, tracker
<1>1. CASE Prime
  BY <1>1, ResampleBalances DEF Prime, NoSpike, SteadyIsExact
<1>2. CASE SampleRates
  <2>1. Counts' /\ Balance'
    BY <1>2, ResampleBalances DEF SampleRates
  <2>2. ASSUME NEW k \in DOMAIN shipped'
        PROVE  /\ 0 <= shipped'[k] /\ shipped'[k] <= moved[k]
               /\ k \in steady => shipped'[k] = moved[k]
    <3>1. k \in readable /\ shipped'[k] = AtLeastZero(counter[k] - Previous(k))
      BY <1>2, <2>2 DEF SampleRates, Nothing
    <3>2. k \in Keys /\ counter[k] \in Nat /\ moved[k] \in Nat
      BY <3>1 DEF Counts
    <3>3. CASE k \in DOMAIN sample
      BY <3>1, <3>2, <3>3 DEF Counts, Balance, Previous, AtLeastZero
    <3>4. CASE k \notin DOMAIN sample
      BY <3>1, <3>2, <3>4 DEF Counts, Previous, AtLeastZero
    <3> QED BY <3>3, <3>4
  <2>3. truly' = moved /\ undisturbed' = steady
    BY <1>2 DEF SampleRates
  <2> QED BY <2>1, <2>2, <2>3 DEF NoSpike, SteadyIsExact
<1>3. ASSUME NEW k \in Keys, Grow(k)
      PROVE  RatesInv'
  <2>1. PICK n \in 1 .. MaxMoved : /\ counter' = [counter EXCEPT ![k] = @ + n]
                                   /\ moved' = [moved EXCEPT ![k] = @ + n]
    BY <1>3 DEF Grow
  <2>2. n \in Nat
    BY RatesAssumption
  <2>3. Counts' /\ Balance'
    BY <1>3, <2>1, <2>2 DEF Grow, Counts, Balance
  <2> QED BY <1>3, <2>3 DEF Grow, NoSpike, SteadyIsExact
<1>4. ASSUME NEW k \in Keys, Fall(k)
      PROVE  RatesInv'
  <2>1. PICK n \in 0 .. MaxMoved : n < counter[k] /\ counter' = [counter EXCEPT ![k] = n]
    BY <1>4 DEF Fall
  <2>2. n \in Nat
    BY RatesAssumption
  <2>3. Counts' /\ Balance'
    BY <1>4, <2>1, <2>2 DEF Fall, Counts, Balance
  <2> QED BY <1>4, <2>3 DEF Fall, NoSpike, SteadyIsExact
<1>5. ASSUME NEW k \in Keys, Blink(k)
      PROVE  RatesInv'
  BY <1>5 DEF Blink, Counts, Balance, NoSpike, SteadyIsExact
<1>6. CASE TimeGoes
  BY <1>6 DEF TimeGoes, Counts, Balance, NoSpike, SteadyIsExact
<1>7. CASE UNCHANGED ratesVars
  BY <1>7 DEF ratesVars, Counts, Balance, NoSpike, SteadyIsExact
<1> QED BY <1>1, <1>2, <1>3, <1>4, <1>5, <1>6, <1>7 DEF RatesNext

\* The balance is invariant.
THEOREM RatesBalance == RatesSpec => []RatesInv
  BY RatesInitInv, RatesStep, PTL DEF RatesSpec

\* A wrap, a reset and a key that was unreadable ship nothing negative and no
\* spike, and a counter that did not fall since its sample is told exactly
\* (rates.py 3-5, 29-41), for every number of keys and every counter.
THEOREM RatesTrueEver == RatesSpec => []RatesAreTrue
<1>1. RatesInv => RatesAreTrue
  BY DEF RatesInv, RatesAreTrue
<1> QED BY <1>1, RatesBalance, PTL

-----------------------------------------------------------------------------
\* Timers

\* The service of a timer whose last run has ended has the result of that run.
SettledIsKnown ==
    /\ settled \subseteq started /\ started \subseteq Timers
    /\ result \in [Timers -> {"success", "exit-code"}]
    /\ ended \in [Timers -> {"never", "ok", "failed"}]
    /\ running \subseteq started /\ settled \cap running = {}
    /\ \A t \in settled : /\ ended[t] # "never"
                          /\ result[t] = "success" <=> ended[t] = "ok"

LEMMA TimersInitInv == TimersInit => SettledIsKnown
  BY DEF TimersInit, SettledIsKnown

LEMMA TimersStep == SettledIsKnown /\ [TimersNext]_timerVars => SettledIsKnown'
<1> SUFFICES ASSUME SettledIsKnown, [TimersNext]_timerVars PROVE SettledIsKnown'
  OBVIOUS
<1> USE DEF SettledIsKnown
<1>1. CASE ListTimers \/ ShowTimers \/ ShowServices(TRUE) \/ ShowServices(FALSE)
           \/ UNCHANGED timerVars
  BY <1>1 DEF ListTimers, ShowTimers, ShowServices, timerVars, systemd
<1>2. ASSUME NEW t \in Timers, Trigger(t) PROVE SettledIsKnown'
  BY <1>2 DEF Trigger
<1>3. ASSUME NEW t \in Timers, End(t) PROVE SettledIsKnown'
  BY <1>3 DEF End
<1>4. CASE Reboot
  BY <1>4 DEF Reboot
<1> QED BY <1>1, <1>2, <1>3, <1>4 DEF TimersNext

\* A job is told to have ended the way its last run did, whenever it starts and
\* ends between the calls of a pass (cron.py 457-470).
THEOREM StatusAlwaysTellsLastRun == TimersSpec => StatusTellsLastRun
<1>1. SettledIsKnown /\ [TimersNext]_timerVars =>
          [ShowServices(TRUE) =>
              \A t \in shown \cap settled : status'[t] = ended[t]]_timerVars
  BY DEF SettledIsKnown, ShowServices, LastStatus
<1> QED BY <1>1, TimersInitInv, TimersStep, PTL DEF TimersSpec, StatusTellsLastRun

-----------------------------------------------------------------------------
\* Sensors

\* The occurrences of a driver are numbered as the directories are read.
Numbered ==
    /\ \A k \in DOMAIN seen : seen[k] \in Nat
    /\ \A s \in found : \E k \in DOMAIN seen, n \in Nat :
          n < seen[k] /\ s.id[1] = <<k, n>>

LEMMA NamesStep == Numbered /\ UniqueIds /\ [HwmonNext]_hwmonVars => (Numbered /\ UniqueIds)'
<1> SUFFICES ASSUME Numbered, UniqueIds, [HwmonNext]_hwmonVars PROVE (Numbered /\ UniqueIds)'
  OBVIOUS
<1>1. ASSUME NEW d, Read(d) PROVE (Numbered /\ UniqueIds)'
  <2> DEFINE chip   == slots[d]
             driver == Driver[chip]
             count  == IF driver \in DOMAIN seen THEN seen[driver] ELSE 0
  <2>1. PICK files \in SUBSET Files(chip) :
           found' = found \cup MonitorSensors(chip, <<driver, count>>, files)
                          \cup PowerSensors(chip, <<driver, count>>, files)
                          \cup DriveSensors(chip, <<driver, count>>, files)
    BY <1>1 DEF Read
  <2>2. seen' = [k \in DOMAIN seen \cup {driver} |-> IF k = driver THEN count + 1 ELSE seen[k]]
    BY <1>1 DEF Read
  <2>3. count \in Nat
    BY DEF Numbered
  <2> HIDE DEF count, driver, chip
  <2> DEFINE new == found' \ found
  <2>4. \A s \in new : \E f \in files :
           /\ s = [chip |-> chip, id |-> <<<<driver, count>>, f.rail>>, twin |-> f.twin]
           /\ f.rail = "power1" /\ f.twin = "input" =>
                 [rail |-> "power1", twin |-> "average"] \notin files
    BY <2>1 DEF MonitorSensors, PowerSensors, DriveSensors, Named, Sensor
  <2>5. \A f, g \in files : f.rail = g.rail =>
           f = g \/ (f.rail = "power1" /\ {f, g} = {[rail |-> "power1", twin |-> "average"],
                                                    [rail |-> "power1", twin |-> "input"]})
    BY DEF Files
  <2>6. \A s, t \in new : s.id = t.id => s = t
    <3> SUFFICES ASSUME NEW s \in new, NEW t \in new, s.id = t.id PROVE s = t
      OBVIOUS
    <3>1. PICK f \in files :
             /\ s = [chip |-> chip, id |-> <<<<driver, count>>, f.rail>>, twin |-> f.twin]
             /\ f.rail = "power1" /\ f.twin = "input" =>
                   [rail |-> "power1", twin |-> "average"] \notin files
      BY <2>4
    <3>2. PICK g \in files :
             /\ t = [chip |-> chip, id |-> <<<<driver, count>>, g.rail>>, twin |-> g.twin]
             /\ g.rail = "power1" /\ g.twin = "input" =>
                   [rail |-> "power1", twin |-> "average"] \notin files
      BY <2>4
    <3>3. f.rail = g.rail
      BY <3>1, <3>2
    <3>4. f = g
      BY <2>5, <3>1, <3>2, <3>3
    <3> QED BY <3>1, <3>2, <3>4
  <2>7. \A s \in found, t \in new : s.id # t.id
    <3> SUFFICES ASSUME NEW s \in found, NEW t \in new, s.id = t.id PROVE FALSE
      OBVIOUS
    <3>1. t.id[1] = <<driver, count>>
      BY <2>4
    <3>2. PICK k \in DOMAIN seen, n \in Nat : n < seen[k] /\ s.id[1] = <<k, n>>
      BY DEF Numbered
    <3>3. k = driver /\ n = count
      BY <3>1, <3>2
    <3> QED BY <3>2, <3>3 DEF count, Numbered
  <2>8. UniqueIds'
    BY <2>6, <2>7 DEF UniqueIds
  <2>9. ASSUME NEW s \in found'
        PROVE  \E k \in DOMAIN seen', n \in Nat : n < seen'[k] /\ s.id[1] = <<k, n>>
    <3>1. CASE s \in found
      <4>1. PICK k \in DOMAIN seen, n \in Nat : n < seen[k] /\ s.id[1] = <<k, n>>
        BY <3>1 DEF Numbered
      <4>2. k \in DOMAIN seen' /\ n < seen'[k]
        BY <2>2, <2>3, <4>1 DEF count, Numbered
      <4> QED BY <4>1, <4>2
    <3>2. CASE s \in new
      <4>1. s.id[1] = <<driver, count>>
        BY <2>4, <3>2
      <4>2. driver \in DOMAIN seen' /\ count < seen'[driver]
        BY <2>2, <2>3
      <4> QED BY <2>3, <4>1, <4>2
    <3> QED BY <2>9, <3>1, <3>2
  <2>10. \A k \in DOMAIN seen' : seen'[k] \in Nat
    BY <2>2, <2>3 DEF Numbered
  <2> QED BY <2>8, <2>9, <2>10 DEF Numbered
<1>2. CASE Scan
  BY <1>1, <1>2 DEF Scan
<1>3. CASE ScanFails \/ Return
  BY <1>3 DEF ScanFails, Return, Leave, Numbered, UniqueIds
<1>4. CASE ListRoot \/ UNCHANGED hwmonVars
           \/ \E d \in Directories : Disappear(d) \/ \E chip \in Chips : Appear(chip, d)
  <2>1. UNCHANGED <<seen, found>>
    BY <1>4 DEF ListRoot, hwmonVars, Disappear, Appear
  <2> QED BY <2>1 DEF Numbered, UniqueIds
<1> QED BY <1>2, <1>3, <1>4 DEF HwmonNext

\* No two sensors of one pass share an id, for any chips, drivers and rails and
\* whatever comes and goes while they are read (sensors_hwmon.py 241-278).
THEOREM IdsAlwaysUnique == HwmonSpec => []UniqueIds
<1>1. HwmonInit => Numbered /\ UniqueIds
  BY DEF HwmonInit, Numbered, UniqueIds
<1> QED BY <1>1, NamesStep, PTL DEF HwmonSpec


\* The directories of a driver before d, and the number d's chip has to get.
Twins(k, D) == {e \in D : Driver[slots[e]] = k}
Owner(d)    ==
    <<Driver[slots[d]], Cardinality(Twins(Driver[slots[d]], {e \in DOMAIN slots : e < d}))>>

\* The sensors S are named after directories of D by what is before them.
NamedAfter(S, D) == \A s \in S : \E d \in D : s.chip = slots[d] /\ s.id[1] = Owner(d)

\* In a pass during which no chip came or went, the directories were read in
\* their order, and every driver was counted in them.
ReadInOrder ==
    LET done == DOMAIN slots \ todo
    IN  /\ todo \subseteq DOMAIN slots
        /\ \A e \in done, d \in todo : e < d
        /\ \A k \in DOMAIN seen : seen[k] = Cardinality(Twins(k, done))
        /\ \A e \in done : Driver[slots[e]] \in DOMAIN seen
        /\ NamedAfter(found, done)

StableInv ==
    /\ IsFiniteSet(DOMAIN slots) /\ DOMAIN slots \subseteq Nat /\ calm \in 0 .. 2
    /\ ~reading => todo = {} /\ found = {} /\ DOMAIN seen = {}
    /\ reading /\ calm # 0 => ReadInOrder
    /\ calm = 2 \/ (calm = 1 /\ ~reading) => NamedAfter(sent, DOMAIN slots)

\* No two directories have the same number of the same driver.
LEMMA OneOwner ==
    ASSUME IsFiniteSet(DOMAIN slots), DOMAIN slots \subseteq Nat,
           NEW d \in DOMAIN slots, NEW e \in DOMAIN slots, Owner(d) = Owner(e)
    PROVE  d = e
<1> DEFINE Ahead(x) == Twins(Driver[slots[d]], {y \in DOMAIN slots : y < x})
<1>1. Cardinality(Ahead(d)) = Cardinality(Ahead(e)) /\ Driver[slots[d]] = Driver[slots[e]]
  BY DEF Owner
<1>2. \A x \in DOMAIN slots : IsFiniteSet(Ahead(x)) /\ Cardinality(Ahead(x)) \in Nat
  <2> TAKE x \in DOMAIN slots
  <2>1. Ahead(x) \subseteq DOMAIN slots
    BY DEF Twins
  <2> QED BY <2>1, FS_Subset, FS_CardinalityType
<1>3. ASSUME NEW x \in DOMAIN slots, NEW y \in DOMAIN slots, x < y,
             Driver[slots[x]] = Driver[slots[d]]
      PROVE  Cardinality(Ahead(x)) < Cardinality(Ahead(y))
  <2>1. x \notin Ahead(x) /\ Ahead(x) \cup {x} \subseteq Ahead(y)
    BY <1>3 DEF Twins
  <2>2. Cardinality(Ahead(x) \cup {x}) = Cardinality(Ahead(x)) + 1
    BY <1>2, <2>1, FS_AddElement
  <2>3. Cardinality(Ahead(x) \cup {x}) <= Cardinality(Ahead(y))
    BY <1>2, <2>1, FS_Subset
  <2> QED BY <1>2, <2>2, <2>3
<1> HIDE DEF Ahead
<1> QED BY <1>1, <1>2, <1>3

\* The next directory of a calm pass gets the number it has to get.
LEMMA ReadStaysInOrder ==
    ASSUME StableInv, ReadInOrder, reading, todo # {}, Read(Min(todo)), Min(todo) \in DOMAIN slots
    PROVE  ReadInOrder'
<1> DEFINE d      == Min(todo)
           done   == DOMAIN slots \ todo
           chip   == slots[d]
           driver == Driver[chip]
           count  == IF driver \in DOMAIN seen THEN seen[driver] ELSE 0
<1>1. todo \subseteq DOMAIN slots /\ IsFiniteSet(DOMAIN slots) /\ DOMAIN slots \subseteq Nat
  BY DEF StableInv, ReadInOrder
<1>2. d \in todo /\ \A x \in todo : d <= x
  <2>1. todo \subseteq Int /\ 0 \in Int /\ \A x \in todo : 0 <= x
    BY <1>1
  <2>2. Min(todo) \in todo /\ \A x \in todo : Min(todo) <= x
    BY <2>1, LeastOf
  <2> QED BY <2>2
<1> HIDE DEF d
<1>3. /\ UNCHANGED slots /\ todo' = todo \ {d}
      /\ seen' = [k \in DOMAIN seen \cup {driver} |-> IF k = driver THEN count + 1 ELSE seen[k]]
      /\ \E files \in SUBSET Files(chip) :
            found' = found \cup MonitorSensors(chip, <<driver, count>>, files)
                           \cup PowerSensors(chip, <<driver, count>>, files)
                           \cup DriveSensors(chip, <<driver, count>>, files)
  BY DEF Read, d
<1>4. DOMAIN slots \ todo' = done \cup {d} /\ d \notin done /\ d \in DOMAIN slots
  BY <1>1, <1>2, <1>3
<1>5. {e \in DOMAIN slots : e < d} = done
  <2>1. \A e \in done : e < d
    BY <1>2 DEF ReadInOrder
  <2>2. \A e \in DOMAIN slots : e < d => e \notin todo
    BY <1>1, <1>2
  <2> QED BY <2>1, <2>2
<1>6. IsFiniteSet(done) /\ \A k : IsFiniteSet(Twins(k, done))
  <2>1. done \subseteq DOMAIN slots /\ \A k : Twins(k, done) \subseteq DOMAIN slots
    BY DEF Twins
  <2> QED BY <1>1, <2>1, FS_Subset
<1>7. count = Cardinality(Twins(driver, done)) /\ count \in Nat
  <2>1. CASE driver \in DOMAIN seen
    BY <1>6, <2>1, FS_CardinalityType DEF ReadInOrder
  <2>2. CASE driver \notin DOMAIN seen
    <3>1. Twins(driver, done) = {}
      BY <2>2 DEF ReadInOrder, Twins
    <3> QED BY <2>2, <3>1, FS_EmptySet
  <2> QED BY <2>1, <2>2
<1>8. Owner(d) = <<driver, count>>
  BY <1>5, <1>7 DEF Owner
<1> HIDE DEF count
<1>9. \A k \in DOMAIN seen' : seen'[k] = Cardinality(Twins(k, done \cup {d}))
  <2> SUFFICES ASSUME NEW k \in DOMAIN seen' PROVE seen'[k] = Cardinality(Twins(k, done \cup {d}))
    OBVIOUS
  <2>1. CASE k = driver
    <3>1. Twins(k, done \cup {d}) = Twins(k, done) \cup {d} /\ d \notin Twins(k, done)
      BY <1>4, <2>1 DEF Twins
    <3>2. Cardinality(Twins(k, done) \cup {d}) = Cardinality(Twins(k, done)) + 1
      BY <1>6, <3>1, FS_AddElement
    <3>3. seen'[k] = count + 1
      BY <1>3, <2>1
    <3> QED BY <1>7, <2>1, <3>1, <3>2, <3>3
  <2>2. CASE k # driver
    <3>1. Twins(k, done \cup {d}) = Twins(k, done)
      BY <2>2 DEF Twins
    <3>2. k \in DOMAIN seen /\ seen'[k] = seen[k]
      BY <1>3, <2>2
    <3> QED BY <3>1, <3>2 DEF ReadInOrder
  <2> QED BY <2>1, <2>2
<1>10. \A e \in done \cup {d} : Driver[slots[e]] \in DOMAIN seen'
  BY <1>3 DEF ReadInOrder
<1>11. NamedAfter(found', done \cup {d})
  <2> SUFFICES ASSUME NEW s \in found'
               PROVE  \E e \in done \cup {d} : s.chip = slots[e] /\ s.id[1] = Owner(e)
    BY DEF NamedAfter
  <2>1. CASE s \in found
    BY <2>1 DEF ReadInOrder, NamedAfter
  <2>2. CASE s \notin found
    <3>1. s.chip = chip /\ s.id[1] = <<driver, count>>
      BY <1>3, <2>2 DEF MonitorSensors, PowerSensors, DriveSensors, Named, Sensor
    <3> QED BY <1>8, <3>1
  <2> QED BY <2>1, <2>2
<1>12. \A e \in done \cup {d}, x \in todo' : e < x
  <2>1. \A x \in todo' : x \in todo /\ x # d /\ x \in Nat /\ d \in Nat
    BY <1>1, <1>2, <1>3
  <2> QED BY <1>2, <2>1 DEF ReadInOrder
<1>13. todo' \subseteq DOMAIN slots'
  BY <1>1, <1>3
<1> HIDE DEF done
<1>14. DOMAIN slots' \ todo' = done \cup {d} /\ slots' = slots
  BY <1>3, <1>4
<1>15. \A x : Owner(x)' = Owner(x)
  BY <1>14, Zenon DEF Owner, Twins
<1>16. \A k \in DOMAIN seen' : seen'[k] = Cardinality(Twins(k, DOMAIN slots \ todo))'
  BY <1>9, <1>14 DEF Twins
<1>17. NamedAfter(found, DOMAIN slots \ todo)'
  BY <1>11, <1>14, <1>15 DEF NamedAfter
<1> QED BY <1>10, <1>12, <1>13, <1>14, <1>16, <1>17 DEF ReadInOrder

\* The number of a directory changes only if chips come or go.
LEMMA OwnersStay == UNCHANGED slots => \A x : Owner(x)' = Owner(x)
BY Zenon DEF Owner, Twins

LEMMA StableStep == StableInv /\ [HwmonNext]_hwmonVars => StableInv'
<1> SUFFICES ASSUME StableInv, [HwmonNext]_hwmonVars PROVE StableInv'
  OBVIOUS
<1>1. CASE ListRoot
  <2>1. calm' \in 1 .. 2 /\ (calm' = 2 => calm \in {1, 2})
    <3>1. calm \in 0 .. 2 /\ calm' = Min({calm + 1, 2})
      BY <1>1 DEF ListRoot, StableInv
    <3>2. {calm + 1, 2} \subseteq Int /\ 0 \in Int /\ \A x \in {calm + 1, 2} : 0 <= x
      BY <3>1
    <3>3. calm' \in {calm + 1, 2} /\ \A x \in {calm + 1, 2} : calm' <= x
      BY <3>1, <3>2, LeastOf
    <3> QED BY <3>1, <3>3
  <2>2. /\ ~reading /\ reading' = TRUE /\ todo' = DOMAIN slots
        /\ UNCHANGED <<slots, seen, found, sent>>
    BY <1>1 DEF ListRoot
  <2>3. ReadInOrder'
    BY <2>2 DEF StableInv, ReadInOrder, NamedAfter
  <2>4. calm = 2 \/ calm = 1 => NamedAfter(sent, DOMAIN slots)'
    BY <2>2, OwnersStay DEF StableInv, NamedAfter
  <2>5. IsFiniteSet(DOMAIN slots') /\ DOMAIN slots' \subseteq Nat
    BY <2>2 DEF StableInv
  <2> QED BY <2>1, <2>2, <2>3, <2>4, <2>5 DEF StableInv
<1>2. CASE Scan
  <2>1. /\ reading /\ todo # {} /\ Read(Min(todo)) /\ Min(todo) \in DOMAIN slots
        /\ UNCHANGED <<slots, reading, sent, calm>>
    BY <1>2 DEF Scan, Read
  <2>2. calm # 0 => ReadInOrder'
    BY <2>1, ReadStaysInOrder DEF StableInv
  <2>3. NamedAfter(sent, DOMAIN slots)' <=> NamedAfter(sent, DOMAIN slots)
    BY <2>1, OwnersStay DEF NamedAfter
  <2> QED BY <2>1, <2>2, <2>3 DEF StableInv
<1>3. CASE ScanFails
  <2>1. /\ reading /\ reading' = FALSE /\ todo' = {} /\ found' = {} /\ DOMAIN seen' = {}
        /\ UNCHANGED <<slots, sent, calm>>
    BY <1>3 DEF ScanFails, Leave
  <2>2. calm = 0
    <3>1. todo # {} /\ Min(todo) \notin DOMAIN slots
      BY <1>3 DEF ScanFails
    <3>2. SUFFICES ASSUME calm # 0 PROVE FALSE
      OBVIOUS
    <3>3. todo \subseteq DOMAIN slots /\ DOMAIN slots \subseteq Nat
      BY <2>1, <3>2 DEF StableInv, ReadInOrder
    <3>4. todo \subseteq Int /\ 0 \in Int /\ \A x \in todo : 0 <= x
      BY <3>3
    <3>5. Min(todo) \in todo
      BY <3>1, <3>4, LeastOf
    <3> QED BY <3>1, <3>3, <3>5
  <2> QED BY <2>1, <2>2 DEF StableInv
<1>4. CASE Return
  <2>1. /\ reading /\ todo = {} /\ sent' = found
        /\ reading' = FALSE /\ todo' = {} /\ found' = {} /\ DOMAIN seen' = {}
        /\ UNCHANGED <<slots, calm>>
    BY <1>4 DEF Return, Leave
  <2>2. calm # 0 => NamedAfter(found, DOMAIN slots)
    <3>1. DOMAIN slots \ todo = DOMAIN slots
      BY <2>1
    <3> QED BY <2>1, <3>1 DEF StableInv, ReadInOrder
  <2>3. NamedAfter(sent, DOMAIN slots)' <=> NamedAfter(found, DOMAIN slots)
    BY <2>1, OwnersStay DEF NamedAfter
  <2> QED BY <2>1, <2>2, <2>3 DEF StableInv
<1>5. ASSUME NEW d \in Directories, NEW chip \in Chips, Appear(chip, d) PROVE StableInv'
  <2>1. /\ DOMAIN slots' = DOMAIN slots \cup {d} /\ calm' = 0
        /\ UNCHANGED <<reading, todo, seen, found, sent>>
    BY <1>5 DEF Appear
  <2>2. IsFiniteSet(DOMAIN slots') /\ DOMAIN slots' \subseteq Nat
    BY <2>1, FS_AddElement, HwmonAssumption DEF StableInv, HwmonAssumption
  <2> QED BY <2>1, <2>2 DEF StableInv
<1>6. ASSUME NEW d \in Directories, Disappear(d) PROVE StableInv'
  <2>1. /\ DOMAIN slots' = DOMAIN slots \ {d} /\ calm' = 0
        /\ UNCHANGED <<reading, todo, seen, found, sent>>
    BY <1>6 DEF Disappear
  <2>2. IsFiniteSet(DOMAIN slots') /\ DOMAIN slots' \subseteq Nat
    BY <2>1, FS_RemoveElement DEF StableInv
  <2> QED BY <2>1, <2>2 DEF StableInv
<1>7. CASE UNCHANGED hwmonVars
  <2>1. UNCHANGED <<slots, reading, todo, seen, found, sent, calm>>
    BY <1>7 DEF hwmonVars
  <2>2. NamedAfter(sent, DOMAIN slots)' <=> NamedAfter(sent, DOMAIN slots)
    BY <2>1, OwnersStay DEF NamedAfter
  <2>3. NamedAfter(found, DOMAIN slots \ todo)' <=> NamedAfter(found, DOMAIN slots \ todo)
    BY <2>1, OwnersStay DEF NamedAfter
  <2>4. \A k : Cardinality(Twins(k, DOMAIN slots \ todo))'
                  = Cardinality(Twins(k, DOMAIN slots \ todo))
    BY <2>1, Zenon DEF Twins
  <2>5. ReadInOrder => ReadInOrder'
    BY <2>1, <2>3, <2>4 DEF ReadInOrder
  <2> QED BY <2>1, <2>2, <2>5 DEF StableInv
<1> QED BY <1>1, <1>2, <1>3, <1>4, <1>5, <1>6, <1>7 DEF HwmonNext

\* An id denotes the same chip in two calm passes, for any number of chips of
\* any drivers in any directories (sensors_hwmon.py 254-263).
THEOREM IdsStayStable == HwmonSpec => StableIds
<1>1. HwmonInit => StableInv
  <2> SUFFICES ASSUME HwmonInit PROVE StableInv
    OBVIOUS
  <2>1. DOMAIN slots = {} /\ calm = 0 /\ todo = {} /\ found = {} /\ DOMAIN seen = {}
        /\ reading = FALSE
    BY DEF HwmonInit, NoChips
  <2> QED BY <2>1, FS_EmptySet DEF StableInv
<1>2. ASSUME StableInv, [HwmonNext]_hwmonVars, reading, ~reading', calm = 2, todo = {},
             NEW s \in sent, NEW t \in sent', s.id = t.id
      PROVE  s.chip = t.chip
  <2>1. sent' = found
    BY <1>2 DEF HwmonNext, ListRoot, Scan, Read, ScanFails, Return, Appear, Disappear, hwmonVars
  <2>2. DOMAIN slots \ todo = DOMAIN slots
    BY <1>2
  <2>3. NamedAfter(found, DOMAIN slots) /\ NamedAfter(sent, DOMAIN slots)
    BY <1>2, <2>2 DEF StableInv, ReadInOrder
  <2>4. PICK d \in DOMAIN slots : s.chip = slots[d] /\ s.id[1] = Owner(d)
    BY <1>2, <2>3 DEF NamedAfter
  <2>5. PICK e \in DOMAIN slots : t.chip = slots[e] /\ t.id[1] = Owner(e)
    BY <1>2, <2>1, <2>3 DEF NamedAfter
  <2>6. d = e
    BY <1>2, <2>4, <2>5, OneOwner DEF StableInv
  <2> QED BY <2>4, <2>5, <2>6
<1>3. StableInv /\ [HwmonNext]_hwmonVars =>
        [ (reading /\ ~reading' /\ calm = 2 /\ todo = {}) =>
            \A s \in sent, t \in sent' : s.id = t.id => s.chip = t.chip ]_hwmonVars
  BY <1>2
<1> QED BY <1>1, <1>3, StableStep, PTL DEF HwmonSpec, StableIds

-----------------------------------------------------------------------------
\* Temperatures of cards

\* A set of integers that is bounded above has a greatest member.
LEMMA GreatestOf ==
    ASSUME NEW T, T \subseteq Int, T # {}, NEW high \in Int, \A x \in T : x <= high
    PROVE  Max(T) \in T /\ \A y \in T : y <= Max(T)
<1> DEFINE U == {0 - x : x \in T}
<1>1. U \subseteq Int /\ U # {} /\ 0 - high \in Int /\ \A u \in U : 0 - high <= u
  <2>1. \A x \in T : x \in Int /\ 0 - x \in Int /\ 0 - high <= 0 - x
    OBVIOUS
  <2>2. 0 - high \in Int
    OBVIOUS
  <2>3. U # {}
    <3>1. PICK x \in T : TRUE
      OBVIOUS
    <3>2. 0 - x \in U
      OBVIOUS
    <3> HIDE DEF U
    <3> QED BY <3>2
  <2> QED BY <2>1, <2>2, <2>3
<1> HIDE DEF U
<1>2. Min(U) \in U /\ \A u \in U : Min(U) <= u
  BY <1>1, LeastOf
<1>3. PICK x \in T : Min(U) = 0 - x
  BY <1>2 DEF U
<1>4. \A y \in T : y <= x
  <2> SUFFICES ASSUME NEW y \in T PROVE y <= x
    OBVIOUS
  <2>1. 0 - y \in U
    BY DEF U
  <2>2. 0 - x <= 0 - y
    BY <1>2, <1>3, <2>1
  <2> QED BY <2>2
<1>5. \A y \in T : x >= y
  BY <1>4
<1> QED BY <1>5 DEF Max

\* The cards are listed in a sequence, and what was matched is right.
VramInv == listed \in Seq(Cards) /\ OwnVramByBus

\* A row of which nothing was dropped is the whole listing.
LEMMA WholeRow ==
    ASSUME listed \in Seq(Cards), NEW row, NEW end \in 0 .. Len(listed),
           row = SubSeq(listed, 1, end) \/ row = <<>>,
           Len(InRange(row)) = Len(listed)
    PROVE  InRange(row) = listed
<1> DEFINE n      == Len(listed)
           kept   == {i \in DOMAIN row : row[i] \in usable}
           upTo(i) == {j \in kept : j <= i}
           nth(k) == CHOOSE i \in kept : Cardinality(upTo(i)) = k
<1>1. n \in Nat /\ listed \in [1 .. n -> Cards]
  OBVIOUS
<1>2. DOMAIN row \subseteq 1 .. n /\ \A i \in DOMAIN row : row[i] = listed[i]
  <2>1. CASE row = SubSeq(listed, 1, end)
    BY <1>1, <2>1
  <2>2. CASE row = <<>>
    BY <2>2
  <2> QED BY <2>1, <2>2
<1>3. IsFiniteSet(1 .. n) /\ Cardinality(1 .. n) = n
  <2> HIDE DEF n
  <2>1. 1 \in Int /\ n \in Int
    BY <1>1
  <2>2. IsFiniteSet(1 .. n) /\ Cardinality(1 .. n) = IF 1 > n THEN 0 ELSE n - 1 + 1
    BY <2>1, FS_Interval
  <2> QED BY <1>1, <2>2
<1>4. kept \in SUBSET (1 .. n)
  BY <1>2
<1>5. IsFiniteSet(kept) /\ Cardinality(kept) \in Nat
  BY <1>3, <1>4, FS_Subset, FS_CardinalityType
<1>6. InRange(row) = [k \in 1 .. Cardinality(kept) |-> row[nth(k)]]
  BY Zenon DEF InRange
<1>7. Cardinality(kept) = n
  <2> HIDE DEF kept, nth
  <2>1. Len([k \in 1 .. Cardinality(kept) |-> row[nth(k)]]) = Cardinality(kept)
    BY <1>5
  <2> QED BY <1>6, <2>1
<1>8. kept = 1 .. n
  <2> HIDE DEF kept
  <2> QED BY <1>3, <1>4, <1>7, FS_Subset
<1>9. ASSUME NEW i \in 1 .. n PROVE Cardinality(upTo(i)) = i
  <2>1. upTo(i) = 1 .. i
    <3> HIDE DEF kept
    <3> QED BY <1>8
  <2>2. Cardinality(1 .. i) = i
    BY FS_Interval
  <2> QED BY <2>1, <2>2
<1> HIDE DEF upTo
<1>10. ASSUME NEW k \in 1 .. n PROVE nth(k) = k
  <2> HIDE DEF kept
  <2> QED BY <1>8, <1>9
<1>11. \A k \in 1 .. n : k \in DOMAIN row
  BY <1>8
<1> HIDE DEF kept, nth
<1>12. [k \in 1 .. n |-> row[nth(k)]] = listed
  BY <1>1, <1>2, <1>10, <1>11
<1> QED BY <1>6, <1>7, <1>12

\* A card whose line has its bus, and no other line has, gets its own value.
LEMMA MatchedByBus ==
    ASSUME listed \in Seq(Cards), ToSet(listed) = Cards, busKnown = Cards,
           \A g, o \in Cards : Bus[g] = Bus[o] => g = o,
           NEW row, InRange(row) = listed, NEW g \in Cards
    PROVE  Match(g, ParseGddr6(row)) = g
<1> DEFINE n      == Len(listed)
           parsed == ParseGddr6(row)
           lines  == {i \in DOMAIN parsed.byBus : parsed.byBus[i][1] = Bus[g]}
<1>1. n \in Nat /\ listed \in [1 .. n -> Cards]
  OBVIOUS
<1>2. parsed.byBus = [i \in 1 .. n |-> <<Bus[listed[i]], listed[i]>>]
  BY Zenon DEF ParseGddr6
<1>3. lines = {i \in 1 .. n : listed[i] = g}
  <2>1. lines = {i \in 1 .. n : Bus[listed[i]] = Bus[g]}
    <3> HIDE DEF parsed
    <3> QED BY <1>2
  <2> HIDE DEF lines
  <2> QED BY <1>1, <2>1
<1>4. lines # {}
  <2>1. PICK i \in DOMAIN listed : listed[i] = g
    BY DEF ToSet
  <2> HIDE DEF lines
  <2> QED BY <1>1, <1>3, <2>1
<1>5. Max(lines) \in lines
  <2> HIDE DEF lines
  <2>1. lines \subseteq Int /\ n \in Int /\ \A x \in lines : x <= n
    BY <1>1, <1>3
  <2> QED BY <1>4, <2>1, GreatestOf
<1>6. Match(g, parsed) = parsed.byBus[Max(lines)][2]
  BY <1>4, Zenon DEF Match
<1>7. parsed.byBus[Max(lines)][2] = g
  <2> HIDE DEF lines, parsed
  <2> QED BY <1>1, <1>2, <1>3, <1>5
<1> QED BY <1>6, <1>7

LEMMA VramStep == VramInv /\ [VramNext]_vramVars => VramInv'
<1> SUFFICES ASSUME VramInv, [VramNext]_vramVars PROVE VramInv'
  OBVIOUS
<1>1. CASE CardsChange \/ Resolve \/ UNCHANGED vramVars
  BY <1>1 DEF CardsChange, Resolve, vramVars, machine, VramInv, OwnVramByBus
<1>2. CASE ListingChanges
  <2>1. \A s \in SUBSET Cards : Cardinality(s) \in Nat
    <3>1. IsFiniteSet(Cards)
      BY VramAssumption, FS_Interval DEF VramAssumption, Cards
    <3> QED BY <3>1, FS_Subset, FS_CardinalityType
  <2>2. PICK s \in SUBSET Cards : listed' \in [1 .. Cardinality(s) -> s]
    BY <1>2 DEF ListingChanges, SetToAllKPermutations, SetToSeqs
  <2>3. listed' \in Seq(Cards)
    BY <2>1, <2>2
  <2> QED BY <1>2, <2>3 DEF ListingChanges, VramInv, OwnVramByBus
<1>3. CASE CollectVram
  <2>1. PICK end \in 0 .. Len(listed) :
          LET row    == IF gddr6 = "found" THEN SubSeq(listed, 1, end) ELSE <<>>
              parsed == ParseGddr6(row)
          IN  /\ vram' = [g \in Cards |-> IF g \in byNvml THEN g ELSE Match(g, parsed)]
              /\ matched' = ( /\ Len(parsed.ordered) = Len(listed) /\ ToSet(listed) = Cards
                              /\ busKnown = Cards
                              /\ \A g, o \in Cards : Bus[g] = Bus[o] => g = o )
    BY <1>3, Zenon DEF CollectVram
  <2> DEFINE row == IF gddr6 = "found" THEN SubSeq(listed, 1, end) ELSE <<>>
  <2>2. row = SubSeq(listed, 1, end) \/ row = <<>>
    OBVIOUS
  <2> HIDE DEF row
  <2>3. /\ vram' = [g \in Cards |-> IF g \in byNvml THEN g ELSE Match(g, ParseGddr6(row))]
        /\ matched' => /\ Len(ParseGddr6(row).ordered) = Len(listed)
                       /\ ToSet(listed) = Cards /\ busKnown = Cards
                       /\ \A g, o \in Cards : Bus[g] = Bus[o] => g = o
    BY <2>1, Zenon DEF row
  <2>4. ParseGddr6(row).ordered = InRange(row)
    BY DEF ParseGddr6
  <2>5. ASSUME matched', NEW g \in Cards PROVE vram'[g] = g
    <3>1. listed \in Seq(Cards)
      BY DEF VramInv
    <3>2. InRange(row) = listed
      BY <2>2, <2>3, <2>4, <2>5, <3>1, WholeRow
    <3>3. Match(g, ParseGddr6(row)) = g
      BY <2>3, <2>5, <3>1, <3>2, MatchedByBus
    <3> QED BY <2>3, <3>3
  <2>6. UNCHANGED listed
    BY <1>3 DEF CollectVram, machine
  <2> QED BY <2>5, <2>6 DEF VramInv, OwnVramByBus
<1>4. CASE ToolFails \/ CollectFails
  BY <1>4 DEF ToolFails, CollectFails, machine, VramInv, OwnVramByBus
<1> QED BY <1>1, <1>2, <1>3, <1>4 DEF VramNext

\* Every card gets its own temperature when the tool lists every card by a bus
\* of its own, for any number of cards in any orders (gpu_nvidia.py 47-57, 197-200).
THEOREM VramAlwaysOwn == VramSpec => []OwnVramByBus
<1>1. VramInit => VramInv
  BY DEF VramInit, VramInv, OwnVramByBus
<1>2. VramInv => OwnVramByBus
  BY DEF VramInv
<1> QED BY <1>1, <1>2, VramStep, PTL DEF VramSpec

-----------------------------------------------------------------------------
\* Containers

\* A task is at a container that was running when it was listed, an answer is
\* of the container of its task.
Answered ==
    /\ tasks # <<>> => uninspected = {} /\ pass = "stats"
    /\ \A i \in DOMAIN answers : i \in Places /\ answers[i] \in {tasks[i], NoStats}
    /\ busy \subseteq Places
    /\ \A i \in Places : tasks[i] \in RunningOnes

\* The pass began before the containers were inspected.
Clocked ==
    /\ clock \in Nat /\ begunAt \in Nat
    /\ pass = "no" => uninspected = {} /\ DOMAIN inspected = {}
    /\ pass # "no" => begunAt <= clock
    /\ began \in [Ids -> Nat] /\ \A c \in Ids : began[c] <= clock
    /\ uninspected \subseteq Ids /\ DOMAIN inspected \subseteq Ids
    /\ \A c \in DOMAIN inspected :
          /\ inspected[c].began \in Nat /\ inspected[c].ran \in Int
          /\ inspected[c].status = "running" =>
                inspected[c].began + inspected[c].ran \in begunAt .. clock

LEMMA ClockedInit == ContainersInit => Clocked
  BY DEF ContainersInit, Clocked, None

LEMMA ClockedStep == Clocked /\ [ContainersNext]_containerVars => Clocked'
<1> SUFFICES ASSUME Clocked, [ContainersNext]_containerVars PROVE Clocked'
  OBVIOUS
<1> USE DEF Clocked
<1>1. ASSUME NEW c \in Ids, NEW before, NEW after, Changes(c, before, after) PROVE Clocked'
  BY <1>1 DEF Changes, work
<1>2. CASE Lives
  BY <1>1, <1>2 DEF Lives
<1>3. CASE SecondPasses
  BY <1>3 DEF SecondPasses, work
<1>4. CASE Inspect
  <2>1. PICK c \in uninspected :
          IF life[c] = "none"
          THEN pass' = "no" /\ Drop
          ELSE /\ uninspected' = uninspected \ {c} /\ UNCHANGED <<pass, begunAt, pool>>
               /\ inspected' = [k \in DOMAIN inspected \cup {c} |->
                     IF k # c THEN inspected[k]
                     ELSE [status |-> life[c], began |-> began[c],
                           ran |-> IF life[c] = "running" THEN clock - began[c] ELSE 0]]
    BY <1>4 DEF Inspect
  <2>2. UNCHANGED <<clock, began>>
    BY <1>4 DEF Inspect, docker
  <2>3. CASE life[c] = "none"
    BY <2>1, <2>2, <2>3 DEF Drop, None
  <2>4. CASE life[c] # "none"
    <3>1. /\ uninspected' = uninspected \ {c} /\ pass' = pass /\ begunAt' = begunAt
          /\ inspected' = [k \in DOMAIN inspected \cup {c} |->
                IF k # c THEN inspected[k]
                ELSE [status |-> life[c], began |-> began[c],
                      ran |-> IF life[c] = "running" THEN clock - began[c] ELSE 0]]
      BY <2>1, <2>4
    <3>2. c \in Ids /\ pass # "no" /\ began[c] \in Nat /\ began[c] <= clock
      BY <2>1
    <3>3. ASSUME NEW k \in DOMAIN inspected'
          PROVE  /\ inspected'[k].began \in Nat /\ inspected'[k].ran \in Int
                 /\ inspected'[k].status = "running" =>
                       inspected'[k].began + inspected'[k].ran \in begunAt .. clock
      <4>1. CASE k # c
        BY <3>1, <3>3, <4>1
      <4>2. CASE k = c
        <5>1. inspected'[k] = [status |-> life[c], began |-> began[c],
                               ran |-> IF life[c] = "running" THEN clock - began[c] ELSE 0]
          BY <3>1, <4>2
        <5> QED BY <3>2, <5>1
      <4> QED BY <4>1, <4>2
    <3>4. DOMAIN inspected' \subseteq Ids /\ uninspected' \subseteq Ids
      BY <3>1, <3>2
    <3> QED BY <2>2, <3>1, <3>2, <3>3, <3>4
  <2> QED BY <2>3, <2>4
<1>5. ASSUME NEW which \in {"stats", "state"}, Begin(which) PROVE Clocked'
  BY <1>5 DEF Begin, docker
<1>6. CASE Submit \/ Take \/ Answer
  BY <1>6 DEF Submit, Take, Answer, Keep, Inspected, docker
<1>7. CASE ShipStats \/ ShipStates
  BY <1>7 DEF ShipStats, ShipStates, Drop, None, Inspected, docker
<1>8. CASE UNCHANGED containerVars
  BY <1>8 DEF containerVars, docker, work
<1> QED BY <1>2, <1>3, <1>4, <1>5, <1>6, <1>7, <1>8 DEF ContainersNext

\* An uptime is no further from the truth than the pass took, for any
\* containers and any course of their lives (docker_state.py 74, 91-95).
THEOREM UptimeAlwaysOfThisRun == ContainersSpec => UptimeIsOfThisRun
<1>1. Clocked /\ [ContainersNext]_containerVars =>
          [ShipStates =>
              \A c \in DOMAIN uptimes' :
                  uptimes'[c] \in inspected[c].ran - (clock - begunAt) .. inspected[c].ran
          ]_containerVars
  BY DEF Clocked, ShipStates, Uptimes, RunningOnes
<1> QED BY <1>1, ClockedInit, ClockedStep, PTL DEF ContainersSpec, UptimeIsOfThisRun

\* A set that is put in order is a sequence of its members.
LEMMA InOrderOfTasks ==
    ASSUME NEW S, IsFiniteSet(S)
    PROVE  Len(SetToSeq(S)) = Cardinality(S)
           /\ \A i \in 1 .. Len(SetToSeq(S)) : SetToSeq(S)[i] \in S
<1>1. Cardinality(S) \in Nat /\ ExistsBijection(1 .. Cardinality(S), S)
  BY FS_CardinalityType
<1>2. PICK f \in [1 .. Cardinality(S) -> S] : IsInjective(f)
  BY <1>1 DEF ExistsBijection, Bijection, Injection
<1>3. SetToSeq(S) \in [1 .. Cardinality(S) -> S]
  BY <1>2 DEF SetToSeq
<1>4. Len(SetToSeq(S)) = Cardinality(S)
  BY <1>1, <1>3
<1> QED BY <1>1, <1>3, <1>4

LEMMA AnsweredInit == ContainersInit => Answered /\ OwnStats
  BY DEF ContainersInit, Answered, OwnStats, None, Places

\* A step of a thread answers for its own task only (containers.py 84-105).
LEMMA AnsweredStep ==
    Clocked /\ Answered /\ OwnStats /\ [ContainersNext]_containerVars => (Answered /\ OwnStats)'
<1> SUFFICES ASSUME Clocked, Answered, OwnStats, [ContainersNext]_containerVars
             PROVE  (Answered /\ OwnStats)'
  OBVIOUS
<1> USE DEF Answered, OwnStats
<1>1. CASE Lives \/ SecondPasses \/ UNCHANGED containerVars
  <2>1. UNCHANGED <<pass, uninspected, inspected, tasks, busy, answers, rows>>
    BY <1>1 DEF Lives, Changes, SecondPasses, containerVars, work, pool, shipments
  <2> QED BY <2>1 DEF Places, RunningOnes
<1>2. CASE Inspect
  <2>1. tasks = <<>> /\ tasks' = <<>> /\ rows' = rows
    BY <1>2 DEF Inspect, Drop, pool, shipments
  <2>2. busy' \subseteq busy /\ DOMAIN answers' \subseteq DOMAIN answers
    BY <1>2 DEF Inspect, Drop, None, pool
  <2>3. Places = {} /\ Places' = {}
    BY <2>1 DEF Places
  <2> QED BY <2>1, <2>2, <2>3
<1>3. ASSUME NEW which \in {"stats", "state"}, Begin(which) PROVE (Answered /\ OwnStats)'
  <2>1. tasks = <<>> /\ tasks' = <<>> /\ UNCHANGED <<busy, answers>> /\ rows' = None
    BY <1>3 DEF Begin, pool
  <2> QED BY <2>1 DEF Places, None
<1>4. CASE Submit
  <2>1. tasks = <<>> /\ tasks' = SetToSeq(RunningOnes) /\ uninspected = {} /\ pass = "stats"
        /\ UNCHANGED <<busy, answers, pass, uninspected, inspected, rows>>
    BY <1>4 DEF Submit, Keep, Inspected, shipments
  <2>2. IsFiniteSet(RunningOnes)
    BY FS_Subset, ContainersAssumption DEF ContainersAssumption, RunningOnes, Clocked
  <2>3. \A i \in 1 .. Len(tasks') : tasks'[i] \in RunningOnes
    BY <2>1, <2>2, InOrderOfTasks
  <2>4. busy = {} /\ DOMAIN answers = {}
    <3>1. Places = {}
      BY <2>1 DEF Places
    <3> QED BY <3>1
  <2> QED BY <2>1, <2>3, <2>4 DEF Places, RunningOnes
<1>5. CASE Take
  <2>1. UNCHANGED <<tasks, answers, pass, uninspected, inspected, rows>>
        /\ \E i \in Places : busy' = busy \cup {i}
    BY <1>5 DEF Take, Keep, shipments
  <2> QED BY <2>1 DEF Places, RunningOnes
<1>6. CASE Answer
  <2>1. UNCHANGED <<tasks, pass, uninspected, inspected, rows>>
    BY <1>6 DEF Answer, Keep, shipments
  <2>2. PICK i \in busy : \E r \in {Measured(tasks[i]), NoStats} :
           busy' = busy \ {i} /\ Put(i, r)
    BY <1>6 DEF Answer
  <2>3. PICK told \in {Measured(tasks[i]), NoStats} : busy' = busy \ {i} /\ Put(i, told)
    BY <2>2
  <2>4. told \in {tasks[i], NoStats} /\ i \in Places
    BY <2>3 DEF Measured
  <2>5. \A j \in DOMAIN answers' : j \in Places /\ answers'[j] \in {tasks[j], NoStats}
    BY <2>3, <2>4 DEF Put
  <2> QED BY <2>1, <2>3, <2>5 DEF Places, RunningOnes
<1>7. CASE ShipStats
  <2>1. tasks' = <<>> /\ busy' = {} /\ DOMAIN answers' = {}
    BY <1>7 DEF ShipStats, Drop, None
  <2>2. ASSUME NEW c \in DOMAIN rows'
        PROVE  /\ rows'[c].stats \in {c, NoStats}
               /\ rows'[c].status # "running" => rows'[c].stats = NoStats
    <3>1. c \in DOMAIN inspected
          /\ rows'[c] = [status |-> inspected[c].status,
                         stats  |-> IF \E i \in Places : tasks[i] = c
                                    THEN answers[CHOOSE i \in Places : tasks[i] = c]
                                    ELSE NoStats]
      BY <1>7, <2>2 DEF ShipStats
    <3>2. CASE \E i \in Places : tasks[i] = c
      <4> DEFINE i == CHOOSE j \in Places : tasks[j] = c
      <4>1. i \in Places /\ tasks[i] = c
        BY <3>2
      <4>2. answers[i] \in {c, NoStats} /\ c \in RunningOnes
        BY <1>7, <4>1 DEF ShipStats
      <4> QED BY <3>1, <3>2, <4>2 DEF RunningOnes
    <3>3. CASE ~\E i \in Places : tasks[i] = c
      BY <3>1, <3>3
    <3> QED BY <3>2, <3>3
  <2> QED BY <2>1, <2>2 DEF Places
<1>8. CASE ShipStates
  <2>1. tasks' = <<>> /\ busy' = {} /\ DOMAIN answers' = {} /\ rows' = rows
    BY <1>8 DEF ShipStates, Drop, None
  <2> QED BY <2>1 DEF Places
<1> QED BY <1>1, <1>2, <1>3, <1>4, <1>5, <1>6, <1>7, <1>8 DEF ContainersNext

\* The statistics of a row are those of its container (containers.py 84-119),
\* for any number of containers and threads.
THEOREM StatsAlwaysOwn == ContainersSpec => []OwnStats
  BY ClockedInit, ClockedStep, AnsweredInit, AnsweredStep, PTL DEF ContainersSpec
=============================================================================
