------------------------- MODULE SelfUpdate_proofs -------------------------
(***************************************************************************)
(* What the self-update guarantees for any releases, any throttle and any  *)
(* number of threads.                                                      *)
(***************************************************************************)
EXTENDS SelfUpdate, FiniteSetTheorems, TLAPS

Flags == updating \in BOOLEAN /\ command \in BOOLEAN /\ restartDue \in BOOLEAN
         /\ asked \in BOOLEAN
Times == /\ wait \in 0 .. Throttle /\ uptime \in 0 .. Throttle
         /\ since \in 0 .. Throttle /\ worked \in 0 .. MaxWork
         /\ left \in [Accidents -> Nat]
Steps == /\ step \in [Updaters -> {"none", "fetch", "download", "pip"}]
         /\ base \in [Updaters -> Versions \cup {0}]
         /\ seen \in [Updaters -> 0 .. Last] /\ got \in [Updaters -> 0 .. Last]
         /\ running \in Versions \cup {0} /\ installed \in Versions \cup {0}
         /\ manifest \in 1 .. Last /\ tarball \in 1 .. Last

\* An updater past a request has the index of what it was answered.
Indices ==
    \A u \in Updaters : /\ step[u] = "download" => seen[u] \in 1 .. Last
                        /\ step[u] = "pip" => got[u] \in 1 .. Last

TypeInv == Flags /\ Times /\ Steps /\ Indices

-----------------------------------------------------------------------------
\* Both versions of a release are versions.
LEMMA VersionsOfReleases ==
    ASSUME NEW i \in 1 .. Last
    PROVE  Releases[i].holds \in Versions /\ Releases[i].says \in Versions
  BY DEF Versions

LEMMA LastIsPositive == Last \in Nat /\ Last >= 1
<1>1. ASSUME NEW S, NEW s \in Seq(S), s /= << >>
      PROVE  Len(s) \in Nat /\ Len(s) >= 1
  BY <1>1
<1> QED BY <1>1, SelfUpdateAssumption DEF Last, SelfUpdateAssumption

LEMMA Durations == Throttle \in Nat \ {0} /\ MaxWork \in Nat \ {0}
                   /\ Budget \in [Accidents -> Nat]
  BY SelfUpdateAssumption DEF SelfUpdateAssumption

LEMMA AccidentSpends ==
    ASSUME left \in [Accidents -> Nat], NEW a \in Accidents, Happens(a)
    PROVE  left' \in [Accidents -> Nat]
  BY DEF Happens

LEMMA TypeInit == Init => TypeInv
<1> SUFFICES ASSUME Init PROVE TypeInv
  OBVIOUS
<1>1. 1 \in 1 .. Last /\ 0 \in 0 .. Last
  BY LastIsPositive
<1>2. installed \in Versions
  BY <1>1, VersionsOfReleases DEF Init
<1>3. Flags
  BY DEF Init, Flags
<1>4. Times
  BY Durations DEF Init, Times
<1>5. Steps /\ Indices
  BY <1>1, <1>2 DEF Init, Steps, Indices
<1> QED BY <1>3, <1>4, <1>5 DEF TypeInv

LEMMA FlagsStep == Flags /\ [Next]_vars => Flags'
<1> SUFFICES ASSUME Flags, [Next]_vars
             PROVE  Flags'
  OBVIOUS
<1> USE DEF Flags, process, work, site, others
<1>1. Asks \in BOOLEAN
  BY DEF Asks
<1>2. CASE Push
  BY <1>1, <1>2 DEF Push, StartThread, NoThread
<1>3. CASE DrainedPush
  BY <1>1, <1>3 DEF DrainedPush, NoThread
<1>4. CASE Start \/ Crash \/ Restart \/ UpdateByHand
  BY <1>4 DEF Start, Crash, Restart, Killed, UpdateByHand
<1>5. ASSUME NEW u \in Updaters, SelfUpdates(u) \/ Fail(u)
      PROVE  Flags'
  BY <1>5 DEF SelfUpdates, Fetch, Download, Pip, Fail, Returns
<1>6. CASE PublishTarball \/ PublishManifest \/ Tick \/ UNCHANGED vars
  BY <1>6 DEF PublishTarball, PublishManifest, Tick, vars
<1> QED BY <1>2, <1>3, <1>4, <1>5, <1>6 DEF Next

LEMMA TimesStep == Times /\ Flags /\ [Next]_vars => Times'
<1> SUFFICES ASSUME Times, Flags, [Next]_vars
             PROVE  Times'
  OBVIOUS
<1> USE Durations DEF Times, process, work, site, others
<1>1. CASE Push \/ DrainedPush
  BY <1>1 DEF Push, DrainedPush, StartThread, NoThread
<1>2. CASE Start
  BY <1>2 DEF Start
<1>3. CASE Crash
  BY <1>3, AccidentSpends DEF Crash, Killed, Accidents
<1>4. CASE Restart
  BY <1>4 DEF Restart, Killed
<1>5. CASE UpdateByHand
  BY <1>5, AccidentSpends DEF UpdateByHand, Accidents
<1>6. ASSUME NEW u \in Updaters, SelfUpdates(u)
      PROVE  Times'
  BY <1>6 DEF SelfUpdates, Fetch, Download, Pip
<1>7. ASSUME NEW u \in Updaters, Fail(u)
      PROVE  Times'
  BY <1>7, AccidentSpends DEF Fail, Accidents
<1>8. CASE Tick
  BY <1>8 DEF Tick, Advance
<1>9. CASE PublishTarball \/ PublishManifest \/ UNCHANGED vars
  BY <1>9 DEF PublishTarball, PublishManifest, vars
<1> QED BY <1>1, <1>2, <1>3, <1>4, <1>5, <1>6, <1>7, <1>8, <1>9 DEF Next

LEMMA StepsStep == Steps /\ Indices /\ [Next]_vars => Steps' /\ Indices'
<1> SUFFICES ASSUME Steps, Indices, [Next]_vars
             PROVE  Steps' /\ Indices'
  OBVIOUS
<1> USE LastIsPositive DEF Steps, Indices, process, work, site, others
<1>1. CASE Start
  BY <1>1 DEF Start
<1>2. CASE StartThread
  <2>1. PICK t \in Idle : /\ step' = [step EXCEPT ![t] = "fetch"]
                          /\ base' = [base EXCEPT ![t] = running]
    BY <1>2 DEF StartThread
  <2>2. t \in Updaters
    BY DEF Idle, Updaters
  <2> QED BY <1>2, <2>1, <2>2 DEF StartThread
<1>3. CASE NoThread
  BY <1>3 DEF NoThread
<1>4. CASE Push \/ DrainedPush
  BY <1>2, <1>3, <1>4 DEF Push, DrainedPush
<1>5. CASE Killed
  <2>1. installed' \in Versions \cup {0}
    BY <1>5, VersionsOfReleases DEF Killed, Updaters
  <2> QED BY <1>5, <2>1 DEF Killed
<1>6. CASE Crash \/ Restart
  BY <1>5, <1>6 DEF Crash, Restart
<1>7. CASE UpdateByHand
  BY <1>7 DEF UpdateByHand, Updaters
<1>8. ASSUME NEW u \in Updaters, Fail(u)
      PROVE  Steps' /\ Indices'
  <2>1. installed' \in Versions \cup {0}
    BY <1>8, VersionsOfReleases DEF Fail
  <2> QED BY <1>8, <2>1 DEF Fail, Returns
<1>9. ASSUME NEW u \in Updaters, Fetch(u)
      PROVE  Steps' /\ Indices'
  <2>1. PICK where \in {"none", "download"} : step' = [step EXCEPT ![u] = where]
    BY <1>9 DEF Fetch, Returns
  <2>2. /\ seen' = [seen EXCEPT ![u] = manifest]
        /\ UNCHANGED <<base, got, running, installed, manifest, tarball>>
    BY <1>9 DEF Fetch
  <2>3. manifest \in 0 .. Last
    OBVIOUS
  <2>4. Steps'
    BY <2>1, <2>2, <2>3
  <2> QED BY <2>1, <2>2, <2>4
<1>10. ASSUME NEW u \in Updaters, Download(u)
       PROVE  Steps' /\ Indices'
  <2>1. PICK where \in {"none", "pip"} : step' = [step EXCEPT ![u] = where]
    BY <1>10 DEF Download, Returns
  <2>2. /\ got' = [got EXCEPT ![u] = tarball]
        /\ UNCHANGED <<base, seen, running, installed, manifest, tarball>>
    BY <1>10 DEF Download
  <2>3. tarball \in 0 .. Last
    OBVIOUS
  <2>4. Steps'
    BY <2>1, <2>2, <2>3
  <2> QED BY <2>1, <2>2, <2>4
<1>11. ASSUME NEW u \in Updaters, Pip(u)
       PROVE  Steps' /\ Indices'
  <2>1. installed' \in Versions
    BY <1>11, VersionsOfReleases DEF Pip
  <2> QED BY <1>11, <2>1 DEF Pip, Returns
<1>12. CASE PublishTarball
  BY <1>12 DEF PublishTarball
<1>13. CASE PublishManifest
  BY <1>13 DEF PublishManifest
<1>14. CASE Tick \/ UNCHANGED vars
  BY <1>14 DEF Tick, vars
<1> QED BY <1>1, <1>4, <1>6, <1>7, <1>8, <1>9, <1>10, <1>11, <1>12, <1>13, <1>14
        DEF Next, SelfUpdates

\* The variables keep their types, and an updater past a request its answer.
THEOREM SelfUpdateInvariant == Spec => []TypeInv
<1>1. TypeInv /\ [Next]_vars => TypeInv'
  BY FlagsStep, TimesStep, StepsStep DEF TypeInv
<1> QED BY <1>1, TypeInit, PTL DEF Spec

\* Every variable keeps its type, whatever fails, crashes or is published.
THEOREM SelfUpdateTyped == Spec => []TypeOK
<1>1. TypeInv => TypeOK
  BY DEF TypeInv, TypeOK, Flags, Times, Steps
<1> QED BY <1>1, SelfUpdateInvariant, PTL

-----------------------------------------------------------------------------
\* One thread

Busy == Threads \ Idle

\* OneThread without cardinalities; no thread outlives its process.
ThreadInv ==
    /\ running = 0 => ~updating
    /\ updating => \E t \in Threads : Busy = {t}
    /\ ~updating => Busy = {}

LEMMA ThreadInvIsOneThread == Flags /\ ThreadInv => OneThread
<1> SUFFICES ASSUME Flags, ThreadInv
             PROVE  OneThread
  OBVIOUS
<1>1. CASE updating
  <2>1. PICK t \in Threads : Busy = {t}
    BY <1>1 DEF ThreadInv
  <2>2. Cardinality({t}) = 1
    BY FS_Singleton
  <2> QED BY <1>1, <2>1, <2>2 DEF OneThread, Busy
<1>2. CASE ~updating
  <2>1. Cardinality({}) = 0
    BY FS_EmptySet
  <2> QED BY <1>2, <2>1 DEF OneThread, Busy, ThreadInv
<1> QED BY <1>1, <1>2 DEF Flags

\* An updater that returns was the one that "updating" stands for, or the
\* command, which the flag has nothing to do with (cli.py 258-261).
LEMMA ReturnsKeepsThread ==
    ASSUME Steps, ThreadInv, NEW u \in Updaters, step[u] /= "none", Returns(u),
           UNCHANGED running
    PROVE  ThreadInv'
<1>1. CASE u \in Threads
  <2>1. u \in Busy
    BY <1>1 DEF Busy, Idle
  <2>2. Busy = {u}
    BY <2>1 DEF ThreadInv
  <2>3. Busy' = {}
    BY <1>1, <2>2 DEF Returns, Busy, Idle, Steps
  <2> QED BY <1>1, <2>3 DEF ThreadInv, Returns
<1>2. CASE u \notin Threads
  <2>1. Busy' = Busy
    BY <1>2 DEF Returns, Busy, Idle, Steps
  <2> QED BY <1>2, <2>1 DEF ThreadInv, Returns
<1> QED BY <1>1, <1>2

\* An updater that goes on to another step is busy before and after.
LEMMA GoingOnKeepsThread ==
    ASSUME Steps, ThreadInv, NEW u \in Updaters, step[u] /= "none",
           NEW where, where /= "none",
           step' = [step EXCEPT ![u] = where], UNCHANGED <<running, updating>>
    PROVE  ThreadInv'
<1>1. Busy' = Busy
  BY DEF Busy, Idle, Updaters, Steps
<1> QED BY <1>1 DEF ThreadInv

LEMMA ThreadStep == Steps /\ ThreadInv /\ [Next]_vars => ThreadInv'
<1> SUFFICES ASSUME Steps, ThreadInv, [Next]_vars
             PROVE  ThreadInv'
  OBVIOUS
<1> USE DEF process, work, site, others
<1>1. CASE UNCHANGED <<step, updating, running>>
  BY <1>1 DEF ThreadInv, Busy, Idle
<1>2. CASE StartThread /\ ~updating /\ running /= 0
  <2>1. PICK t \in Idle : step' = [step EXCEPT ![t] = "fetch"]
    BY <1>2 DEF StartThread
  <2>2. t \in Threads /\ Busy = {}
    BY <1>2 DEF Idle, ThreadInv
  <2>3. Busy' = {t}
    BY <2>1, <2>2 DEF Busy, Idle, Steps, Updaters
  <2> QED BY <1>2, <2>2, <2>3 DEF ThreadInv, StartThread
<1>3. CASE Push \/ DrainedPush
  BY <1>1, <1>2, <1>3 DEF Push, DrainedPush, NoThread
<1>4. CASE Start
  <2>1. running = 0 /\ updating' = FALSE /\ step' = step
    BY <1>4 DEF Start
  <2>2. Busy' = {}
    BY <2>1 DEF ThreadInv, Busy, Idle
  <2> QED BY <2>1, <2>2 DEF ThreadInv
<1>5. CASE Crash \/ Restart
  <2>1. Killed
    BY <1>5 DEF Crash, Restart
  <2>2. Busy' = {}
    BY <2>1 DEF Killed, Busy, Idle, Updaters
  <2> QED BY <2>1, <2>2 DEF Killed, ThreadInv
<1>6. CASE UpdateByHand
  <2>1. Busy' = Busy
    BY <1>6, SelfUpdateAssumption DEF UpdateByHand, Busy, Idle, Steps, Updaters,
             SelfUpdateAssumption
  <2> QED BY <1>6, <2>1 DEF UpdateByHand, ThreadInv
<1>7. ASSUME NEW u \in Updaters, SelfUpdates(u) \/ Fail(u)
      PROVE  ThreadInv'
  BY <1>7, ReturnsKeepsThread, GoingOnKeepsThread DEF SelfUpdates, Fetch, Download, Pip, Fail
<1>8. CASE PublishTarball \/ PublishManifest \/ Tick \/ UNCHANGED vars
  BY <1>1, <1>8 DEF PublishTarball, PublishManifest, Tick, vars
<1> QED BY <1>3, <1>4, <1>5, <1>6, <1>7, <1>8 DEF Next

\* One update runs in the daemon at a time, for every number of threads and
\* every duration of an update (cli.py 250-261).
THEOREM OneThreadEver == Spec => []OneThread
<1>1. Init => ThreadInv
  <2> SUFFICES ASSUME Init PROVE ThreadInv
    OBVIOUS
  <2>1. Busy = {}
    BY DEF Init, Busy, Idle, Updaters
  <2> QED BY <2>1 DEF Init, ThreadInv
<1>2. TypeInv /\ ThreadInv /\ [Next]_vars => ThreadInv'
  BY ThreadStep DEF TypeInv
<1>3. TypeInv /\ ThreadInv => OneThread
  BY ThreadInvIsOneThread DEF TypeInv
<1> QED BY <1>1, <1>2, <1>3, SelfUpdateInvariant, PTL DEF Spec

-----------------------------------------------------------------------------
\* The checksum

\* What the theorem assumes of the site: every manifest has a checksum.
Summed == \A i \in 1 .. Last : Releases[i].sum = TRUE

LEMMA VerifiedStep ==
    Summed /\ Steps /\ Indices /\ VerifiedInstall /\ [Next]_vars => VerifiedInstall'
<1> SUFFICES ASSUME Summed, Steps, Indices, VerifiedInstall, [Next]_vars
             PROVE  VerifiedInstall'
  OBVIOUS
<1> USE DEF VerifiedInstall, process, work, site, others
<1>1. CASE UNCHANGED <<step, seen, got>>
  BY <1>1
<1>2. CASE Push \/ DrainedPush
  <2>1. CASE StartThread
    <3>1. PICK t \in Idle : step' = [step EXCEPT ![t] = "fetch"]
      BY <2>1 DEF StartThread
    <3> QED BY <2>1, <3>1 DEF StartThread, Steps
  <2> QED BY <1>1, <1>2, <2>1 DEF Push, DrainedPush, NoThread
<1>3. CASE Crash \/ Restart
  BY <1>3 DEF Crash, Restart, Killed
<1>4. CASE UpdateByHand
  BY <1>4 DEF UpdateByHand, Steps
<1>5. ASSUME NEW u \in Updaters, Fetch(u) \/ Pip(u) \/ Fail(u)
      PROVE  VerifiedInstall'
  BY <1>5 DEF Fetch, Pip, Fail, Returns, Steps
<1>6. ASSUME NEW u \in Updaters, Download(u)
      PROVE  VerifiedInstall'
  <2>1. seen' = seen /\ got' = [got EXCEPT ![u] = tarball] /\ seen[u] \in 1 .. Last
    BY <1>6 DEF Download, Indices
  <2>2. CASE tarball = seen[u]
    BY <1>6, <2>1, <2>2 DEF Download, Steps, Returns
  <2>3. CASE tarball /= seen[u]
    <3>1. step' = [step EXCEPT ![u] = "none"]
      BY <1>6, <2>1, <2>3 DEF Download, Returns, Summed
    <3> QED BY <2>1, <3>1 DEF Steps
  <2> QED BY <2>2, <2>3
<1>7. CASE Start \/ PublishTarball \/ PublishManifest \/ Tick \/ UNCHANGED vars
  BY <1>1, <1>7 DEF Start, PublishTarball, PublishManifest, Tick, vars
<1> QED BY <1>2, <1>3, <1>4, <1>5, <1>6, <1>7 DEF Next, SelfUpdates

\* pip gets the tarball that the manifest describes, in whatever order the
\* site publishes and the updaters fetch (lifecycle.py 196-204) - if every
\* manifest has a checksum, which the code does not insist on.
THEOREM VerifiedInstallEver == Summed /\ Spec => []VerifiedInstall
<1>1. Init => VerifiedInstall
  BY DEF Init, VerifiedInstall
<1>2. Summed /\ TypeInv /\ VerifiedInstall /\ [Next]_vars => VerifiedInstall'
  BY VerifiedStep DEF TypeInv
<1>3. Summed => []Summed
  <2>1. Summed => Summed'
    BY DEF Summed
  <2>. SUFFICES ASSUME Summed PROVE []Summed
    OBVIOUS
  <2> QED BY PTL
<1> QED BY <1>1, <1>2, <1>3, SelfUpdateInvariant, PTL DEF Spec

-----------------------------------------------------------------------------
\* The throttle

\* What the process has started is paid for by what the throttle still forbids.
ThrottleInv == asked => since + wait >= Throttle

LEMMA ThrottleStep == Times /\ Flags /\ ThrottleInv /\ [Next]_vars => ThrottleInv'
<1> SUFFICES ASSUME Times, Flags, ThrottleInv, [Next]_vars
             PROVE  ThrottleInv'
  OBVIOUS
<1> USE Durations DEF ThrottleInv, Times, process, work, site, others
<1>1. CASE Push \/ DrainedPush
  <2>1. CASE StartThread
    <3>1. wait' = Throttle /\ since' = 0
      BY <2>1 DEF StartThread
    <3> QED BY <3>1
  <2>2. CASE NoThread
    BY <2>2 DEF NoThread
  <2> QED BY <1>1, <2>1, <2>2 DEF Push, DrainedPush
<1>2. CASE Start \/ Crash \/ Restart
  BY <1>2 DEF Start, Crash, Restart, Killed
<1>3. ASSUME NEW u \in Updaters, SelfUpdates(u) \/ Fail(u)
      PROVE  ThrottleInv'
  BY <1>3 DEF SelfUpdates, Fetch, Download, Pip, Fail
<1>4. CASE UpdateByHand \/ PublishTarball \/ PublishManifest \/ UNCHANGED vars
  BY <1>4 DEF UpdateByHand, PublishTarball, PublishManifest, vars
<1>5. CASE Tick
  BY <1>5 DEF Tick, Advance
<1> QED BY <1>1, <1>2, <1>3, <1>4, <1>5 DEF Next

\* Only a push without a throttle starts a thread.
LEMMA OnlyPushStarts == Steps /\ [Next]_vars /\ Started => wait = 0
<1> SUFFICES ASSUME Steps, [Next]_vars, Started, wait /= 0
             PROVE  FALSE
  OBVIOUS
<1> USE DEF Steps, process, work, site, others, Updaters
<1>1. PICK t \in Idle : step'[t] = "fetch"
  BY DEF Started
<1>2. t \in Threads /\ step[t] = "none" /\ t /= "cli"
  BY SelfUpdateAssumption DEF Idle, SelfUpdateAssumption
<1>3. step' /= step
  BY <1>1, <1>2
<1>4. CASE Push \/ DrainedPush
  BY <1>3, <1>4 DEF Push, DrainedPush, NoThread
<1>5. CASE Crash \/ Restart
  BY <1>1, <1>2, <1>5 DEF Crash, Restart, Killed
<1>6. CASE UpdateByHand
  BY <1>1, <1>2, <1>6 DEF UpdateByHand
<1>7. ASSUME NEW u \in Updaters, SelfUpdates(u) \/ Fail(u)
      PROVE  FALSE
  BY <1>1, <1>2, <1>7 DEF SelfUpdates, Fetch, Download, Pip, Fail, Returns
<1>8. CASE Start \/ PublishTarball \/ PublishManifest \/ Tick \/ UNCHANGED vars
  BY <1>3, <1>8 DEF Start, PublishTarball, PublishManifest, Tick, vars
<1> QED BY <1>4, <1>5, <1>6, <1>7, <1>8 DEF Next

\* A process of the daemon starts updates no more often than the throttle
\* allows, for every throttle and every duration of an update (cli.py 250-253).
THEOREM OncePerHourEver == Spec => OncePerHourOfAProcess
<1>1. Init => ThrottleInv
  BY Durations DEF Init, ThrottleInv
<1>2. TypeInv /\ ThrottleInv /\ [Next]_vars => ThrottleInv'
  BY ThrottleStep DEF TypeInv
<1>3. TypeInv /\ ThrottleInv /\ [Next]_vars => [Started /\ asked => since >= Throttle]_vars
  BY OnlyPushStarts, Durations DEF TypeInv, ThrottleInv, Times
<1> QED BY <1>1, <1>2, <1>3, SelfUpdateInvariant, PTL DEF Spec, OncePerHourOfAProcess

-----------------------------------------------------------------------------
\* One updater

\* The hypotheses: nobody updates by hand, the daemon does not die by itself,
\* and an update is over within the throttle; the site tells the truth.
OneUpdater == MaxWork < Throttle /\ Budget["crash"] = 0 /\ Budget["byHand"] = 0
Honest     == Summed /\ \A i \in 1 .. Last : Releases[i].says = Releases[i].holds

\* Nothing but the throttle of the daemon is between two updates, and the
\* restart comes before it lets the next one through; a pip that its timeout
\* killed is followed by no restart.
Spaced ==
    /\ left["crash"] = 0 /\ left["byHand"] = 0 /\ step["cli"] = "none"
    /\ installed = 0 => running # 0 /\ ~restartDue
    /\ restartDue => running # 0 /\ ~updating /\ wait > 0
    /\ updating => wait + worked >= Throttle /\ ~restartDue

LEMMA NoVersionIsZero == 0 \notin Versions /\ Versions \subseteq Nat
<1>1. ASSUME NEW R, NEW s \in Seq(R), NEW i \in 1 .. Len(s)
      PROVE  s[i] \in R
  BY <1>1
<1>2. \A i \in 1 .. Last : Releases[i] \in [says : Nat \ {0}, holds : Nat \ {0}, sum : BOOLEAN]
  BY <1>1, SelfUpdateAssumption DEF Last, SelfUpdateAssumption
<1> QED BY <1>2 DEF Versions

LEMMA VersionIsNat == ASSUME NEW v \in Versions \cup {0} PROVE v \in Nat
<1>1. CASE v \in Versions
  BY <1>1, NoVersionIsZero
<1>2. CASE v = 0
  BY <1>2
<1> QED BY <1>1, <1>2

LEMMA SpacedInit == OneUpdater /\ Init => Spaced
<1> SUFFICES ASSUME OneUpdater, Init PROVE Spaced
  OBVIOUS
<1>1. installed \in Versions
  BY LastIsPositive, VersionsOfReleases DEF Init
<1> QED BY <1>1, NoVersionIsZero DEF Init, Spaced, OneUpdater, Updaters

\* What no step brings back.
LEMMA SpentStays ==
    ASSUME Times, left["crash"] = 0, left["byHand"] = 0, [Next]_vars
    PROVE  left'["crash"] = 0 /\ left'["byHand"] = 0 /\ ~Crash /\ ~UpdateByHand
<1>1. "crash" \in Accidents /\ "byHand" \in Accidents /\ "failure" \in Accidents
  BY DEF Accidents
<1>2. ~Crash /\ ~UpdateByHand
  BY DEF Crash, UpdateByHand, Happens
<1>3. left' = left \/ Happens("failure")
  <2>1. ASSUME NEW u \in Updaters, SelfUpdates(u) \/ Fail(u)
        PROVE  left' = left \/ Happens("failure")
    BY <2>1 DEF SelfUpdates, Fetch, Download, Pip, Fail
  <2> QED BY <1>2, <2>1 DEF Next, Start, Push, DrainedPush, StartThread, NoThread, Restart,
             PublishTarball, PublishManifest, Tick, vars
<1> QED BY <1>1, <1>2, <1>3 DEF Happens, Times

\* An updater at work is a thread that "updating" stands for.
LEMMA OnlyThreadsWork ==
    ASSUME Spaced, ThreadInv, NEW u \in Updaters, step[u] # "none"
    PROVE  u \in Threads /\ updating /\ running # 0 /\ Busy = {u}
<1>1. u \in Threads
  BY DEF Spaced, Updaters
<1>2. u \in Busy
  BY <1>1 DEF Busy, Idle
<1> QED BY <1>1, <1>2 DEF ThreadInv

\* An update that has not worked for all of the throttle left some of it.
LEMMA SomeLeft ==
    OneUpdater /\ Times /\ wait + worked >= Throttle => wait > 0
<1> SUFFICES ASSUME OneUpdater, Times, wait + worked >= Throttle PROVE wait > 0
  OBVIOUS
<1>1. MaxWork < Throttle /\ worked \in 0 .. MaxWork /\ wait \in 0 .. Throttle
  BY DEF OneUpdater, Times
<1>2. MaxWork \in Nat /\ Throttle \in Nat /\ worked \in Nat /\ wait \in Nat
  BY <1>1, Durations
<1>3. worked <= MaxWork
  BY <1>1, <1>2
<1> QED BY <1>1, <1>2, <1>3

LEMMA SpacedStep ==
    OneUpdater /\ TypeInv /\ ThreadInv /\ Spaced /\ [Next]_vars => Spaced'
<1> SUFFICES ASSUME OneUpdater, TypeInv, ThreadInv, Spaced, [Next]_vars PROVE Spaced'
  OBVIOUS
<1>1. left'["crash"] = 0 /\ left'["byHand"] = 0 /\ ~Crash /\ ~UpdateByHand
  BY SpentStays DEF Spaced, TypeInv
<1> USE DEF Spaced, process, work, site, others
<1>2. CASE Push \/ DrainedPush
  <2>1. CASE StartThread /\ wait = 0
    <3>1. PICK t \in Idle : step' = [step EXCEPT ![t] = "fetch"]
      BY <2>1 DEF StartThread
    <3>2. t # "cli"
      BY SelfUpdateAssumption DEF Idle, SelfUpdateAssumption
    <3>3. /\ wait' = Throttle /\ worked' = 0 /\ ~restartDue
          /\ UNCHANGED <<running, installed, restartDue>>
      BY <2>1 DEF StartThread
    <3>4. step'["cli"] = "none"
      BY <3>1, <3>2
    <3> QED BY <1>1, <3>3, <3>4, Durations
  <2>2. CASE NoThread
    BY <1>1, <2>2 DEF NoThread
  <2> QED BY <1>2, <2>1, <2>2 DEF Push, DrainedPush
<1>3. CASE Start
  BY <1>1, <1>3 DEF Start
<1>4. CASE Restart
  <2>1. \A t \in Threads : step[t] = "none"
    BY <1>4 DEF Restart, ThreadInv, Busy, Idle
  <2>2. installed' = installed /\ step'["cli"] = "none" /\ ~restartDue' /\ updating' = FALSE
        /\ installed # 0
    BY <1>4, <2>1, SelfUpdateAssumption DEF Restart, Killed, Updaters, SelfUpdateAssumption
  <2> QED BY <1>1, <2>2
<1>5. ASSUME NEW u \in Updaters, SelfUpdates(u) \/ Fail(u)
      PROVE  Spaced'
  <2>1. step[u] # "none"
    BY <1>5 DEF SelfUpdates, Fetch, Download, Pip, Fail
  <2>2. u \in Threads /\ updating /\ running # 0 /\ u # "cli"
    BY <2>1, OnlyThreadsWork, SelfUpdateAssumption DEF SelfUpdateAssumption
  <2>3. wait > 0
    <3>1. wait + worked >= Throttle
      BY <2>2
    <3> QED BY <3>1, SomeLeft DEF TypeInv
  <2>4. UNCHANGED <<running, wait, worked>> /\ updating' \in {updating, FALSE}
        /\ (restartDue' => ~updating') /\ step["cli"] = "none"
        /\ \E s : step' = [step EXCEPT ![u] = s]
    <3>1. CASE Fail(u)
      BY <2>2, <3>1 DEF Fail, Returns
    <3>2. CASE Fetch(u)
      BY <2>2, <3>2 DEF Fetch, Returns
    <3>3. CASE Download(u)
      BY <2>2, <3>3 DEF Download, Returns
    <3>4. CASE Pip(u)
      BY <2>2, <3>4 DEF Pip, Returns
    <3> QED BY <1>5, <3>1, <3>2, <3>3, <3>4 DEF SelfUpdates
  <2>6. step'["cli"] = "none"
    BY <2>2, <2>4 DEF TypeInv, Steps, Updaters
  <2>5. installed' = 0 => ~restartDue'
    <3>1. ~restartDue
      BY <2>2
    <3>2. CASE Pip(u)
      BY <3>2, VersionsOfReleases, NoVersionIsZero DEF Pip, TypeInv, Indices
    <3>3. CASE Fetch(u) \/ Download(u) \/ Fail(u)
      BY <3>1, <3>3 DEF Fetch, Download, Fail
    <3> QED BY <1>5, <3>2, <3>3 DEF SelfUpdates
  <2> QED BY <1>1, <2>2, <2>3, <2>4, <2>5, <2>6
<1>6. CASE Tick
  <2>1. ~restartDue /\ UNCHANGED <<running, updating, installed, restartDue, step>>
    BY <1>6 DEF Tick
  <2>2. CASE updating
    <3>1. worked < MaxWork /\ worked' = worked + 1
          /\ wait' = IF wait > 0 THEN wait - 1 ELSE 0
      BY <1>6, <2>2 DEF Tick
    <3> QED BY <1>1, <2>1, <2>2, <3>1, Durations DEF OneUpdater, TypeInv, Times
  <2>3. CASE ~updating
    BY <1>1, <2>1, <2>3
  <2> QED BY <2>2, <2>3
<1>7. CASE PublishTarball \/ PublishManifest \/ UNCHANGED vars
  BY <1>1, <1>7 DEF PublishTarball, PublishManifest, vars
<1> QED BY <1>1, <1>2, <1>3, <1>4, <1>5, <1>6, <1>7 DEF Next

\* A package that pip left half replaced is only ever under a daemon that still
\* runs and will try again, and no restart hits the pip of another update, for any
\* throttle that is longer than an update, any releases and any failures, the
\* timeout that kills pip included (cli.py 250-253, lifecycle.py 212-238).
THEOREM NeverStrandedEver == OneUpdater /\ Spec => []NeverStranded
<1>1. Init => ThreadInv
  BY DEF Init, ThreadInv, Busy, Idle, Updaters
<1>2. TypeInv /\ ThreadInv /\ [Next]_vars => ThreadInv'
  BY ThreadStep DEF TypeInv
<1>3. Spaced => NeverStranded
  BY DEF Spaced, NeverStranded
<1>4. OneUpdater => []OneUpdater
  <2>. SUFFICES ASSUME OneUpdater PROVE []OneUpdater
    OBVIOUS
  <2> QED BY PTL
<1> QED BY <1>1, <1>2, <1>3, <1>4, SpacedInit, SpacedStep, SelfUpdateInvariant, PTL DEF Spec

-----------------------------------------------------------------------------
\* Never back

\* The hypothesis: nobody updates by hand.
Alone == Budget["byHand"] = 0

\* What is installed under a daemon can start and is no older than it, or cannot
\* start; a thread has been told of something newer than the daemon.
NotBehind ==
    /\ left["byHand"] = 0 /\ step["cli"] = "none"
    /\ installed # 0 => installed >= running
    /\ \A t \in Threads : /\ step[t] # "none" => base[t] = running
                          /\ step[t] \in {"download", "pip"} => Releases[seen[t]].says > base[t]

\* What a pip of the daemon installs is newer than the daemon.
LEMMA PipIsNewer ==
    ASSUME Honest, TypeInv, VerifiedInstall, NotBehind, NEW t \in Threads, step[t] = "pip"
    PROVE  Releases[got[t]].holds \in Nat /\ Releases[got[t]].holds >= running
<1>1. t \in Updaters
  BY DEF Updaters
<1>2. got[t] = seen[t] /\ got[t] \in 1 .. Last
  BY <1>1 DEF VerifiedInstall, TypeInv, Indices
<1>3. base[t] = running /\ Releases[seen[t]].says > base[t]
  BY DEF NotBehind
<1>4. Releases[got[t]].holds = Releases[seen[t]].says
  BY <1>2 DEF Honest
<1>5. Releases[got[t]].holds \in Nat /\ running \in Nat
  <2>1. Releases[got[t]].holds \in Versions /\ running \in Versions \cup {0}
    BY <1>2, VersionsOfReleases DEF TypeInv, Steps
  <2> QED BY <2>1, VersionIsNat
<1> DEFINE new == Releases[got[t]].holds
<1>6. new > running
  BY <1>3, <1>4
<1> HIDE DEF new
<1>7. new \in Nat => new >= running
  BY <1>5, <1>6
<1> QED BY <1>5, <1>7 DEF new

\* Every step leaves behind nothing older than the daemon that ran before it.
LEMMA NoStepGoesBack ==
    ASSUME Honest, TypeInv, VerifiedInstall, NotBehind, Next, installed' # 0
    PROVE  installed' >= running
<1> USE DEF process, work, site, others
<1>1. CASE installed' = installed
  BY <1>1 DEF NotBehind
<1>2. CASE installed' # installed
  <2>1. PICK t \in Updaters : step[t] = "pip" /\ installed' = Releases[got[t]].holds
    <3>1. CASE Crash \/ Restart
      BY <1>2, <3>1 DEF Crash, Restart, Killed, Updaters
    <3>2. ASSUME NEW u \in Updaters, SelfUpdates(u) \/ Fail(u)
          PROVE  step[u] = "pip" /\ installed' = Releases[got[u]].holds
      BY <1>2, <3>2 DEF SelfUpdates, Fetch, Download, Pip, Fail
    <3>3. CASE Start \/ Push \/ DrainedPush \/ UpdateByHand \/ PublishTarball
               \/ PublishManifest \/ Tick
      BY <1>2, <3>3 DEF Start, Push, DrainedPush, StartThread, NoThread, UpdateByHand,
         PublishTarball, PublishManifest, Tick
    <3> QED BY <3>1, <3>2, <3>3 DEF Next
  <2>2. t \in Threads
    BY <2>1 DEF NotBehind, Updaters
  <2> QED BY <2>1, <2>2, PipIsNewer
<1> QED BY <1>1, <1>2

\* What no step brings back.
LEMMA AloneStays ==
    ASSUME Times, left["byHand"] = 0, [Next]_vars
    PROVE  left'["byHand"] = 0 /\ ~UpdateByHand
<1>1. "crash" \in Accidents /\ "byHand" \in Accidents /\ "failure" \in Accidents
  BY DEF Accidents
<1>2. ~UpdateByHand
  BY DEF UpdateByHand, Happens
<1>3. left' = left \/ Happens("failure") \/ Happens("crash")
  <2>1. ASSUME NEW u \in Updaters, SelfUpdates(u) \/ Fail(u)
        PROVE  left' = left \/ Happens("failure")
    BY <2>1 DEF SelfUpdates, Fetch, Download, Pip, Fail
  <2> QED BY <1>2, <2>1 DEF Next, Start, Push, DrainedPush, StartThread, NoThread, Restart, Crash,
             PublishTarball, PublishManifest, Tick, vars
<1> QED BY <1>1, <1>2, <1>3 DEF Happens, Times

\* The part of NotBehind about the threads.
TellsNewer ==
    \A t \in Threads : /\ step[t] # "none" => base[t] = running
                       /\ step[t] \in {"download", "pip"} => Releases[seen[t]].says > base[t]

\* A manifest that does not stop an update is of something newer.
LEMMA FetchTellsNewer ==
    ASSUME TypeInv, NotBehind, NEW u \in Threads, Fetch(u)
    PROVE  TellsNewer'
<1>1. step \in [Updaters -> {"none", "fetch", "download", "pip"}]
      /\ seen \in [Updaters -> 0 .. Last] /\ Threads \subseteq Updaters
  BY DEF TypeInv, Steps, Updaters
<1>2. seen' = [seen EXCEPT ![u] = manifest] /\ UNCHANGED <<running, base>> /\ step[u] = "fetch"
  BY DEF Fetch, others
<1>3. base[u] = running /\ base[u] \in Nat /\ Releases[manifest].says \in Nat
  <2>1. base[u] = running
    BY <1>2 DEF NotBehind
  <2>2. base[u] \in Versions \cup {0} /\ manifest \in 1 .. Last
    BY <1>1 DEF TypeInv, Steps
  <2> QED BY <2>1, <2>2, VersionIsNat, VersionsOfReleases
<1>4. CASE Releases[manifest].says <= base[u]
  <2>1. step' = [step EXCEPT ![u] = "none"]
    BY <1>4 DEF Fetch, Returns
  <2> QED BY <1>1, <1>2, <2>1 DEF NotBehind, TellsNewer
<1>5. CASE ~(Releases[manifest].says <= base[u])
  <2>1. step' = [step EXCEPT ![u] = "download"]
    BY <1>5 DEF Fetch
  <2>2. Releases[manifest].says > base[u]
    BY <1>3, <1>5
  <2> QED BY <1>1, <1>2, <1>3, <2>1, <2>2 DEF NotBehind, TellsNewer
<1> QED BY <1>4, <1>5

\* An updater that goes on, or returns, was told before.
LEMMA GoingOnTellsNewer ==
    ASSUME TypeInv, NotBehind, NEW u \in Threads, NEW where,
           step' = [step EXCEPT ![u] = where],
           where = "none" \/ (where = "pip" /\ step[u] = "download"),
           UNCHANGED <<running, base, seen>>
    PROVE  TellsNewer'
<1>1. step \in [Updaters -> {"none", "fetch", "download", "pip"}] /\ Threads \subseteq Updaters
  BY DEF TypeInv, Steps, Updaters
<1> QED BY <1>1 DEF NotBehind, TellsNewer

LEMMA NotBehindStep ==
    Honest /\ TypeInv /\ ThreadInv /\ VerifiedInstall /\ NotBehind /\ [Next]_vars => NotBehind'
<1> SUFFICES ASSUME Honest, TypeInv, ThreadInv, VerifiedInstall, NotBehind, [Next]_vars
             PROVE  NotBehind'
  OBVIOUS
<1>1. left'["byHand"] = 0 /\ ~UpdateByHand
  BY AloneStays DEF NotBehind, TypeInv
<1>2. "cli" \notin Threads /\ Threads \subseteq Updaters
      /\ step \in [Updaters -> {"none", "fetch", "download", "pip"}]
      /\ base \in [Updaters -> Versions \cup {0}]
  BY SelfUpdateAssumption DEF SelfUpdateAssumption, TypeInv, Steps, Updaters
<1>3. running = 0 => \A t \in Threads : step[t] = "none"
  BY DEF ThreadInv, Busy, Idle
<1>4. Next => (installed' # 0 => installed' >= running)
  BY NoStepGoesBack
<1>5. ASSUME step'["cli"] = "none", TellsNewer', installed' # 0 => installed' >= running'
      PROVE  NotBehind'
  BY <1>1, <1>5 DEF NotBehind, TellsNewer
<1> USE DEF process, work, site, others
<1>6. CASE UNCHANGED <<step, base, seen, running, installed>>
  BY <1>5, <1>6 DEF NotBehind, TellsNewer
<1>7. CASE Push \/ DrainedPush
  <2>1. CASE StartThread /\ running # 0
    <3>1. PICK t \in Idle : /\ step' = [step EXCEPT ![t] = "fetch"]
                            /\ base' = [base EXCEPT ![t] = running]
      BY <2>1 DEF StartThread
    <3>2. UNCHANGED <<running, seen, installed>> /\ t \in Threads
      BY <2>1 DEF StartThread, Idle
    <3>3. TellsNewer' /\ step'["cli"] = "none"
      BY <1>2, <3>1, <3>2 DEF TellsNewer, NotBehind
    <3> QED BY <1>5, <3>2, <3>3 DEF NotBehind
  <2> QED BY <1>6, <1>7, <2>1 DEF Push, DrainedPush, NoThread
<1>8. CASE Start
  <2>1. /\ running = 0 /\ running' = installed
        /\ UNCHANGED <<step, base, seen, installed>>
    BY <1>8 DEF Start
  <2>2. installed \in Nat
    BY VersionIsNat DEF TypeInv, Steps
  <2> QED BY <1>3, <1>5, <2>1, <2>2 DEF NotBehind, TellsNewer
<1>9. CASE Crash \/ Restart
  <2>1. running' = 0 /\ step' = [u \in Updaters |-> IF u \in Threads THEN "none" ELSE step[u]]
    BY <1>9 DEF Crash, Restart, Killed
  <2>2. installed' \in Nat
    <3>1. installed' \in Versions \cup {0}
      BY <1>9, StepsStep DEF TypeInv, Steps
    <3> QED BY <3>1, VersionIsNat
  <2>3. TellsNewer' /\ step'["cli"] = "none"
    BY <1>2, <2>1 DEF TellsNewer, NotBehind, Updaters
  <2> QED BY <1>5, <2>1, <2>2, <2>3
<1>10. ASSUME NEW u \in Updaters, SelfUpdates(u) \/ Fail(u)
       PROVE  NotBehind'
  <2>1. step[u] # "none" /\ UNCHANGED <<running, base>> /\ Next
    BY <1>10 DEF SelfUpdates, Fetch, Download, Pip, Fail, Next
  <2>2. u \in Threads
    BY <2>1 DEF NotBehind, Updaters
  <2>3. PICK where : step' = [step EXCEPT ![u] = where]
    BY <1>10 DEF SelfUpdates, Fetch, Download, Pip, Fail, Returns
  <2>4. step'["cli"] = "none"
    BY <1>2, <2>2, <2>3 DEF NotBehind
  <2>5. TellsNewer'
    <3>1. CASE Fetch(u)
      BY <2>2, <3>1, FetchTellsNewer
    <3>2. CASE Download(u)
      <4>1. step[u] = "download" /\ UNCHANGED <<running, base, seen>>
        BY <3>2 DEF Download
      <4>2. \/ step' = [step EXCEPT ![u] = "none"]
            \/ step' = [step EXCEPT ![u] = "pip"]
        BY <3>2 DEF Download, Returns
      <4> QED BY <2>2, <4>1, <4>2, GoingOnTellsNewer
    <3>3. CASE Pip(u)
      BY <2>2, <3>3, GoingOnTellsNewer DEF Pip, Returns
    <3>4. CASE Fail(u)
      BY <2>2, <3>4, GoingOnTellsNewer DEF Fail, Returns
    <3> QED BY <1>10, <3>1, <3>2, <3>3, <3>4 DEF SelfUpdates
  <2> QED BY <1>4, <1>5, <2>1, <2>4, <2>5
<1>11. CASE PublishTarball \/ PublishManifest \/ Tick \/ UNCHANGED vars
  BY <1>6, <1>11 DEF PublishTarball, PublishManifest, Tick, vars
<1> QED BY <1>1, <1>7, <1>8, <1>9, <1>10, <1>11 DEF Next

\* Whatever an update, a pip that was killed or a death leaves behind is no older
\* than the daemon that ran, for any releases that tell the truth, however often
\* updates fail and the daemon dies, if nobody updates beside it (lifecycle.py
\* 172, 190).
THEOREM NeverOlderEver == Alone /\ Honest /\ Spec => NeverOlder
<1>1. Alone /\ Init => ThreadInv /\ NotBehind
  <2> SUFFICES ASSUME Alone, Init PROVE ThreadInv /\ NotBehind
    OBVIOUS
  <2>1. installed \in Nat
    BY LastIsPositive, VersionsOfReleases, VersionIsNat DEF Init
  <2> QED BY <2>1 DEF Init, Alone, ThreadInv, Busy, Idle, Updaters, NotBehind
<1>2. TypeInv /\ ThreadInv /\ [Next]_vars => ThreadInv'
  BY ThreadStep DEF TypeInv
<1>3. Alone /\ Honest => [](Alone /\ Honest)
  <2>. SUFFICES ASSUME Alone /\ Honest PROVE [](Alone /\ Honest)
    OBVIOUS
  <2> QED BY PTL
<1>4. Honest /\ Spec => []VerifiedInstall
  BY VerifiedInstallEver DEF Honest
<1>5. Honest /\ TypeInv /\ VerifiedInstall /\ NotBehind /\ [Next]_vars
        => [installed' # 0 => installed' >= running]_vars
  BY NoStepGoesBack
<1> QED BY <1>1, <1>2, <1>3, <1>4, <1>5, NotBehindStep, SelfUpdateInvariant, PTL
        DEF Spec, NeverOlder
=============================================================================
