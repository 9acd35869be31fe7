-------------------------- MODULE Commands_proofs ---------------------------
(***************************************************************************)
(* What the commands leave behind: oo-agent --enroll, for every interval,  *)
(* limit and number of claims; oo-agent uninstall; and oo-agent itself,    *)
(* which starts the collectors, for any modules, in any order, and         *)
(* whatever becomes of the others.                                         *)
(***************************************************************************)
EXTENDS Startup, EnrollCommand, Uninstall, TLAPS

-----------------------------------------------------------------------------
\* oo-agent --enroll
\* The token in hand is the newest one; a command that has none has not
\* touched the file; the time is counted in natural numbers.
EnrollInv ==
    /\ waited \in Nat /\ issued \in Nat
    /\ command \in {"none", "waiting", "storing", "enrolled", "failed"}
    /\ command = "waiting" => tokenGot = 0
    /\ command = "storing" => tokenGot = issued /\ issued > 0
    /\ EnrolledMeansNewest /\ FailureKeepsToken /\ WaitIsBounded

-----------------------------------------------------------------------------
LEMMA EnrollInitInv == EnrollInit => EnrollInv
  BY EnrollAssumption
  DEF EnrollInit, EnrollInv, EnrolledMeansNewest, FailureKeepsToken, WaitIsBounded

LEMMA EnrollStep == EnrollInv /\ [EnrollNext]_enrollVars => EnrollInv'
<1> SUFFICES ASSUME EnrollInv, [EnrollNext]_enrollVars
             PROVE  EnrollInv'
  OBVIOUS
<1> USE EnrollAssumption
    DEF EnrollInv, EnrolledMeansNewest, FailureKeepsToken, WaitIsBounded, GiveUp, HandOut,
        backend
<1>1. CASE Operator
  BY <1>1 DEF Operator, Declare, Decide
<1>2. CASE Ask
  BY <1>2 DEF Ask
<1>3. CASE PollTimedOut
  BY <1>3 DEF PollTimedOut
<1>4. CASE Poll
  <2>1. PICK r \in 0 .. RequestTime : waited' = waited + PollTime + r
    BY <1>4 DEF Poll
  <2>2. waited' \in Nat /\ WaitIsBounded'
    BY <1>4, <2>1 DEF Poll, TimedOut
  <2>3. issued' \in Nat
    BY <1>4 DEF Poll
  <2> QED BY <1>4, <2>2, <2>3 DEF Poll
<1>5. CASE Store
  BY <1>5 DEF Store
<1>6. CASE StoreFails
  BY <1>6 DEF StoreFails
<1>7. CASE Interrupt
  BY <1>7 DEF Interrupt
<1>8. CASE UNCHANGED enrollVars
  BY <1>8 DEF enrollVars
<1> QED BY <1>1, <1>2, <1>3, <1>4, <1>5, <1>6, <1>7, <1>8 DEF EnrollNext

\* The token of the command and the file agree in every reachable state.
THEOREM EnrollInvariant == EnrollSpec => []EnrollInv
  BY EnrollInitInv, EnrollStep, PTL DEF EnrollSpec

\* Exit code 0 means that the file holds the newest token, a command that gets
\* none leaves the one that works, and the deadline is kept up to one sleep and
\* one request (enroll.py 49-96).
THEOREM EnrollAlwaysKeepsItsWord == EnrollSpec => []EnrollKeepsItsWord
<1>1. EnrollInv => EnrollKeepsItsWord
  BY DEF EnrollInv, EnrollKeepsItsWord
<1> QED BY <1>1, EnrollInvariant, PTL

-----------------------------------------------------------------------------
\* oo-agent uninstall
\* What each step has to find removed, and by whom it could be created again.
GoneSoFar ==
    /\ removal \in {"no", "aborted", "stop", "unit", "reload", "config", "state", "done"}
    /\ stopped => removal \in {"unit", "reload", "config", "state", "done"}
    /\ stopped /\ ~revived =>
          /\ ~alive
          /\ removal \in {"state", "done"} => ~credentials
          /\ removal = "done" => ~state

-----------------------------------------------------------------------------
\* The order of the steps (lifecycle.py 106-117).
LEMMA Order ==
    /\ Follows("no") = "stop" /\ Follows("stop") = "unit" /\ Follows("unit") = "reload"
    /\ Follows("reload") = "config" /\ Follows("config") = "state"
    /\ Follows("state") = "done"
  BY DEF Follows

LEMMA UninstallStep == GoneSoFar /\ [UninstallNext]_uninstallVars => GoneSoFar'
<1> SUFFICES ASSUME GoneSoFar, [UninstallNext]_uninstallVars
             PROVE  GoneSoFar'
  OBVIOUS
<1> USE Order DEF GoneSoFar, Step, host0, files, history
<1>1. CASE Confirm
  BY <1>1 DEF Confirm
<1>2. CASE StopService
  BY <1>2 DEF StopService
<1>3. CASE RemoveUnit
  BY <1>3 DEF RemoveUnit
<1>4. CASE Reload
  <2>1. removal = "reload" /\ removal' = "config"
    BY <1>4 DEF Reload
  <2>2. UNCHANGED <<alive, credentials, state, stopped, revived>>
    BY <1>4 DEF Reload
  <2> QED BY <2>1, <2>2
<1>5. CASE RemoveConfig
  BY <1>5 DEF RemoveConfig
<1>6. CASE RemoveState
  BY <1>6 DEF RemoveState
<1>7. CASE RemovePrefix
  BY <1>7 DEF RemovePrefix
<1>8. CASE ScheduleRestart
  BY <1>8 DEF ScheduleRestart
<1>9. CASE Restart
  BY <1>9 DEF Restart
<1>10. CASE DaemonWrites
  BY <1>10 DEF DaemonWrites, WriteToken, OpenQueue
<1>11. CASE DaemonCrashes
  BY <1>11 DEF DaemonCrashes
<1>12. CASE UNCHANGED uninstallVars
  BY <1>12 DEF uninstallVars
<1> QED BY <1>1, <1>2, <1>3, <1>4, <1>5, <1>6, <1>7, <1>8, <1>9, <1>10, <1>11,
           <1>12
        DEF UninstallNext

\* A daemon that systemctl has stopped cannot create its directories again, so
\* what the command removes after it stays removed (lifecycle.py 106-118).
THEOREM StoppedLeavesNothing == UninstallSpec => []NothingIsLeftIfStopped
<1>1. UninstallInit => GoneSoFar
  BY DEF UninstallInit, GoneSoFar
<1>2. GoneSoFar => NothingIsLeftIfStopped
  BY DEF GoneSoFar, NothingIsLeftIfStopped, NothingIsLeft
<1> QED BY <1>1, <1>2, UninstallStep, PTL DEF UninstallSpec

-----------------------------------------------------------------------------
\* The start of the collectors

\* A healthy module is still sound, and it has its entry once it was loaded.
HealthyInv ==
    /\ next \in Nat /\ next >= 1
    /\ DOMAIN code = Loaded /\ DOMAIN host = Loaded
    /\ healthy \subseteq Loaded
    /\ daemon = "loading" => \A m \in healthy : Sound(m)
    /\ daemon \in {"loading", "up"} =>
          \A i \in 1 .. Len(Modules) :
              i < next /\ Modules[i] \in healthy => Modules[i] \in DOMAIN entries
    /\ daemon = "up" => next > Len(Modules)

-----------------------------------------------------------------------------
\* int() raises exactly where a word decides: what is falsy is passed over.
LEMMA RaisesOnAWord ==
    ASSUME NEW m
    PROVE  IntervalRaises(m) <=> WordDecides(m)
<1>1. \A text : /\ Coerce(text).type = "text" <=> text = "word"
                /\ Coerce(text).n # 0 <=> text \in {"120", "word"}
  BY DEF Coerce
<1>2. AgentDefault(DefaultOption(m)).type = "text" <=> agent[DefaultOption(m)] = "word"
  BY <1>1 DEF AgentDefault
<1>3. CASE Coerce(ini[m].interval).n # 0
  BY <1>1, <1>3 DEF IntervalRaises, Interval, WordDecides
<1>4. CASE Coerce(ini[m].interval).n = 0 /\ Coerce(code[m].interval).n # 0
  BY <1>1, <1>4 DEF IntervalRaises, Interval, WordDecides
<1>5. CASE Coerce(ini[m].interval).n = 0 /\ Coerce(code[m].interval).n = 0
  <2>1. Interval(m) = AgentDefault(DefaultOption(m))
    BY <1>5 DEF Interval
  <2> QED BY <1>1, <1>2, <1>5, <2>1 DEF IntervalRaises, WordDecides
<1> QED BY <1>3, <1>4, <1>5

LEMMA DisabledByOff == \A m : Disabled(m) <=> ini[m].enabled = "off"
  BY DEF Disabled, Coerce

LEMMA LenIsNat == Len(Modules) \in Nat /\ BuiltIns \in 0 .. Len(Modules)
  BY StartupAssumption DEF StartupAssumption

\* A module that is skipped or ends the start is not healthy (registry.py
\* 82-99, 112-147).
LEMMA LoadKeepsHealthy == HealthyInv /\ LoadModule => HealthyInv'
<1> SUFFICES ASSUME HealthyInv, LoadModule
             PROVE  HealthyInv'
  OBVIOUS
<1> DEFINE m == Modules[next]
<1> USE LenIsNat DEF world
<1>1. daemon = "loading" /\ next \in 1 .. Len(Modules)
  BY DEF LoadModule, Loading, HealthyInv
<1>2. m \in healthy => Sound(m) /\ Import(m) = "loads" /\ host[m] = "there"
  BY <1>1 DEF HealthyInv, Sound, Import
<1>3. CASE Exit
  BY <1>3 DEF Exit, HealthyInv
<1>4. CASE Skip /\ m \notin healthy
  <2>1. next' = next + 1 /\ UNCHANGED <<world, daemon, entries, healthy>>
    BY <1>4 DEF Skip
  <2>2. \A k : Sound(k)' <=> Sound(k)
    BY <2>1 DEF Sound, WordDecides, DefaultOption
  <2> QED BY <1>1, <1>4, <2>1, <2>2 DEF HealthyInv
<1>5. CASE /\ entries' = [k \in DOMAIN entries \cup {m} |->
                             IF k = m THEN Interval(m).n ELSE entries[k]]
           /\ next' = next + 1 /\ UNCHANGED <<world, daemon, healthy>>
  <2>1. DOMAIN entries' = DOMAIN entries \cup {m}
    BY <1>5
  <2>2. ASSUME NEW i \in 1 .. Len(Modules), i < next', Modules[i] \in healthy'
        PROVE  Modules[i] \in DOMAIN entries'
    <3>1. i < next \/ i = next
      BY <1>1, <1>5, <2>2
    <3> QED BY <1>1, <1>5, <2>1, <2>2, <3>1 DEF HealthyInv
  <2>3. \A k : Sound(k)' <=> Sound(k)
    BY <1>5 DEF Sound, WordDecides, DefaultOption
  <2> QED BY <1>1, <1>5, <2>2, <2>3 DEF HealthyInv
<1>6. CASE Import(m) = "loads"
  <2>1. Instantiate(m)
    BY <1>6 DEF LoadModule
  <2>2. m \in healthy => ~(Disabled(m) \/ host[m] # "there")
    BY <1>2, DisabledByOff DEF Sound
  <2> QED BY <1>3, <1>4, <1>5, <2>1, <2>2 DEF Instantiate
<1>7. CASE Import(m) = "raises"
  <2>1. Skip /\ m \notin healthy
    BY <1>2, <1>7 DEF LoadModule
  <2> QED BY <1>4, <2>1
<1>8. CASE Import(m) \notin {"loads", "raises"}
  BY <1>3, <1>8 DEF LoadModule
<1> QED BY <1>6, <1>7, <1>8

\* Without a directory no plugin was sound (registry.py 128-130).
LEMMA ListKeepsHealthy == HealthyInv /\ ListPlugins => HealthyInv'
<1> SUFFICES ASSUME HealthyInv, ListPlugins
             PROVE  HealthyInv'
  OBVIOUS
<1> USE LenIsNat DEF world
<1>1. CASE Exit
  BY <1>1 DEF Exit, HealthyInv
<1>2. CASE ~Exit
  <2>1. /\ daemon = "loading" /\ next = BuiltIns + 1
        /\ next' = IF pluginsDir = "there" THEN next ELSE Len(Modules) + 1
        /\ UNCHANGED <<world, daemon, entries, healthy>>
    BY <1>2 DEF ListPlugins
  <2>2. \A k : Sound(k)' <=> Sound(k)
    BY <2>1 DEF Sound, WordDecides, DefaultOption
  <2>3. ASSUME NEW i \in 1 .. Len(Modules), i < next', Modules[i] \in healthy
        PROVE  Modules[i] \in DOMAIN entries
    <3>1. CASE i < next
      BY <2>1, <2>3, <3>1 DEF HealthyInv
    <3>2. CASE ~(i < next)
      <4>1. i \in BuiltIns + 1 .. Len(Modules) /\ pluginsDir # "there"
        BY <2>1, <2>3, <3>2
      <4>2. Modules[i] \in Plugins /\ Sound(Modules[i])
        BY <2>1, <2>3, <4>1 DEF Plugins, HealthyInv
      <4> QED BY <4>1, <4>2 DEF Sound
    <3> QED BY <3>1, <3>2
  <2> QED BY <2>1, <2>2, <2>3 DEF HealthyInv
<1> QED BY <1>1, <1>2

\* What becomes of a module or of the plugins directory while an agent starts or
\* runs touches no module that stays healthy.
LEMMA TouchKeepsHealthy ==
    ASSUME HealthyInv,
           \/ \E m \in Loaded : CodeChanges(m) \/ HostChanges(m)
           \/ DirectoryChanges
    PROVE  HealthyInv'
<1>1. PICK S : /\ healthy' = healthy \ S /\ UNCHANGED <<daemon, next, entries, ini, agent>>
               /\ \A k \in Loaded \ S : code'[k] = code[k] /\ host'[k] = host[k]
               /\ pluginsDir' = pluginsDir \/ S = Plugins
               /\ DOMAIN code' = Loaded /\ DOMAIN host' = Loaded
  <2>1. ASSUME NEW m \in Loaded, CodeChanges(m) \/ HostChanges(m)
        PROVE  /\ healthy' = healthy \ {m}
               /\ UNCHANGED <<daemon, next, entries, ini, agent, pluginsDir>>
               /\ \A k \in Loaded \ {m} : code'[k] = code[k] /\ host'[k] = host[k]
               /\ DOMAIN code' = Loaded /\ DOMAIN host' = Loaded
    BY <2>1 DEF HealthyInv, CodeChanges, HostChanges, Touched
  <2>2. ASSUME DirectoryChanges
        PROVE  /\ healthy' = healthy \ Plugins
               /\ UNCHANGED <<daemon, next, entries, ini, agent, code, host>>
    BY <2>2 DEF DirectoryChanges, Touched
  <2> QED BY <2>1, <2>2 DEF HealthyInv
<1>2. ASSUME NEW k \in healthy', daemon = "loading"
      PROVE  Sound(k)'
  <2>1. k \in Loaded \ S /\ Sound(k) /\ code'[k] = code[k] /\ host'[k] = host[k]
    BY <1>1, <1>2 DEF HealthyInv
  <2>2. k \in Plugins => pluginsDir' = pluginsDir
    BY <1>1, <1>2
  <2>3. WordDecides(k)' <=> WordDecides(k)
    BY <1>1, <2>1 DEF WordDecides, DefaultOption
  <2> QED BY <1>1, <2>1, <2>2, <2>3 DEF Sound
<1> QED BY <1>1, <1>2 DEF HealthyInv

LEMMA HealthyStep == HealthyInv /\ [StartupNext]_startupVars => HealthyInv'
<1> SUFFICES ASSUME HealthyInv, [StartupNext]_startupVars
             PROVE  HealthyInv'
  OBVIOUS
<1> USE LenIsNat DEF world
<1>1. CASE ReadIni
  <2>1. \A k : Sound(k)' <=> Sound(k)
    BY <1>1 DEF ReadIni, Sound, WordDecides, DefaultOption
  <2> QED BY <1>1, <2>1 DEF ReadIni, HealthyInv
<1>2. CASE LoadModule
  BY <1>2, LoadKeepsHealthy
<1>3. CASE ListPlugins
  BY <1>3, ListKeepsHealthy
<1>4. CASE Run
  BY <1>4 DEF Run, HealthyInv
<1>5. CASE Stops
  BY <1>5 DEF Stops, Exit, HealthyInv
<1>6. CASE EditAgent \/ BreakOrMendIni \/ \E m \in Loaded : EditIni(m)
  <2>1. /\ daemon = "down" /\ UNCHANGED <<daemon, next, code, host>>
        /\ healthy' \subseteq healthy
    BY <1>6 DEF EditAgent, BreakOrMendIni, EditIni, Touched
  <2> QED BY <2>1 DEF HealthyInv
<1>7. CASE DirectoryChanges \/ \E m \in Loaded : CodeChanges(m) \/ HostChanges(m)
  BY <1>7, TouchKeepsHealthy
<1>8. CASE UNCHANGED startupVars
  <2>1. \A k : Sound(k)' <=> Sound(k)
    BY <1>8 DEF startupVars, Sound, WordDecides, DefaultOption
  <2> QED BY <1>8, <2>1 DEF startupVars, HealthyInv
<1> QED BY <1>1, <1>2, <1>3, <1>4, <1>5, <1>6, <1>7, <1>8 DEF StartupNext

\* A collector with which nothing is wrong runs, whatever the modules before
\* and after it do (registry.py 8-9, 112-147), for any modules in any order.
THEOREM HealthyRuns == StartupSpec => []HealthyCollectorRuns
<1>1. StartupInit => HealthyInv
  BY DEF StartupInit, HealthyInv
<1>2. HealthyInv => HealthyCollectorRuns
  <2> SUFFICES ASSUME HealthyInv, daemon = "up", NEW m \in healthy
               PROVE  m \in DOMAIN entries
    BY DEF HealthyCollectorRuns
  <2>1. PICK i \in 1 .. Len(Modules) : m = Modules[i]
    BY DEF HealthyInv, Loaded
  <2> QED BY <2>1, LenIsNat DEF HealthyInv
<1> QED BY <1>1, <1>2, HealthyStep, PTL DEF StartupSpec

-----------------------------------------------------------------------------
\* What importing a module may do.
CodeKnown ==
    code \in [Loaded -> [import   : {"loads", "raises", "exits"},
                         interval : {"unset", "120", "word"}]]

LEMMA CodeStep == CodeKnown /\ [StartupNext]_startupVars => CodeKnown'
<1> SUFFICES ASSUME CodeKnown, [StartupNext]_startupVars
             PROVE  CodeKnown'
  OBVIOUS
<1> USE DEF CodeKnown, world
<1>1. ASSUME NEW m \in Loaded, EditIni(m) \/ HostChanges(m)
      PROVE  CodeKnown'
  BY <1>1 DEF EditIni, HostChanges
<1>2. ASSUME NEW m \in Loaded, CodeChanges(m)
      PROVE  CodeKnown'
  <2>1. PICK c \in [import   : {"loads", "raises", "exits"},
                    interval : {"unset", "120", "word"}] : code' = [code EXCEPT ![m] = c]
    BY <1>2 DEF CodeChanges
  <2> QED BY <2>1
<1>3. CASE LoadModule \/ ListPlugins
  <2>1. code' = code
    BY <1>3 DEF LoadModule, Instantiate, Skip, Exit, ListPlugins
  <2> QED BY <2>1
<1>4. CASE \/ ReadIni \/ Run \/ Stops \/ EditAgent \/ BreakOrMendIni \/ DirectoryChanges
           \/ UNCHANGED startupVars
  BY <1>4 DEF ReadIni, Run, Stops, Exit, EditAgent, BreakOrMendIni, DirectoryChanges,
              startupVars
<1> QED BY <1>1, <1>2, <1>3, <1>4 DEF StartupNext

LEMMA FatalStep ==
    ASSUME CodeKnown, HealthyInv, [StartupNext]_startupVars,
           daemon = "loading", daemon' = "down"
    PROVE  \/ next <= Len(Modules) /\ Fatal(Modules[next])
           \/ next = BuiltIns + 1 /\ pluginsDir = "unreadable"
<1>1. LoadModule \/ ListPlugins
  BY DEF StartupNext, ReadIni, Run, Stops, EditAgent, BreakOrMendIni, DirectoryChanges,
         EditIni, CodeChanges, HostChanges, Touched, startupVars
<1>2. CASE ListPlugins
  BY <1>2 DEF ListPlugins
<1>3. CASE LoadModule
  <2> DEFINE m == Modules[next]
  <2>1. next <= Len(Modules) /\ next \in 1 .. Len(Modules) /\ m \in Loaded
    BY <1>3, LenIsNat DEF LoadModule, Loading, HealthyInv, Loaded
  <2>2. CASE Import(m) = "loads"
    <3>1. Instantiate(m)
      BY <1>3, <2>2 DEF LoadModule
    <3>2. \/ ini[m].percent
          \/ ~Disabled(m) /\ host[m] = "exits"
          \/ ~Disabled(m) /\ host[m] = "there" /\ IntervalRaises(m)
      BY <3>1 DEF Instantiate, Skip
    <3>3. code[m].import = "loads"
      BY <2>2 DEF Import
    <3> QED BY <2>1, <3>2, <3>3, DisabledByOff, RaisesOnAWord DEF Fatal
  <2>3. CASE Import(m) = "raises"
    BY <1>3, <2>3 DEF LoadModule, Skip
  <2>4. CASE Import(m) \notin {"loads", "raises"}
    <3>1. code[m].import = "exits"
      BY <2>1, <2>4 DEF Import, CodeKnown
    <3> QED BY <2>1, <3>1 DEF Fatal
  <2> QED BY <2>2, <2>3, <2>4
<1> QED BY <1>1, <1>2, <1>3

\* A discovery that ends the agent does so in a module that is fatal by what it,
\* its section, the host or [agent] is, or because the plugins directory cannot be
\* listed (registry.py 82-99, 112-142), for any modules in any order.
THEOREM OnlyTheseEndIt == StartupSpec => OnlyTheseEndDiscovery
<1>1. StartupInit => CodeKnown /\ HealthyInv
  BY DEF StartupInit, CodeKnown, HealthyInv, Loads
<1>2. CodeKnown /\ HealthyInv /\ [StartupNext]_startupVars
        => [ (daemon = "loading" /\ daemon' = "down") =>
                \/ next <= Len(Modules) /\ Fatal(Modules[next])
                \/ next = BuiltIns + 1 /\ pluginsDir = "unreadable"
           ]_startupVars
  BY FatalStep
<1> QED BY <1>1, <1>2, CodeStep, HealthyStep, PTL DEF StartupSpec, OnlyTheseEndDiscovery
=============================================================================
