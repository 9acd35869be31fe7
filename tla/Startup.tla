------------------------------ MODULE Startup ------------------------------
(***************************************************************************)
(* What a start of the daemon makes of its configuration, its collectors   *)
(* and its plugins (core/config.py, core/registry.py, cli.py main), while  *)
(* the operator edits agent.ini, plugins are replaced and hardware comes   *)
(* and goes; systemd starts the agent again whenever it has ended.         *)
(*                                                                         *)
(* A module defines one collector and bears its name, a text.  The text of *)
(* an option is reduced to what _coerce and its readers tell apart: "word" *)
(* stands for whatever int() raises on, "percent" for a "%" that the       *)
(* interpolation of configparser cannot resolve.  The file is read once    *)
(* per start, so an edit is the same as one made before.                   *)
(***************************************************************************)
EXTENDS Integers, Sequences, FiniteSets

CONSTANTS Modules,    \* the built-in modules and then the plugins, as they are loaded
          BuiltIns,   \* how many of them are built in
          Inventory,  \* those whose collector has inventory = True
          MaxUnusual  \* bound: what is other than on a fresh host at a time

Loaded  == {Modules[i] : i \in 1 .. Len(Modules)}
Plugins == {Modules[i] : i \in BuiltIns + 1 .. Len(Modules)}

ASSUME StartupAssumption ==
    /\ Modules \in Seq(Loaded) /\ BuiltIns \in 0 .. Len(Modules)
    /\ Inventory \subseteq Loaded /\ MaxUnusual \in Nat

VARIABLES ini,        \* the section of each collector in agent.ini
          agent,      \* interval and inventory_interval of its [agent]
          readableIni,\* whether it can be parsed, and [agent] and [transport] read
          pluginsDir, \* "there", "absent" or "unreadable"
          code,       \* what importing each module does, and the interval of its class
          host,       \* what building a collector does: "there" (and available), "away", "exits"
          daemon,     \* "down", "loading" or "up"
          pluginsListed, \* the plugins directory has been listed
          next,       \* the next module of discover
          entries,    \* the interval of every collector that was found runnable
          healthy     \* the modules that nothing has been wrong with since the start began

world       == <<ini, agent, readableIni, pluginsDir, code, host>>
startupVars == <<world, daemon, pluginsListed, next, entries, healthy>>

NoEntries == [m \in {} |-> 0]
Unset     == [enabled |-> "unset", interval |-> "unset", percent |-> FALSE]
Loads     == [import |-> "loads", interval |-> "unset"]

StartupInit ==
    /\ ini = [m \in Loaded |-> Unset] /\ readableIni = TRUE
    /\ agent = [interval |-> "unset", inventory_interval |-> "unset"]
    /\ pluginsDir = "there"
    /\ code = [m \in Loaded |-> Loads] /\ host = [m \in Loaded |-> "there"]
    /\ daemon = "down" /\ pluginsListed = FALSE /\ next = 1 /\ entries = NoEntries
    /\ healthy = {}

-----------------------------------------------------------------------------
\* The start

\* "false", "no" and "off" are False; "0" is a number, anything else a text.
Coerce(text) ==
    CASE text = "off" -> [type |-> "bool", n |-> 0]
      [] text = "0"   -> [type |-> "int", n |-> 0]
      [] text = "120" -> [type |-> "int", n |-> 120]
      [] text = "word" -> [type |-> "text", n |-> 1]
      [] OTHER        -> [type |-> "none", n |-> 0]

Disabled(m) == Coerce(ini[m].enabled) = [type |-> "bool", n |-> 0]

\* config.agent, with AGENT_DEFAULTS for what the file does not say.
AgentDefault(option) ==
    IF agent[option] # "unset" THEN Coerce(agent[option])
    ELSE [type |-> "int", n |-> IF option = "interval" THEN 60 ELSE 600]

DefaultOption(m) == IF m \in Inventory THEN "inventory_interval" ELSE "interval"

\* options.get("interval") or collector.interval or default
Interval(m) ==
    CASE Coerce(ini[m].interval).n # 0  -> Coerce(ini[m].interval)
      [] Coerce(ini[m].interval).n = 0 /\ Coerce(code[m].interval).n # 0
                                        -> Coerce(code[m].interval)
      [] OTHER                          -> AgentDefault(DefaultOption(m))

\* int() of it
IntervalRaises(m) == Interval(m).type = "text"

\* What decides on the interval of a collector is a word.
WordDecides(m) ==
    \/ ini[m].interval = "word"
    \/ /\ ini[m].interval # "120"
       /\ \/ code[m].interval = "word"
          \/ code[m].interval # "120" /\ agent[DefaultOption(m)] = "word"

\* A module is healthy by what the operator and the host have made of it.
Sound(m) ==
    /\ code[m].import = "loads" /\ host[m] = "there"
    /\ m \in Plugins => pluginsDir = "there"
    /\ ini[m].enabled # "off" /\ ~ini[m].percent /\ ~WordDecides(m)

\* AgentConfig; a file that cannot be parsed ends the process.
ReadIni ==
    /\ daemon = "down" /\ readableIni
    /\ daemon' = "loading" /\ pluginsListed' = FALSE /\ next' = 1 /\ entries' = NoEntries
    /\ healthy' = {m \in Loaded : Sound(m)}
    /\ UNCHANGED world

Exit == daemon' = "down" /\ UNCHANGED <<world, pluginsListed, next, entries, healthy>>

Skip == next' = next + 1 /\ UNCHANGED <<world, daemon, pluginsListed, entries, healthy>>

\* _collector_classes, _instantiate: the options of the section are read before
\* anything else; the collector is disabled, exits, is not available or fails, or
\* becomes an entry if its interval is a number.
Instantiate(m) ==
    IF ini[m].percent THEN Exit
    ELSE IF Disabled(m) THEN Skip
    ELSE IF host[m] # "there" THEN (IF host[m] = "exits" THEN Exit ELSE Skip)
    ELSE IF IntervalRaises(m) THEN Exit
    ELSE /\ entries' = [k \in DOMAIN entries \cup {m} |->
                          IF k = m THEN Interval(m).n ELSE entries[k]]
         /\ next' = next + 1 /\ UNCHANGED <<world, daemon, pluginsListed, healthy>>

\* What importing a module comes to: a plugin whose file is gone since the
\* directory was listed raises.
Import(m) ==
    IF m \in Plugins /\ pluginsDir = "absent" THEN "raises" ELSE code[m].import

\* The next module can be loaded: the plugins only once they have been listed.
Loading ==
    /\ daemon = "loading" /\ next <= Len(Modules)
    /\ next > BuiltIns => pluginsListed

\* Mutant: a module that cannot be imported ends the discovery, not the agent.
LoadModuleOrStop ==
    /\ Loading
    /\ LET m == Modules[next]
       IN  CASE Import(m) = "loads"  -> Instantiate(m)
             [] Import(m) = "raises" ->
                    next' = Len(Modules) + 1 /\ pluginsListed' = TRUE
                    /\ UNCHANGED <<world, daemon, entries, healthy>>
             [] OTHER -> Exit

\* Mutant: what the import of a module raises is not caught.
LoadModuleBare ==
    /\ Loading
    /\ IF Import(Modules[next]) = "loads" THEN Instantiate(Modules[next]) ELSE Exit

\* _load_builtin, _load_plugins: what a module raises is caught, but not its
\* SystemExit.
LoadModule ==
    /\ Loading
    /\ LET m == Modules[next]
       IN  CASE Import(m) = "loads"  -> Instantiate(m)
             [] Import(m) = "raises" -> Skip
             [] OTHER -> Exit

\* The head of _load_plugins: without a directory there are no plugins, and one
\* that cannot be listed (not readable, or gone since isdir) ends the process.
ListPlugins ==
    /\ daemon = "loading" /\ next = BuiltIns + 1 /\ ~pluginsListed
    /\ IF pluginsDir = "unreadable" THEN Exit
       ELSE /\ pluginsListed' = TRUE
            /\ next' = IF pluginsDir = "there" THEN next ELSE Len(Modules) + 1
            /\ UNCHANGED <<world, daemon, entries, healthy>>

\* Duplicate names are warned of; main goes on to the loop.
Run ==
    /\ daemon = "loading" /\ pluginsListed /\ next > Len(Modules)
    /\ daemon' = "up" /\ UNCHANGED <<world, pluginsListed, next, entries, healthy>>

Stops == daemon = "up" /\ Exit

-----------------------------------------------------------------------------
\* The operator and the host; what they touch is no longer known to be sound

\* What is other than on a fresh host.
Unusual ==
    {<<"section", m>> : m \in {k \in Loaded : ini[k] # Unset}}
    \cup {<<"code", m>> : m \in {k \in Loaded : code[k] # Loads}}
    \cup {<<"host", m>> : m \in {k \in Loaded : host[k] # "there"}}
    \cup {<<"agent", option>> : option \in {o \in DOMAIN agent : agent[o] # "unset"}}
    \cup (IF readableIni THEN {} ELSE {<<"ini">>})
    \cup (IF pluginsDir = "there" THEN {} ELSE {<<"plugins">>})

Touched(S) ==
    /\ healthy' = healthy \ S /\ UNCHANGED <<daemon, pluginsListed, next, entries>>
    /\ Cardinality(Unusual') <= MaxUnusual

EditIni(m) ==
    /\ daemon = "down"
    /\ \/ \E text \in {"unset", "off", "0"} : ini' = [ini EXCEPT ![m].enabled = text]
       \/ \E text \in {"unset", "0", "120", "word"} : ini' = [ini EXCEPT ![m].interval = text]
       \/ ini' = [ini EXCEPT ![m].percent = ~@]
    /\ UNCHANGED <<agent, readableIni, pluginsDir, code, host>> /\ Touched({m})

EditAgent ==
    /\ daemon = "down"
    /\ \E option \in DOMAIN agent, text \in {"unset", "120", "word"} :
          agent' = [agent EXCEPT ![option] = text]
    /\ UNCHANGED <<ini, readableIni, pluginsDir, code, host>> /\ Touched({})

BreakOrMendIni ==
    /\ daemon = "down" /\ readableIni' = ~readableIni
    /\ UNCHANGED <<ini, agent, pluginsDir, code, host>> /\ Touched({})

DirectoryChanges ==
    /\ pluginsDir' \in {"there", "absent", "unreadable"}
    /\ UNCHANGED <<ini, agent, readableIni, code, host>> /\ Touched(Plugins)

\* A built-in module may lack a library, and none has an interval of its own; a
\* plugin may do anything.
CodeChanges(m) ==
    /\ \E c \in IF m \in Plugins
                THEN [import : {"loads", "raises", "exits"}, interval : {"unset", "120", "word"}]
                ELSE [import : {"loads", "raises"}, interval : {"unset"}] :
          code' = [code EXCEPT ![m] = c]
    /\ UNCHANGED <<ini, agent, readableIni, pluginsDir, host>> /\ Touched({m})

HostChanges(m) ==
    /\ \E h \in {"there", "away"} \cup (IF m \in Plugins THEN {"exits"} ELSE {}) :
          host' = [host EXCEPT ![m] = h]
    /\ UNCHANGED <<ini, agent, readableIni, pluginsDir, code>> /\ Touched({m})

StartupNext ==
    \/ ReadIni \/ LoadModule \/ ListPlugins \/ Run \/ Stops
    \/ EditAgent \/ BreakOrMendIni \/ DirectoryChanges
    \/ \E m \in Loaded : EditIni(m) \/ CodeChanges(m) \/ HostChanges(m)

StartupSpec == StartupInit /\ [][StartupNext]_startupVars

-----------------------------------------------------------------------------
\* Properties

\* A collector that nothing was wrong with since the start began runs when the
\* agent is up, whatever the modules before it did and whatever was edited
\* meanwhile: "a collector is skipped (never fatally)" on its own account
\* (registry.py 8-9, 112-121, 130-147).
HealthyCollectorRuns == daemon = "up" => healthy \subseteq DOMAIN entries

\* What is wrong with a module and ends the agent: its section has a "%", also if
\* it is disabled (registry.py 82, outside the try); it exits; or it is to run and
\* the interval that counts for it - its own, that of its class or the one in
\* [agent] - is a word (registry.py 94-99).
Fatal(m) ==
    \/ code[m].import = "exits"
    \/ /\ code[m].import = "loads"
       /\ \/ ini[m].percent
          \/ ini[m].enabled # "off" /\ host[m] = "exits"
          \/ ini[m].enabled # "off" /\ host[m] = "there" /\ WordDecides(m)

\* A discovery that ends the agent does so in a module that is fatal itself, or
\* because the plugins directory cannot be listed (registry.py 130): that a
\* module cannot be imported, or that its collector cannot be built, is not
\* there or is disabled never ends it (registry.py 83-93, 112-117, 135-142),
\* whatever is wrong with the other modules.
OnlyTheseEndDiscovery ==
    [][ (daemon = "loading" /\ daemon' = "down") =>
            \/ next <= Len(Modules) /\ Fatal(Modules[next])
            \/ next = BuiltIns + 1 /\ pluginsDir = "unreadable"
      ]_startupVars
=============================================================================
