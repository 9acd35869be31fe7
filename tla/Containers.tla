----------------------------- MODULE Containers -----------------------------
(***************************************************************************)
(* DockerCollector (collectors/containers.py) and DockerStateCollector     *)
(* (collectors/docker_state.py), called in turn by the scheduler, while    *)
(* containers are started, stopped and removed.  The first asks for the    *)
(* statistics of every running container from a pool of threads.           *)
(*                                                                         *)
(* Docker and its client library are external: list inspects one container *)
(* after the other, and fails as a whole if one is gone by then.  The      *)
(* statistics are represented by the container they were measured on.      *)
(***************************************************************************)
EXTENDS Integers, SequencesExt

CONSTANTS Ids,          \* container ids
          Workers,      \* _STATS_WORKERS
          NoStats,      \* cpuPct and memMb are null
          MaxClock      \* bound: whole seconds

ASSUME ContainersAssumption ==
    /\ IsFiniteSet(Ids) /\ NoStats \notin Ids
    /\ Workers \in Nat \ {0} /\ MaxClock \in Nat

VARIABLES life,     \* "none", "running" or "exited", by container
          began,    \* StartedAt
          clock,    \* time.time()
          pass,     \* "no", "stats" or "state": the collector that is at work
          uninspected, \* the containers that list has yet to inspect
          inspected,   \* what it has seen: the status, StartedAt, and for how long it ran
          begunAt,  \* "now" of DockerStateCollector
          tasks,    \* the running containers, one task of the pool each
          busy,     \* the tasks that a thread is at
          answers,  \* the result of every task that is done, by its place
          rows,     \* inventory.dockers: status and statistics
          uptimes   \* uptime_s of the containers that have one

docker         == <<life, began, clock>>
pool           == <<tasks, busy, answers>>
work           == <<uninspected, inspected, begunAt, pool>>
shipments      == <<rows, uptimes>>
containerVars  == <<docker, pass, work, shipments>>

None == [c \in {} |-> NoStats]

ContainersInit ==
    /\ life = [c \in Ids |-> "none"] /\ began = [c \in Ids |-> 0] /\ clock = 0
    /\ pass = "no" /\ uninspected = {} /\ inspected = None /\ begunAt = 0
    /\ tasks = <<>> /\ busy = {} /\ answers = None
    /\ rows = None /\ uptimes = None

-----------------------------------------------------------------------------
\* Docker

Changes(c, before, after) ==
    /\ life[c] \in before /\ life' = [life EXCEPT ![c] = after]
    /\ began' = [began EXCEPT ![c] = IF after = "running" THEN clock ELSE @]
    /\ UNCHANGED <<clock, pass, work, shipments>>

Lives ==
    \E c \in Ids : \/ Changes(c, {"none", "exited"}, "running")
                   \/ Changes(c, {"running"}, "exited")
                   \/ Changes(c, {"exited"}, "none")

SecondPasses ==
    /\ clock < MaxClock /\ clock' = clock + 1
    /\ UNCHANGED <<life, began, pass, work, shipments>>

\* What a pass has at hand is gone with it.
Drop ==
    /\ uninspected' = {} /\ inspected' = None /\ begunAt' = 0
    /\ tasks' = <<>> /\ busy' = {} /\ answers' = None

\* One container of the list.
Inspect ==
    /\ uninspected # {}
    /\ \E c \in uninspected :
          IF life[c] = "none"
          THEN pass' = "no" /\ Drop   \* NotFound
          ELSE /\ uninspected' = uninspected \ {c} /\ UNCHANGED <<pass, begunAt, pool>>
               /\ inspected' = [k \in DOMAIN inspected \cup {c} |->
                     IF k # c THEN inspected[k]
                     ELSE [status |-> life[c], began |-> began[c],
                           ran |-> IF life[c] = "running" THEN clock - began[c] ELSE 0]]
    /\ UNCHANGED <<docker, shipments>>

-----------------------------------------------------------------------------
\* The collectors

\* "now" is read before the containers are listed.
Begin(which) ==
    /\ pass = "no" /\ pass' = which
    /\ uninspected' = {c \in Ids : life[c] # "none"} /\ begunAt' = clock
    /\ rows' = None /\ uptimes' = None
    /\ UNCHANGED <<docker, inspected, pool>>

Inspected == uninspected = {} /\ UNCHANGED docker

Keep == UNCHANGED <<pass, uninspected, inspected, begunAt, shipments>>

RunningOnes == {c \in DOMAIN inspected : inspected[c].status = "running"}

\* pool.map: the tasks are put in order, one for every running container.
Submit ==
    /\ pass = "stats" /\ tasks = <<>> /\ RunningOnes # {} /\ Inspected
    /\ tasks' = SetToSeq(RunningOnes)
    /\ UNCHANGED <<busy, answers>> /\ Keep

Places == 1 .. Len(tasks)

\* A free thread takes the next task.
Take ==
    /\ pass = "stats" /\ Cardinality(busy) < Workers /\ Inspected
    /\ \E i \in Places :
          /\ i = Cardinality(DOMAIN answers \cup busy) + 1 /\ busy' = busy \cup {i}
    /\ UNCHANGED <<tasks, answers>> /\ Keep

\* _cpu_pct and _mem_mb: a container that is not running has no statistics.
Measured(c) == IF life[c] = "running" THEN c ELSE NoStats

Put(place, result) ==
    answers' = [p \in DOMAIN answers \cup {place} |->
                    IF p = place THEN result ELSE answers[p]]

\* Mutant: the results are taken in the order in which they come.
AnswerAsCompleted ==
    /\ pass = "stats" /\ Inspected
    /\ \E i \in busy :
          /\ busy' = busy \ {i}
          /\ Put(Min(Places \ DOMAIN answers), Measured(tasks[i]))
    /\ UNCHANGED tasks /\ Keep

\* one_stats: the statistics, or None for whatever the call raises.
Answer ==
    /\ pass = "stats" /\ Inspected
    /\ \E i \in busy : \E result \in {Measured(tasks[i]), NoStats} :
          busy' = busy \ {i} /\ Put(i, result)
    /\ UNCHANGED tasks /\ Keep

\* Every task is done: stats_by_id, then a row for every listed container.
ShipStats ==
    /\ pass = "stats" /\ pass' = "no" /\ Inspected /\ Drop
    /\ tasks # <<>> \/ RunningOnes = {}
    /\ DOMAIN answers = Places
    /\ rows' = [c \in DOMAIN inspected |->
                  [status |-> inspected[c].status,
                   stats  |-> IF \E i \in Places : tasks[i] = c
                              THEN answers[CHOOSE i \in Places : tasks[i] = c] ELSE NoStats]]
    /\ UNCHANGED uptimes

\* Mutant: a container that has ended goes on counting.
UptimesOfAll == [c \in DOMAIN inspected |-> begunAt - inspected[c].began]

\* container_entry: only a running container has an uptime.
Uptimes == [c \in RunningOnes |-> begunAt - inspected[c].began]

ShipStates ==
    /\ pass = "state" /\ pass' = "no" /\ Inspected /\ Drop
    /\ uptimes' = Uptimes /\ UNCHANGED rows

ContainersNext ==
    \/ Lives \/ SecondPasses \/ Inspect
    \/ Begin("stats") \/ Begin("state")
    \/ Submit \/ Take \/ Answer \/ ShipStats \/ ShipStates

ContainersSpec == ContainersInit /\ [][ContainersNext]_containerVars

-----------------------------------------------------------------------------
\* Properties

\* The statistics in the row of a container were measured on it, however the
\* threads of the pool overtake each other and whichever of them fail, and a
\* container that was not running has none: "cpuPct/memMb null when stopped"
\* (docs/PAYLOAD.md:260, containers.py 84-119).
OwnStats ==
    \A c \in DOMAIN rows :
        /\ rows[c].stats \in {c, NoStats}
        /\ rows[c].status # "running" => rows[c].stats = NoStats

\* An uptime that is shipped is the time for which the container had been
\* running when it was inspected, or less by no more than the pass took until
\* then; it is below 0 only for one that started during the pass
\* (docker_state.py 74, 91-95).
UptimeIsOfThisRun ==
    [][ ShipStates =>
          \A c \in DOMAIN uptimes' :
              uptimes'[c] \in inspected[c].ran - (clock - begunAt) .. inspected[c].ran ]_containerVars
=============================================================================
