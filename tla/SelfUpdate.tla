----------------------------- MODULE SelfUpdate -----------------------------
(***************************************************************************)
(* The self-update: the daemon honours {"update": true} in a reply to a    *)
(* push (_maybe_self_update, cli.py) on a thread beside its loop, and      *)
(* somebody may run "oo-agent update" in another process; both run         *)
(* self_update (lifecycle.py), whose restart of the service is detached.   *)
(* The web site, pip and the service manager are external.                 *)
(*                                                                         *)
(* A version is a number, 0 standing for an installation that cannot       *)
(* start.  A release is what the manifest says its version is, the version *)
(* the tarball really holds, and whether the manifest has a sha256.        *)
(* Monotonic time counts from the boot of the host; a tick is a fraction   *)
(* of the throttle, far longer than the restart of the service takes.      *)
(***************************************************************************)
EXTENDS Integers, Sequences, FiniteSets

CONSTANTS Releases,   \* the releases of the site, in the order of publication
          Throttle,   \* _UPDATE_THROTTLE
          Threads,    \* the threads the daemon may have for updates
          MaxWork,    \* the longest the thread of an update runs
          Budget      \* bound: failures, crashes and updates by hand

Accidents == {"failure", "crash", "byHand"}

ASSUME SelfUpdateAssumption ==
    /\ Releases \in Seq([says : Nat \ {0}, holds : Nat \ {0}, sum : BOOLEAN])
    /\ Releases /= << >>
    /\ "cli" \notin Threads
    /\ Throttle \in Nat \ {0} /\ MaxWork \in Nat \ {0}
    /\ Budget \in [Accidents -> Nat]

Updaters == Threads \cup {"cli"}

Last == Len(Releases)

VARIABLES
    running,     \* __version__ of the daemon, 0 while there is no process
    updating,    \* state["updating"]
    wait,        \* how long _UPDATE_THROTTLE still forbids an update
    command,     \* client.server_commands has "update"
    step,        \* where each updater is in self_update
    base, seen,  \* __version__ of each updater, and the manifest it fetched
    got,         \* the tarball it downloaded
    worked,      \* how long the thread has been running
    installed,   \* the version in the venv; 0 is a half replaced package
    restartDue,  \* a detached restart is about to happen
    manifest, tarball,  \* what the site serves, as indices into Releases
    uptime,      \* time since boot, up to Throttle
    since,       \* time since the daemon last started an update, up to Throttle
    asked,       \* this process has started one
    left         \* what is left of the budget

process == <<running, updating, wait, command, worked, asked>>
work    == <<step, base, seen, got>>
site    == <<manifest, tarball>>
vars    == <<process, work, installed, restartDue, site, uptime, since, left>>

Versions == {Releases[i].holds : i \in 1 .. Last} \cup {Releases[i].says : i \in 1 .. Last}

TypeOK ==
    /\ running \in Versions \cup {0} /\ installed \in Versions \cup {0}
    /\ updating \in BOOLEAN /\ command \in BOOLEAN /\ restartDue \in BOOLEAN
    /\ asked \in BOOLEAN
    /\ wait \in 0 .. Throttle /\ uptime \in 0 .. Throttle /\ since \in 0 .. Throttle
    /\ worked \in 0 .. MaxWork
    /\ step \in [Updaters -> {"none", "fetch", "download", "pip"}]
    /\ base \in [Updaters -> Versions \cup {0}]
    /\ seen \in [Updaters -> 0 .. Last] /\ got \in [Updaters -> 0 .. Last]
    /\ manifest \in 1 .. Last /\ tarball \in 1 .. Last
    /\ left \in [Accidents -> Nat]

Happens(accident) ==
    /\ left[accident] > 0
    /\ left' = [left EXCEPT ![accident] = @ - 1]

\* The host has just booted, or has been up for long.
Init ==
    /\ running = 0 /\ updating = FALSE /\ wait = 0 /\ command = FALSE
    /\ worked = 0 /\ asked = FALSE
    /\ step = [u \in Updaters |-> "none"] /\ base = [u \in Updaters |-> 0]
    /\ seen = base /\ got = base
    /\ installed = Releases[1].holds /\ restartDue = FALSE
    /\ manifest = 1 /\ tarball = 1
    /\ uptime \in {0, Throttle} /\ since = Throttle
    /\ left = Budget

-----------------------------------------------------------------------------
\* The daemon

\* last_update starts at 0.0, the time of the boot.
Start ==
    /\ running = 0 /\ installed /= 0
    /\ running' = installed /\ wait' = Throttle - uptime
    /\ updating' = FALSE /\ command' = FALSE /\ asked' = FALSE /\ worked' = 0
    /\ UNCHANGED <<work, installed, restartDue, site, uptime, since, left>>

Idle == {t \in Threads : step[t] = "none"}

StartThread ==
    /\ updating' = TRUE /\ wait' = Throttle /\ worked' = 0
    /\ \E t \in Idle : /\ step' = [step EXCEPT ![t] = "fetch"]
                      /\ base' = [base EXCEPT ![t] = running]
    /\ since' = 0 /\ asked' = TRUE
    /\ UNCHANGED <<running, seen, got, installed, restartDue, site, uptime, left>>

NoThread ==
    UNCHANGED <<running, updating, wait, worked, asked, work, installed, restartDue,
                site, uptime, since, left>>

\* The backend knows the version of the agent from the payload.
Asks == running /= Releases[manifest].says

\* Mutants: an update that is running, or the time of the last one, is not
\* looked at.
PushUnflagged ==
    /\ running /= 0
    /\ \E update \in {Asks, command} :
          /\ command' = update
          /\ IF update /\ wait = 0 THEN StartThread ELSE NoThread

PushUnthrottled ==
    /\ running /= 0
    /\ \E update \in {Asks, command} :
          /\ command' = update
          /\ IF update /\ ~updating THEN StartThread ELSE NoThread

\* push_sink after a push that returned True without an auth rejection: the
\* reply was a 2xx, or another 4xx that leaves server_commands as it was.
Push ==
    /\ running /= 0
    /\ \E update \in {Asks, command} :
          /\ command' = update
          /\ IF update /\ ~updating /\ wait = 0 THEN StartThread ELSE NoThread

\* A payload of the backlog is accepted: drain does not look at the reply.
DrainedPush ==
    /\ running /= 0
    /\ command' = Asks
    /\ NoThread

\* The process ends and takes the thread and its pip along, which then has
\* replaced nothing, everything or a part of the package.
Killed ==
    /\ running' = 0 /\ updating' = FALSE /\ command' = FALSE /\ asked' = FALSE
    /\ wait' = 0 /\ worked' = 0
    /\ step' = [u \in Updaters |-> IF u \in Threads THEN "none" ELSE step[u]]
    /\ \/ UNCHANGED installed
       \/ \E t \in Threads : step[t] = "pip" /\ installed' \in {0, Releases[got[t]].holds}
    /\ UNCHANGED <<base, seen, got, site, uptime, since>>

Crash == running /= 0 /\ Happens("crash") /\ Killed /\ UNCHANGED restartDue

\* systemctl restart, one second after self_update scheduled it.
Restart ==
    /\ restartDue /\ restartDue' = FALSE
    /\ Killed /\ UNCHANGED left

-----------------------------------------------------------------------------
\* self_update

UpdateByHand ==
    /\ step["cli"] = "none" /\ installed /= 0 /\ Happens("byHand")
    /\ step' = [step EXCEPT !["cli"] = "fetch"]
    /\ base' = [base EXCEPT !["cli"] = installed]
    /\ UNCHANGED <<process, seen, got, installed, restartDue, site, uptime, since>>

\* Mutant: an update that failed leaves "updating" set.
ReturnsStuck(u) ==
    /\ step' = [step EXCEPT ![u] = "none"]
    /\ UNCHANGED updating

\* self_update returns; the finally of the thread resets the flag.
Returns(u) ==
    /\ step' = [step EXCEPT ![u] = "none"]
    /\ updating' = IF u \in Threads THEN FALSE ELSE updating

others == <<running, wait, command, worked, asked, base, site, uptime, since>>

\* The site cannot be reached, pip fails, a timeout.  The timeout kills pip in
\* the middle: as after a death, nothing, everything or a part of the package is
\* replaced, but no restart follows.
Fail(u) ==
    /\ step[u] /= "none" /\ Happens("failure")
    /\ \/ UNCHANGED installed
       \/ step[u] = "pip" /\ installed' \in {0, Releases[got[u]].holds}
    /\ Returns(u)
    /\ UNCHANGED <<others, seen, got, restartDue>>

\* Mutant: any other version will do.
FetchOther(u) ==
    /\ step[u] = "fetch"
    /\ seen' = [seen EXCEPT ![u] = manifest]
    /\ IF Releases[manifest].says = base[u]
       THEN Returns(u)
       ELSE step' = [step EXCEPT ![u] = "download"] /\ UNCHANGED updating
    /\ UNCHANGED <<others, got, installed, restartDue, left>>

\* check_manifest, and the comparison with __version__.
Fetch(u) ==
    /\ step[u] = "fetch"
    /\ seen' = [seen EXCEPT ![u] = manifest]
    /\ IF Releases[manifest].says <= base[u]
       THEN Returns(u)
       ELSE step' = [step EXCEPT ![u] = "download"] /\ UNCHANGED updating
    /\ UNCHANGED <<others, got, installed, restartDue, left>>

\* Mutant: a checksum that does not match is only logged.
DownloadUnchecked(u) ==
    /\ step[u] = "download"
    /\ got' = [got EXCEPT ![u] = tarball]
    /\ step' = [step EXCEPT ![u] = "pip"] /\ UNCHANGED updating
    /\ UNCHANGED <<others, seen, installed, restartDue, left>>

\* The tarball has one address, whatever release it is; the sha256 of the
\* manifest is compared if there is one.
Download(u) ==
    /\ step[u] = "download"
    /\ got' = [got EXCEPT ![u] = tarball]
    /\ IF Releases[seen[u]].sum /\ tarball /= seen[u]
       THEN Returns(u)
       ELSE step' = [step EXCEPT ![u] = "pip"] /\ UNCHANGED updating
    /\ UNCHANGED <<others, seen, installed, restartDue, left>>

\* pip install --upgrade, and the restart is scheduled.
Pip(u) ==
    /\ step[u] = "pip"
    /\ installed' = Releases[got[u]].holds
    /\ restartDue' = TRUE
    /\ Returns(u)
    /\ UNCHANGED <<others, seen, got, left>>

-----------------------------------------------------------------------------
\* The site and the clock

PublishTarball ==
    /\ tarball < Last /\ tarball <= manifest /\ tarball' = tarball + 1
    /\ UNCHANGED <<process, work, installed, restartDue, manifest, uptime, since, left>>

PublishManifest ==
    /\ manifest < Last /\ manifest <= tarball /\ manifest' = manifest + 1
    /\ UNCHANGED <<process, work, installed, restartDue, tarball, uptime, since, left>>

Advance(time) == IF time < Throttle THEN time + 1 ELSE time

Tick ==
    /\ ~restartDue
    /\ updating => worked < MaxWork
    /\ worked' = IF updating THEN worked + 1 ELSE worked
    /\ wait' = IF wait > 0 THEN wait - 1 ELSE 0
    /\ uptime' = Advance(uptime) /\ since' = Advance(since)
    /\ UNCHANGED <<running, updating, command, asked, work, installed, restartDue,
                   site, left>>

SelfUpdates(u) == Fetch(u) \/ Download(u) \/ Pip(u)

Next ==
    \/ Start \/ Push \/ DrainedPush \/ Crash \/ Restart
    \/ UpdateByHand
    \/ \E u \in Updaters : SelfUpdates(u) \/ Fail(u)
    \/ PublishTarball \/ PublishManifest \/ Tick

Spec == Init /\ [][Next]_vars

\* systemd restarts the daemon, which keeps pushing and is answered; the
\* updaters go on (every request and pip have a timeout); releases are
\* published completely; time passes.
FairSpec ==
    /\ Spec
    /\ WF_vars(Start) /\ WF_vars(Push) /\ WF_vars(Restart) /\ WF_vars(Tick)
    /\ \A u \in Updaters : WF_vars(SelfUpdates(u))
    /\ WF_vars(PublishTarball) /\ WF_vars(PublishManifest)

-----------------------------------------------------------------------------
\* Properties

Started == \E t \in Idle : step'[t] = "fetch"

\* One update runs in the daemon at a time, also when it takes longer than
\* the throttle, and "updating" says whether one does, whatever way the last
\* one ended (cli.py 250-261).
OneThread ==
    Cardinality(Threads \ Idle) = IF updating THEN 1 ELSE 0

\* A package that pip left half replaced - its timeout ran out - is only ever
\* under a daemon that still runs and will try again: no restart comes before
\* it is repaired, and none hits the pip of the next update (cli.py 250-253,
\* lifecycle.py 212-238).  For one updater at a time, and MaxWork < Throttle.
NeverStranded == installed = 0 => running /= 0

\* "verifies the tarball checksum" (README 123-124): what pip gets is the
\* tarball the manifest describes, although the site may publish a release
\* between the two requests.
VerifiedInstall == \A u \in Updaters : step[u] = "pip" => got[u] = seen[u]

\* "Update to the manifest version if it is newer" (lifecycle.py 172): whatever
\* an update, a pip killed by its timeout or a death leaves behind is no older
\* than the daemon that ran, so that no restart takes the daemon back, although
\* the site may take a release back.  For a daemon beside which nobody updates.
NeverOlder == [][installed' /= 0 => installed' >= running]_vars

\* "honour it at most once per hour so a broken manifest cannot cause a retry
\* storm" (cli.py 22-24), for the updates that one process of the daemon
\* starts: last_update does not outlive the process.
OncePerHourOfAProcess == [][Started /\ asked => since >= Throttle]_vars

\* An agent that is told to update ends up running the last release, after
\* failed downloads, installs that pip did not finish and updates the throttle
\* forbade - unless the daemon was stopped while the package could not start
\* (cli.py 244-266).
UpToDate == <>[](running = Releases[Last].holds \/ (running = 0 /\ installed = 0))
=============================================================================
