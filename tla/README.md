# Verification of oo-agent

oo-agent is a monitoring agent: a daemon that collects host metrics with many
small collectors, pushes them to a backend over HTTPS, buffers what it cannot
push in an SQLite file, re-enrolls by itself when its token is rejected, and
updates itself when the backend asks for it. This directory holds TLA+ modules
translated from the Python source (`src/oo_agent`), configurations that
model-check them with TLC, and theorems proved with TLAPS.

Line numbers below are those of `src/`; paths are relative to `src/oo_agent`
unless they begin with `src/`.

## 1. Inventory

| Component | State | Operations | Talks to |
|---|---|---|---|
| offline queue, `buffer/queue.py` | the `queue` table and its AUTOINCREMENT counter, one connection with its open transaction | `push` (insert, trim by age, trim by count, commit), `peek`, `ack` | called by `push_sink` and `drain` |
| transport, `transport/client.py` | `token`, `auth_status`, `server_commands`, the token file | `push` (up to `_ATTEMPTS` attempts), `drain`, `read_token`, `write_token` | backend; queue |
| re-claim flow, `transport/reclaim.py` | `enroll_id`, `_next_try` | `step`: a POST or a poll, at most one request a minute | backend; token file |
| enrollment command, `transport/enroll.py` | none but the token file | `enroll` | backend; token file, beside a running daemon |
| sink, `cli.py` 193-310 | `state` = auth_fails, reclaim, updating, last_update | `_build_sink`, `push_sink`, `_maybe_self_update` | all of the above |
| scheduler, `core/scheduler.py` | per entry `failures`, `retry_at`, `next_run`; the payload under assembly | `run_forever`, `run_once`, `_run_entry`, `_merge` | collectors, sink, systemd watchdog |
| self-update, `lifecycle.py` 120-240 | the installed package; the manifest and tarball on the site | `check_manifest`, `self_update`, the detached restart | site, pip, service manager |
| registry and configuration, `core/registry.py`, `core/config.py`, `plugin.py` | `agent.ini`, the discovered entries with their intervals | `AgentConfig`, `_coerce`, `discover`, `_instantiate` | built-in modules, plugin directories |
| rates, `core/rates.py` under `collectors/net.py`, `diskio.py`, `rapl.py` | last sample and time per tracker | `prime`, `rates` | kernel counters |
| cron, `collectors/cron.py` | none between passes | crontabs, timers, last and next run | crontab files, `systemctl`, journal |
| containers, `collectors/containers.py`, `docker_state.py` | the pool of one pass | `collect` | Docker |
| hwmon and NVIDIA, `collectors/sensors_hwmon.py`, `gpu_nvidia.py` | names given in one pass; the resolved tool | `collect` | `/sys`, NVML, gddr6 |
| other collectors: security, smart, lhm, amd, hardware, fs, tcpconn, system | none, but for the throttle counts of the last pass (`collectors/system.py`) | `collect` | external tools, libraries |
| uninstall, `lifecycle.py` 76-118 | unit, directories, detached shell | `uninstall` | systemd; beside the daemon |
| service wrappers and installers, `service/`, `src/deploy/` | stop event; unit file | start, stop, restart, watchdog | service managers |

What makes the behaviour hard:

- **Concurrency.** The daemon has one loop, but a self-update thread runs beside
  it, the containers are asked by a pool of threads, `oo-agent --enroll`,
  `oo-agent update` and `oo-agent uninstall` may run in other processes on the
  same token file and the same installation, and the backend, its operator and
  the release site move on between any two requests. A collector reads the host
  in several calls while the host changes: chips, timers, containers and cards
  come, go and change between two of them.
- **Failure.** The service manager restarts the process (`Restart=always`) and
  kills it when the watchdog is not pinged; everything not in the SQLite file
  or the token file is then gone. Replies get lost after the backend acted.
- **Ordering.** The backlog must leave oldest first, over batches, partial
  failures and restarts; keys and wall-clock stamps may disagree about "oldest".
- **Time.** Backoff, throttles and the watchdog use monotonic time, the age cap
  of the queue uses wall-clock time, the update throttle compares a monotonic
  clock with 0.0. Rates survive counters that wrap or vanish; the next run of a
  cron line is computed on a local clock that is changed twice a year.

What makes each component correct is stated at the properties of its module
(section 3). The hazards, each at its line, are in `PROJECT.json`.

## 2. Modules

```
BoundedFifo            what the offline buffer promises
   ^ refined by DiskQueue, and by Delivery (proved)
DiskQueue  ----------- one action per SQL statement, crashes, wall clock
   |  extends
QueueRows              the queries, as operators on sets of rows
   |  extended by
Delivery               daemon, backend, token, CLI; the queue in single steps
Scheduler              the loop, its collectors, the watchdog
SelfUpdate             the update thread, the CLI update, site, pip, restart

EnrollCommand          oo-agent --enroll by itself
Uninstall              oo-agent uninstall beside the daemon
Startup                configuration, discovery, plugins
Rates                  RateTracker under its collectors
CronSchedule           the next run of a crontab line
CronTimers             the status of systemd timers
Hwmon                  the ids of sensors
NvidiaVram             the VRAM temperatures of cards
Containers             the two container collectors

MCDiskQueue, MCDelivery, MCScheduler, MCSelfUpdate       instances for TLC
MCCronSchedule, MCParts (all from EnrollCommand down)
QueueRows_proofs, DiskQueue_proofs, Delivery_proofs, Scheduler_proofs,
SelfUpdate_proofs, CronSchedule_proofs, Collectors_proofs, Commands_proofs      theorems
```

`Delivery` uses `push` and `ack` of the queue as single committed steps. That
is what the refinement `DiskQueue => BoundedFifo` justifies: a crash inside
either one is invisible in the file. That the daemon uses the queue so that
the promise also holds from end to end - `drain` acks whatever it got through,
`push_sink` parks whatever it could not push, and either may die - is the
refinement `Delivery => BoundedFifo` (section 4).

### DiskQueue (`buffer/queue.py`)

`table`, `seq` are what is committed; `view`, `viewSeq` what the connection sees
inside its transaction. `push` is `Offer` (the payload gets its stamp when it is
collected, and reaches the queue after the delivery attempts), `Insert`,
`DeleteAged`, `DeleteOverflow`, `Commit`; `ack` is `Ack`, `Commit`; `peek` is
`Peek`. `Crash` forgets the transaction. `Tick` and `SetBack` move the wall
clock; `steady` remembers whether it was ever set back. A row is its key and its
stamp; the JSON text is abstracted to the stamp.

- `Bounded` - never more than `max_rows` rows in the file, also after a crash in
  the middle of a push.
- `ParkedRowSurvives` - the trim never eats the row that it makes room for.
- `KeepsPromise` - the queue implements `BoundedFifo`: every commit either parks
  exactly one payload and drops the oldest ones, or settles a prefix; a crash is
  a stutter. On a clock that was set back, what the *age cap* drops is no longer
  a prefix (a row with an older stamp may sit behind a newer one), so the
  abstract `Park` then promises the cap only; `Settle` stays oldest-first on any
  clock.

### Delivery (`cli.py`, `transport/client.py`, `transport/reclaim.py`)

One place (`pc`) per point of the daemon where something may happen in between:
`send`/`drain` (a request is out), `judge` (`push_sink` looks at `auth_status`),
`park` (`queue.push`), `peek`, `ack`, `wipe`, `request` (`flow.step`), `store`
(`write_token`). A request is one step with every outcome that `push` tells
apart: `Accept` (2xx), `AcceptUnheard` (stored, reply lost), `RejectToken` (401,
403, 410), `RejectPayload` (another 4xx), `NotDelivered` (5xx, network). `Returns`
and `Fails` are what push's True and False mean to the live push and to `drain`.
`Die` is the end of the process in any of these places. The backend's tokens and
claims, the operator who re-adds and confirms a server, and the network are
external and modelled from how the code uses them. Payloads are numbers in order
of collection; those beyond `MaxPayloads` share one number, keep the daemon going
and are not followed.

- `Accounted` - no payload vanishes: a death costs the live payload and never
  one of the backlog.
- `RedeliversOnlyInDoubt` - a payload is delivered twice only if a reply was
  lost or the daemon died before the ack.
- `OldestFirst` - when `drain` gets a payload accepted, every older one still
  queued was answered before.
- `WipeNeedsRejections` - a token is given up after `_AUTH_FAIL_LIMIT` rejections
  of that token in a row.
- `ValidTokenKept` - the file is never emptied or overwritten while the token in
  it is valid.
- `RestartKeepsToken` - the daemon pushes with what a restart would find.
- `Drains`, `Reenrolls` - the backlog empties; a dead token is replaced.

### Scheduler (`core/scheduler.py`)

`Loop` is the head of `run_forever` (stop check, watchdog ping, the due list,
`capabilities()`), `Collect`, `BackOff`, `BackOffOverflows`, `MergeRaises` are
`_run_entry` and `_merge` by outcome, `Finish`, `Sink` and `Sleep` the tail,
`Killed` the watchdog, `Restart` systemd. Times are kept as what is left of each
timer, so the clock itself needs no bound. A payload is reduced to whose results
it carries, whether it is worth sending, and its `capabilities`.
`capabilities()` reads the clock a moment after the due list does; the model
takes one moment for both.

- `BackedOffByFailures` - what a collector still has to wait is exactly the cooldown
  of its failures in a row less the time since the last of them ended (`Owed`), and
  nothing after a success. `failedAgo` keeps that time for the property only; no guard
  reads it.
- `NotCalledInCooldown` - a call happens only when the whole cooldown is over,
  however old the pass's `now` is by then.
- `SourcesAreListed` - a payload that reaches the sink lists the source of
  everything it carries.
- `Survives`, `KeepsCalling`, `KeepsReporting`, `StopsWhenAsked` - the loop and
  its healthy collectors go on beside one that always raises.

### SelfUpdate (`cli.py` 244-266, `lifecycle.py` 120-240)

Each updater - a thread of the daemon or `oo-agent update` - goes through
`Fetch` (manifest, comparison with `__version__`), `Download` (tarball,
checksum), `Pip` (install, restart scheduled); `Push` is `push_sink` with
`_maybe_self_update`, `DrainedPush` a payload of the backlog whose reply nobody
looks at. The site publishes manifest and tarball separately. A version is a
number; 0 is a half replaced package, which cannot be started. A pip that ends before
its time has replaced nothing, everything or a part of the package: in `Killed` because
the process has died, in `Fail` because its timeout of 600 seconds ran out (`lifecycle.py`
212-222) or it failed by itself, and then no restart follows.

- `OneThread` - one thread at a time, and the flag says so, also when an update
  takes longer than the throttle.
- `NeverStranded` - a half replaced package is never what a restart has to start from:
  the restart of one update comes neither during the pip of another nor after one that
  its timeout has killed.
- `VerifiedInstall` - what pip gets is what the manifest describes, although the site
  moves between the two requests.
- `NeverOlder` - whatever an update leaves behind, finished or not, is no older than the
  daemon that ran, so no restart goes back. It may be older than what was in its place:
  after a pip that its timeout killed at its end the newer package is there, without a
  restart, and a release that was taken back to one in between is then installed over it.
- `OncePerHourOfAProcess` - the throttle, within one process.
- `UpToDate` - the agent ends up running the last release.

### EnrollCommand (`transport/enroll.py`, `cli.py` 167-190)

`Ask` is the POST, `Poll` one turn of the polling loop, `PollTimedOut` its
deadline, `Store` and `StoreFails` `write_token`, `Interrupt` a ^C. A token is the
number under which the backend issued it.

- `EnrollKeepsItsWord` - exit code 0 means that the file holds the newest token
  issued; a command that fails before it has one leaves the file alone; it waits
  no longer than the limit, one sleep and one request. `RequestTime` bounds a whole
  request; the timeouts of `httpx` bound its phases, so a request that trickles may take
  longer than they do.

### Uninstall (`lifecycle.py` 76-118)

The steps of the Linux branch in their order; the calls of systemctl may fail, and
the next step follows all the same. They run beside the daemon, which creates its
directories when it writes, and a restart that a self-update has scheduled.

- `NothingIsLeftIfStopped` - if `systemctl disable --now` worked and that restart
  has not revived the daemon, exit code 0 means that the daemon, the token and
  the state are gone and stay gone.

### Startup (`core/config.py`, `core/registry.py`)

`ReadIni` reads `agent.ini`, `LoadModule` imports one module and instantiates its
collector (`Coerce`, `Disabled`, `Interval`), `ListPlugins` is the head of
`_load_plugins`, `Run` begins the loop. Between two starts the operator edits the file;
plugins are replaced, their directory is closed or removed and hardware comes and goes at
any time. An option is reduced to what its readers tell apart, a percent sign that the
interpolation of `configparser` cannot resolve among it.

- `HealthyCollectorRuns` - a collector with which nothing was wrong runs if the agent
  comes up, whatever the modules before it did.
- `OnlyTheseEndDiscovery` - what ends the agent once `agent.ini` is read: a module that
  raises SystemExit when it is imported or its collector is built; a percent sign in the
  section of a collector, even of a disabled one; a word as the interval of a collector
  that is to run, be it in its section, its class or, if both say nothing, in `[agent]`; a
  plugins directory that cannot be listed. Nothing else that is wrong with a module ends it.
  Before that a file that cannot be parsed, or a percent sign in `[agent]` or
  `[transport]`, ends it in `ReadIni` (`readableIni`).

### Rates (`core/rates.py`)

`Resample` is `prime`, `SampleRates` `rates`; a counter grows by what really moves,
falls when it wraps, resets or loses a summand, and blinks when it cannot be read.
`moved` and `steady` keep account of that. A rate is the difference that is divided
by the time between the samples.

- `RatesAreTrue` - a rate is between 0 and what really moved, and exact for a
  counter that did not fall since its sample.

### CronSchedule and CronTimers (`collectors/cron.py` 210-302, 430-475)

`ParseField`, `DayMatches`, `Search` and `NextRun` are `_parse_field` and
`cron_next_run` over the real calendar of four years (the days and months of 2024
to 2028, with its leap days), a local clock with summer time (`Local` and `Epoch`),
and days and hours of any length. The minutes of summer time are a constant, any set
in which more than two hours lie between two changes (`SummerAssumption`). `Triggers`
is the reference: crond's own rule, part by part, minute by minute. `CronTimers` is one pass over the systemd timers as three calls of
`systemctl`, between which jobs start and end and the host reboots.

- `PlainNextRunIsNext` - the next run that is shipped is the first minute at which
  crond triggers the line, and none is shipped only if it does not trigger in
  two years; unless the pass or that minute is within an hour of a change of the
  clock (`NearChange`).
- `NextIsAhead`, `StaysUntilDue` - over time: the next run is never past when it is
  shipped, and stays what it is until it is due, for passes away from a change of
  the clock.
- `StatusTellsLastRun` - a run that ended before the last of the three calls is
  shipped as what it was.

### Hwmon and NvidiaVram (`collectors/sensors_hwmon.py`, `collectors/gpu_nvidia.py`)

`Scan` reads one directory of the listing, `PowerSensors`, `MonitorSensors` and
`DriveSensors` name what is in it; chips appear and disappear meanwhile.
`CollectVram` matches what gddr6 prints to the cards of NVML, by bus or by place.

- `UniqueIds`, `StableIds` - an id denotes one sensor in a payload, and the same
  chip in two passes between which no chip came or went.
- `OwnVramByBus` - each card gets its own temperature if every listed card has a
  usable value and a bus number that NVML tells.

### Containers (`collectors/containers.py`, `collectors/docker_state.py`)

`Inspect` is the client library's list, which inspects one container after the
other; `Submit`, `Take` and `Answer` are the pool of `_STATS_WORKERS` threads;
`ShipStats` and `ShipStates` put the rows together.

- `OwnStats` - the statistics in a row were measured on its container.
- `UptimeIsOfThisRun` - an uptime is that of the run that was inspected, less at
  most the time the pass took.

## 3. Runs

Every property of a passing run has a mutant: a plausible bug in a mapped
definition with which TLC finds the property violated in that run.

| Run | Question | Bounds, and why they suffice |
|---|---|---|
| `disk_queue` | is the queue the bounded FIFO it promises to be? | 5 inserts over a cap of 2 rows and an age cap of 2 ticks on a clock of 6: both caps cut, alone and in the same push, and a batch is less than, equal to and more than the backlog. The theorems cover the rest. |
| `delivery` | what can happen to a payload and to the token? | 4 followed payloads, 3 rows, batches of 2, 2 attempts: a backlog takes two batches, overflows, and ages out. `Budgets` has two sets of accidents. `PayloadBudget`: two outages (one builds the backlog, one cuts a drain in the middle of a batch), one lost reply, 5xx, death, missing queue and revocation. `TokenBudget`: two revocations and two deaths, in every step of two replacements, with a lost reply, a 5xx, a file that cannot be removed and a rejected claim. |
| `delivery_live` | does the backlog drain, and does a dead token get replaced? | `DrainBudget`: two outages build a backlog twice under a watchdog of 3 exchanges, which leaves time for a batch of 2 after a push that is accepted at once and not after one that is repeated, with a death and an `oo-agent --enroll`. `ReenrollBudget`: two revocations, one of each accident but deaths. |
| `delivery_stale_status` | violation, see section 6 | one revocation, three other 4xx. |
| `delivery_restart` | violation, see section 6 | one revocation, one death. |
| `scheduler` | is the backoff respected? | three collectors with intervals 2, 3 and 1, calls that take 0 or 1 tick or are killed; cooldowns 2, 4, 5 and the overflow after the third failure. |
| `scheduler_live` | does the loop go on? | two collectors, one always raising, a stop at any time. |
| `scheduler_malformed` | violation, see section 6 | two collectors. |
| `self_update` | is an update safe? | four releases, of which the third lies between the first and the second; a throttle of 3, updates of up to 2 ticks, two failures at any step, in the middle of pip among them. |
| `self_update_live` | does an update end, and the last release run? | updates of 3 ticks under a throttle of 2; one failure, crash and update by hand. |
| `parts` | the components that stand alone, one at a time (`part`), the others at rest | a counter up to 3 that falls and blinks; 16 crontab lines on days of 3 hours of 2 minutes, in the hours around both changes of the clock and in them, two leap days and New Year's Eve, and on 27 February 2026, from which 29 February 2028 is just too far; two timers, one persistent; three chips, two of one driver, in two directories; two cards; a built-in module and a plugin, with up to two things at a time that are not as on a fresh host (`MaxUnusual`), which is as many as one fault has and one to mask it; a poll time of 2 under a limit of 5 and three tokens; two containers under two threads and a clock of 2 seconds. |
| `cron_stepped_star` | violation, see section 6 | the same lines and minutes. |

`CHECK_DEADLOCK FALSE` appears in `MCDiskQueue.cfg` and `MCParts.cfg` only: the
clock and the row counter of the first are bounded and may both run out; of the
second an uninstall really ends, and bounded counters and minutes do. Everywhere
else a deadlock would be an error. Bounds in guards are named in the modules: `MaxClock`,
`MaxId`, `MaxPayloads`, `MaxTokens` (`Room`), `MaxFailures`, `Budgets`, `Budget`,
`MaxMoved`, `Awake`, `MaxUnusual`, the `MaxClock` of `Containers`. Constants
are scaled: `_BACKOFF_BASE`/`_BACKOFF_MAX` are 2 and 5 instead of 300 and 3600,
`FloatLimit` is 3 instead of 1024 where the overflow is to happen.

The `delivery` run asks about the daemon alone: its budgets have no 4xx other than
auth rejections and no `oo-agent --enroll`. With those two accidents
`WipeNeedsRejections` and `ValidTokenKept` do not hold (section 6).

### Fairness

- `Delivery`: weak fairness of the start (`Restart=always`), of the watchdog, of
  the loop and of the daemon's own steps (every request has a timeout), of the end
  of an outage and of the one-minute throttle; for the operator, weak fairness of
  re-adding and confirming the server. `reclaim.py` promises recovery only "until
  a fresh claim created in the UI is matched and confirmed". Nothing is assumed of
  accidents but that the budget ends.
- `Scheduler`: weak fairness of the loop as a whole - it is a single thread that
  waits for nothing but calls that return or are killed by the watchdog - and of
  the restart. Which collector runs next is not assumed to be fair: the pass runs
  all of them.
- `SelfUpdate`: weak fairness of start, push, restart, time and each updater's
  next step (requests and pip have timeouts), and of a publication being completed.

## 4. Proofs

TLC sees small instances; these theorems hold for every value of the constants
under the named assumptions of the modules (types and positivity only) and the
hypotheses that are part of the statements (`Summed`, `OneUpdater`, `Honest`,
`Alone`, `Saturated`, `Timely`, `Mergeable`, `Floats`, `FileIsItsOwn`, `OnlyAuthRejections`).

`DiskQueue_proofs`. The inductive invariant is `IInv`: types, `Transaction` (what
the open transaction contains at each point: nothing, a push half done, an ack
half done), `Keys` (committed keys are distinct and were handed out), `Bounded`,
finiteness, and what a peeked batch is. `Bounded` alone is not inductive: a
commit makes `view` the table, so the bound must be known of `view` when
`pc = "trimmed"`.

- `TypeCorrect`, `AlwaysBounded`: `Spec => []TypeOK`, `Spec => []Bounded`.
- `ParkedRowAlwaysSurvives`: `Spec => ParkedRowSurvives` for `MaxRows > 0` and
  `PushLag <= MaxAge`, with `NewRowKept` (the row a push inserted is still in
  `view`, and was offered at most `PushLag` ago). Both hypotheses are needed:
  with a cap of 0, or an age cap shorter than the delivery attempts, the code
  deletes the row at once. A clock that is set back does no harm here.
- `ImplementsBoundedFifo`: `Spec => KeepsPromise`, with `InOrder` (as long as
  the clock is steady, keys and stamps run the same way, so both caps cut off a
  prefix; an ack always does). `InitInOrder`, `NextInOrder` and `RefinementStep`
  are its three parts.

`QueueRows_proofs` has the lemmas on the queries. `CappedIsBounded` and
`CappedKeepsNewest`: the overflow DELETE leaves at most `max_rows` of any finite
keyed set of rows, and takes away only rows older than all it leaves.

`Delivery_proofs`. `EveryPayloadAccounted` and `RedeliveredOnlyInDoubt` for every
number of attempts, batch, cap, age and watchdog, and for every set of budgets.
The invariant is `PayloadInv`: `Counting` (payloads are numbered as they are
collected), `Stored` (the keys of the queue are distinct and in the order of the
stamps), `Live` (the live payload is newer than the backlog, and accepted only if
it is in doubt), `Draining` (what is left of a batch is the oldest part of the
queue, and what it has passed was answered) and `Doubts` (a row that the backend
already has is in doubt or was just delivered). `Accounted` alone is not inductive: that an ack deletes only
answered rows follows from `Draining`. A request is one lemma for the live push
and one for the drain (`Exchanged`), shared by all outcomes.

`OldestFirstEver` follows from the same invariant: what of the queue is neither in the
batch nor delivered is newer than the batch, and what was delivered was answered.

`DeliveryKeepsPromise` is the refinement `Delivery => BoundedFifo`: `held` is the keys
in the queue, `arrived` its counter, and the clock is steady, since a stamp is here the
order of collection. `Park` is `Fifo!Park` because `Stored` puts stamps and keys in the
same order, so that both caps cut off the oldest rows (the lemmas of
`QueueRows_proofs`); `Ack` is `Fifo!Settle` because of `PushedFirst` (what `drain` has
pushed is older than all that is left), which `PayloadInv` does not imply and the
proof adds to it; every other step, each death among them, is a stutter.

The token: `RestartKeepsTokenEver` assumes `FileIsItsOwn` (no `token` option, nobody
runs `--enroll` beside the daemon: section 6 tells what either does) and follows
from `FileInv`: tokens are numbered as they are issued, and the re-claim flow is off
while the daemon pushes. `WipeNeedsRejectionsEver` assumes `OnlyAuthRejections` (the
backend answers no other 4xx, section 6 too) and follows from `Judged`: `auth_fails` is
never ahead of the rejections of the token in hand, and strictly behind them while a
rejection has not been judged. `ValidTokenAlwaysKept` needs both hypotheses, and
`Dead`: a token that was rejected stays dead, since the backend never revives one, and
so is what a failed removal leaves in the file; without `WipeNeedsRejections` the wipe
would break it. `DeliveryTyped` is the type invariant; it needs `PayloadInv` for the
queue and the payloads, that `auth_fails` reaches the limit only on the way to the wipe
(`Counters`), and that an open claim has a token reserved (`Handed`).

`Scheduler_proofs`. `NeverCalledInCooldown` follows from `ReadyToRun`: what a
pass has still to run is not in cooldown, because only the call of an entry puts
it there. `SourcesAlwaysListed` follows from `Listed`: what a pass has still to
run or has heard is in the list computed at its beginning. `BackedOffEver` follows
from `TimesInv` by itself (a failure sets both timers, and `TimePaysOff`: time takes as
much from the cooldown as it adds to `failedAgo`, up to the maximum, where
`SaturatedAtCeiling` is needed); it assumes `Saturated` (the exponential backoff reaches its
maximum within `MaxFailures` failures, as it does in the code after 5), since the
model stops counting there. `SchedulerTyped` is the type invariant. `AgentSurvives`
follows from `InBudget`: the time since the last ping and what the calls that are left
in the pass may take make up less than the watchdog allows. Its three hypotheses are
what the code itself leaves open (section 6): `Timely(D)` (no call takes longer than D,
and one call of every collector and of the sink fit the watchdog), `Mergeable` (no
collector returns what `_merge` raises on) and `Floats` (fewer failures in a row than
the cooldown overflows at). `MCSchedulerLive.cfg` is an instance of them.

`SelfUpdate_proofs`. `TypeInv` is inductive by itself (`SelfUpdateTyped`).
`OneThreadEver` follows from `ThreadInv`: a thread is at work exactly if the flag
says so. `VerifiedInstallEver` assumes `Summed` (every manifest carries a
checksum): without one the code installs whatever it gets (section 6).
`OncePerHourEver` follows from `ThrottleInv`: since the last start and until the
next is allowed, the throttle passes.

`NeverStrandedEver` assumes `OneUpdater`: nobody runs `oo-agent update`, the daemon does
not die by itself, and an update is over within the throttle (without it a death may hit pip, or find what
a timeout has left of it, which no code prevents). Then `Spaced` holds - while an update
runs, what is left of the throttle and what it has worked make up at least the throttle -
so that a restart finds no other update at work; and a half replaced package is there only
while no restart is due, since the pip that schedules one has replaced it. `NeverOlderEver` assumes `Alone`
(nobody runs `oo-agent update`) and `Honest` (every tarball holds the version its manifest
says and has a checksum), and allows deaths and any durations. It follows from
`NotBehind`, what is installed is no older than the daemon and every thread compares
with the version of its daemon, and from `VerifiedInstall` and `ThreadInv`.

`Collectors_proofs`. `RatesTrueEver` follows from `Balance`: a counter stands no
higher above its sample than what moved since, and exactly as high if it never fell.
`StatusAlwaysTellsLastRun` follows from `SettledIsKnown` (the `Result` of a service
whose run has ended in this boot is that of the run, whatever the timer did since),
`IdsAlwaysUnique` from `Numbered` (every id of a pass has a number below the count of
its driver) together with `UniqueIds` itself, `UptimeAlwaysOfThisRun` from `Clocked`
(every container was inspected between the beginning of the pass and now), and
`StatsAlwaysOwn` from `Answered` (a task is at a container that was listed as running,
an answer is that of its task), which needs the set of containers to be finite.

`IdsStayStable` follows from `StableInv`. The number in an id is a count of what was read
before, so it depends on the past of the pass; `NamedAfter` says what that comes to as
long as no chip comes or goes: the id of a sensor belongs to the directory that has as
many of its driver up to itself (`Owner`), and `OneOwner` that there is one such
directory. Two calm passes read the same directories, so they agree. `VramAlwaysOwn` rests
on `WholeRow` (a row of the tool from which no value was dropped is its whole listing)
and `MatchedByBus`; it is inductive with the type of the listing.

`CronSchedule_proofs`. All three theorems are about `NextRun`, so the invariant
`CronInv` only says that what was shipped is the next run of the line and the time of
the last pass (`ShippedNextRun`); the work is in the lemmas about the search. A local
minute is a `Candidate` if the parsed fields select it. `FieldValues` and `Months` show
that the sets which `_parse_field` builds are what the parts select,
`TriggersAtCandidates` that crond triggers a line at the candidates and nowhere else
(`StarSelects`: here a star with a step would break it), `ClockTells` and `ToldByClock`
that day, hour and minute determine a local minute and are determined by it,
`SearchFinds` that the search returns the first candidate or that there is none on its
days. `SameClock`, `LocalAfter`, `EpochOf`, `EpochAhead` and `NotYetPast` go from the
local clock to time and back. `NextRunIsWhatCrondDoes`, `NextRunLiesAhead` and
`NextRunStays` put them together, for every set of lines, every length of the hour and
the day, every number of days searched and every summer time. The least candidate exists
by the well-foundedness of the natural numbers (`LeastOf`).

`Commands_proofs` begins with the start of the daemon. `HealthyRuns` follows from `HealthyInv` (a healthy module that the
loop has passed has an entry); `OnlyTheseEndIt` is an action property
(`FatalStep`); both rest on `RaisesOnAWord`: `int()` raises exactly where the value that
counts, falsy ones passed over, is a word. Of the two
commands, `EnrollAlwaysKeepsItsWord` follows from `EnrollInv` (the token in hand is
the newest one issued); `StoppedLeavesNothing` from `GoneSoFar` (what each step of
the uninstall has removed cannot come back once the daemon is stopped).

Model-checked only: liveness (`Drains`, `Reenrolls`, `KeepsCalling`, `KeepsReporting`,
`StopsWhenAsked`, `UpToDate`), since the prover does not reason about fairness and
ENABLED; the runs `delivery_live`, `scheduler_live` and `self_update_live` are about
them. Every invariant and every action property that a passing run checks is a theorem.
`RestartKeepsToken`, `WipeNeedsRejections` and `ValidTokenKept` are proved only under
the hypotheses above, which are needed: section 6 tells what breaks them without.

## 5. Not modelled

- Payload contents, gzip, HTTP headers, TLS, logging, output of the CLI.
- `DiskQueue.close` (never called by the daemon) and the count only logged.
- `push` of the queue raising an `sqlite3.Error`: nothing catches it, so it is a
  death of the daemon in `park`.
- The Windows branch of the uninstall, the installers and the dialogue with the
  service managers: straight sequences of external commands.
- The other collectors. `security` runs external commands and counts lines of what
  they print, in every pass anew; `smart`, `gpu_amd` and `sensors_lhm` are stateless
  reads of devices; `hardware`, `fs`, `tcpconn` and `system` of files and libraries; but
  for the throttle counts that `system` compares with those of the last pass they keep
  nothing and wait for nothing, so a pass of theirs is an outcome of `Collect` or
  `BackOff` in `Scheduler`.
- Of the modelled collectors: the classic crontabs and the journal, thresholds and
  labels of sensors, the other readings of NVML, counts and texts of containers, the
  units of rates.
- `core/hostinfo.py` and `core/log.py`: formatting and logging.
- The text of versions (`lifecycle.py` 120-135): a version is a number, which is what
  the comparison makes of it.

## 6. Disagreements between the code and what it says

Shown by runs that expect a violation:

- `delivery_stale_status`: `client.auth_status` is reset by a 2xx only
  (`client.py` 136-143), so one 401 followed by two 400 or 413 replies counts as
  three auth rejections and wipes the token (`cli.py` 280-282), against "Consecutive
  auth rejections (401/403/410)" (`cli.py` 19-20).
- `delivery_restart`: a restart during re-enrollment finds no token and installs
  the log-only sink (`cli.py` 220); no request is made any more, against
  `reclaim.py` 5-6.
- `scheduler_malformed`: `_merge` runs outside the try of `_run_entry`; a sensor
  without `id`, as in the README's own minimal plugin (`src/README.md` 179-180), ends
  the agent with a KeyError, against "The agent itself never dies because of one
  broken collector" (`scheduler.py` 7-8).
- `cron_stepped_star`: a day field that begins with a star counts as unrestricted
  (`cron.py` 277-278). For `0 1 */2 * 1` the code then asks for the Monday only
  (`dom_star and dow_ok`, line 290) and drops the step of the day of the month: on Friday,
  1 March 2024, it ships Monday, 4 March, although crond wants both fields to match when
  one begins with a star, and triggers the line on 11 March. That is against "Next
  trigger time (epoch, local timezone) of a 5-field cron schedule" (`cron.py` 262-263). The `parts` run has
  `PlainNextRunIsNext`, without such fields.

Met while modelling; the models have the behaviour, no run is spent on it:

- `queue.py` 73: the age cap goes by the wall-clock stamp, so after the clock was
  set back it may delete a row from the middle of the queue (the condition
  `steady` of `BoundedFifo`).
- `cli.py` 293: the daemon removes the token file whatever it holds by then, also
  the new token that `oo-agent --enroll` has just written (`CliWrites`, `Wipe`).
- `reclaim.py` 101: a token in the reply to the enroll POST is dropped
  (`PostHandsToken`), although `src/docs/PAYLOAD.md` 317 allows it.
- `client.py` 181: a batch is acked only at its end, and nothing pings the watchdog
  meanwhile: with a slow backend the same rows are pushed again after every kill
  (`WatchdogKill` with `Watchdog` smaller than a batch).
- `client.py` 70: `write_token` truncates the file before it writes, so a death in
  between loses the new token, which the backend hands out once, and the next start is
  log-only (`Die` in `store`).
- `client.py` 83: the `token` option outlives a re-enrollment (`StartToken`).
- `scheduler.py` 50: from the 1025th failure in a row on the cooldown overflows a
  float, and the OverflowError leaves the except clause (`BackOffOverflows`).
- `scheduler.py` 41: a collector that hangs on every call has the watchdog kill
  every pass; nothing is reported (`Killed`).
- `scheduler.py` 135: a pass with nothing but sensors that have no flat metric is
  not handed to the sink (`Finish` with `filled` FALSE), although line 117 says that
  every pass is.
- `scheduler.py` 88: a collector in cooldown is not in `capabilities`, although
  `src/docs/PAYLOAD.md` 53-54 lists those that initialized; one that fails in this
  very pass still is.
- `scheduler.py` 129: a plugin that raised is called again after its cooldown;
  `src/README.md` 211-212 says that it is disabled until the next restart.
- `cli.py` 242: `last_update` is in memory and a successful install restarts the
  daemon, so a tarball that does not hold the version its manifest says is installed
  after every restart, without an hour in between.
- `lifecycle.py` 178: `self_update` compares with the `__version__` of its own
  process, not with what is installed when pip runs, so of two concurrent updates
  the slower may put the older release on top.
- `lifecycle.py` 212: the timeout kills pip wherever it is. The package may be half
  replaced, or be the new one although the daemon goes on with the old one and reports
  its version; nothing repairs it but the next update, which the backend has to ask for
  and the throttle to allow. A death or a reboot meanwhile leaves an agent that cannot
  start (`Fail`, `NeverStranded` without `OneUpdater`).
- `lifecycle.py` 199: the checksum is compared only if the manifest has one.
- `cron.py` 300: in the local hour that comes twice, for the second time, the naive
  local time means the first one, and the next run is in the past (`Epoch`,
  `Repeated`).
- `cron.py` 282: the search ends after two years of days, so a line for 29 February
  has no next run for more than a year of every four (`SearchDays`).
- `cron.py` 225-240: `fri-sun` is the range 5 to 0, which is empty, and the line has no
  next run (`ParseField`).
- `cron.py` 457-470: when the call for the services fails, every timer that has
  triggered is shipped as "failed" (`ShowServices(FALSE)`); after a reboot the
  Result of a persistent timer's service is "success" although its last run may
  have failed. `src/docs/PAYLOAD.md` 303-304 speaks of real results.
- `sensors_hwmon.py` 167: `power1_average` is listed before `power1_input`, so the
  average is taken, against the comment in line 168 (`PowerSensors`).
- `sensors_hwmon.py` 258: an id holds the occurrence of the driver in the listing;
  when a chip is removed the ids of the later ones of its driver shift, although
  `src/docs/PAYLOAD.md` 132 has the id as the join key (`StableIds` is about passes
  with the same chips).
- `gpu_nvidia.py` 199: a value that is out of range is dropped before buses and values
  are paired, and a card whose bus is not known falls back to its place, so that a
  card may get the temperature of another (`OwnVram` fails, `OwnVramByBus` holds).
- `registry.py` 86: `enabled = 0` is coerced to the number 0 and does not disable; `interval =
  0` is the default (`Disabled`, `Interval`).
- `registry.py` 82, 99, 112-117, 130, 135-142: a percent sign in a section, a word for an
  interval, a module that raises SystemExit and a plugins directory that cannot be listed
  end the start, against "skipped (never fatally)" (`registry.py` 8-9); a percent sign does
  so for a disabled collector, too, against the operator who has just disabled it because
  of its section (`Fatal`).
- `lifecycle.py` 107: that `systemctl disable --now` failed is not noticed; the daemon
  goes on and creates again what is removed, while the command reports that it is gone
  (`NothingIsLeft` fails). So does a restart that an update has scheduled.
- `enroll.py` 93: a token that cannot be written is lost, and with it the old one if
  the file was truncated (`StoreFails`).
- `docker_state.py` 74, 91: the time is read before the list, so the uptime of a
  container that starts during a slow pass is below 0 (`UptimeIsOfThisRun`).
- `containers.py`, `docker_state.py`: a container that is removed while the list is
  made fails the whole pass (`Inspect`; in the client library).

## 7. Plan

Done: all modules of section 2 and the proofs of section 4.

What would add most next:

1. `CronJobs`: the names derived from crontabs and the last run taken from the journal
   (`cron.py` 60-205, 305-428).
