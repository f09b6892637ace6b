# A TLA+ verification of docknap

docknap is a reverse proxy that starts a Docker container when a request for
its subdomain arrives, shows a loading page until the container answers, and
stops (or freezes) the container again when nobody has used it for a while.
The code is one Go package (`src/*.go`, about 3300 lines without tests). This
directory holds TLA+ modules translated from that code, TLC configurations that
check them on small instances, and TLAPS proofs of the properties the start
path depends on.

- [1 The system](#1-the-system)
- [2 Modules and how they correspond to the code](#2-modules-and-how-they-correspond-to-the-code)
- [3 Runs](#3-runs)
- [4 Where code and documents disagree](#4-where-code-and-documents-disagree)
- [5 Bounds](#5-bounds)
- [6 Fairness](#6-fairness)
- [7 Proofs](#7-proofs)
- [8 What is not modelled](#8-what-is-not-modelled)
- [9 Plan](#9-plan)

## 1 The system

| Component | State | Operations | What makes it correct |
|---|---|---|---|
| Container lifecycle (`docker.go`, `timers.go`, `proxy.go`, `handlers_actions.go`, `registry.go`) | maps of `struct Docknap` under `s.mu`: `configs`, `states`, `bootStarts`, `startedAt`, `idleTimers`, `startLocks`; one `sync.Mutex` per container name | `handleProxy`, `handleWait`, `handleWake(All)`, `handleStop(All)`, `startContainer`, `waitForReady`, idle callbacks | one start at a time per container; a start goes to a stopped container; no lock is leaked; a used service is stopped in the end, an unused one with `disable_idle` never; a boot origin is stable and belongs to the current boot |
| Registry sync (`docker.go`) | the same maps; a listing taken outside the lock | `discover`, `syncContainers`, `armIdleTimer` | the registry converges to the daemon; running containers get a timer |
| Watch loop (`docker.go`, `handlers_admin.go`) | event stream, debounce, tickers, `eventsOK` | `watch`, `subscribeDockerEvents`, `watchPoll`, `handleReadyz` | one syncing goroutine; every change is listed; `/readyz` tells the truth; shutdown ends it |
| Webhook sender (`webhooks.go`) | a channel of 256, a worker, a context and a stop channel | `notify`, `run`, `send`, `shutdown` | never blocks; at most once, in order; nothing after shutdown; shutdown returns |
| Live logs (`logs.go`) | subscriber lists, `logTailer.cancels` | `handleLogs`, `start`, `stop`, `stopAll`, `run`, `publishLogLine` | one tailer per service; a client is served while it is connected and gets every line once; tailers end |
| Admin sessions, login limiter (`sessions.go`, `ratelimit.go`, `auth.go`, `cidr.go`) | token map, attempts per address | `issue`, `valid`, `revoke`, `gc`, `allow`; `requireAuth`, `requireCSRF`, `clientKey` | sliding window per client; no undue denial; logout is final; a session ends however it is used; entries are collected |
| Labels and routing (`config.go`, `subdomain.go`, `proxy.go`) | none of their own | `parseLabels`, `extractSubdomain`, head of `handleProxy` | a host reaches the container that claims its subdomain, with that container's labels |
| Metrics (`metrics.go`, `handlers_status.go`) | counters, gauges, histograms under one `RWMutex` | `Add`, `Set`, `Observe`, `writeTo`, `refreshStateGauges` | a page is a consistent picture; values on a bound are counted once |
| Event history (`registry.go`, `handlers_status.go`) | the last 100 events per service | `recordEvent(Locked)`, `handleServiceHistory` | the newest events, in order; agrees with the counters |
| Responses (`proxy.go`, `middleware.go`, `templates.go`) | a `statusRecorder` per request | `handleProxy` past the probe, `ErrorHandler`, `recoverMiddleware` | the counted status is the one sent; a partial body is not added to |
| Process (`main.go`) | root context, server | start, signal, drain, cancel, stop timers, exit | shutdown ends; nobody reads a map while another goroutine writes it |
| Logger, login page and templates, ready broadcast | | output | see section 8 |

The components interact as follows. HTTP handlers, idle-timer callbacks,
`waitForReady` goroutines and the watch goroutine run concurrently and share the
maps of `struct Docknap`; each critical section of `s.mu` is short, and every
Docker call but one (the inspect inside `syncContainers`) is made outside it. So
whatever a goroutine read before a Docker call may be stale after it. The
per-container start lock is the only lock held across Docker calls, and only
`startContainer` and the port probes of `handleProxy` and `handleWakeAll` take
it: stops, idle callbacks and the sync do not. The Docker daemon, the
applications in the containers and operators with a `docker` command line are
actors of their own. All lifecycle code reports to the webhook sender, which
must not slow it down. Shutdown cancels one root context and then stops timers,
tailers and webhooks in turn.

Hard to test, and therefore what the properties are about: orders of steps
of several requests, a stop and an idle callback on one container; state read
before a Docker call and used after it; Docker calls that report an error after
having had their effect; a timer that fires while it is being reset; containers
removed and created again while they are being started; the hand-over between
two watch goroutines; bounded channels when the reader is slow; times at the
edge of a window. `PROJECT.json` lists them line by line under `hazards`, with
the properties that cover each, or the reason why none does yet.

## 2 Modules and how they correspond to the code

| Module | Models | Role |
|---|---|---|
| `Lifecycle` | `docker.go`, `timers.go`, `proxy.go`, `handlers_actions.go`, `registry.go` | the core: all goroutines around one container |
| `MCLifecycle` | | adds the symmetry set for TLC |
| `LifecycleProofs` | | theorems about `Lifecycle` |
| `Watch` | `watch`, `subscribeDockerEvents`, `watchPoll`, `eventsOK` | when `syncContainers` runs, and who runs it |
| `WatchProofs` | | theorems about `Watch` |
| `BestEffort` | the comment on `webhookSender` ("advisory, not durable") | abstract specification |
| `Webhook` | `webhooks.go` | implements `BestEffort` |
| `WebhookProofs` | | the refinement, and order of delivery |
| `LogTail` | `logs.go` | live logs of one service |
| `LogTailProofs` | | theorems about `LogTail` |
| `AdminAuth` | `sessions.go`, `ratelimit.go`, `auth.go`, parts of `cidr.go`, `main.go` | sessions, the login limiter, what admits a request |
| `AdminAuthProofs` | | theorems about `AdminAuth` |
| `Registry` | `config.go`, `subdomain.go`, `docker.go` (`discover`, `syncContainers`), head of `handleProxy` | which container a host reaches |
| `MCRegistry` | | label sets, subdomains and hosts for TLC |
| `RegistryProofs` | | theorems about `Registry` |
| `Metrics` | `metrics.go`, `refreshStateGauges` | the registry and its scrapes |
| `Response` | `proxy.go`, `middleware.go`, `serveLoading` | extends `Metrics`: what a request answers and counts |
| `Observers` | `registry.go`, `docker.go`, `timers.go`, `handlers_status.go` | extends `Response`: composes all that counts, records and reads |
| `MCObservers` | | casts of actors and the histogram's bounds for TLC |
| `ObserversProofs` | | theorems about `Metrics`, `Response` and `Observers` |
| `Process` | `main.go` and the lock order of everything else | composes the goroutines around `s.mu`, start lock, metrics lock |
| `ProcessProofs` | | theorems about `Process` |

**Lifecycle.** A service stands for a subdomain together with the container that
carries its labels. The daemon's side is `cstate`, `port` (the application
answers) and `runAge`. The maps have the names of the fields of
`struct Docknap`; `startLocks` maps to mutex objects, and `holder` says who
holds each object, so that two mutexes for one container can exist, as they can
in the code. Every goroutine has a point `pc`, the endpoint `op` it serves, the
`*Config` it looked up (`cfg`, which it keeps when the service is unregistered
meanwhile), the mutex it refers to (`lk`) and the `startedAt` that `handleWait`
reads early and uses late (`since`). The actions, in the order of the code:

- `HandleProxy`, `HandleWakeAll`, `HandleWake`, `HandleWait`, `HandleStop`,
  `HandleStopAll`: method check, lookup of the service. For the two "all"
  endpoints, one goroutine per service is one instance of the action.
- `ProbeAcquire`, `Probe`: the port probe under the start lock;
  `ResetIdleTimer`, `Serve`: the proxied request.
- `StartAcquire`, `StartInspect`, `StartMark`, `DockerStart` or
  `DockerUnpause`, `StartFailed`: `startContainer`. The mutex is held from the
  inspect to the return. `DockerStart` has three outcomes: success, error,
  error although the daemon acted.
- `ReadySeen`, `ReadyApply`: a `waitForReady` goroutine sees the port open, then
  takes `s.mu`. They are counted, since they differ only in their service.
- `WaitCheck`, `WaitMark`, `WaitVerdict`, `WaitClear`: the rest of `handleWait`.
- `StopAllInspect`, `FireIdleTimer`, `StopTimer`, `DockerStop`, `StopClear`: the
  three ways to stop. A timer that fired stays in the map, as `Fired`, until a
  stop deletes it.
- `SyncList`, `SyncApply`, `SyncArm`, `SyncEnd`: `syncContainers`. The listing is
  a snapshot that may be stale when it is applied. `ArmName` is the container
  name in the Config that gets the timer: the freshly parsed Config is named
  only when the service is new.
- `PortOpens`, `ContainerExit`, `ExternalStart`, `Remove`, `Create`, `Tick`: the
  world outside.

Times are ages that saturate one above `StartupTimeout`; a pending timer is the
time it has left.

**Watch.** One action per case of each `select`. `debounce` is the channel
variable: unset, set, due. `LoopError` is the hand-over: it clears `eventsOK`,
starts `watchPoll` and ends. `watch` sets `eventsOK` after the goroutine has been
started, in a step of its own (`Announce`). `subscribeDockerEvents` always
returns nil, so the error branch of `watch` has no action.

**Webhook.** Events are numbered by the `notify` calls that pass the filter.
`Send` covers marshalling, the request, its error and its timeout: the event
reached the receiver or it did not. The refinement maps `pending` to the event
being sent followed by the queue, and `ended` to the return of `shutdown`.

**LogTail.** A tailer is named by the request that started it. The body of the
tailer's loop is `Check` (the test of `ctx`), `Read` (a frame is read and the slice
of subscribers copied, or an empty frame skipped), `Publish` (one channel at a
time), `Published`. `Leave` is the deferred `stop`, which runs before the deferred
`unsubscribeLogs`. The subscribers are a sequence: `Unsubscribe` deletes by index
and moves what follows up, as the code does in place, and `Targets` is what a
publisher ranges over, its copy. `offers` and `stayed` are history: how often the
line in hand was offered to each client, and who has been subscribed all the while.

**AdminAuth.** The limiter keeps the attempts of an address oldest first, as the
code does; `ClientKey` chooses the address, from the peer or, if the peer is a
trusted proxy, from the first forwarded one. `Issue`, `Valid`, `Revoke` and
`GcLocked` are the methods of the session store. A request is a record of the
kinds of its Authorization header, session cookie, csrf pair and method;
`Request` is `requireAuth` with `requireCSRF`, and the logout handler runs in a
later step (`logouts`). `passed`, `age` and `revoked` are history variables of the
properties. With authentication disabled nothing of this is in use.

**Registry.** Dotted names are sequences of labels. The daemon's list is a
sequence, newest first, because which of several claimants wins depends on the
order. `DiscoverOne` and `SyncOne` are what one turn of the loops of `discover` and
`syncContainers` does to the maps, and each turn is a step (`DiscoverTurn`,
`SyncTurn`): the loops inspect running containers as they go, so the daemon's
containers change between two turns. `discover` takes `s.mu` in each turn;
`syncContainers` holds it from `SyncDrops` to `SyncEnds`, and nobody sees the routes
in between, when a rival may have them for a moment. `KnownMaps` is the map keyed by container name, one for every
order in which Go may iterate over `s.configs`; `Dropped` deletes what the
listing lacks. `reused` remembers names that another container took before
docknap noticed: the code cannot tell such a container from the former one.
Timers, locks and times, which the same code touches, are in `Lifecycle`.

**Metrics, Response, Observers.** `Metrics` has a series set for the counters, the
states whose gauge is 1, one histogram, and scrapes that hold the read lock
over several steps. `Response` follows one request from the port check to
`net/http`'s completion: `rec` is the `statusRecorder`, `sent` and `body` what the
client got. `ReverseProxy` and `net/http` are external. `Observers` adds the calls
`startContainer`, `waitForReady`, the idle callbacks, the stops and the sync make,
each call one step, and the history page. `log` is the history of all events.
The decisions of these goroutines are in `Lifecycle`; here any order is possible,
which is more than the code can do and so safe for the invariants checked. The
events "stopped" and "paused" are one there, `stopped`: the same counter follows both.

**Process.** `main` from `discover` to exit, the sync with `s.mu` held across its
inspect (`SyncApply` to `SyncInspected`), requests that probe and start with the
start lock held across Docker calls and across short sections of `s.mu` and of the
metrics lock, an idle callback, a scrape. `hung` says that the daemon does not
answer; calls under the root context end with it, calls of a request when the
client leaves. A request's read of `s.configs` has a point of its own (`Lookup`,
`LookedUp`), with `readers` for the read half of `s.mu`, so that a reader and the
writer could meet; `MapRace` is what the Go run time does if they do, and the
unlocked loop of `main` does meet the first sync. A scrape holds the metrics lock
until its page is written.

## 3 Runs

| Run | Checks | Distinct states |
|---|---|---|
| `lifecycle_starts` | `TypeOK`, `SingleFlight`, `FlightInv`, `StartTargetsStopped`, `BootOriginStable`: two requests among `/wait` and `/stop_all`, an idle callback, exits, the sync, failing Docker calls | 2.7 million |
| `lifecycle_idle` | `StartTakesEffect`, `IdleServiceStops`, `RequestsComplete` (liveness): two requests among proxying and `/stop`, pause strategy | 45 thousand |
| `lifecycle_registry` | `DisabledNeverIdleStopped`, `RegistryConverges`, `RequestsComplete` (the last two liveness): removal, creation and external starts, failing Docker calls, pause strategy, `disable_idle` | 80 thousand |
| `watch_loops` | `OneSyncer`, `EventuallySynced`, `ShutdownStops` (the last two liveness): stream errors and closes, failing listings | 3 thousand |
| `webhook_queue` | `ImplementsBestEffort` (refinement), `ShutdownEnds` (liveness) | small |
| `logtail_streams` | `OneTailer`, `LineOfferedOnce`, `ServedUntilSomeoneLeaves`, `TailersEnd` (liveness) | 8 thousand |
| `auth_sessions` | `SlidingWindow`, `NoUndueDenial`, `LogoutIsFinal`, `SessionActs`, `SessionsCollected` | 630 thousand |
| `registry_routes` | `LabelsFollow`, `DiscoverFollows`, `Converges` (liveness) | 328 thousand |
| `observers` | `LedgersAgree`, `HistoryIsTail`, `HistoryExplained`, `PageExact`, `PageOrdered`, `StatusCounted` | 775 thousand |
| `process_shutdown` | `LookupsNeverRace`, `ShutdownCompletes`, `RequestsReturn` (the last two liveness) | 71 thousand (two minutes) |

What they show:

- The start lock does what it is for. Past the inspect there is one goroutine
  per container, so what the inspect saw is still true at the Docker call,
  although stops and idle callbacks ignore the lock: a stop cannot un-stop a
  stopped container, and a freeze is not reached from a container that is frozen.
- No path through `startContainer` leaks the lock, and no request waits for
  ever.
- A start request on a frozen container unfreezes it, and a service that was
  proxied to and then left alone is stopped, whatever met its timer.
- The registry follows the daemon, with one synchronising goroutine at any time;
  the ticker beside the event stream is what makes this true when the debounce
  is pushed back by every message. With several claimants of a subdomain the
  last one listed has the route, at start-up and ever after; a sync that forgets
  only one of two subdomains of a vanished container is repaired by the next.
- Webhooks are delivered at most once and in order and none is sent after
  `shutdown` has returned.
- A log stream is cut off by a client that leaves, by the end of the log or by
  shutdown, never by an arrival or by the second half of a departure. While a line
  goes out, clients that leave change the slice under the publisher; whoever
  stays is offered the line exactly once, because the publisher has its own copy.
- The login limiter is a true sliding window for each client, and a peer that is
  no trusted proxy cannot change the client it counts as. A session that was
  logged out does not come back, and one that is used all the time still ends a
  TTL after its login. An entry of the session map lives at most two TTLs and
  one collector period.
- Counters, histogram and event history agree up to the goroutines between two
  calls (the idle counter counts timeouts that fired: section 4). A page printed while others count is exact for some moment, because
  `writeTo` holds the lock; the history page, which reads its two halves at
  different times, reads them in the order that keeps them consistent.
- Shutdown ends although the sync may hold `s.mu` in a call to a silent daemon,
  because `rootCancel` comes before `stopAllIdleTimers`. The three locks are always
  taken in an order that has no circle. A request's lookup never meets the sync
  in the middle of its writes, because both keep to `s.mu`.

Each property of a passing run has a mutant in `PROJECT.json`: a changed version
of one action (defined just before it and marked "Mutant") with which TLC finds
the property violated.

`webhook_queue`, `process_shutdown` and the finding configurations of `MCObservers`
and `Process` do not check for deadlock: after shutdown, or once all requests are
answered or the actors of a cast are through, the system has rightly stopped.
The `TypeOK` of the other modules is proved (section 7).

## 4 Where code and documents disagree

Two runs expect a violation. Each states what a document of the repository says
and TLC shows an execution of the code that does otherwise.

- `finding_untimed` (`RunningGetsTimer`, `docker.go:197`): a container that was
  registered while stopped and is then woken gets no idle timer from the watch
  loop, which arms one under the name "" instead (`CHANGELOG.md:105`).
- `finding_partial` (`PartialAborted`, `middleware.go:23`): an upstream that
  disconnects in the body makes `ReverseProxy` panic to abort the connection;
  `recoverMiddleware` recovers that panic too, appends its text to the partial body
  and the response is completed (`CHANGELOG.md:70`).

The following are not among the runs of `PROJECT.json`. Each is a statement of a
document too, written down beside the properties of its module, and the
configuration named here, on an instance cut down to the actors that matter, makes
TLC print the execution in a few seconds
(`tlc -config FindingReadyz.cfg Watch`, for example).

| Property | Configuration, module | Place | What TLC shows |
|---|---|---|---|
| `SingleFlight` | `FindingDoubleStart.cfg`, `MCLifecycle` | `docker.go:166` | a container removed while it is being started loses its start lock; created again, it is started twice at once (`CHANGELOG.md:126`, "Container-start singleflight") |
| `ReadyzTells` | `FindingReadyz.cfg`, `Watch` | `docker.go:62` | a stream error handled (`LoopError`) before `watch` announces success (`Announce`) leaves `eventsOK` true, and `/readyz` at 200, while polling (`README.md:199`, "503 when polling fallback is in use") |
| `LabelsPickedUp` | `FindingLabels.cfg`, `MCRegistry` | `docker.go:180` | a container replaced under its name between two listings keeps its old Config (`CHANGELOG.md:39`, "Label changes on running containers are picked up immediately"); `LabelsFollow` excepts this case |
| `OneActiveState` | `FindingGauge.cfg`, `MCObservers` | `handlers_status.go:22` | the series of a former state keeps its 1 (`README.md:304`, `registry.go:91`, "1 for active state") |
| `IdleTimeoutStopped` | `FindingIdle.cfg`, `MCObservers` | `timers.go:20` | an idle timeout is counted before the stop, and also when the stop fails (`README.md:301`, `registry.go:83`, "Idle timeouts that stopped a container"); the timer named "" of `finding_untimed` does so every time it fires |
| `FinalStatusCounted` | `FindingInterim.cfg`, `MCObservers` | `proxy.go:22` | a request with an interim (1xx) answer is counted under the interim status (`README.md:297`, "Proxied requests by HTTP status") |
| `WatchExitsFirst` | `FindingWatchExit.cfg`, `Process` | `main.go:152` | `main` stops the timers while the watch goroutine is still in `syncContainers` (`CHANGELOG.md:71`, "exits before timers are stopped"); a timer armed after that stops no container, since `stopCtx` comes from the cancelled context (`timers.go:68`) |

The passing runs say what holds all the same. `StatusCounted` excepts requests with
an interim answer, which may be counted under either code, so that it holds
before and after a correction. `LedgersAgree` compares the idle counter with the
`idle_stop` events, not with stops.

Met while modelling and visible in the modules, without a configuration of their own:

- `main.go:114`: the loop that logs the registered services runs without `s.mu`
  while the watch goroutine may already write the map (`MapRace`). No document
  says otherwise.
- `timers.go:62`: an idle callback that has already begun stops the container right
  after a request that reset the timer, and deletes that timer.
- `registry.go:130`: the boot origin of a boot that was stopped before its port
  opened makes the next `/wait` answer `timed_out` at once.
- `docker.go:350`: a `waitForReady` goroutine of an earlier start deletes the boot
  origin of a newer one.
- `logs.go:172`: the first client to leave a log stream silences the others, as the
  first disjunct of `ServedUntilSomeoneLeaves` says.
- `handlers_admin.go:18`: `eventsOK` is true before the first sync pass, unlike the
  comment.
- `proxy.go:22`: after an interim answer `ErrorHandler` returns without an answer
  and the client gets an empty 200 where the log speaks of aborting the connection.
- `subdomain.go:22`: with `DOCKNAP_TLD_COUNT=2` `myapp.staging.internal` gives `myapp`,
  as `README.md:74` says; `README.md:161` and `CHANGELOG.md:44` say `myapp.staging`.
- `auth.go:154`: successful logins count against the limit, as `README.md:229` says
  ("Login POSTs are rate-limited"), while `CHANGELOG.md:56` speaks of failed POSTs.
- `registry.go:194`, `registry.go:207`: the cached address and the ready broadcast of
  `CHANGELOG.md` have no reader and no subscriber.

## 5 Bounds

- One service. Services share no lock but `s.mu`, no timer and no map entry,
  except the entry "" of `idleTimers`, which one service reaches as well.
- Two requests and one idle callback. The properties about starts are about
  pairs of goroutines; the callback is the third party that ignores the lock.
  The proofs remove this bound for the safety properties.
- One request in `lifecycle_registry`: with two, the liveness check of removals
  and failures together does not finish; contention for the lock is in the other
  two runs.
- `Locks` has as many mutex objects as goroutines can refer to at once plus the
  one in the map, where removal can make a fresh one necessary; without removal
  one object per service is ever allocated, and `lifecycle_idle` has just that one.
- `MaxWaiters` bounds the `waitForReady` goroutines of a service by admitting a
  client only while its start stays within it; it is as large as the number of
  requests, so that all can start at once.
- `StartupTimeout = 0` and `IdleTimeout = 0` in most runs: ages are then "just
  now" and "longer than the timeout", an armed timer may fire at any moment, and
  nothing depends on how long a timeout is. The runs about elapsed time use 1
  and 2 so that "within" and "beyond" both occur in several steps.
- `Watching = FALSE` and `DockerFails = FALSE` leave the sync and the errors out of
  `lifecycle_idle`, which would otherwise take too long; with errors
  `StartTakesEffect` could not hold. The other two runs have both. `Ops` and `EnvSteps` choose the endpoints and the outside
  events of a run; between them the runs take every action.
- `Watch`: two undelivered messages. `Webhook`: a queue of two (256 in the code)
  and five events, so that it fills, drops, drains and fills again. `LogTail`: two
  clients and channels of one line: one can leave while the other's tailer, or
  its own, is in the middle of a line. The proof of `LineOfferedOnce` is for any
  number.
- `AdminAuth`: a client and a trusted proxy that can also name that client, two
  tokens (interchangeable), a limit of two in a window of two, a TTL of two and a
  collector period of one: every age below, at and above each limit occurs. One
  login in progress per peer.
- `Registry`: two container names, two subdomains of one and two labels, four label
  sets (two rivals for one subdomain that differ in their settings, one for the
  other, one that does not register), two zones, an admin host that hides one
  subdomain, and `MaxChanges` = 6 steps of the owner: enough to create two rivals,
  rename, remove and create again between two listings.
- `Observers`: `Casts` lists the sets of actors of one behaviour, four of them, each
  the actors whose calls can meet; two starters, one stopper, two scrapes, two
  requests with one interim answer each; a history of three events (100 in the
  code) out of five recorded, so that it overflows; durations on and between the
  bounds of the buckets.
- `Process`: one container, two requests, one idle callback and one scrape at a
  time. A circle of waiting needs one holder per lock; the second request is the
  one that waits for the first. A lookup's two steps are the only critical section
  of `s.mu` that is split, besides the sync's; the others call nothing.

## 6 Fairness

Weak fairness of every goroutine's steps: the Go scheduler runs what is
runnable, and every Docker call and probe has a context or a timeout. Strong
fairness of the two steps that take the start lock: a `sync.Mutex` in starvation
mode hands itself to the longest waiter. Strong fairness of an idle timer's
firing: the run time starts a goroutine for it, while the model has few. Strong
fairness of the cases of a `select` that are ready again and again: `select`
chooses at random. Strong fairness of a successful sync in `Watch`: a daemon that is
asked every ten seconds answers with a listing at some time. Tickers tick and time
passes. Nothing is assumed of clients, of
containers (a port need never open), of the debounce timer, which each message
replaces, or of the receiver of webhooks beyond the three-second timeout of the
client. A log stream whose context is cancelled reports an error. In `Process` the
steps of `main`, the sync, the callback and the requests are strongly fair, for the
same reason as the start lock: the mutexes they wait for become free again and
again. A request's Docker call is only assumed to end while the daemon answers, and
`RequestsReturn` assumes that it answers again and again; `ShutdownCompletes` assumes
nothing of the daemon. A waiting writer of `s.mu` gets it although readers come and
go: Go's `RWMutex` lets it pass before later readers. A scrape ends, weakly fair,
because its client reads or the server's write timeout cuts it off. This holds for
the default of 60 s; with `DOCKNAP_WRITE_TIMEOUT=0` (`README.md:72`, `CHANGELOG.md:38`)
a client that stops reading keeps the metrics lock, and `RequestsReturn` is not
granted. In `Registry` the steps of the syncing goroutine are weakly fair:
`EventuallySynced` of `Watch` is the reason.

## 7 Proofs

`tlapm` checks the eight `...Proofs` modules completely. Every safety property of
the passing runs, invariant or action property, and the refinement are theorems:
they hold for every number of services, goroutines, clients, requests, containers
and events, and for all timeouts, limits, windows, capacities and buckets. Most
properties are not inductive as they stand; what follows names the invariant that
is, and why it is needed.

**LifecycleProofs.**

- `TypeCorrect`: `Spec => []TypeOK`. One lemma per group of actions. `TypeOK`
  includes that a goroutine that dereferences its mutex or its Config has one,
  which makes it inductive. Assumes `SetsAssumption` and `BoundsAssumption` only.
- `StartLocksSound`: if no container is removed, `Spec => []FlightInv`. This is the
  inductive strengthening of `SingleFlight`, which says nothing about locks: a
  goroutine past the inspect holds its mutex, its mutex is the one in the map,
  and the map entry cannot change, since only a vanished container's entry is
  deleted and none vanishes, neither at the daemon nor in a listing still to be
  applied. The assumption is needed: `docker.go:166` deletes the lock of a
  container that vanishes (section 4).
- `SingleFlightHolds`: two goroutines past the inspect for one container hold the
  same mutex, which has one holder.
- `StartsTargetStopped`: if no container is removed or started by others, from
  `FlightInv` and `StartTargetsStopped` together: only the goroutine itself could
  have started the container in between. An operator's `docker start` would break
  it, which Docker answers with a no-op.
- `BootOriginStays`: every action but `Tick` keeps or deletes a recorded origin, and
  `Tick` makes it older. `DisabledHolds`: `DisabledInv` adds that the sync has no such
  service among those it is about to arm.

**WatchProofs.** `WatchTypeCorrect` and `OneSyncerHolds`, for every bound on messages
and every set of stream faults. `HandOver`, the inductive invariant, says that the
polling goroutine exists only after the event goroutine has ended.

**WebhookProofs.** `WebhookRefines`: `Notify` is an `Offer`, `Send` a `Settle`,
`ShutdownWait` the `End`; taking an event from the channel changes nothing that is
pending, which is a fact about sequences (`HeadFront`). `SendingInv` (the worker holds
an event exactly while it posts, `main` ends after the worker) is why nothing is
settled after the end. `DeliveredInOrder`: `OrderInv` says that what was posted, what
is in the worker's hand and what waits have rising numbers in this order.

**LogTailProofs.** `OneTailerHolds`; `LineOfferedOnceHolds` from two invariants:
`ListInv` (no channel is twice in the slice and none is of a client that has
unsubscribed, and deleting by index keeps that: `DeleteAtFacts`) and `CopyInv` (the entries of a publisher's
copy are distinct, everybody who has stayed is among them, and the entries before
the loop's position, and only those, have been offered the line, once:
`OfferFacts`); `ServedUntilSomeoneLeavesHolds` from `Fresh`: the map never points to the tailer of a
client that is not streaming, and the context of a client that has not started its
tailer is not cancelled, so a tailer that replaces another one is live.

**ProcessProofs.** `LocksOrdered` proves `LockOrder`, the reason why the liveness runs
find no deadlock: `s.mu` is held between two steps only by a sync that waits for the
daemon, and the holder of the start lock is past every point at which it is waited
for. `LookupsNeverRaceHolds` needs `ReadersInv` besides: a request at its lookup is
among the readers, and while there are readers the sync has not locked `s.mu`. With the
part of `LockOrder` that says that a sync in the middle of its writes has `s.mu`
locked, reader and writer exclude each other.

**AdminAuthProofs.** `SessionInv` says of every token in the map that it was issued,
is not logged out, is as old as its login, was last used before its TTL ran out,
and was used since the collector would have dropped it. The last part relates the
last use to the collector's timer and gives `SessionsCollectedHolds`: the collector
looks at the last use, which every accepted request renews. `LimiterInv` relates
the code's list, oldest first and with attempts that have expired since, to the
history of attempts let through, newest first: the end of the first is the reverse
of the second. `SlidingWindowHolds` and `NoUndueDenialHolds` follow, for all limits
and windows.

**ObserversProofs.** `ObserversInv` is the conjunction of five parts, each for a
ledger that the properties compare:

- `RegistryInv`: the histogram is the exact summary of all durations observed, and
  every scrape's page agrees with the registry from the moment the scrape takes
  the read lock; a printed page summarises a prefix of the durations.
- `ResponseInv`, `StatusLedger`: once an answer is out the recorder holds its code,
  or the interim one; the counters count the requests that have passed their
  deferred call.
- `LedgerInv`: `LedgersAgree` for the full history, plus what `PageOrdered` needs:
  starts observed or still under way are at most the starts counted. The event
  history is the tail of all events.
- `HistoryInv`: the ready events a history page has copied are covered by the
  histogram, which only grows.

Counting is by cardinality of finite sets, so that one goroutine's step changes a
count by one (`MoveCounts`, `AppendCounts`, `FitNext`).

**RegistryProofs.** `RoutesInv`: container names are distinct; a listed container has
the labels of the one that bears its name now, if the name was not taken again;
Configs likewise (`LabelsFollow`); and after `turn` turns of a loop every subdomain
claimed so far is with the last claimant. `DiscoverFollowsHolds` and
`SyncFollowsHolds` are the loop invariants at the end of the loops; the second speaks
of hosts, through `HostSplits`: what `extractSubdomain` cuts off is what was put behind
the subdomain, for every `DOCKNAP_TLD_COUNT`.

Assumptions on constants are named in the modules that declare them and evaluated
by the runs. Those that are more than types: the sets of goroutines, requests and
subdomains that are counted are finite, as they are in a process; the names of the
counters of starts, idle stops and stops are not status codes (they are different
metrics in the code); a placeholder (`None`, `Absent`, `Nobody`) is no real value;
TTL, window, limit and capacities are positive, as their defaults are.

Only model-checked: the liveness properties `RequestsComplete`, `StartTakesEffect`,
`IdleServiceStops`, `RegistryConverges`, `EventuallySynced`, `ShutdownStops`,
`ShutdownEnds`, `TailersEnd`, `Converges`, `ShutdownCompletes` and `RequestsReturn`, since
fairness and ENABLED are out of the prover's reach.

## 8 What is not modelled

- The logger, `/version`, `/healthz`, pprof: formatting and output. `/status` and
  `/config` copy the maps in one critical section and print them.
- `ipCache` is written and never read; `subscribeReady` has no caller, so
  `broadcastReady` has nobody to tell; `updateState`, `setStateIP`, `cachedIP` and
  `serviceStateCopy` are called by tests only.
- `safeRedirect`, `requestIsHTTPS`, CIDR parsing, `bootJSON`, label keys and the text
  format of the metrics: functions of strings that are right or wrong one string at
  a time, which the repository's table tests cover better than a model could.
- The counters of failed starts and failed logins, and `ProxyDur`, which is fed
  like `StartDur`.
- HTTP upgrades through `statusRecorder.Hijack`.
- The semaphore of eight in the "all" endpoints: it delays goroutines, which
  interleaving already covers.
- `ContainerStop` takes effect in one step; a container that is shutting down is
  either still running or stopped.
- Reading the environment; HTML templates beyond the status they are sent with.

## 9 Plan

Done: `Lifecycle`, its runs and first theorems; `Watch` with proofs; `Webhook` with
`BestEffort`; `LogTail`; `AdminAuth` with request admission; `Registry`; `Metrics`,
`Response` and `Observers`; `Process`.

Proved: all safety properties of the passing runs and the refinement (section 7).

Next:

1. The safety halves of the liveness properties, as far as they add something: for
   `RequestsComplete`, that in `Lifecycle` with removals every held mutex has a holder
   that will release it; for `RegistryConverges`, what one sync does to a service
   whose container is gone (the counterpart of `SyncFollows`).
2. The hazards without a property: the boot origin that an aborted boot leaves
   (`registry.go:130`) or a late `waitForReady` deletes (`docker.go:350`), as statements
   of the exact circumstances in which each is wrong.
3. `Process` with more than one scrape and with the write timeout as a constant, so
   that what depends on it is a choice of a run.
