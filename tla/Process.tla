------------------------------ MODULE Process ------------------------------
(***************************************************************************)
(* The whole process: main's start-up and shutdown (main.go) against the   *)
(* goroutines it shares locks with.  s.mu is held by syncContainers across *)
(* a Docker call (docker.go:191), a container's start lock by startContainer*)
(* across several, the metrics lock by a scrape across writes to its       *)
(* client; the daemon may stop answering and answer again.                 *)
(*                                                                         *)
(* What the goroutines compute is in Lifecycle, Registry, Observers; here  *)
(* one container and only what makes them wait.  A critical section that   *)
(* calls nothing is one step, but for a request's read of s.configs, which *)
(* has two: what could meet a writer of the map is at "lookup".            *)
(***************************************************************************)
EXTENDS Naturals, FiniteSets

CONSTANTS
  Requests,  \* requests being served
  Nobody     \* a lock that is free

ASSUME ProcessAssumption == Nobody \notin Requests \cup {"sync"}

VARIABLES
  main,      \* main: "discover", "announce", "serving", "draining", "timers",
             \* "notifier", and at the end "done", "fatal", "crashed"
  cancelled, \* rootCtx is done
  hung,      \* the daemon does not answer
  mu,        \* who has s.mu locked between two steps
  readers,   \* ... and who has it read-locked
  startLock, \* holder of the container's start lock
  sync,      \* the watch goroutine: "none", "idle", "apply", "inspect", "arm"
  req,       \* where each request is: "none", the points of ReqPoints
  timer,     \* the idle timer is armed
  idle,      \* the idle callback: "none", "count", "delete", "call"
             \* (bound: one at a time)
  scrape     \* a metrics scrape: "none", "print"

goroutines == <<mu, readers, startLock, sync, req, timer, idle, scrape>>
vars == <<main, cancelled, hung, goroutines>>

LockedPoints == {"probe", "inspect", "count", "mark", "start", "failed"}
ReqPoints == LockedPoints \cup {"lookup", "probe_acquire", "probe_lock", "acquire", "lock", "reset", "end"}

Init ==
  /\ main = "discover"
  /\ cancelled = FALSE
  /\ hung \in BOOLEAN
  /\ mu = Nobody /\ readers = {} /\ startLock = Nobody
  /\ sync = "none"
  /\ req = [r \in Requests |-> "none"]
  /\ timer = FALSE /\ idle = "none"
  /\ scrape = "none"

Alive == main \notin {"done", "fatal", "crashed"}
MuReadable == Alive /\ mu = Nobody
MuFree == MuReadable /\ readers = {}
MetricsFree == Alive /\ scrape = "none"
-----------------------------------------------------------------------------
(* main *)

MainTo(from, to) == main = from /\ main' = to

\* The process ends, and every goroutine and lock with it.
Exit(from, to) ==
  /\ MainTo(from, to)
  /\ mu' = Nobody /\ readers' = {} /\ startLock' = Nobody /\ sync' = "none" /\ timer' = FALSE
  /\ req' = [r \in Requests |-> "none"] /\ idle' = "none" /\ scrape' = "none"
  /\ UNCHANGED <<cancelled, hung>>

\* discover: it arms the timer of a running container; an error is fatal.
Discover ==
  /\ ~hung
  /\ MainTo("discover", "announce")
  /\ sync' = "idle"
  /\ timer' \in BOOLEAN
  /\ UNCHANGED <<cancelled, hung, mu, readers, startLock, req, idle, scrape>>

DiscoverFails == Exit("discover", "fatal")

\* The loop over s.configs, without s.mu, that logs what was registered.
Announced == MainTo("announce", "serving") /\ UNCHANGED <<cancelled, hung, goroutines>>

\* s.configs is written by the sync while main's loop or a request reads it:
\* the runtime may end the process.
MapRace ==
  /\ sync = "inspect"
  /\ main = "announce" \/ \E r \in Requests : req[r] = "lookup"
  /\ Exit(main, "crashed")

ServerFails == Exit("serving", "fatal")

Signal == MainTo("serving", "draining") /\ UNCHANGED <<cancelled, hung, goroutines>>

\* Mutant: the timers are stopped before the root context is cancelled.
RootCancelLate ==
  /\ MuFree
  /\ MainTo("draining", "timers")
  /\ timer' = FALSE
  /\ UNCHANGED <<cancelled, hung, mu, readers, startLock, sync, req, idle, scrape>>

\* srv.Shutdown returns, because the requests have or after ten seconds, and
\* the root context is cancelled.
RootCancel ==
  /\ MainTo("draining", "timers")
  /\ cancelled' = TRUE
  /\ UNCHANGED <<hung, goroutines>>

StopAllIdleTimers ==
  /\ MuFree
  /\ MainTo("timers", "notifier")
  /\ timer' = FALSE
  /\ UNCHANGED <<cancelled, hung, mu, readers, startLock, sync, req, idle, scrape>>

\* globalLogTailer.stopAll (LogTail: StopAll) and notifier.shutdown (Webhook:
\* ShutdownEnds), then main returns.
Shutdown == Exit("notifier", "done")

Main == Discover \/ Announced \/ RootCancel \/ StopAllIdleTimers \/ Shutdown

\* External: the daemon stops answering, and answers again.
Daemon == Alive /\ hung' = ~hung /\ UNCHANGED <<main, cancelled, goroutines>>
-----------------------------------------------------------------------------
(* The watch goroutine and syncContainers; its calls use rootCtx *)

SyncTo(from, to) == Alive /\ sync = from /\ sync' = to
SyncRest == <<main, cancelled, hung, readers, startLock, req, idle, scrape>>

\* Its ticker or a debounced event, and a listing; nothing after the
\* cancellation.
SyncListed == /\ ~hung /\ ~cancelled /\ SyncTo("idle", "apply")
              /\ UNCHANGED <<mu, timer, SyncRest>>

\* s.mu is taken, the maps are written; the inspect is under way.
SyncApply == /\ MuFree /\ SyncTo("apply", "inspect") /\ mu' = "sync"
             /\ UNCHANGED <<timer, SyncRest>>

SyncInspected == /\ ~hung \/ cancelled
                 /\ SyncTo("inspect", "arm") /\ mu' = Nobody
                 /\ UNCHANGED <<timer, SyncRest>>

\* armIdleTimer of a running container; nothing asks for the context here.
SyncArm == /\ MuFree /\ SyncTo("arm", "idle") /\ timer' \in {timer, TRUE}
           /\ UNCHANGED <<mu, SyncRest>>

Sync == SyncListed \/ SyncApply \/ SyncInspected \/ SyncArm
-----------------------------------------------------------------------------
(* A request: the port probe and resetIdleTimer of handleProxy, and        *)
(* startContainer, which handleWake calls as well                          *)

ReqTo(r, from, to) == Alive /\ req[r] = from /\ req' = [req EXCEPT ![r] = to]
ReqRest == <<main, cancelled, hung, mu, sync, idle, scrape>>

\* Mutant: the map is read without s.mu.
LookupUnlocked(r) ==
  /\ main = "serving" /\ ReqTo(r, "none", "lookup")
  /\ UNCHANGED <<readers, startLock, timer, ReqRest>>

\* A request has come, proxied or to wake, and reads s.configs under RLock.
Lookup(r) ==
  /\ main = "serving" /\ MuReadable
  /\ ReqTo(r, "none", "lookup")
  /\ readers' = readers \cup {r}
  /\ UNCHANGED <<startLock, timer, ReqRest>>

\* RUnlock: the service is known, or the request is answered with 404.
LookedUp(r) ==
  /\ \E to \in {"probe_acquire", "acquire", "none"} : ReqTo(r, "lookup", to)
  /\ readers' = readers \ {r}
  /\ UNCHANGED <<startLock, timer, ReqRest>>

\* What follows the lock in handleProxy and in startContainer.
Calls == {<<"probe_acquire", "probe_lock", "probe">>, <<"acquire", "lock", "inspect">>}

\* Mutant: the start lock is waited for inside the critical section of s.mu.
AcquireNested(r) ==
  /\ \E c \in Calls :
       \/ MuFree /\ ReqTo(r, c[1], c[2]) /\ mu' = r /\ UNCHANGED startLock
       \/ /\ startLock = Nobody /\ ReqTo(r, c[2], c[3])
          /\ mu' = Nobody /\ startLock' = r
  /\ UNCHANGED <<timer, main, cancelled, hung, readers, sync, idle, scrape>>

\* acquireStartLock under s.mu, then lock.Lock().
Acquire(r) ==
  /\ \E c \in Calls :
       \/ MuFree /\ ReqTo(r, c[1], c[2]) /\ UNCHANGED startLock
       \/ startLock = Nobody /\ ReqTo(r, c[2], c[3]) /\ startLock' = r
  /\ UNCHANGED <<readers, timer, ReqRest>>

\* checkPort: the port is open, or closed, or the client has left.
Probed(r) ==
  /\ (~hung /\ ReqTo(r, "probe", "reset")) \/ ReqTo(r, "probe", "acquire")
  /\ startLock' = Nobody
  /\ UNCHANGED <<readers, timer, ReqRest>>

\* The inspect: the container is to be started, or it runs, or the call has
\* failed, perhaps because the client has left or five seconds have passed.
Inspected(r) ==
  /\ \/ ~hung /\ ReqTo(r, "inspect", "count") /\ UNCHANGED startLock
     \/ ReqTo(r, "inspect", "end") /\ startLock' = Nobody
  /\ UNCHANGED <<readers, timer, ReqRest>>

\* m.Starts.Add waits for a scrape.
CountStart(r) == /\ MetricsFree /\ ReqTo(r, "count", "mark")
                 /\ UNCHANGED <<readers, startLock, timer, ReqRest>>

\* recordEvent and markBootStart
Mark(r) == /\ MuFree /\ ReqTo(r, "mark", "start")
           /\ UNCHANGED <<readers, startLock, timer, ReqRest>>

\* ContainerStart has answered and the lock is released, or it has failed.
Started(r) == /\ \/ ~hung /\ ReqTo(r, "start", "end") /\ startLock' = Nobody
                 \/ ReqTo(r, "start", "failed") /\ UNCHANGED startLock
              /\ UNCHANGED <<readers, timer, ReqRest>>

\* clearBootStart and recordEvent, still under the start lock.
StartFailed(r) == /\ MuFree /\ ReqTo(r, "failed", "end") /\ startLock' = Nobody
                  /\ UNCHANGED <<readers, timer, ReqRest>>

ResetIdleTimer(r) == /\ MuFree /\ ReqTo(r, "reset", "end") /\ timer' = TRUE
                     /\ UNCHANGED <<readers, startLock, ReqRest>>

\* The deferred m.Proxy.Add of handleProxy; handleWake has nothing to count and
\* here merely returns later.
CountProxy(r) == /\ MetricsFree /\ ReqTo(r, "end", "none")
                 /\ UNCHANGED <<readers, startLock, timer, ReqRest>>

Request(r) == \/ LookedUp(r) \/ Acquire(r) \/ Probed(r) \/ Inspected(r) \/ CountStart(r) \/ Mark(r)
              \/ Started(r) \/ StartFailed(r) \/ ResetIdleTimer(r) \/ CountProxy(r)
-----------------------------------------------------------------------------
(* The idle timer and its callback *)

IdleTo(from, to) == Alive /\ idle = from /\ idle' = to
IdleRest == <<main, cancelled, hung, mu, readers, startLock, sync, req, scrape>>

Fire == timer /\ IdleTo("none", "count") /\ timer' = FALSE /\ UNCHANGED IdleRest

CountIdle == MetricsFree /\ IdleTo("count", "delete") /\ UNCHANGED <<timer, IdleRest>>

\* recordEvent, and stopContainerWithReason's first section.
DeleteTimer == /\ MuFree /\ IdleTo("delete", "call") /\ timer' = FALSE
               /\ UNCHANGED IdleRest

\* ContainerStop or ContainerPause has returned, because the daemon has
\* answered, stopCtx, which comes from rootCtx, has ended or its 35 seconds are
\* over; the outcome is recorded and counted.
RecordStop == MuFree /\ MetricsFree /\ IdleTo("call", "none") /\ UNCHANGED <<timer, IdleRest>>

Idle == CountIdle \/ DeleteTimer \/ RecordStop
-----------------------------------------------------------------------------
(* A scrape: s.mu for the states, then the metrics lock until the page is   *)
(* written or the server's write timeout, which DOCKNAP_WRITE_TIMEOUT=0     *)
(* switches off, ends it                                                    *)

ScrapeTo(from, to) ==
  /\ Alive /\ scrape = from /\ scrape' = to
  /\ UNCHANGED <<main, cancelled, hung, mu, readers, startLock, sync, req, timer, idle>>

ScrapeBegins == main = "serving" /\ MuReadable /\ ScrapeTo("none", "print")
ScrapeEnds == ScrapeTo("print", "none")
-----------------------------------------------------------------------------
\* What comes from outside: clients, timers, signals, failures.
Environment == \/ DiscoverFails \/ ServerFails \/ Signal \/ MapRace \/ Daemon \/ Fire
               \/ ScrapeBegins \/ \E r \in Requests : Lookup(r)

Next == Main \/ Sync \/ Idle \/ ScrapeEnds \/ (\E r \in Requests : Request(r)) \/ Environment

Spec == Init /\ [][Next]_vars

\* Goroutines run; a mutex that becomes free again and again is obtained (Go
\* hands a contended one over); a daemon that answers again and again answers
\* every call.  A scrape ends: the client reads or the write timeout (60 s by
\* default) cuts it off; with DOCKNAP_WRITE_TIMEOUT=0 the code does not grant
\* this.  Clients need not come or leave, nor signals.
Fairness ==
  /\ SF_vars(Main) /\ SF_vars(Sync) /\ SF_vars(Idle) /\ WF_vars(ScrapeEnds)
  /\ \A r \in Requests : SF_vars(Request(r) /\ (req[r] \in {"probe", "inspect", "start"} => ~hung))

FairSpec == Spec /\ Fairness
-----------------------------------------------------------------------------
\* TypeOK: every variable has its type; the start lock is held by exactly the
\* request that is between its Lock and its Unlock.
TypeOK ==
  /\ main \in {"discover", "announce", "serving", "draining", "timers",
               "notifier", "done", "fatal", "crashed"}
  /\ sync \in {"none", "idle", "apply", "inspect", "arm"}
  /\ req \in [Requests -> ReqPoints \cup {"none"}]
  /\ idle \in {"none", "count", "delete", "call"}
  /\ scrape \in {"none", "print"}
  /\ {cancelled, hung, timer} \subseteq BOOLEAN
  /\ mu \in Requests \cup {"sync", Nobody}
  /\ readers \subseteq Requests
  /\ \A r \in Requests : startLock = r <=> req[r] \in LockedPoints

\* ShutdownCompletes: after a signal the process ends, whatever requests,
\* callbacks and scrapes are under way and although the sync may hold s.mu in
\* a call to a daemon that never answers again (main.go).
ShutdownCompletes == main = "draining" ~> main = "done"

\* RequestsReturn: while the daemon does not stay silent for ever, every
\* request is answered: s.mu, start lock and metrics lock, each held by
\* somebody who waits for something else, never close a circle (with a write
\* timeout: see Fairness).
RequestsReturn ==
  []<>~hung => \A r \in Requests : req[r] # "none" ~> req[r] = "none"

\* LookupsNeverRace: no request reads s.configs while the sync, which keeps
\* s.mu locked over a call to the daemon, is writing it; read and write locks
\* exclude each other over several steps of each side (proxy.go, docker.go).
\* main's own loop does meet the writer (main.go:114: MapRace).
LookupsNeverRace == \A r \in Requests : req[r] = "lookup" => sync # "inspect"

\* WatchExitsFirst: what CHANGELOG.md:71 says: "The `watch()` goroutine is now
\* driven by `rootCtx.Done()` only and exits before timers are stopped."  The
\* code cancels the context and does not wait for the goroutine (main.go:152).
WatchExitsFirst == main = "notifier" => sync \in {"none", "idle"}
=============================================================================
