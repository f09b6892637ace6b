------------------------------ MODULE Lifecycle ------------------------------
(***************************************************************************)
(* The container lifecycle of docknap: the goroutines that start, await,   *)
(* proxy to, idle-stop, stop and re-register a container, over the maps of *)
(* struct Docknap (registry.go) and the Docker daemon.                     *)
(*                                                                         *)
(* A service is one subdomain with the one container that carries its      *)
(* labels, so one identifier stands for both.  Every critical section of   *)
(* s.mu and every Docker call is one step; the goroutines interleave       *)
(* between those steps.  A goroutine keeps the *Config it looked up for as *)
(* long as it runs, even when the service is unregistered meanwhile.       *)
(*                                                                         *)
(* Times are kept as ages: the map entry bootStarts[s] (a time.Time in the *)
(* code) is the time elapsed since that instant, saturated at AgeCap, the  *)
(* first value that exceeds StartupTimeout; a pending idle timer is the    *)
(* time it has left.  Tick lets one unit of time pass for all of them.     *)
(***************************************************************************)
EXTENDS Naturals, FiniteSets

CONSTANTS
  Services,        \* services: a subdomain and its labelled container
  Requests,        \* goroutines that serve an HTTP request (or a *_all item)
  Callbacks,       \* goroutines that run a time.AfterFunc idle callback
  Locks,           \* *sync.Mutex objects the start-lock map can point to
  DisableIdle,     \* services labelled docknap.disable_idle=true
  Pause,           \* services labelled docknap.strategy=pause
  HealthPath,      \* services labelled docknap.health_path
  StartupTimeout,  \* Config.StartupTimeout
  IdleTimeout,     \* Config.IdleTimeout
  Ops,             \* the endpoints clients use in this instance
  EnvSteps,        \* what happens to containers behind docknap's back
  Watching,        \* FALSE: the watch goroutine's ContainerList never succeeds
  DockerFails,     \* TRUE: a Docker call may fail, with or without effect
  MaxWaiters,      \* bound: waitForReady goroutines per service
  None,            \* absent map entry / nil
  Fired,           \* a time.Timer that has run its callback
  Blank            \* the container name "" of a Config never given a name

AllOps == {"proxy", "wait", "wake", "wakeall", "stop", "stopall"}
StartingOps == {"proxy", "wait", "wake", "wakeall"}

ASSUME SetsAssumption ==
  /\ Requests \cap Callbacks = {}
  /\ None \notin Requests \cup Callbacks \cup Locks \cup Nat
  /\ Fired \notin Nat \cup {None}
  /\ Blank \notin Services
  /\ DisableIdle \subseteq Services
  /\ Pause \subseteq Services
  /\ HealthPath \subseteq Services
ASSUME BoundsAssumption ==
  /\ StartupTimeout \in Nat
  /\ IdleTimeout \in Nat
  /\ MaxWaiters \in Nat
  /\ DockerFails \in BOOLEAN
  /\ Watching \in BOOLEAN
  /\ Ops \subseteq AllOps
  /\ EnvSteps \subseteq {"exit", "start", "remove"}

VARIABLES
  \* the Docker daemon and the applications in the containers
  cstate,      \* container status; "absent" when no such container exists
  port,        \* the application accepts connections and answers its probe
  runAge,      \* age of the daemon's State.StartedAt
  \* struct Docknap
  configs,     \* registered services
  states,      \* cached serviceState.State
  bootStarts,  \* age of the recorded boot origin
  startedAt,   \* age of the recorded start
  idleTimers,  \* per container name: time left, Fired once run, None
  startLocks,  \* per container name: the mutex object in the map
  holder,      \* per mutex object: the goroutine that holds it
  \* goroutines
  pc, op, cfg, lk, since,  \* point, endpoint, *Config, mutex, startedAt read
  waiters,     \* waitForReady goroutines still polling the port
  seen,        \* waitForReady goroutines that saw the port open
  \* the watch goroutine in syncContainers
  sync, listed, toArm

daemon == <<cstate, port, runAge>>
maps   == <<configs, states, bootStarts, startedAt, idleTimers, startLocks>>
procs  == <<pc, op, cfg, lk, since>>
ready  == <<waiters, seen>>
watch  == <<sync, listed, toArm>>
vars   == <<daemon, maps, holder, procs, ready, watch>>

Proc == Requests \cup Callbacks
Names == Services \cup {Blank}
AgeCap == StartupTimeout + 1
Ages == 0..AgeCap
Older(a) == IF a < AgeCap THEN a + 1 ELSE a
CStates == {"absent", "exited", "running", "paused"}

PCs == {"idle", "probe_acquire", "probe", "reset", "serve",
        "wait_check", "wait_mark", "wait_verdict", "wait_clear",
        "acquire", "inspect", "mark_start", "mark_unpause",
        "docker_start", "docker_unpause", "start_failed",
        "stopall_inspect", "stop_timer", "docker_stop", "stop_clear"}
-----------------------------------------------------------------------------
(* What a Docker call or a probe returns.  With DockerFails the daemon may *)
(* be slow or unreachable: an inspect errs, a probe reports "not ready".   *)

\* checkPort: no address unless the container runs; a frozen container
\* still completes a TCP handshake but answers no HTTP probe.
PortOpen(s) ==
  /\ s \in Pause => s \in HealthPath
  /\ cstate[s] \in IF s \in HealthPath THEN {"running"} ELSE {"running", "paused"}
  /\ port[s]

CheckPort(s) == {PortOpen(s)} \cup (IF DockerFails THEN {FALSE} ELSE {})

\* An error of ContainerInspect is reported as "absent": no caller tells
\* a missing container from an unreachable daemon.
ContainerInspect(s) == {cstate[s]} \cup (IF DockerFails THEN {"absent"} ELSE {})
-----------------------------------------------------------------------------
(* Goroutine bookkeeping. *)

Goto(p, l) == pc' = [pc EXCEPT ![p] = l]

\* The handler returns; its locals are gone.
Finish(p) ==
  /\ Goto(p, "idle")
  /\ op' = [op EXCEPT ![p] = None]
  /\ cfg' = [cfg EXCEPT ![p] = Blank]
  /\ lk' = [lk EXCEPT ![p] = None]
  /\ since' = [since EXCEPT ![p] = None]

Enter(p, o, k, l) ==
  /\ pc[p] = "idle"
  /\ Goto(p, l)
  /\ op' = [op EXCEPT ![p] = o]
  /\ cfg' = [cfg EXCEPT ![p] = k]
  /\ UNCHANGED lk

\* startContainer returns: handleWait goes on, the other callers are done
\* with the container.  The mutex reference dies with the call.
ReturnFromStart(p) ==
  IF op[p] = "wait"
  THEN /\ Goto(p, "wait_verdict")
       /\ lk' = [lk EXCEPT ![p] = None]
       /\ UNCHANGED <<op, cfg, since>>
  ELSE Finish(p)

\* A mutex object nobody refers to: what &sync.Mutex{} allocates.
FreshLocks == {l \in Locks : /\ \A s \in Services : startLocks[s] # l
                             /\ \A p \in Proc : lk[p] # l}

\* Mutant: the map is not consulted.
AcquireStartLockAlwaysNew(p) ==
  \E l \in FreshLocks :
    /\ lk' = [lk EXCEPT ![p] = l]
    /\ startLocks' = [startLocks EXCEPT ![cfg[p]] = l]

\* Mutant: on a miss the new mutex goes to the map, but nil to the caller.
AcquireStartLockNil(p) ==
  IF startLocks[cfg[p]] # None
  THEN /\ lk' = [lk EXCEPT ![p] = startLocks[cfg[p]]]
       /\ UNCHANGED startLocks
  ELSE \E l \in FreshLocks :
         /\ startLocks' = [startLocks EXCEPT ![cfg[p]] = l]
         /\ UNCHANGED lk

\* acquireStartLock: look the mutex up, or put a new one in the map.
AcquireStartLock(p) ==
  IF startLocks[cfg[p]] # None
  THEN /\ lk' = [lk EXCEPT ![p] = startLocks[cfg[p]]]
       /\ UNCHANGED startLocks
  ELSE \E l \in FreshLocks :
         /\ lk' = [lk EXCEPT ![p] = l]
         /\ startLocks' = [startLocks EXCEPT ![cfg[p]] = l]

\* Mutant: the "already set" check is missing.
MarkBootStartAlways(s) == bootStarts' = [bootStarts EXCEPT ![s] = 0]

\* markBootStart: keeps the origin that is already there.
MarkBootStart(s) ==
  bootStarts' = [bootStarts EXCEPT ![s] = IF @ = None THEN 0 ELSE @]

ClearBootStart(s) == bootStarts' = [bootStarts EXCEPT ![s] = None]
-----------------------------------------------------------------------------
(* The HTTP handlers up to their first step that touches shared state. *)

\* Bound: a client is admitted only while the waitForReady goroutines its
\* request may add stay within MaxWaiters.
Admitted(s, o) ==
  /\ o \in Ops
  /\ s \in configs
  /\ o \in StartingOps =>
       waiters[s] + seen[s]
         + Cardinality({q \in Requests : op[q] \in StartingOps /\ cfg[q] = s}) < MaxWaiters

HandleProxy(p, s) ==
  /\ Admitted(s, "proxy")
  /\ Enter(p, "proxy", s, "probe_acquire")
  /\ UNCHANGED <<daemon, maps, holder, since, ready, watch>>

\* One item of handleWakeAll: a goroutine per service of the snapshot.
HandleWakeAll(p, s) ==
  /\ Admitted(s, "wakeall")
  /\ Enter(p, "wakeall", s, "probe_acquire")
  /\ UNCHANGED <<daemon, maps, holder, since, ready, watch>>

HandleWake(p, s) ==
  /\ Admitted(s, "wake")
  /\ Enter(p, "wake", s, "acquire")
  /\ UNCHANGED <<daemon, maps, holder, since, ready, watch>>

\* startedAt is read here, before the probe, and used in the verdict.
HandleWait(p, s) ==
  /\ Admitted(s, "wait")
  /\ Enter(p, "wait", s, "wait_check")
  /\ since' = [since EXCEPT ![p] = startedAt[s]]
  /\ UNCHANGED <<daemon, maps, holder, ready, watch>>

HandleStop(p, s) ==
  /\ Admitted(s, "stop")
  /\ Enter(p, "stop", s, "stop_timer")
  /\ UNCHANGED <<daemon, maps, holder, since, ready, watch>>

\* One item of handleStopAll.
HandleStopAll(p, s) ==
  /\ Admitted(s, "stopall")
  /\ Enter(p, "stopall", s, "stopall_inspect")
  /\ UNCHANGED <<daemon, maps, holder, since, ready, watch>>
-----------------------------------------------------------------------------
(* handleProxy and handleWakeAll: probe the port under the start lock. *)

ProbeAcquire(p) ==
  /\ pc[p] = "probe_acquire"
  /\ AcquireStartLock(p)
  /\ Goto(p, "probe")
  /\ UNCHANGED <<daemon, configs, states, bootStarts, startedAt, idleTimers,
                 holder, op, cfg, since, ready, watch>>

\* lock.Lock(); checkPort; lock.Unlock(): one step, taken when the mutex
\* is free, because nothing else happens while it is held.
Probe(p) ==
  /\ pc[p] = "probe"
  /\ holder[lk[p]] = None
  /\ \E open \in CheckPort(cfg[p]) :
       IF open /\ op[p] = "wakeall"
       THEN Finish(p)
       ELSE /\ Goto(p, IF open THEN "reset" ELSE "acquire")
            /\ lk' = [lk EXCEPT ![p] = None]
            /\ UNCHANGED <<op, cfg, since>>
  /\ UNCHANGED <<daemon, maps, holder, ready, watch>>

\* Mutant: the DisableIdle test is missing.
ResetIdleTimerAlways(p) ==
  /\ pc[p] = "reset"
  /\ idleTimers' = [idleTimers EXCEPT ![cfg[p]] = IdleTimeout]
  /\ Goto(p, "serve")
  /\ UNCHANGED <<daemon, configs, states, bootStarts, startedAt, startLocks,
                 holder, op, cfg, lk, since, ready, watch>>

\* Mutant: a timer that is there is stopped but not replaced.
ResetIdleTimerOnlyStops(p) ==
  /\ pc[p] = "reset"
  /\ idleTimers' = [idleTimers EXCEPT ![cfg[p]] = IF @ = None THEN IdleTimeout ELSE None]
  /\ Goto(p, "serve")
  /\ UNCHANGED <<daemon, configs, states, bootStarts, startedAt, startLocks,
                 holder, op, cfg, lk, since, ready, watch>>

\* resetIdleTimer: Stop() on a timer that has already fired does nothing.
ResetIdleTimer(p) ==
  /\ pc[p] = "reset"
  /\ idleTimers' = IF cfg[p] \in DisableIdle THEN idleTimers
                   ELSE [idleTimers EXCEPT ![cfg[p]] = IdleTimeout]
  /\ Goto(p, "serve")
  /\ UNCHANGED <<daemon, configs, states, bootStarts, startedAt, startLocks,
                 holder, op, cfg, lk, since, ready, watch>>

\* getTargetURL and the reverse proxy: the response, the error page or the
\* loading page is written and the handler returns.
Serve(p) ==
  /\ pc[p] = "serve"
  /\ Finish(p)
  /\ UNCHANGED <<daemon, maps, holder, ready, watch>>
-----------------------------------------------------------------------------
(* handleWait. *)

WaitCheck(p) ==
  /\ pc[p] = "wait_check"
  /\ \E open \in CheckPort(cfg[p]) : Goto(p, IF open THEN "wait_clear" ELSE "wait_mark")
  /\ UNCHANGED <<daemon, maps, holder, op, cfg, lk, since, ready, watch>>

WaitMark(p) ==
  /\ pc[p] = "wait_mark"
  /\ MarkBootStart(cfg[p])
  /\ Goto(p, "acquire")
  /\ UNCHANGED <<daemon, configs, states, startedAt, idleTimers, startLocks,
                 holder, op, cfg, lk, since, ready, watch>>

\* Elapsed time on the response: the boot origin, read again, or the start
\* recorded when the request came in.
Elapsed(p) ==
  CASE bootStarts[cfg[p]] # None -> bootStarts[cfg[p]]
    [] bootStarts[cfg[p]] = None /\ since[p] # None -> since[p]
    [] OTHER -> 0

\* The verdict is only computed from a closed port.
TimedOut(p) == pc[p] = "wait_verdict" /\ Elapsed(p) > StartupTimeout

WaitVerdict(p) ==
  /\ pc[p] = "wait_verdict"
  /\ Finish(p)
  /\ UNCHANGED <<daemon, maps, holder, ready, watch>>

WaitClear(p) ==
  /\ pc[p] = "wait_clear"
  /\ ClearBootStart(cfg[p])
  /\ Finish(p)
  /\ UNCHANGED <<daemon, configs, states, startedAt, idleTimers, startLocks,
                 holder, ready, watch>>
-----------------------------------------------------------------------------
(* startContainer.  The mutex is held from the inspect that finds the      *)
(* container stopped until the call returns; the returns before that are   *)
(* folded into the step that takes the mutex.                              *)

Critical == {"mark_start", "mark_unpause", "docker_start", "docker_unpause",
             "start_failed"}

StartAcquire(p) ==
  /\ pc[p] = "acquire"
  /\ AcquireStartLock(p)
  /\ Goto(p, "inspect")
  /\ UNCHANGED <<daemon, configs, states, bootStarts, startedAt, idleTimers,
                 holder, op, cfg, since, ready, watch>>

\* Mutant: the early return is missing.
AlreadyUpNever(s, st) == FALSE

\* Mutant: Docker's Running flag alone, which is set while paused.
AlreadyUpWhilePaused(s, st) == st \in {"running", "paused"}

\* info.State.Running && !(cfg.Strategy == "pause" && info.State.Paused):
\* Docker reports a paused container as running too.
AlreadyUp(s, st) == st = "running" \/ (st = "paused" /\ s \notin Pause)

\* Mutant: the mutex is not awaited.
StartInspectUnlocked(p) ==
  /\ pc[p] = "inspect"
  /\ \E st \in ContainerInspect(cfg[p]) :
       IF st = "absent" \/ AlreadyUp(cfg[p], st)
       THEN ReturnFromStart(p) /\ UNCHANGED holder
       ELSE /\ holder' = [holder EXCEPT ![lk[p]] = p]
            /\ Goto(p, IF st = "paused" THEN "mark_unpause" ELSE "mark_start")
            /\ UNCHANGED <<op, cfg, lk, since>>
  /\ UNCHANGED <<daemon, maps, ready, watch>>

StartInspect(p) ==
  /\ pc[p] = "inspect"
  /\ holder[lk[p]] = None
  /\ \E st \in ContainerInspect(cfg[p]) :
       IF st = "absent" \/ AlreadyUp(cfg[p], st)
       THEN ReturnFromStart(p) /\ UNCHANGED holder
       ELSE /\ holder' = [holder EXCEPT ![lk[p]] = p]
            /\ Goto(p, IF st = "paused" THEN "mark_unpause" ELSE "mark_start")
            /\ UNCHANGED <<op, cfg, lk, since>>
  /\ UNCHANGED <<daemon, maps, ready, watch>>

StartMark(p) ==
  /\ pc[p] \in {"mark_start", "mark_unpause"}
  /\ MarkBootStart(cfg[p])
  /\ Goto(p, IF pc[p] = "mark_start" THEN "docker_start" ELSE "docker_unpause")
  /\ UNCHANGED <<daemon, configs, states, startedAt, idleTimers, startLocks,
                 holder, op, cfg, lk, since, ready, watch>>

Release(p) == holder' = [holder EXCEPT ![lk[p]] = None]

\* The daemon starts a stopped container; on a running one it is a no-op.
DaemonStarts(s) ==
  IF cstate[s] = "exited"
  THEN /\ cstate' = [cstate EXCEPT ![s] = "running"]
       /\ runAge' = [runAge EXCEPT ![s] = 0]
       /\ UNCHANGED port
  ELSE UNCHANGED daemon

\* Mutant: the mutex is not released.
StartedLocked(p) ==
  /\ waiters' = [waiters EXCEPT ![cfg[p]] = @ + 1]
  /\ ReturnFromStart(p)
  /\ UNCHANGED <<seen, holder>>

\* The successful end of startContainer: go waitForReady, unlock, return.
Started(p) ==
  /\ waiters' = [waiters EXCEPT ![cfg[p]] = @ + 1]
  /\ Release(p)
  /\ ReturnFromStart(p)
  /\ UNCHANGED seen

\* The call returned an error: the mutex stays held.
NotStarted(p) ==
  /\ Goto(p, "start_failed")
  /\ UNCHANGED <<holder, op, cfg, lk, since, ready>>

DockerStart(p) ==
  /\ pc[p] = "docker_start"
  /\ \/ /\ cstate[cfg[p]] \in {"exited", "running"}
        /\ DaemonStarts(cfg[p])
        /\ Started(p)
     \/ /\ DockerFails \/ cstate[cfg[p]] \in {"absent", "paused"}
        /\ UNCHANGED daemon
        /\ NotStarted(p)
     \/ /\ DockerFails  \* the context ran out, the daemon went on
        /\ DaemonStarts(cfg[p])
        /\ NotStarted(p)
  /\ UNCHANGED <<maps, watch>>

DockerUnpause(p) ==
  /\ pc[p] = "docker_unpause"
  /\ \/ /\ cstate[cfg[p]] = "paused"
        /\ cstate' = [cstate EXCEPT ![cfg[p]] = "running"]
        /\ Started(p)
     \/ /\ DockerFails \/ cstate[cfg[p]] # "paused"
        /\ UNCHANGED cstate
        /\ NotStarted(p)
     \/ /\ DockerFails /\ cstate[cfg[p]] = "paused"
        /\ cstate' = [cstate EXCEPT ![cfg[p]] = "running"]
        /\ NotStarted(p)
  /\ UNCHANGED <<port, runAge, maps, watch>>

\* Mutant: the error return forgets to unlock.
StartFailedLocked(p) ==
  /\ pc[p] = "start_failed"
  /\ ClearBootStart(cfg[p])
  /\ ReturnFromStart(p)
  /\ UNCHANGED <<daemon, configs, states, startedAt, idleTimers, startLocks,
                 holder, ready, watch>>

StartFailed(p) ==
  /\ pc[p] = "start_failed"
  /\ ClearBootStart(cfg[p])
  /\ Release(p)
  /\ ReturnFromStart(p)
  /\ UNCHANGED <<daemon, configs, states, startedAt, idleTimers, startLocks,
                 ready, watch>>
-----------------------------------------------------------------------------
(* waitForReady: polls the port for as long as it takes. *)

ReadySeen(s) ==
  /\ waiters[s] > 0
  /\ PortOpen(s)
  /\ waiters' = [waiters EXCEPT ![s] = @ - 1]
  /\ seen' = [seen EXCEPT ![s] = @ + 1]
  /\ UNCHANGED <<daemon, maps, holder, procs, watch>>

ReadyApply(s) ==
  /\ seen[s] > 0
  /\ seen' = [seen EXCEPT ![s] = @ - 1]
  /\ ClearBootStart(s)
  /\ startedAt' = [startedAt EXCEPT ![s] = 0]
  /\ UNCHANGED <<daemon, configs, states, idleTimers, startLocks, holder,
                 procs, waiters, watch>>
-----------------------------------------------------------------------------
(* Stopping: /stop, one item of /stop_all, the idle callback.  None of     *)
(* them takes the start lock.                                              *)

StopAllInspect(p) ==
  /\ pc[p] = "stopall_inspect"
  /\ \E st \in ContainerInspect(cfg[p]) :
       IF st \in {"running", "paused"}
       THEN Goto(p, "stop_timer") /\ UNCHANGED <<op, cfg, lk, since>>
       ELSE Finish(p)
  /\ UNCHANGED <<daemon, maps, holder, ready, watch>>

\* time.AfterFunc runs its callback in a goroutine; the map keeps the timer.
FireIdleTimer(p, k) ==
  /\ idleTimers[k] = 0
  /\ Enter(p, "idle", k, "stop_timer")
  /\ idleTimers' = [idleTimers EXCEPT ![k] = Fired]
  /\ UNCHANGED <<daemon, configs, states, bootStarts, startedAt, startLocks,
                 holder, since, ready, watch>>

\* The callback as well removes whatever timer the map holds by now.
StopTimer(p) ==
  /\ pc[p] = "stop_timer"
  /\ idleTimers' = [idleTimers EXCEPT ![cfg[p]] = None]
  /\ Goto(p, "docker_stop")
  /\ UNCHANGED <<daemon, configs, states, bootStarts, startedAt, startLocks,
                 holder, op, cfg, lk, since, ready, watch>>

DaemonStops(s) ==
  /\ cstate' = [cstate EXCEPT ![s] = IF s \in Pause THEN "paused" ELSE "exited"]
  /\ port' = IF s \in Pause THEN port ELSE [port EXCEPT ![s] = FALSE]
  /\ UNCHANGED runAge

\* ContainerPause needs a running container; ContainerStop only a container.
Stoppable(s) ==
  s # Blank /\ IF s \in Pause THEN cstate[s] = "running" ELSE cstate[s] # "absent"

DockerStop(p) ==
  /\ pc[p] = "docker_stop"
  /\ \/ /\ Stoppable(cfg[p])
        /\ DaemonStops(cfg[p])
        /\ IF cfg[p] \in Pause
           THEN Finish(p)
           ELSE Goto(p, "stop_clear") /\ UNCHANGED <<op, cfg, lk, since>>
     \/ /\ DockerFails \/ ~Stoppable(cfg[p])
        /\ UNCHANGED daemon
        /\ Finish(p)
     \/ /\ DockerFails /\ Stoppable(cfg[p])  \* stopped, reported as an error
        /\ DaemonStops(cfg[p])
        /\ Finish(p)
  /\ UNCHANGED <<maps, holder, ready, watch>>

\* clearServiceRuntimeState
StopClear(p) ==
  /\ pc[p] = "stop_clear"
  /\ startedAt' = [startedAt EXCEPT ![cfg[p]] = None]
  /\ Finish(p)
  /\ UNCHANGED <<daemon, configs, states, bootStarts, idleTimers, startLocks,
                 holder, ready, watch>>
-----------------------------------------------------------------------------
(* syncContainers, run by the watch goroutine: the listing is taken, then  *)
(* applied in one critical section of s.mu, then timers are armed one by   *)
(* one.  A failing ContainerList changes nothing.                          *)

NoListing == [s \in Services |-> "absent"]

SyncList ==
  /\ Watching
  /\ sync = "idle"
  /\ listed' = cstate
  /\ sync' = "apply"
  /\ UNCHANGED <<daemon, maps, holder, procs, ready, toArm>>

Gone == {s \in configs : listed[s] = "absent"}
New  == {s \in Services : listed[s] # "absent" /\ s \notin configs \ Gone}
Up   == {s \in Services : listed[s] = "running"}

\* The Config a listed container is armed with: parseLabels made a new one,
\* and it is given its container name only when the service is new.
ArmName(s) == IF s \in New THEN s ELSE Blank

Drop(f, S) == [k \in DOMAIN f |-> IF k \in S THEN None ELSE f[k]]

\* Mutant: vanished containers stay registered.
SyncApplyNoDelete ==
  /\ sync = "apply"
  /\ configs' = configs \cup {s \in Services : listed[s] # "absent"}
  /\ states' = [s \in Services |-> IF listed[s] # "absent" THEN listed[s] ELSE states[s]]
  /\ startedAt' = [s \in Services |-> IF s \in Up THEN runAge[s] ELSE startedAt[s]]
  /\ toArm' = {ArmName(s) : s \in Up \ DisableIdle}
  /\ sync' = "arm"
  /\ listed' = NoListing
  /\ UNCHANGED <<daemon, bootStarts, idleTimers, startLocks, holder, procs, ready>>

SyncApply ==
  /\ sync = "apply"
  /\ configs' = {s \in Services : listed[s] # "absent"}
  /\ states' = [s \in Services |-> CASE listed[s] # "absent" -> listed[s]
                                     [] s \in Gone -> None
                                     [] OTHER -> states[s]]
  /\ bootStarts' = Drop(bootStarts, Gone)
  /\ idleTimers' = Drop(idleTimers, Gone)
  /\ startLocks' = Drop(startLocks, Gone)
  /\ \E inspected \in SUBSET Up :
       /\ \A s \in Up : "absent" \notin ContainerInspect(s) => s \in inspected
       /\ \A s \in inspected : cstate[s] # "absent"
       /\ startedAt' = [s \in Services |->
                          CASE s \in inspected -> runAge[s]
                            [] s \in Gone -> None
                            [] OTHER -> startedAt[s]]
  /\ toArm' = {ArmName(s) : s \in Up \ DisableIdle}
  /\ sync' = "arm"
  /\ listed' = NoListing
  /\ UNCHANGED <<daemon, holder, procs, ready>>

\* armIdleTimer: a timer that is there, fired or not, is kept.
SyncArm(k) ==
  /\ sync = "arm"
  /\ k \in toArm
  /\ idleTimers' = [idleTimers EXCEPT ![k] = IF @ = None THEN IdleTimeout ELSE @]
  /\ toArm' = toArm \ {k}
  /\ UNCHANGED <<daemon, configs, states, bootStarts, startedAt, startLocks,
                 holder, procs, ready, sync, listed>>

SyncEnd ==
  /\ sync = "arm"
  /\ toArm = {}
  /\ sync' = "idle"
  /\ UNCHANGED <<daemon, maps, holder, procs, ready, listed, toArm>>
-----------------------------------------------------------------------------
(* The world outside docknap. *)

\* The application in a running container starts to answer.
PortOpens(s) ==
  /\ cstate[s] = "running" /\ ~port[s]
  /\ port' = [port EXCEPT ![s] = TRUE]
  /\ UNCHANGED <<cstate, runAge, maps, holder, procs, ready, watch>>

ContainerExit(s) ==
  /\ "exit" \in EnvSteps
  /\ cstate[s] = "running"
  /\ cstate' = [cstate EXCEPT ![s] = "exited"]
  /\ port' = [port EXCEPT ![s] = FALSE]
  /\ UNCHANGED <<runAge, maps, holder, procs, ready, watch>>

ExternalStart(s) ==
  /\ "start" \in EnvSteps
  /\ cstate[s] = "exited"
  /\ DaemonStarts(s)
  /\ UNCHANGED <<maps, holder, procs, ready, watch>>

Remove(s) ==
  /\ "remove" \in EnvSteps
  /\ cstate[s] # "absent"
  /\ cstate' = [cstate EXCEPT ![s] = "absent"]
  /\ port' = [port EXCEPT ![s] = FALSE]
  /\ runAge' = [runAge EXCEPT ![s] = AgeCap]
  /\ UNCHANGED <<maps, holder, procs, ready, watch>>

Create(s) ==
  /\ "remove" \in EnvSteps
  /\ cstate[s] = "absent"
  /\ cstate' = [cstate EXCEPT ![s] = "exited"]
  /\ UNCHANGED <<port, runAge, maps, holder, procs, ready, watch>>

Aged(f) == [k \in DOMAIN f |-> IF f[k] = None THEN None ELSE Older(f[k])]

Tick ==
  /\ runAge' = Aged(runAge)
  /\ bootStarts' = Aged(bootStarts)
  /\ startedAt' = Aged(startedAt)
  /\ since' = Aged(since)
  /\ idleTimers' = [k \in Names |-> IF idleTimers[k] \in 1..IdleTimeout
                                    THEN idleTimers[k] - 1 ELSE idleTimers[k]]
  /\ UNCHANGED <<cstate, port, configs, states, startLocks, holder, pc, op,
                 cfg, lk, ready, watch>>
-----------------------------------------------------------------------------
(* After discover: every container on the network is registered, with its  *)
(* start and an idle timer when it runs and could be inspected.            *)

Init ==
  /\ cstate \in [Services -> CStates \ {"absent"}]
  /\ port \in [Services -> BOOLEAN]
  /\ \A s \in Services : /\ cstate[s] = "paused" => s \in Pause
                         /\ port[s] => cstate[s] # "exited"
  /\ runAge = [s \in Services |-> AgeCap]
  /\ configs = Services
  /\ states = cstate
  /\ bootStarts = [s \in Services |-> None]
  /\ startedAt \in [Services -> {None, AgeCap}]
  /\ \A s \in Services : IF cstate[s] = "running"
                         THEN startedAt[s] = None => DockerFails
                         ELSE startedAt[s] = None
  /\ idleTimers = [k \in Names |-> IF k \in Services \ DisableIdle /\ startedAt[k] # None
                                   THEN IdleTimeout ELSE None]
  /\ startLocks = [s \in Services |-> None]
  /\ holder = [l \in Locks |-> None]
  /\ pc = [p \in Proc |-> "idle"]
  /\ op = [p \in Proc |-> None]
  /\ cfg = [p \in Proc |-> Blank]
  /\ lk = [p \in Proc |-> None]
  /\ since = [p \in Proc |-> None]
  /\ waiters = [s \in Services |-> 0]
  /\ seen = [s \in Services |-> 0]
  /\ sync = "idle"
  /\ listed = NoListing
  /\ toArm = {}

Client(p, s) == \/ HandleProxy(p, s) \/ HandleWakeAll(p, s) \/ HandleWake(p, s)
                \/ HandleWait(p, s) \/ HandleStop(p, s) \/ HandleStopAll(p, s)

\* The steps of a goroutine that has begun.
Starting(p) == \/ StartAcquire(p) \/ StartInspect(p) \/ StartMark(p)
               \/ DockerStart(p) \/ DockerUnpause(p) \/ StartFailed(p)
Stopping(p) == StopAllInspect(p) \/ StopTimer(p) \/ DockerStop(p) \/ StopClear(p)
Proxying(p) == ProbeAcquire(p) \/ Probe(p) \/ ResetIdleTimer(p) \/ Serve(p)
Waiting(p)  == WaitCheck(p) \/ WaitMark(p) \/ WaitVerdict(p) \/ WaitClear(p)
Step(p) == Starting(p) \/ Stopping(p) \/ Proxying(p) \/ Waiting(p)

Ready(s) == ReadySeen(s) \/ ReadyApply(s)
Sync == SyncList \/ SyncApply \/ SyncEnd \/ \E k \in Names : SyncArm(k)
Env(s) == PortOpens(s) \/ ContainerExit(s) \/ ExternalStart(s) \/ Remove(s) \/ Create(s)

\* Every step but the passing of time.
Act ==
  \/ \E p \in Requests, s \in Services : Client(p, s)
  \/ \E p \in Callbacks, k \in Names : FireIdleTimer(p, k)
  \/ \E p \in Proc : Step(p)
  \/ \E s \in Services : Ready(s) \/ Env(s)
  \/ Sync

Next == Act \/ Tick

Spec == Init /\ [][Next]_vars

\* The Go scheduler runs every runnable goroutine, a Go mutex in starvation
\* mode is handed to a waiting goroutine, timers expire, the watch goroutine
\* polls every ten seconds.  Clients and containers owe nothing.
Fairness ==
  /\ \A p \in Proc : WF_vars(Step(p))
  /\ \A p \in Requests : SF_vars(Probe(p)) /\ SF_vars(StartInspect(p))
  /\ \A k \in Names : SF_vars(\E p \in Callbacks : FireIdleTimer(p, k))
  /\ \A s \in Services : WF_vars(ReadySeen(s)) /\ WF_vars(ReadyApply(s))
  /\ WF_vars(Sync)
  /\ WF_vars(Tick)

FairSpec == Spec /\ Fairness
-----------------------------------------------------------------------------
(* Properties. *)

\* A goroutine works on a service; only the idle callback of a Config with
\* no container name carries Blank.
OnService(p) == pc[p] \notin {"idle", "stop_timer", "docker_stop"}

\* TypeOK: every variable has its type; a goroutine that dereferences its
\* Config or its mutex has one.
TypeOK ==
  /\ cstate \in [Services -> CStates]
  /\ port \in [Services -> BOOLEAN]
  /\ runAge \in [Services -> Ages]
  /\ configs \subseteq Services
  /\ states \in [Services -> CStates \cup {None}]
  /\ bootStarts \in [Services -> Ages \cup {None}]
  /\ startedAt \in [Services -> Ages \cup {None}]
  /\ idleTimers \in [Names -> (0..IdleTimeout) \cup {None, Fired}]
  /\ startLocks \in [Services -> Locks \cup {None}]
  /\ holder \in [Locks -> Proc \cup {None}]
  /\ pc \in [Proc -> PCs]
  /\ op \in [Proc -> AllOps \cup {"idle", None}]
  /\ cfg \in [Proc -> Names]
  /\ lk \in [Proc -> Locks \cup {None}]
  /\ since \in [Proc -> Ages \cup {None}]
  /\ \A p \in Proc : /\ OnService(p) => cfg[p] \in Services
                     /\ pc[p] \in Critical \cup {"probe", "inspect"} => lk[p] \in Locks
  /\ waiters \in [Services -> Nat]
  /\ seen \in [Services -> Nat]
  /\ sync \in {"idle", "apply", "arm"}
  /\ listed \in [Services -> CStates]
  /\ toArm \subseteq Names

\* SingleFlight: at most one goroutine at a time is past the inspect of
\* startContainer for a container, whatever starts, stops, crashes, errors
\* and idle callbacks interleave (docker.go startContainer, acquireStartLock;
\* CHANGELOG.md:126, "Container-start singleflight (per-container mutex) to
\* eliminate the duplicate-start race").  It holds while no container is
\* removed; a sync that drops a removed container's mutex (docker.go:166)
\* breaks it.
SingleFlight ==
  \A p, q \in Proc :
    pc[p] \in Critical /\ pc[q] \in Critical /\ cfg[p] = cfg[q] => p = q

\* StartTargetsStopped: from the inspect to the Docker call the container
\* stays what the inspect saw, although stops do not take the mutex:
\* ContainerStart goes to a stopped container, ContainerUnpause to a paused
\* one, so every counted start is a boot (docker.go startContainer).
StartTargetsStopped ==
  \A p \in Proc :
    /\ pc[p] \in {"mark_start", "docker_start"} => cstate[cfg[p]] = "exited"
    /\ pc[p] \in {"mark_unpause", "docker_unpause"} => cstate[cfg[p]] = "paused"

\* FlightInv: why SingleFlight holds while no container is removed: the map
\* entry of a container never changes once made, so every goroutine in
\* startContainer or at the probe refers to the mutex the map points to, and
\* the one past the inspect holds it (docker.go acquireStartLock,
\* startContainer, syncContainers).
FlightInv ==
  /\ \A s \in Services : cstate[s] # "absent"
  /\ sync = "apply" => \A s \in Services : listed[s] # "absent"
  /\ \A p \in Proc :
       /\ pc[p] \in Critical => holder[lk[p]] = p
       /\ pc[p] \in Critical \cup {"probe", "inspect"} => startLocks[cfg[p]] = lk[p]

\* BootOriginStable: a recorded boot origin is kept until it is deleted:
\* concurrent starters and waiters never push it forward (registry.go
\* markBootStart, docker.go startContainer, handlers_actions.go handleWait).
BootOriginStable ==
  [][\A s \in Services :
       bootStarts[s] # None /\ bootStarts'[s] # None => bootStarts'[s] >= bootStarts[s]]_vars

\* DisabledNeverIdleStopped: neither discover, sync nor a proxied request
\* ever puts a service with docknap.disable_idle under an idle timer, and no
\* idle callback works on one (timers.go).
DisabledNeverIdleStopped ==
  /\ \A s \in DisableIdle : idleTimers[s] = None
  /\ \A p \in Callbacks : cfg[p] \notin DisableIdle

\* RequestsComplete: every handler and every idle callback returns, also
\* when all of them want the same start lock and Docker calls fail
\* (no lock is leaked, none of the waits is circular).
RequestsComplete == \A p \in Proc : pc[p] # "idle" ~> pc[p] = "idle"

\* StartTakesEffect: once a handler has called startContainer, the
\* container runs at some later moment, whether it was stopped, frozen by
\* the pause strategy, or stopped by somebody else in between.
StartTakesEffect ==
  \A s \in Services :
    (\E p \in Requests : pc[p] = "acquire" /\ cfg[p] = s) ~> cstate[s] = "running"

\* IdleServiceStops: when the clients fall silent, a service that was
\* proxied to is stopped (or frozen), whatever stops and callbacks met its
\* timer (timers.go resetIdleTimer, stopContainerWithReason).
Silent == \A p \in Requests : pc[p] = "idle"
IdleServiceStops ==
  <>[]Silent => \A s \in Services \ DisableIdle :
                  (\E p \in Requests : pc[p] = "reset" /\ cfg[p] = s) ~> cstate[s] # "running"

\* RegistryConverges: a container that is gone for good is unregistered for
\* good, one that is there for good is registered for good (docker.go
\* syncContainers), although every listing is stale when it is applied.
RegistryConverges ==
  \A s \in Services :
    /\ <>[](cstate[s] = "absent") => <>[](s \notin configs)
    /\ <>[](cstate[s] # "absent") => <>[](s \in configs)

\* RunningGetsTimer: CHANGELOG.md on discover() and watch(): a container
\* that runs gets an idle timer, also when no request is ever proxied to it.
RunningGetsTimer ==
  \A s \in Services \ DisableIdle :
    cstate[s] = "running" ~> idleTimers[s] # None \/ cstate[s] # "running"
=============================================================================
