-------------------------- MODULE LifecycleProofs --------------------------
(***************************************************************************)
(* Theorems about Lifecycle for every set of services, goroutines and      *)
(* timeouts.                                                               *)
(***************************************************************************)
EXTENDS Lifecycle, TLAPS

\* Older keeps an age an age.
LEMMA OlderType == \A a \in Ages : Older(a) \in Ages
  BY BoundsAssumption DEF Older, Ages, AgeCap

\* Initially every variable has its type (state left by discover).
LEMMA InitTypeOK == Init => TypeOK
  BY BoundsAssumption
  DEF Init, TypeOK, CStates, Ages, AgeCap, Names, PCs, Critical, OnService, NoListing

\* The handlers' entries preserve the types (handlers_actions.go, proxy.go).
LEMMA ClientTypeOK ==
  ASSUME TypeOK, NEW p \in Requests, NEW s \in Services, Client(p, s)
  PROVE  TypeOK'
<1> USE DEF TypeOK, OnService, PCs, Critical, Proc, Names, AllOps, Enter, Goto,
            daemon, maps, ready, watch
<1>1. CASE HandleProxy(p, s)
  BY <1>1 DEF HandleProxy
<1>2. CASE HandleWakeAll(p, s)
  BY <1>2 DEF HandleWakeAll
<1>3. CASE HandleWake(p, s)
  BY <1>3 DEF HandleWake
<1>4. CASE HandleWait(p, s)
  BY <1>4 DEF HandleWait
<1>5. CASE HandleStop(p, s)
  BY <1>5 DEF HandleStop
<1>6. CASE HandleStopAll(p, s)
  BY <1>6 DEF HandleStopAll
<1>7. QED
  BY <1>1, <1>2, <1>3, <1>4, <1>5, <1>6 DEF Client

\* The steps of startContainer preserve the types (docker.go).
LEMMA StartingTypeOK ==
  ASSUME TypeOK, NEW p \in Proc, Starting(p)
  PROVE  TypeOK'
<1> USE DEF TypeOK, OnService, PCs, Critical, Names, daemon, maps, procs, ready, watch
<1>1. CASE StartAcquire(p)
  BY <1>1 DEF StartAcquire, AcquireStartLock, FreshLocks, Goto
<1>2. CASE StartInspect(p)
  BY <1>2 DEF StartInspect, ReturnFromStart, Finish, Goto
<1>3. CASE StartMark(p)
  BY <1>3, BoundsAssumption DEF StartMark, MarkBootStart, Goto, Ages, AgeCap
<1>4. CASE DockerStart(p)
  <2>1. /\ cstate' \in [Services -> CStates]
        /\ port' \in [Services -> BOOLEAN]
        /\ runAge' \in [Services -> Ages]
    BY <1>4, BoundsAssumption DEF DockerStart, DaemonStarts, CStates, Ages, AgeCap
  <2>2. CASE Started(p)
    BY <1>4, <2>1, <2>2 DEF DockerStart, Started, Release, ReturnFromStart, Finish, Goto
  <2>3. CASE NotStarted(p)
    BY <1>4, <2>1, <2>3 DEF DockerStart, NotStarted, Goto
  <2>4. QED
    BY <1>4, <2>2, <2>3 DEF DockerStart
<1>5. CASE DockerUnpause(p)
  BY <1>5 DEF DockerUnpause, Started, NotStarted, Release, ReturnFromStart, Finish, Goto, CStates
<1>6. CASE StartFailed(p)
  BY <1>6 DEF StartFailed, ClearBootStart, Release, ReturnFromStart, Finish, Goto
<1>7. QED
  BY <1>1, <1>2, <1>3, <1>4, <1>5, <1>6 DEF Starting

\* The steps of the stop paths preserve the types (timers.go, handleStopAll).
LEMMA StoppingTypeOK ==
  ASSUME TypeOK, NEW p \in Proc, Stopping(p)
  PROVE  TypeOK'
<1> USE DEF TypeOK, OnService, PCs, Critical, Names, daemon, maps, procs, ready, watch
<1>1. CASE StopAllInspect(p)
  BY <1>1 DEF StopAllInspect, Finish, Goto
<1>2. CASE StopTimer(p)
  BY <1>2 DEF StopTimer, Goto
<1>3. CASE DockerStop(p)
  <2>1. /\ cstate' \in [Services -> CStates]
        /\ port' \in [Services -> BOOLEAN]
        /\ runAge' \in [Services -> Ages]
    BY <1>3 DEF DockerStop, DaemonStops, CStates
  <2>2. CASE Finish(p)
    BY <1>3, <2>1, <2>2 DEF DockerStop, Finish, Goto
  <2>3. CASE /\ Stoppable(cfg[p])
             /\ Goto(p, "stop_clear")
             /\ UNCHANGED <<op, cfg, lk, since>>
    BY <1>3, <2>1, <2>3 DEF DockerStop, Stoppable, Goto
  <2>4. QED
    BY <1>3, <2>2, <2>3 DEF DockerStop
<1>4. CASE StopClear(p)
  BY <1>4 DEF StopClear, Finish, Goto
<1>5. QED
  BY <1>1, <1>2, <1>3, <1>4 DEF Stopping

\* The steps of handleProxy and handleWakeAll preserve the types.
LEMMA ProxyingTypeOK ==
  ASSUME TypeOK, NEW p \in Proc, Proxying(p)
  PROVE  TypeOK'
<1> USE DEF TypeOK, OnService, PCs, Critical, Names, daemon, maps, procs, ready, watch
<1>1. CASE ProbeAcquire(p)
  BY <1>1 DEF ProbeAcquire, AcquireStartLock, FreshLocks, Goto
<1>2. CASE Probe(p)
  BY <1>2 DEF Probe, Finish, Goto
<1>3. CASE ResetIdleTimer(p)
  BY <1>3, BoundsAssumption DEF ResetIdleTimer, Goto
<1>4. CASE Serve(p)
  BY <1>4 DEF Serve, Finish, Goto
<1>5. QED
  BY <1>1, <1>2, <1>3, <1>4 DEF Proxying

\* The steps of handleWait preserve the types.
LEMMA WaitingTypeOK ==
  ASSUME TypeOK, NEW p \in Proc, Waiting(p)
  PROVE  TypeOK'
<1> USE DEF TypeOK, OnService, PCs, Critical, Names, daemon, maps, procs, ready, watch
<1>1. CASE WaitCheck(p)
  BY <1>1 DEF WaitCheck, Goto
<1>2. CASE WaitMark(p)
  BY <1>2, BoundsAssumption DEF WaitMark, MarkBootStart, Goto, Ages, AgeCap
<1>3. CASE WaitVerdict(p)
  BY <1>3 DEF WaitVerdict, Finish, Goto
<1>4. CASE WaitClear(p)
  BY <1>4 DEF WaitClear, ClearBootStart, Finish, Goto
<1>5. QED
  BY <1>1, <1>2, <1>3, <1>4 DEF Waiting

\* waitForReady and the containers' own steps preserve the types.
LEMMA WorldTypeOK ==
  ASSUME TypeOK, NEW s \in Services, Ready(s) \/ Env(s)
  PROVE  TypeOK'
<1> USE DEF TypeOK, OnService, Critical, CStates, daemon, maps, procs, ready, watch
<1>1. CASE ReadySeen(s)
  BY <1>1 DEF ReadySeen
<1>2. CASE ReadyApply(s)
  BY <1>2, BoundsAssumption DEF ReadyApply, ClearBootStart, Ages, AgeCap
<1>3. CASE PortOpens(s)
  BY <1>3 DEF PortOpens
<1>4. CASE ContainerExit(s)
  BY <1>4 DEF ContainerExit
<1>5. CASE ExternalStart(s)
  BY <1>5, BoundsAssumption DEF ExternalStart, DaemonStarts, Ages, AgeCap
<1>6. CASE Remove(s)
  BY <1>6, BoundsAssumption DEF Remove, Ages, AgeCap
<1>7. CASE Create(s)
  BY <1>7 DEF Create
<1>8. QED
  BY <1>1, <1>2, <1>3, <1>4, <1>5, <1>6, <1>7 DEF Ready, Env

\* The watch goroutine's steps preserve the types (docker.go syncContainers).
LEMMA SyncTypeOK ==
  ASSUME TypeOK, Sync
  PROVE  TypeOK'
<1> USE DEF TypeOK, OnService, Critical, Names, daemon, maps, procs, ready, watch
<1>1. CASE SyncList
  BY <1>1 DEF SyncList
<1>2. CASE SyncApply
  <2>1. /\ configs' \subseteq Services
        /\ states' \in [Services -> CStates \cup {None}]
        /\ startedAt' \in [Services -> Ages \cup {None}]
    BY <1>2 DEF SyncApply, CStates
  <2>2. /\ bootStarts' \in [Services -> Ages \cup {None}]
        /\ idleTimers' \in [Names -> (0..IdleTimeout) \cup {None, Fired}]
        /\ startLocks' \in [Services -> Locks \cup {None}]
    BY <1>2 DEF SyncApply, Drop
  <2>3. toArm' \subseteq Names /\ listed' \in [Services -> CStates] /\ sync' = "arm"
    BY <1>2 DEF SyncApply, ArmName, NoListing, CStates, Up
  <2>4. QED
    BY <1>2, <2>1, <2>2, <2>3 DEF SyncApply
<1>3. CASE SyncEnd
  BY <1>3 DEF SyncEnd
<1>4. ASSUME NEW k \in Names, SyncArm(k)
      PROVE  TypeOK'
  BY <1>4, BoundsAssumption DEF SyncArm
<1>5. QED
  BY <1>1, <1>2, <1>3, <1>4 DEF Sync

\* An idle timer's callback starts with the Config the timer was made for.
LEMMA FireTypeOK ==
  ASSUME TypeOK, NEW p \in Callbacks, NEW k \in Names, FireIdleTimer(p, k)
  PROVE  TypeOK'
  BY DEF FireIdleTimer, Enter, Goto, TypeOK, OnService, PCs, Critical, Proc, Names,
         daemon, ready, watch

\* Time preserves the types.
LEMMA TickTypeOK ==
  ASSUME TypeOK, Tick
  PROVE  TypeOK'
<1>1. /\ runAge' \in [Services -> Ages]
      /\ bootStarts' \in [Services -> Ages \cup {None}]
      /\ startedAt' \in [Services -> Ages \cup {None}]
      /\ since' \in [Proc -> Ages \cup {None}]
  BY OlderType DEF TypeOK, Tick, Aged
<1>2. idleTimers' \in [Names -> (0..IdleTimeout) \cup {None, Fired}]
  BY BoundsAssumption DEF TypeOK, Tick
<1>3. QED
  BY <1>1, <1>2 DEF TypeOK, Tick, OnService, Critical, ready, watch

\* Every step preserves the types.
LEMMA NextTypeOK == TypeOK /\ [Next]_vars => TypeOK'
<1> SUFFICES ASSUME TypeOK, [Next]_vars
             PROVE  TypeOK'
  OBVIOUS
<1>1. CASE UNCHANGED vars
  BY <1>1 DEF vars, daemon, maps, procs, ready, watch, TypeOK, OnService, Critical
<1>2. CASE Tick
  BY <1>2, TickTypeOK
<1>3. CASE Act
  BY <1>3, ClientTypeOK, FireTypeOK, StartingTypeOK, StoppingTypeOK, ProxyingTypeOK,
     WaitingTypeOK, WorldTypeOK, SyncTypeOK DEF Act, Step
<1>4. QED
  BY <1>1, <1>2, <1>3 DEF Next

\* Type correctness of the whole lifecycle: in particular no goroutine ever
\* dereferences a mutex it has not looked up, and no handler works on a
\* Config without a container name.
THEOREM TypeCorrect == Spec => []TypeOK
  BY InitTypeOK, NextTypeOK, PTL DEF Spec

-----------------------------------------------------------------------------
(* Single flight.  FlightInv is inductive together with TypeOK as long as  *)
(* no container is removed: syncContainers then deletes no start lock.     *)

\* The handlers' entries preserve FlightInv: they touch neither the start
\* locks nor a container.
LEMMA ClientFlight ==
  ASSUME TypeOK, FlightInv, NEW p \in Requests, NEW s \in Services, Client(p, s)
  PROVE  FlightInv'
  BY DEF Client, HandleProxy, HandleWakeAll, HandleWake, HandleWait, HandleStop,
         HandleStopAll, Enter, Goto, FlightInv, TypeOK, Critical, Proc, daemon, maps, watch

\* The steps of the Starting group preserve FlightInv.
LEMMA StartingFlight ==
  ASSUME TypeOK, FlightInv, NEW p \in Proc, Starting(p)
  PROVE  FlightInv'
<1> USE DEF TypeOK, FlightInv, OnService, Critical, daemon, maps, watch
<1>1. CASE StartAcquire(p)
  BY <1>1, SetsAssumption DEF StartAcquire, AcquireStartLock, Goto
<1>2. CASE StartInspect(p)
  <2>1. None \notin Proc
    BY SetsAssumption DEF Proc
  <2>2. \A q \in Proc : pc[q] \in Critical => lk[q] # lk[p]
    BY <1>2, <2>1 DEF StartInspect
  <2>3. CASE ReturnFromStart(p) /\ UNCHANGED holder
    BY <1>2, <2>3 DEF StartInspect, ReturnFromStart, Finish, Goto
  <2>4. CASE /\ holder' = [holder EXCEPT ![lk[p]] = p]
             /\ pc' \in {[pc EXCEPT ![p] = "mark_unpause"], [pc EXCEPT ![p] = "mark_start"]}
             /\ UNCHANGED <<op, cfg, lk, since>>
    BY <1>2, <2>2, <2>4 DEF StartInspect
  <2>5. QED
    BY <1>2, <2>3, <2>4 DEF StartInspect, Goto
<1>3. CASE StartMark(p)
  BY <1>3 DEF StartMark, Goto
<1>4. CASE DockerStart(p)
  BY <1>4 DEF DockerStart, DaemonStarts, Started, NotStarted, Release, ReturnFromStart, Finish, Goto
<1>5. CASE DockerUnpause(p)
  BY <1>5 DEF DockerUnpause, Started, NotStarted, Release, ReturnFromStart, Finish, Goto
<1>6. CASE StartFailed(p)
  BY <1>6 DEF StartFailed, Release, ReturnFromStart, Finish, Goto
<1>7. QED
  BY <1>1, <1>2, <1>3, <1>4, <1>5, <1>6 DEF Starting

\* The steps of the Stopping group preserve FlightInv.
LEMMA StoppingFlight ==
  ASSUME TypeOK, FlightInv, NEW p \in Proc, Stopping(p)
  PROVE  FlightInv'
<1> USE DEF TypeOK, FlightInv, OnService, Critical, daemon, maps, watch
<1>1. CASE StopAllInspect(p)
  BY <1>1 DEF StopAllInspect, Finish, Goto
<1>2. CASE StopTimer(p)
  BY <1>2 DEF StopTimer, Goto
<1>3. CASE DockerStop(p)
  BY <1>3 DEF DockerStop, DaemonStops, Stoppable, Finish, Goto
<1>4. CASE StopClear(p)
  BY <1>4 DEF StopClear, Finish, Goto
<1>5. QED
  BY <1>1, <1>2, <1>3, <1>4 DEF Stopping

\* The steps of the Proxying group preserve FlightInv.
LEMMA ProxyingFlight ==
  ASSUME TypeOK, FlightInv, NEW p \in Proc, Proxying(p)
  PROVE  FlightInv'
<1> USE DEF TypeOK, FlightInv, OnService, Critical, daemon, maps, watch
<1>1. CASE ProbeAcquire(p)
  BY <1>1, SetsAssumption DEF ProbeAcquire, AcquireStartLock, Goto
<1>2. CASE Probe(p)
  BY <1>2 DEF Probe, Finish, Goto
<1>3. CASE ResetIdleTimer(p)
  BY <1>3 DEF ResetIdleTimer, Goto
<1>4. CASE Serve(p)
  BY <1>4 DEF Serve, Finish, Goto
<1>5. QED
  BY <1>1, <1>2, <1>3, <1>4 DEF Proxying

\* The steps of the Waiting group preserve FlightInv.
LEMMA WaitingFlight ==
  ASSUME TypeOK, FlightInv, NEW p \in Proc, Waiting(p)
  PROVE  FlightInv'
<1> USE DEF TypeOK, FlightInv, OnService, Critical, daemon, maps, watch
<1>1. CASE WaitCheck(p)
  BY <1>1 DEF WaitCheck, Goto
<1>2. CASE WaitMark(p)
  BY <1>2 DEF WaitMark, Goto
<1>3. CASE WaitVerdict(p)
  BY <1>3 DEF WaitVerdict, Finish, Goto
<1>4. CASE WaitClear(p)
  BY <1>4 DEF WaitClear, Finish, Goto
<1>5. QED
  BY <1>1, <1>2, <1>3, <1>4 DEF Waiting

\* waitForReady and the containers' own steps, removals excepted, preserve
\* FlightInv.
LEMMA WorldFlight ==
  ASSUME "remove" \notin EnvSteps, TypeOK, FlightInv, NEW s \in Services, Ready(s) \/ Env(s)
  PROVE  FlightInv'
  BY DEF Ready, Env, ReadySeen, ReadyApply, PortOpens, ContainerExit, ExternalStart,
         DaemonStarts, Remove, Create, FlightInv, TypeOK, Critical, daemon, maps, procs, watch

\* The watch goroutine's steps preserve FlightInv: a sync that lists every
\* registered container drops no start lock.
LEMMA SyncFlight ==
  ASSUME TypeOK, FlightInv, Sync
  PROVE  FlightInv'
<1> USE DEF TypeOK, FlightInv, OnService, Critical, daemon, maps, procs, watch
<1>1. CASE SyncList
  BY <1>1 DEF SyncList
<1>2. CASE SyncApply
  <2>1. Gone = {}
    BY <1>2 DEF SyncApply, Gone
  <2>2. startLocks' = startLocks
    BY <1>2, <2>1 DEF SyncApply, Drop
  <2>3. QED
    BY <1>2, <2>2 DEF SyncApply
<1>3. CASE SyncEnd
  BY <1>3 DEF SyncEnd
<1>4. ASSUME NEW k \in Names, SyncArm(k)
      PROVE  FlightInv'
  BY <1>4 DEF SyncArm
<1>5. QED
  BY <1>1, <1>2, <1>3, <1>4 DEF Sync

\* An idle callback's first step preserves FlightInv.
LEMMA FireFlight ==
  ASSUME TypeOK, FlightInv, NEW p \in Callbacks, NEW k \in Names, FireIdleTimer(p, k)
  PROVE  FlightInv'
  BY DEF FireIdleTimer, Enter, Goto, FlightInv, TypeOK, Critical, Proc, daemon, watch

\* Time changes nothing FlightInv speaks of.
LEMMA TickFlight ==
  ASSUME TypeOK, FlightInv, Tick
  PROVE  FlightInv'
  BY DEF Tick, FlightInv, Critical, watch

\* Initially FlightInv holds: discover registers what it lists and no
\* goroutine is in startContainer.
LEMMA InitFlight == Init => FlightInv
  BY DEF Init, FlightInv, Critical, CStates

\* FlightInv is inductive while no container is removed.
LEMMA NextFlight ==
  ASSUME "remove" \notin EnvSteps
  PROVE  TypeOK /\ FlightInv /\ [Next]_vars => FlightInv'
<1> SUFFICES ASSUME TypeOK, FlightInv, [Next]_vars
             PROVE  FlightInv'
  OBVIOUS
<1>1. CASE UNCHANGED vars
  BY <1>1 DEF vars, daemon, maps, procs, watch, FlightInv, Critical
<1>2. CASE Tick
  BY <1>2, TickFlight
<1>3. CASE Act
  BY <1>3, ClientFlight, FireFlight, StartingFlight, StoppingFlight, ProxyingFlight,
     WaitingFlight, WorldFlight, SyncFlight DEF Act, Step
<1>4. QED
  BY <1>1, <1>2, <1>3 DEF Next

\* Two goroutines past the inspect for one container hold the same mutex.
LEMMA FlightImpliesSingle == FlightInv => SingleFlight
  BY DEF FlightInv, SingleFlight

\* FlightInv is an invariant: the start-lock map keeps one mutex per
\* container, held by whoever is past the inspect of startContainer.
THEOREM StartLocksSound ==
  ASSUME "remove" \notin EnvSteps
  PROVE  Spec => []FlightInv
<1>1. TypeOK /\ FlightInv /\ [Next]_vars => FlightInv'
  BY NextFlight
<1>2. QED
  BY <1>1, InitFlight, TypeCorrect, PTL DEF Spec

\* Container starts are single-flight per container for any number of
\* services, requests, callbacks and mutexes, with Docker failures, crashes
\* and outside starts, as long as no container is removed.
THEOREM SingleFlightHolds ==
  ASSUME "remove" \notin EnvSteps
  PROVE  Spec => []SingleFlight
  BY StartLocksSound, FlightImpliesSingle, PTL

-----------------------------------------------------------------------------
(* Starts go to stopped containers. *)

\* The points of startContainer at which the inspect's answer is relied on.
Targeting == {"mark_start", "docker_start", "mark_unpause", "docker_unpause"}

\* StartTargetsStopped, strengthened: only the pause strategy unpauses.
TargetInv ==
  /\ StartTargetsStopped
  /\ \A p \in Proc : pc[p] \in {"mark_unpause", "docker_unpause"} => cfg[p] \in Pause

\* What TargetInv needs of a step that leaves the goroutines' places alone.
LEMMA TargetFrame ==
  ASSUME TargetInv, UNCHANGED <<pc, cfg>>,
         \A q \in Proc : pc[q] \in Targeting => cstate'[cfg[q]] = cstate[cfg[q]]
  PROVE  TargetInv'
  BY DEF TargetInv, StartTargetsStopped, Targeting

\* The handlers' entries preserve TargetInv.
LEMMA ClientTarget ==
  ASSUME TypeOK, TargetInv, NEW p \in Requests, NEW s \in Services, Client(p, s)
  PROVE  TargetInv'
  BY DEF Client, HandleProxy, HandleWakeAll, HandleWake, HandleWait, HandleStop,
         HandleStopAll, Enter, Goto, TargetInv, StartTargetsStopped, TypeOK, Proc, daemon

\* Inside startContainer: the inspect establishes it, the mutex protects it
\* from the other starters.
LEMMA StartingTarget ==
  ASSUME TypeOK, FlightInv, TargetInv, NEW p \in Proc, Starting(p)
  PROVE  TargetInv'
<1> USE DEF TypeOK, TargetInv, StartTargetsStopped, OnService
<1>1. CASE StartAcquire(p)
  BY <1>1 DEF StartAcquire, Goto, daemon
<1>2. CASE StartInspect(p)
  BY <1>2 DEF StartInspect, AlreadyUp, ContainerInspect, ReturnFromStart, Finish, Goto,
              daemon, CStates
<1>3. CASE StartMark(p)
  BY <1>3 DEF StartMark, Goto, daemon
<1>4. ASSUME pc[p] \in Critical, NEW q \in Proc, q # p, pc[q] \in Targeting
      PROVE  cfg[q] # cfg[p]
  BY <1>4, FlightImpliesSingle DEF SingleFlight, Targeting, Critical
<1>5. CASE DockerStart(p)
  <2>1. \A s \in Services : s # cfg[p] => cstate'[s] = cstate[s]
    BY <1>5 DEF DockerStart, DaemonStarts, daemon
  <2>2. /\ pc'[p] \notin Targeting
        /\ \A q \in Proc : q # p => pc'[q] = pc[q] /\ cfg'[q] = cfg[q]
    BY <1>5 DEF DockerStart, Started, NotStarted, ReturnFromStart, Finish, Goto, Targeting
  <2>3. QED
    BY <1>4, <1>5, <2>1, <2>2 DEF DockerStart, Critical, Targeting
<1>6. CASE DockerUnpause(p)
  <2>1. \A s \in Services : s # cfg[p] => cstate'[s] = cstate[s]
    BY <1>6 DEF DockerUnpause
  <2>2. /\ pc'[p] \notin Targeting
        /\ \A q \in Proc : q # p => pc'[q] = pc[q] /\ cfg'[q] = cfg[q]
    BY <1>6 DEF DockerUnpause, Started, NotStarted, ReturnFromStart, Finish, Goto, Targeting
  <2>3. QED
    BY <1>4, <1>6, <2>1, <2>2 DEF DockerUnpause, Critical, Targeting
<1>7. CASE StartFailed(p)
  BY <1>7 DEF StartFailed, ReturnFromStart, Finish, Goto, daemon
<1>8. QED
  BY <1>1, <1>2, <1>3, <1>5, <1>6, <1>7 DEF Starting

\* A stop leaves a stopped container stopped, and freezes only a running one.
LEMMA StoppingTarget ==
  ASSUME TypeOK, TargetInv, NEW p \in Proc, Stopping(p)
  PROVE  TargetInv'
<1> USE DEF TypeOK, TargetInv, StartTargetsStopped, OnService
<1>1. CASE StopAllInspect(p)
  BY <1>1 DEF StopAllInspect, Finish, Goto, daemon
<1>2. CASE StopTimer(p)
  BY <1>2 DEF StopTimer, Goto, daemon
<1>3. CASE DockerStop(p)
  <2>1. \A q \in Proc : pc[q] \in Targeting => cstate'[cfg[q]] = cstate[cfg[q]]
    BY <1>3 DEF DockerStop, DaemonStops, Stoppable, Targeting, daemon
  <2>2. /\ pc'[p] \notin Targeting
        /\ \A q \in Proc : q # p => pc'[q] = pc[q] /\ cfg'[q] = cfg[q]
    BY <1>3 DEF DockerStop, Finish, Goto, Targeting
  <2>3. QED
    BY <2>1, <2>2 DEF Targeting
<1>4. CASE StopClear(p)
  BY <1>4 DEF StopClear, Finish, Goto, daemon
<1>5. QED
  BY <1>1, <1>2, <1>3, <1>4 DEF Stopping

\* Probing, serving and waiting call no Docker operation that changes a
\* container.
LEMMA OthersTarget ==
  ASSUME TypeOK, TargetInv, NEW p \in Proc, Proxying(p) \/ Waiting(p)
  PROVE  TargetInv'
<1> USE DEF TypeOK, TargetInv, StartTargetsStopped, daemon
<1>1. CASE ProbeAcquire(p)
  BY <1>1 DEF ProbeAcquire, Goto
<1>2. CASE Probe(p)
  BY <1>2 DEF Probe, Finish, Goto
<1>3. CASE ResetIdleTimer(p)
  BY <1>3 DEF ResetIdleTimer, Goto
<1>4. CASE Serve(p) \/ WaitVerdict(p) \/ WaitClear(p)
  BY <1>4 DEF Serve, WaitVerdict, WaitClear, Finish, Goto
<1>5. CASE WaitCheck(p) \/ WaitMark(p)
  BY <1>5 DEF WaitCheck, WaitMark, Goto
<1>6. QED
  BY <1>1, <1>2, <1>3, <1>4, <1>5 DEF Proxying, Waiting

\* A crash does not touch a container that does not run.
LEMMA WorldTarget ==
  ASSUME {"remove", "start"} \cap EnvSteps = {}, TypeOK, TargetInv,
         NEW s \in Services, Ready(s) \/ Env(s)
  PROVE  TargetInv'
<1>1. UNCHANGED <<pc, cfg>>
  BY DEF Ready, Env, ReadySeen, ReadyApply, PortOpens, ContainerExit, ExternalStart,
         Remove, Create, procs
<1>2. ASSUME NEW q \in Proc, pc[q] \in Targeting
      PROVE  cstate'[cfg[q]] = cstate[cfg[q]]
  BY <1>2 DEF Ready, Env, ReadySeen, ReadyApply, PortOpens, ContainerExit, ExternalStart,
              Remove, Create, daemon, TypeOK, OnService, TargetInv, StartTargetsStopped, Targeting
<1>3. QED
  BY <1>1, <1>2, TargetFrame

\* TargetInv is inductive under TypeOK and FlightInv, while containers are
\* neither removed nor started from outside.
LEMMA NextTarget ==
  ASSUME {"remove", "start"} \cap EnvSteps = {}
  PROVE  TypeOK /\ FlightInv /\ TargetInv /\ [Next]_vars => TargetInv'
<1> SUFFICES ASSUME TypeOK, FlightInv, TargetInv, [Next]_vars
             PROVE  TargetInv'
  OBVIOUS
<1>1. CASE UNCHANGED vars
  BY <1>1 DEF vars, daemon, procs, TargetInv, StartTargetsStopped
<1>2. CASE Tick \/ Sync
  BY <1>2 DEF Tick, Sync, SyncList, SyncApply, SyncArm, SyncEnd, daemon, procs,
              TargetInv, StartTargetsStopped
<1>3. ASSUME NEW p \in Callbacks, NEW k \in Names, FireIdleTimer(p, k)
      PROVE  TargetInv'
  BY <1>3 DEF FireIdleTimer, Enter, Goto, daemon, TypeOK, Proc, TargetInv, StartTargetsStopped
<1>4. CASE Act
  BY <1>2, <1>3, <1>4, ClientTarget, StartingTarget, StoppingTarget, OthersTarget,
     WorldTarget DEF Act, Step
<1>5. QED
  BY <1>1, <1>2, <1>4 DEF Next

\* Every ContainerStart docknap issues goes to a stopped container and every
\* ContainerUnpause to a frozen one, for every instance whose containers are
\* neither removed nor started from outside, although /stop, /stop_all, the
\* idle callbacks and crashes never take the start lock.
THEOREM StartsTargetStopped ==
  ASSUME {"remove", "start"} \cap EnvSteps = {}
  PROVE  Spec => []StartTargetsStopped
<1>1. Init => TargetInv
  BY DEF Init, TargetInv, StartTargetsStopped
<1>2. TypeOK /\ FlightInv /\ TargetInv /\ [Next]_vars => TargetInv'
  BY NextTarget
<1>3. "remove" \notin EnvSteps
  OBVIOUS
<1>4. Spec => []FlightInv
  BY <1>3, StartLocksSound
<1>5. TargetInv => StartTargetsStopped
  BY DEF TargetInv
<1>6. QED
  BY <1>1, <1>2, <1>4, <1>5, TypeCorrect, PTL DEF Spec
-----------------------------------------------------------------------------
(* The boot origin. *)

\* A goroutine's step keeps a recorded boot origin or deletes it.
LEMMA StepOrigin ==
  ASSUME TypeOK, NEW p \in Proc, Step(p), NEW s \in Services,
         bootStarts[s] # None, bootStarts'[s] # None
  PROVE  bootStarts'[s] = bootStarts[s]
<1> USE DEF TypeOK, maps
<1>1. CASE Starting(p)
  BY <1>1 DEF Starting, StartAcquire, StartInspect, StartMark, DockerStart, DockerUnpause,
              StartFailed, MarkBootStart, ClearBootStart
<1>2. CASE Stopping(p)
  BY <1>2 DEF Stopping, StopAllInspect, StopTimer, DockerStop, StopClear
<1>3. CASE Proxying(p)
  BY <1>3 DEF Proxying, ProbeAcquire, Probe, ResetIdleTimer, Serve
<1>4. CASE Waiting(p)
  BY <1>4 DEF Waiting, WaitCheck, WaitMark, WaitVerdict, WaitClear, MarkBootStart, ClearBootStart
<1>5. QED
  BY <1>1, <1>2, <1>3, <1>4 DEF Step

\* So do clients, idle callbacks, waitForReady, the containers and the sync.
LEMMA OthersOrigin ==
  ASSUME TypeOK, Act, ~(\E p \in Proc : Step(p)), NEW s \in Services,
         bootStarts[s] # None, bootStarts'[s] # None
  PROVE  bootStarts'[s] = bootStarts[s]
<1> USE DEF TypeOK, maps
<1>1. ASSUME NEW p \in Requests, NEW t \in Services, Client(p, t)
      PROVE  bootStarts' = bootStarts
  BY <1>1 DEF Client, HandleProxy, HandleWakeAll, HandleWake, HandleWait, HandleStop, HandleStopAll
<1>2. ASSUME NEW p \in Callbacks, NEW k \in Names, FireIdleTimer(p, k)
      PROVE  bootStarts' = bootStarts
  BY <1>2 DEF FireIdleTimer
<1>3. ASSUME NEW t \in Services, Ready(t) \/ Env(t)
      PROVE  bootStarts'[s] = bootStarts[s]
  BY <1>3 DEF Ready, Env, ReadySeen, ReadyApply, ClearBootStart, PortOpens, ContainerExit,
              ExternalStart, Remove, Create
<1>4. CASE Sync
  BY <1>4 DEF Sync, SyncList, SyncApply, SyncArm, SyncEnd, Drop
<1>5. QED
  BY <1>1, <1>2, <1>3, <1>4 DEF Act

\* A recorded boot origin is never pushed forward: under any interleaving of
\* starters, waiters, waitForReady goroutines and syncs it only grows older
\* until it is deleted (markBootStart keeps the first origin).
THEOREM BootOriginStays == Spec => BootOriginStable
<1>1. ASSUME TypeOK, [Next]_vars, NEW s \in Services, bootStarts[s] # None, bootStarts'[s] # None
      PROVE  bootStarts'[s] >= bootStarts[s]
  <2>1. bootStarts[s] \in Nat
    BY <1>1, BoundsAssumption DEF TypeOK, Ages, AgeCap
  <2>2. CASE Tick
    <3>1. bootStarts'[s] = Older(bootStarts[s])
      BY <1>1, <2>2 DEF Tick, Aged, TypeOK
    <3>2. QED
      BY <2>1, <3>1, BoundsAssumption DEF Older, AgeCap
  <2>3. CASE Act \/ UNCHANGED vars
    <3>1. bootStarts'[s] = bootStarts[s]
      BY <1>1, <2>3, StepOrigin, OthersOrigin DEF vars, maps
    <3>2. QED
      BY <2>1, <3>1
  <2>4. QED
    BY <1>1, <2>2, <2>3 DEF Next
<1>2. TypeOK /\ [Next]_vars =>
        [\A s \in Services : bootStarts[s] # None /\ bootStarts'[s] # None =>
                               bootStarts'[s] >= bootStarts[s]]_vars
  BY <1>1
<1>3. QED
  BY <1>2, TypeCorrect, PTL DEF Spec, BootOriginStable
-----------------------------------------------------------------------------
(* Services without an idle timeout. *)

\* DisabledNeverIdleStopped, strengthened: the sync will not arm one either.
DisabledInv == DisabledNeverIdleStopped /\ toArm \cap DisableIdle = {}

\* The requests' and callbacks' own steps preserve DisabledInv.
LEMMA StepDisabled ==
  ASSUME TypeOK, DisabledInv, NEW p \in Proc, Step(p)
  PROVE  DisabledInv'
<1> USE SetsAssumption DEF TypeOK, DisabledInv, DisabledNeverIdleStopped, Names, Proc, maps, watch
<1>1. CASE Starting(p)
  <2>1. idleTimers' = idleTimers /\ toArm' = toArm
    BY <1>1 DEF Starting, StartAcquire, StartInspect, StartMark, DockerStart, DockerUnpause, StartFailed
  <2>2. cfg' \in {cfg, [cfg EXCEPT ![p] = Blank]}
    BY <1>1 DEF Starting, StartAcquire, StartInspect, StartMark, DockerStart, DockerUnpause,
                StartFailed, Started, NotStarted, ReturnFromStart, Finish
  <2>3. QED
    BY <2>1, <2>2
<1>2. CASE Stopping(p)
  BY <1>2 DEF Stopping, StopAllInspect, StopTimer, DockerStop, StopClear, Finish
<1>3. CASE Proxying(p)
  BY <1>3 DEF Proxying, ProbeAcquire, Probe, ResetIdleTimer, Serve, Finish
<1>4. CASE Waiting(p)
  BY <1>4 DEF Waiting, WaitCheck, WaitMark, WaitVerdict, WaitClear, Finish
<1>5. QED
  BY <1>1, <1>2, <1>3, <1>4 DEF Step

\* So do all the others: discover and the sync leave the services out, and a
\* timer that fires belongs to a service with an idle timeout.
LEMMA OthersDisabled ==
  ASSUME TypeOK, DisabledInv, Act \/ Tick, ~(\E p \in Proc : Step(p))
  PROVE  DisabledInv'
<1> USE SetsAssumption DEF TypeOK, DisabledInv, DisabledNeverIdleStopped, Names, Proc, maps, procs, watch
<1>1. ASSUME NEW p \in Requests, NEW t \in Services, Client(p, t)
      PROVE  DisabledInv'
  BY <1>1 DEF Client, HandleProxy, HandleWakeAll, HandleWake, HandleWait, HandleStop,
              HandleStopAll, Enter
<1>2. ASSUME NEW p \in Callbacks, NEW k \in Names, FireIdleTimer(p, k)
      PROVE  DisabledInv'
  <2>1. k \notin DisableIdle
    BY <1>2 DEF FireIdleTimer
  <2>2. QED
    BY <1>2, <2>1 DEF FireIdleTimer, Enter
<1>3. ASSUME NEW t \in Services, Ready(t) \/ Env(t)
      PROVE  DisabledInv'
  BY <1>3 DEF Ready, Env, ReadySeen, ReadyApply, PortOpens, ContainerExit, ExternalStart, Remove, Create
<1>4. CASE SyncList \/ SyncEnd
  BY <1>4 DEF SyncList, SyncEnd
<1>5. CASE SyncApply
  BY <1>5 DEF SyncApply, Drop, ArmName, Up
<1>6. ASSUME NEW k \in Names, SyncArm(k)
      PROVE  DisabledInv'
  BY <1>6 DEF SyncArm
<1>7. CASE Tick
  BY <1>7, BoundsAssumption DEF Tick
<1>8. QED
  BY <1>1, <1>2, <1>3, <1>4, <1>5, <1>6, <1>7 DEF Act, Sync

\* No service labelled docknap.disable_idle is ever put under an idle timer or
\* stopped by an idle callback, for any services, labels and interleaving,
\* removals and outside starts included (timers.go, docker.go discover).
THEOREM DisabledHolds == Spec => []DisabledNeverIdleStopped
<1>1. Init => DisabledInv
  BY SetsAssumption DEF Init, DisabledInv, DisabledNeverIdleStopped, Proc, Names
<1>2. TypeOK /\ DisabledInv /\ [Next]_vars => DisabledInv'
  <2> SUFFICES ASSUME TypeOK, DisabledInv, [Next]_vars
               PROVE  DisabledInv'
    OBVIOUS
  <2>1. CASE UNCHANGED vars
    BY <2>1 DEF vars, maps, procs, watch, DisabledInv, DisabledNeverIdleStopped
  <2>2. QED
    BY <2>1, StepDisabled, OthersDisabled DEF Next
<1>3. DisabledInv => DisabledNeverIdleStopped
  BY DEF DisabledInv
<1>4. QED
  BY <1>1, <1>2, <1>3, TypeCorrect, PTL DEF Spec
=============================================================================
