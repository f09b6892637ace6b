--------------------------- MODULE ProcessProofs ---------------------------
(* Theorems about Process, for every number of requests being served. *)
EXTENDS Process, TLAPS

\* The steps of main and of the process's surroundings keep the types.
LEMMA MainType ==
  ASSUME TypeOK, Main \/ DiscoverFails \/ ServerFails \/ Signal \/ MapRace \/ Daemon
  PROVE  TypeOK'
<1> USE ProcessAssumption DEF TypeOK, LockedPoints, ReqPoints, MainTo, goroutines
<1>1. ASSUME NEW from, NEW to \in {"done", "fatal", "crashed"}, Exit(from, to)
      PROVE  TypeOK'
  <2>1. {cancelled', hung', timer'} \subseteq BOOLEAN
    BY <1>1, Zenon DEF Exit
  <2>2. QED
    BY <1>1, <2>1 DEF Exit
<1>2. CASE DiscoverFails \/ ServerFails \/ MapRace \/ Shutdown
  BY <1>1, <1>2 DEF DiscoverFails, ServerFails, MapRace, Shutdown
<1>3. CASE Discover
  <2>1. {cancelled', hung', timer'} \subseteq BOOLEAN
    BY <1>3, Zenon DEF Discover
  <2>2. QED
    BY <1>3, <2>1 DEF Discover
<1>4. CASE Announced \/ RootCancel \/ Signal \/ Daemon
  <2>1. {cancelled', hung', timer'} \subseteq BOOLEAN
    BY <1>4, Zenon DEF Announced, RootCancel, Signal, Daemon
  <2>2. QED
    BY <1>4, <2>1 DEF Announced, RootCancel, Signal, Daemon
<1>5. CASE StopAllIdleTimers
  <2>1. {cancelled', hung', timer'} \subseteq BOOLEAN
    BY <1>5, Zenon DEF StopAllIdleTimers
  <2>2. QED
    BY <1>5, <2>1 DEF StopAllIdleTimers
<1>6. QED
  BY <1>2, <1>3, <1>4, <1>5 DEF Main

\* The watch goroutine, the idle callback and the scrapes keep the types.
LEMMA GoroutineType ==
  ASSUME TypeOK, Sync \/ Idle \/ Fire \/ ScrapeBegins \/ ScrapeEnds
  PROVE  TypeOK'
<1> USE ProcessAssumption DEF TypeOK, LockedPoints, ReqPoints
<1>1. {cancelled', hung', timer'} \subseteq BOOLEAN
  BY Zenon DEF Sync, SyncListed, SyncApply, SyncInspected, SyncArm, SyncRest, Idle, Fire, CountIdle,
               DeleteTimer, RecordStop, IdleRest, ScrapeBegins, ScrapeEnds, ScrapeTo
<1>2. CASE Sync
  BY <1>1, <1>2 DEF Sync, SyncListed, SyncApply, SyncInspected, SyncArm, SyncTo, SyncRest
<1>3. CASE Idle \/ Fire
  BY <1>1, <1>3 DEF Idle, Fire, CountIdle, DeleteTimer, RecordStop, IdleTo, IdleRest
<1>4. CASE ScrapeBegins \/ ScrapeEnds
  BY <1>1, <1>4 DEF ScrapeBegins, ScrapeEnds, ScrapeTo
<1>5. QED
  BY <1>2, <1>3, <1>4

\* A request's steps keep the types: it takes the start lock only when it is
\* free and gives it back on every way out of handleProxy and startContainer.
LEMMA RequestType ==
  ASSUME TypeOK, NEW r \in Requests, Request(r) \/ Lookup(r)
  PROVE  TypeOK'
<1> USE ProcessAssumption DEF TypeOK, LockedPoints, ReqPoints, ReqTo, ReqRest
<1>1. {cancelled', hung', timer'} \subseteq BOOLEAN
  BY Zenon DEF Request, LookedUp, Acquire, Probed, Inspected, CountStart, Mark, Started, StartFailed,
               ResetIdleTimer, CountProxy, Lookup
<1>2. CASE Acquire(r)
  BY <1>1, <1>2 DEF Acquire, Calls
<1>3. CASE Probed(r) \/ Inspected(r)
  BY <1>1, <1>3 DEF Probed, Inspected
<1>4. CASE CountStart(r) \/ Mark(r) \/ ResetIdleTimer(r) \/ CountProxy(r)
  BY <1>1, <1>4 DEF CountStart, Mark, ResetIdleTimer, CountProxy
<1>5. CASE Started(r) \/ StartFailed(r)
  BY <1>1, <1>5 DEF Started, StartFailed
<1>6. CASE Lookup(r) \/ LookedUp(r)
  BY <1>1, <1>6 DEF Lookup, LookedUp
<1>7. QED
  BY <1>2, <1>3, <1>4, <1>5, <1>6 DEF Request

\* Type correctness of the process; in particular the start lock is held by
\* exactly the request between its Lock and its Unlock, so that no error
\* return leaks it and no two requests have it (docker.go, proxy.go).
THEOREM ProcessTypeCorrect == Spec => []TypeOK
<1>1. Init => TypeOK
  <2> SUFFICES ASSUME Init
               PROVE  TypeOK
    OBVIOUS
  <2>1. {cancelled, hung, timer} \subseteq BOOLEAN
    BY Zenon DEF Init
  <2>2. QED
    BY <2>1, ProcessAssumption DEF Init, TypeOK, LockedPoints, ReqPoints
<1>2. TypeOK /\ UNCHANGED vars => TypeOK'
  BY Zenon DEF TypeOK, vars, goroutines
<1>3. TypeOK /\ [Next]_vars => TypeOK'
  BY <1>2, MainType, GoroutineType, RequestType DEF Next, Environment
<1>4. QED
  BY <1>1, <1>3, PTL DEF Spec
-----------------------------------------------------------------------------
(* The order of the locks *)

\* LockOrder: why the waits of RequestsReturn and ShutdownCompletes close no
\* circle.  Between two steps s.mu is held by nobody but a sync that waits for
\* the daemon, never for a lock; whoever holds the start lock is past the
\* points at which it is waited for; so a request that waits for the start
\* lock waits for one that needs at most s.mu or the metrics lock.  The watch
\* goroutine starts after discover.
LockOrder ==
  /\ mu = "sync" <=> sync = "inspect"
  /\ mu # "sync" => mu = Nobody
  /\ \A r \in Requests : startLock = r => req[r] \notin {"lock", "probe_lock"}
  /\ startLock \in Requests \cup {Nobody}
  /\ main = "discover" => sync = "none"

\* The sync and the ends of the process preserve LockOrder.
LEMMA MuOrder ==
  ASSUME TypeOK, LockOrder, Sync \/ (\E to : \E from : to # "discover" /\ Exit(from, to))
  PROVE  LockOrder'
<1> USE ProcessAssumption DEF TypeOK, LockOrder, LockedPoints
<1>1. CASE Sync
  BY <1>1 DEF Sync, SyncListed, SyncApply, SyncInspected, SyncArm, SyncTo, SyncRest, MuFree, MuReadable
<1>2. ASSUME NEW from, NEW to, to # "discover", Exit(from, to)
      PROVE  LockOrder'
  BY <1>2 DEF Exit, MainTo
<1>3. QED
  BY <1>1, <1>2

\* A request's steps preserve LockOrder.
LEMMA RequestOrder ==
  ASSUME TypeOK, LockOrder, NEW r \in Requests, Request(r) \/ Lookup(r)
  PROVE  LockOrder'
<1> USE ProcessAssumption DEF TypeOK, LockOrder, LockedPoints, ReqTo, ReqRest
<1>1. CASE Acquire(r)
  BY <1>1 DEF Acquire, Calls
<1>2. CASE ~Acquire(r)
  BY <1>2 DEF Request, LookedUp, Probed, Inspected, CountStart, Mark, Started, StartFailed, ResetIdleTimer,
              CountProxy, Lookup
<1>3. QED
  BY <1>1, <1>2

\* s.mu is waited for only by goroutines that its holder does not wait for, and
\* the start lock only by requests whose holder has passed it: the nesting of
\* the locks in startContainer, syncContainers and writeTo is acyclic.
THEOREM LocksOrdered == Spec => []LockOrder
<1>1. Init => LockOrder
  BY ProcessAssumption DEF Init, LockOrder
<1>2. TypeOK /\ LockOrder /\ [Next]_vars => LockOrder'
  <2> SUFFICES ASSUME TypeOK, LockOrder, [Next]_vars
               PROVE  LockOrder'
    OBVIOUS
  <2>1. CASE DiscoverFails \/ ServerFails \/ MapRace \/ Shutdown \/ Sync
    BY <2>1, MuOrder DEF DiscoverFails, ServerFails, MapRace, Shutdown
  <2>2. CASE Discover
    BY <2>2, ProcessAssumption DEF Discover, MainTo, LockOrder
  <2>3. CASE Announced \/ RootCancel \/ StopAllIdleTimers \/ Signal \/ Daemon \/ UNCHANGED vars
    BY <2>3 DEF Announced, RootCancel, StopAllIdleTimers, Signal, Daemon, goroutines, vars,
                MainTo, LockOrder
  <2>4. CASE Idle \/ Fire \/ ScrapeBegins \/ ScrapeEnds
    BY <2>4 DEF Idle, Fire, CountIdle, DeleteTimer, RecordStop, IdleRest, ScrapeBegins,
                ScrapeEnds, ScrapeTo, LockOrder
  <2>5. QED
    BY <2>1, <2>2, <2>3, <2>4, RequestOrder DEF Next, Main, Environment
<1>3. QED
  BY <1>1, <1>2, ProcessTypeCorrect, PTL DEF Spec
-----------------------------------------------------------------------------
(* Readers of s.configs *)

\* ReadersInv: a request reads s.configs only while it has s.mu read-locked,
\* and nobody has s.mu read-locked while the sync has it locked.
ReadersInv ==
  /\ \A r \in Requests : req[r] = "lookup" => r \in readers
  /\ readers # {} => mu # "sync"

\* ReadersInv is inductive: SyncApply waits for the readers, a reader for the
\* sync, and a request gives up its read lock only when it has left the map.
LEMMA ReadersStep == TypeOK /\ LockOrder /\ ReadersInv /\ [Next]_vars => ReadersInv'
<1> SUFFICES ASSUME TypeOK, LockOrder, ReadersInv, [Next]_vars
             PROVE  ReadersInv'
  OBVIOUS
<1> USE ProcessAssumption DEF ReadersInv
<1>1. ASSUME NEW from, NEW to, Exit(from, to)
      PROVE  ReadersInv'
  BY <1>1 DEF Exit
<1>2. CASE DiscoverFails \/ ServerFails \/ MapRace \/ Shutdown
  BY <1>1, <1>2 DEF DiscoverFails, ServerFails, MapRace, Shutdown
<1>3. CASE Discover \/ Announced \/ RootCancel \/ StopAllIdleTimers \/ Signal \/ Daemon \/ UNCHANGED vars
  BY <1>3 DEF Discover, Announced, RootCancel, StopAllIdleTimers, Signal, Daemon, goroutines, vars
<1>4. CASE Idle \/ Fire \/ ScrapeBegins \/ ScrapeEnds
  BY <1>4 DEF Idle, Fire, CountIdle, DeleteTimer, RecordStop, IdleRest, ScrapeBegins, ScrapeEnds, ScrapeTo
<1>5. CASE Sync
  BY <1>5 DEF Sync, SyncListed, SyncApply, SyncInspected, SyncArm, SyncRest, MuFree
<1>6. ASSUME NEW r \in Requests, Request(r) \/ Lookup(r)
      PROVE  ReadersInv'
  <2>1. req \in [Requests -> ReqPoints \cup {"none"}] /\ mu' = mu
    BY <1>6 DEF TypeOK, Request, LookedUp, Acquire, Probed, Inspected, CountStart, Mark, Started,
                StartFailed, ResetIdleTimer, CountProxy, Lookup, ReqRest
  <2>2. CASE Lookup(r)
    BY <2>1, <2>2 DEF Lookup, ReqTo, MuReadable
  <2>3. CASE LookedUp(r)
    BY <2>1, <2>3 DEF LookedUp, ReqTo
  <2>4. CASE Acquire(r)
    BY <2>1, <2>4 DEF Acquire, Calls, ReqTo
  <2>5. CASE ~(Lookup(r) \/ LookedUp(r) \/ Acquire(r))
    BY <1>6, <2>1, <2>5 DEF Request, Probed, Inspected, CountStart, Mark, Started, StartFailed,
                            ResetIdleTimer, CountProxy, ReqTo
  <2>6. QED
    BY <2>2, <2>3, <2>4, <2>5
<1>7. QED
  BY <1>2, <1>3, <1>4, <1>5, <1>6 DEF Next, Main, Environment

\* However many requests come, none reads s.configs while the sync writes it,
\* although the sync keeps s.mu over a call to the daemon.
THEOREM LookupsNeverRaceHolds == Spec => []LookupsNeverRace
<1>1. Init => ReadersInv
  BY DEF Init, ReadersInv
<1>2. LockOrder /\ ReadersInv => LookupsNeverRace
  BY DEF LockOrder, ReadersInv, LookupsNeverRace
<1>3. QED
  BY <1>1, <1>2, ReadersStep, LocksOrdered, ProcessTypeCorrect, PTL DEF Spec
=============================================================================
