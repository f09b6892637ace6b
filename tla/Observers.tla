----------------------------- MODULE Observers -----------------------------
(***************************************************************************)
(* What docknap reports about one service: the counters, histogram and     *)
(* event history that the lifecycle's goroutines feed one call at a time   *)
(* (docker.go startContainer, waitForReady; timers.go), the proxied        *)
(* requests (Response), and the pages that read them (Metrics;             *)
(* handlers_status.go).  The goroutines' decisions are in Lifecycle; here  *)
(* they run in any order and their Docker calls succeed or fail.           *)
(***************************************************************************)
EXTENDS Response

CONSTANTS
  Starters,   \* goroutines that run startContainer and then waitForReady
  Stoppers,   \* idle callbacks and stop handlers
  Elapsed,    \* start durations
  MaxEvents,  \* maxEventsPerService
  MaxLog,     \* bound: events recorded in one behaviour
  Casts       \* bound: the sets of actors that may take part in one behaviour,
              \* of Starters, Stoppers, Scrapers, Requests, "sync", "history"

ASSUME ObserversAssumption ==
  /\ {MaxEvents, MaxLog} \subseteq Nat \ {0} /\ Elapsed \subseteq Nat
  /\ {"starts", "idle", "stops"} \subseteq Series \ AllCodes
  /\ IsFiniteSet(Starters \cup Stoppers)

VARIABLES
  task,       \* where each goroutine is
  events,     \* s.events of the service: the types, oldest first
  log,        \* history: every event ever recorded
  cast,       \* who takes part in this behaviour
  hpage       \* handleServiceHistory: step, ready events and start count shown

ovars == <<task, events, log, cast, hpage>>
vars == <<mvars, rvars, ovars>>

Init ==
  /\ MInit /\ RInit
  /\ task = [t \in Starters \cup Stoppers |-> "none"]
  /\ events = <<>> /\ log = <<>>
  /\ cast \in Casts
  /\ hpage = [step |-> "none", ready |-> 0, count |-> 0]
-----------------------------------------------------------------------------
TaskTo(t, l) == task' = [task EXCEPT ![t] = l]
Count(s, e) == Cardinality({i \in DOMAIN s : s[i] = e})

\* Mutant: the newest event is dropped when the history is full.
RecordEventFull(e) ==
  /\ Len(log) < MaxLog
  /\ events' = IF Len(events) < MaxEvents THEN Append(events, e) ELSE events
  /\ log' = Append(log, e)

\* recordEvent, one critical section of s.mu.
RecordEvent(e) ==
  /\ Len(log) < MaxLog
  /\ LET all == Append(events, e)
     IN  events' = IF Len(all) > MaxEvents THEN SubSeq(all, Len(all) - MaxEvents + 1, Len(all)) ELSE all
  /\ log' = Append(log, e)

\* The same for a caller that holds s.mu.
RecordEventLocked(e) == RecordEvent(e)

Event(t, from, e, to) ==
  /\ task[t] = from
  /\ RecordEvent(e)
  /\ TaskTo(t, to)
  /\ UNCHANGED <<mvars, rvars, cast, hpage>>

AddStep(t, from, k, to) ==
  /\ task[t] = from
  /\ Add(k)
  /\ TaskTo(t, to)
  /\ UNCHANGED <<gauge, hist, observed, scrapes, cached, rvars, events, log, cast, hpage>>
-----------------------------------------------------------------------------
(* startContainer past its inspect, and its waitForReady *)

StartCounted(t)   == AddStep(t, "none", "starts", "counted")
StartRequested(t) == Event(t, "counted", "start_requested", "docker")
StartError(t)     == Event(t, "docker", "start_error", "none")

Started(t) ==
  /\ task[t] = "docker"
  /\ TaskTo(t, "waiting")
  /\ UNCHANGED <<mvars, rvars, events, log, cast, hpage>>

ReadyObserved(t) ==
  /\ task[t] = "waiting"
  /\ \E v \in Elapsed : Observe(v)
  /\ TaskTo(t, "observed")
  /\ UNCHANGED <<values, gauge, scrapes, cached, rvars, events, log, cast, hpage>>

ReadyRecorded(t) == Event(t, "observed", "ready", "none")

\* The root context ends the wait.
WaitCancelled(t) ==
  /\ task[t] = "waiting"
  /\ TaskTo(t, "none")
  /\ UNCHANGED <<mvars, rvars, events, log, cast, hpage>>

Starter(t) == \/ StartCounted(t) \/ StartRequested(t) \/ StartError(t) \/ Started(t)
              \/ ReadyObserved(t) \/ ReadyRecorded(t) \/ WaitCancelled(t)
-----------------------------------------------------------------------------
(* The idle callback and stopContainerWithReason *)

IdleCounted(t)  == AddStep(t, "none", "idle", "idle")
IdleRecorded(t) == Event(t, "idle", "idle_stop", "stop")

\* Mutant: handleStop counts the stop that stopContainerWithReason counts too
\* (the code before version 0.3.0).
ManualStopCounts(t) == AddStep(t, "none", "stops", "stop")

\* handleStop and handleStopAll go straight to the stop.
ManualStop(t) ==
  /\ task[t] = "none"
  /\ TaskTo(t, "stop")
  /\ UNCHANGED <<mvars, rvars, events, log, cast, hpage>>

\* Stopped or paused, and counted once the event is recorded.
Stopped(t)     == Event(t, "stop", "stopped", "stopped")
StopError(t)   == Event(t, "stop", "stop_error", "none")
StopCounted(t) == AddStep(t, "stopped", "stops", "none")

Stopper(t) == \/ IdleCounted(t) \/ IdleRecorded(t) \/ ManualStop(t)
              \/ Stopped(t) \/ StopError(t) \/ StopCounted(t)
-----------------------------------------------------------------------------
(* The sync, and the history page *)

\* syncContainers caches the state of the listing.
StateListed ==
  /\ cached' \in States /\ cached' # cached
  /\ UNCHANGED <<metrics, scrapes, rvars, ovars>>

\* The container is gone: the service is unregistered, its history stays.
Disappeared ==
  /\ cached # NoState /\ cached' = NoState
  /\ RecordEventLocked("disappeared")
  /\ UNCHANGED <<metrics, scrapes, rvars, task, cast, hpage>>

\* handleServiceHistory: the events are copied under s.mu ...
HistoryCopied ==
  /\ hpage.step = "none" /\ cached # NoState
  /\ hpage' = [step |-> "copied", ready |-> Count(events, "ready"), count |-> 0]
  /\ UNCHANGED <<mvars, rvars, task, events, log, cast>>

\* ... and after the inspect startupStatsFor reads the histogram, if the
\* service is still registered.
HistoryShown ==
  /\ hpage.step = "copied"
  /\ hpage' = IF cached = NoState THEN [hpage EXCEPT !.step = "none", !.ready = 0]
              ELSE [hpage EXCEPT !.step = "shown", !.count = HistogramStats]
  /\ UNCHANGED <<mvars, rvars, task, events, log, cast>>

HistoryEnds ==
  /\ hpage.step = "shown"
  /\ hpage' = [step |-> "none", ready |-> 0, count |-> 0]
  /\ UNCHANGED <<mvars, rvars, task, events, log, cast>>

\* Mutant: the statistics are read first and the events after the inspect.
HistorySwapped ==
  /\ \/ /\ hpage.step = "none" /\ cached # NoState
        /\ hpage' = [step |-> "copied", ready |-> 0, count |-> hist.count]
     \/ /\ hpage.step = "copied"
        /\ hpage' = [hpage EXCEPT !.step = "shown", !.ready = Count(events, "ready")]
  /\ UNCHANGED <<mvars, rvars, task, events, log, cast>>

History == HistoryCopied \/ HistoryShown \/ HistoryEnds

Next ==
  \/ \E t \in Starters \cap cast : Starter(t)
  \/ \E t \in Stoppers \cap cast : Stopper(t)
  \/ \E r \in Scrapers \cap cast : Scrape(r) /\ UNCHANGED <<rvars, ovars>>
  \/ \E q \in Requests \cap cast : Respond(q) /\ UNCHANGED ovars
  \/ "sync" \in cast /\ (StateListed \/ Disappeared)
  \/ "history" \in cast /\ History

Spec == Init /\ [][Next]_vars
-----------------------------------------------------------------------------
\* TypeOK: every variable has its type; the event history keeps its bound.
TypeOK ==
  /\ values \in [Series -> Nat] /\ gauge \subseteq States /\ cached \in States \cup {NoState}
  /\ scrape \in [Scrapers -> {"none", "set", "refreshed", "buckets", "count", "printed"}]
  /\ at \in [Requests -> {"port", "upstream", "body", "return", "panic", "recover", "end", "complete"}]
  /\ task \in [Starters \cup Stoppers -> {"none", "counted", "docker", "waiting", "observed",
                                          "idle", "stop", "stopped"}]
  /\ Len(events) <= MaxEvents /\ Len(log) <= MaxLog

At(l) == Cardinality({t \in DOMAIN task : task[t] = l})

\* LedgersAgree: counters, histogram and history tell one story: every series
\* has counted each of its events exactly once, up to the goroutines that are
\* between the two calls (startContainer, waitForReady, the idle callback,
\* stopContainerWithReason).  docknap_idle_timeouts_total counts the timeouts
\* that fired, also one whose stop then fails: see IdleTimeoutStopped.
LedgersAgree ==
  /\ values["starts"] = Count(log, "start_requested") + At("counted")
  /\ hist.count = Count(log, "ready") + At("observed")
  /\ values["idle"] = Count(log, "idle_stop") + At("idle")
  /\ values["stops"] = Count(log, "stopped") - At("stopped")

\* HistoryIsTail: the history is the newest MaxEvents events, in order,
\* however many goroutines record them (recordEvent, recordEventLocked).
HistoryIsTail ==
  events = SubSeq(log, Len(log) - Len(events) + 1, Len(log))
    /\ Len(events) = IF Len(log) < MaxEvents THEN Len(log) ELSE MaxEvents

\* HistoryExplained: the history page never shows more ready events than its
\* startup statistics have starts, although both are read at different times
\* and fed at different times (waitForReady, handleServiceHistory).
HistoryExplained == hpage.step = "shown" => hpage.ready <= hpage.count

\* PageOrdered: no scrape shows more completed starts than starts, although it
\* prints the counters first and the histogram later (writeTo holds r.mu).
PageOrdered ==
  \A r \in Scrapers : scrape[r] = "printed" => page[r].count <= page[r].values["starts"]

\* IdleTimeoutStopped: what README.md:301 and the metric's help text
\* (registry.go:83) say of docknap_idle_timeouts_total: "Idle timeouts that
\* stopped a container": when no goroutine is under way, it has counted no more
\* timeouts than there were stops.  The callback counts first and stops later,
\* and a stop that fails is not taken back (timers.go:20).
IdleTimeoutStopped ==
  (\A t \in DOMAIN task : task[t] = "none") => values["idle"] <= Count(log, "stopped")
=============================================================================
