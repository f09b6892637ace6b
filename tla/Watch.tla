------------------------------- MODULE Watch -------------------------------
(***************************************************************************)
(* How docknap follows the Docker daemon (docker.go watch,                 *)
(* subscribeDockerEvents, watchPoll): an event stream with a debounce, a   *)
(* ticker beside it, a polling goroutine that takes over when the stream   *)
(* fails, and the eventsOK flag that /readyz reports.                      *)
(*                                                                         *)
(* syncContainers is one step here; what it does is in module Lifecycle.   *)
(* subscribeDockerEvents always returns nil, so the branch of watch that   *)
(* handles its error is never taken and has no action.                     *)
(***************************************************************************)
EXTENDS Naturals

CONSTANTS
  MaxEvents,     \* bound: undelivered messages of the event stream
  StreamFaults,  \* how the stream may end: "error", "close"
  ListFails      \* TRUE: ContainerList may fail

ASSUME WatchAssumption ==
  /\ MaxEvents \in Nat
  /\ StreamFaults \subseteq {"error", "close"}
  /\ ListFails \in BOOLEAN

VARIABLES
  stale,      \* the daemon changed since docknap last listed the containers
  stream,     \* the event stream: "open", "error", "closed"
  msgs,       \* messages of the stream not yet received
  watcher,    \* goroutine of watch: "subscribe", "announce", "wait", "done"
  loop,       \* goroutine of subscribeDockerEvents
  debounce,   \* its debounce channel: "nil", "set", "due"
  loopTick,   \* its ticker holds a tick
  poll,       \* goroutine of watchPoll
  pollTick,   \* its ticker holds a tick
  eventsOK,   \* what /readyz answers from
  cancelled   \* rootCtx is done

outside == <<stale, stream, msgs, cancelled>>
vars == <<outside, watcher, loop, debounce, loopTick, poll, pollTick, eventsOK>>

Goroutine == {"none", "select", "sync", "done"}

Init ==
  /\ stale = FALSE /\ stream = "open" /\ msgs = 0 /\ cancelled = FALSE
  /\ watcher = "subscribe" /\ loop = "none" /\ poll = "none"
  /\ debounce = "nil" /\ loopTick = FALSE /\ pollTick = FALSE
  /\ eventsOK = FALSE
-----------------------------------------------------------------------------
(* watch *)

\* cli.Events, then go func: the new goroutine runs at once.
Subscribe ==
  /\ watcher = "subscribe"
  /\ watcher' = "announce"
  /\ loop' = "select"
  /\ UNCHANGED <<outside, debounce, loopTick, poll, pollTick, eventsOK>>

Announce ==
  /\ watcher = "announce"
  /\ eventsOK' = TRUE
  /\ watcher' = "wait"
  /\ UNCHANGED <<outside, loop, debounce, loopTick, poll, pollTick>>

WatchDone ==
  /\ watcher = "wait" /\ cancelled
  /\ watcher' = "done"
  /\ UNCHANGED <<outside, loop, debounce, loopTick, poll, pollTick, eventsOK>>
-----------------------------------------------------------------------------
(* The select of subscribeDockerEvents, one action per case. *)

LoopCancelled ==
  /\ loop = "select" /\ cancelled
  /\ loop' = "done"
  /\ UNCHANGED <<outside, watcher, debounce, loopTick, poll, pollTick, eventsOK>>

LoopMessage ==
  /\ loop = "select" /\ msgs > 0
  /\ msgs' = msgs - 1
  /\ debounce' = "set"
  /\ UNCHANGED <<stale, stream, cancelled, watcher, loop, loopTick, poll, pollTick,
                 eventsOK>>

\* The message channel was closed: the goroutine ends without a successor.
LoopClosed ==
  /\ loop = "select" /\ stream = "closed" /\ msgs = 0
  /\ loop' = "done"
  /\ UNCHANGED <<outside, watcher, debounce, loopTick, poll, pollTick, eventsOK>>

\* debounce is set to nil after the sync; nothing reads it meanwhile.
LoopDebounced ==
  /\ loop = "select" /\ debounce = "due"
  /\ loop' = "sync"
  /\ debounce' = "nil"
  /\ UNCHANGED <<outside, watcher, loopTick, poll, pollTick, eventsOK>>

\* Mutant: the ticker case is missing.
LoopTickedNever == FALSE /\ UNCHANGED vars

LoopTicked ==
  /\ loop = "select" /\ loopTick
  /\ loop' = "sync"
  /\ loopTick' = FALSE
  /\ UNCHANGED <<outside, watcher, debounce, poll, pollTick, eventsOK>>

\* Mutant: the goroutine goes on beside the polling one.
LoopErrorStays ==
  /\ loop = "select" /\ stream = "error"
  /\ eventsOK' = FALSE
  /\ poll' = "select"
  /\ UNCHANGED <<outside, watcher, loop, debounce, loopTick, pollTick>>

LoopError ==
  /\ loop = "select" /\ stream = "error"
  /\ eventsOK' = FALSE
  /\ poll' = "select"
  /\ loop' = "done"
  /\ UNCHANGED <<outside, watcher, debounce, loopTick, pollTick>>

\* syncContainers: a failed listing changes nothing.
SyncContainers ==
  \/ stale' = FALSE
  \/ ListFails /\ UNCHANGED stale

LoopSync ==
  /\ loop = "sync"
  /\ SyncContainers
  /\ loop' = "select"
  /\ UNCHANGED <<stream, msgs, cancelled, watcher, debounce, loopTick, poll, pollTick, eventsOK>>
-----------------------------------------------------------------------------
(* watchPoll *)

\* Mutant: ctx is not watched.
PollCancelledNever == FALSE /\ UNCHANGED vars

PollCancelled ==
  /\ poll = "select" /\ cancelled
  /\ poll' = "done"
  /\ UNCHANGED <<outside, watcher, loop, debounce, loopTick, pollTick, eventsOK>>

PollTicked ==
  /\ poll = "select" /\ pollTick
  /\ poll' = "sync"
  /\ pollTick' = FALSE
  /\ UNCHANGED <<outside, watcher, loop, debounce, loopTick, eventsOK>>

PollSync ==
  /\ poll = "sync"
  /\ SyncContainers
  /\ poll' = "select"
  /\ UNCHANGED <<stream, msgs, cancelled, watcher, loop, debounce, loopTick, pollTick, eventsOK>>
-----------------------------------------------------------------------------
(* Time, the daemon and main. *)

Fire ==
  /\ \/ /\ debounce = "set"
        /\ debounce' = "due"
        /\ UNCHANGED <<loopTick, pollTick>>
     \/ /\ loop \in {"select", "sync"} /\ ~loopTick
        /\ loopTick' = TRUE
        /\ UNCHANGED <<debounce, pollTick>>
     \/ /\ poll \in {"select", "sync"} /\ ~pollTick
        /\ pollTick' = TRUE
        /\ UNCHANGED <<debounce, loopTick>>
  /\ UNCHANGED <<outside, watcher, loop, poll, eventsOK>>

\* A container changes.  Not every change passes the subscription's filter
\* (pause, unpause and update do not).
Change ==
  /\ stale' = TRUE
  /\ msgs' \in {msgs} \cup (IF stream = "open" /\ msgs < MaxEvents THEN {msgs + 1} ELSE {})
  /\ UNCHANGED <<stream, cancelled, watcher, loop, debounce, loopTick, poll, pollTick,
                 eventsOK>>

StreamEnds ==
  /\ stream = "open"
  /\ \/ "error" \in StreamFaults \cup (IF cancelled THEN {"error"} ELSE {}) /\ stream' = "error"
     \/ "close" \in StreamFaults /\ stream' = "closed"
  /\ UNCHANGED <<stale, msgs, cancelled, watcher, loop, debounce, loopTick, poll, pollTick,
                 eventsOK>>

\* s.rootCancel() in main.
Cancel ==
  /\ ~cancelled
  /\ cancelled' = TRUE
  /\ UNCHANGED <<stale, stream, msgs, watcher, loop, debounce, loopTick, poll, pollTick,
                 eventsOK>>
-----------------------------------------------------------------------------
Watcher == Subscribe \/ Announce \/ WatchDone
Loop == LoopCancelled \/ LoopMessage \/ LoopClosed \/ LoopDebounced \/ LoopTicked
          \/ LoopError \/ LoopSync
Poll == PollCancelled \/ PollTicked \/ PollSync

Next == Watcher \/ Loop \/ Poll \/ Fire \/ Change \/ StreamEnds \/ Cancel

Spec == Init /\ [][Next]_vars

\* Goroutines run; select chooses at random among its ready cases, so a case
\* that is ready again and again is taken; tickers tick.  A debounce timer
\* that is replaced by every new message need never expire: no fairness.  A
\* daemon that is asked again and again answers with a listing in the end.
Fairness ==
  /\ WF_vars(Watcher) /\ WF_vars(Loop) /\ WF_vars(Poll)
  /\ SF_vars(LoopTicked) /\ SF_vars(LoopCancelled) /\ SF_vars(LoopError)
  /\ SF_vars(PollTicked) /\ SF_vars(PollCancelled)
  /\ SF_vars(LoopSync /\ ~stale') /\ SF_vars(PollSync /\ ~stale')
  /\ WF_vars(Fire /\ loopTick' # loopTick) /\ WF_vars(Fire /\ pollTick' # pollTick)

FairSpec == Spec /\ Fairness
-----------------------------------------------------------------------------
\* TypeOK: every variable has its type.
TypeOK ==
  /\ stale \in BOOLEAN /\ cancelled \in BOOLEAN /\ eventsOK \in BOOLEAN
  /\ stream \in {"open", "error", "closed"}
  /\ msgs \in 0..MaxEvents
  /\ watcher \in {"subscribe", "announce", "wait", "done"}
  /\ loop \in Goroutine /\ poll \in Goroutine
  /\ debounce \in {"nil", "set", "due"}
  /\ loopTick \in BOOLEAN /\ pollTick \in BOOLEAN

\* OneSyncer: the event goroutine and the polling goroutine never run
\* syncContainers at the same time; its unlocked read of known and its
\* later write of configs rely on being the only writer (docker.go).
OneSyncer == ~(loop \in {"select", "sync"} /\ poll \in {"select", "sync"})

\* EventuallySynced: a change of the daemon's containers is listed sooner or
\* later, also when messages keep resetting the debounce, when the change
\* sends no message and when listings or the stream fail; only a message
\* channel closed without an error ends the watching (docker.go).
EventuallySynced == stale ~> ~stale \/ cancelled \/ stream = "closed"

\* ShutdownStops: after rootCancel all watch goroutines end and stay ended.
ShutdownStops ==
  cancelled ~> [](watcher = "done" /\ loop = "done" /\ poll \in {"none", "done"})

\* ReadyzTells: what README.md:199 says of /_docknap/readyz: "200 when docker
\* events stream is healthy, 503 when polling fallback is in use".  The event
\* goroutine may report its error before watch sets the flag (docker.go:62).
ReadyzTells == poll \in {"select", "sync"} => ~eventsOK
=============================================================================
