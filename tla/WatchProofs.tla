---------------------------- MODULE WatchProofs ----------------------------
(* Theorems about Watch, for every bound on the stream's messages. *)
EXTENDS Watch, TLAPS

\* Every step keeps the variables' types.
LEMMA WatchNextType == TypeOK /\ [Next]_vars => TypeOK'
<1> SUFFICES ASSUME TypeOK, [Next]_vars
             PROVE  TypeOK'
  OBVIOUS
<1> USE DEF TypeOK, Goroutine, outside
<1>1. CASE Watcher
  BY <1>1 DEF Watcher, Subscribe, Announce, WatchDone
<1>2. CASE Loop
  <2>1. CASE LoopMessage
    BY <2>1, WatchAssumption DEF LoopMessage
  <2>2. CASE LoopSync
    BY <2>2 DEF LoopSync, SyncContainers
  <2>3. QED
    BY <1>2, <2>1, <2>2 DEF Loop, LoopCancelled, LoopClosed, LoopDebounced, LoopTicked, LoopError
<1>3. CASE Poll
  BY <1>3, Zenon DEF Poll, PollCancelled, PollTicked, PollSync, SyncContainers
<1>4. CASE Fire
  <2>1. debounce' \in {"nil", "set", "due"}
    BY <1>4 DEF Fire
  <2>2. loopTick' \in BOOLEAN /\ pollTick' \in BOOLEAN
    BY <1>4, Zenon DEF Fire
  <2>3. QED
    BY <1>4, <2>1, <2>2 DEF Fire
<1>5. CASE Change
  BY <1>5, WatchAssumption DEF Change
<1>6. CASE StreamEnds \/ Cancel
  <2>1. stream' \in {"open", "error", "closed"}
    BY <1>6 DEF StreamEnds, Cancel
  <2>2. cancelled' \in BOOLEAN
    BY <1>6, Zenon DEF StreamEnds, Cancel
  <2>3. QED
    BY <1>6, <2>1, <2>2 DEF StreamEnds, Cancel
<1>7. CASE UNCHANGED vars
  BY <1>7 DEF vars
<1>8. QED
  BY <1>1, <1>2, <1>3, <1>4, <1>5, <1>6, <1>7 DEF Next

\* Type correctness of the watch goroutines; in particular the messages
\* waiting in the stream never go negative.
THEOREM WatchTypeCorrect == Spec => []TypeOK
<1>1. 0 \in 0..MaxEvents
  BY WatchAssumption
<1>2. Init => TypeOK
  BY <1>1, Zenon DEF Init, TypeOK, Goroutine
<1>3. QED
  BY <1>2, WatchNextType, PTL DEF Spec

\* HandOver: why OneSyncer holds: the polling goroutine is only started by
\* the event goroutine as it ends, and the event goroutine only once.
HandOver ==
  /\ loop \in {"select", "sync"} => poll = "none"
  /\ watcher = "subscribe" => loop = "none" /\ poll = "none"

\* Every step keeps the hand-over from the event goroutine to the polling
\* goroutine one-way.
LEMMA WatchNextHandOver == HandOver /\ [Next]_vars => HandOver'
<1> SUFFICES ASSUME HandOver, [Next]_vars
             PROVE  HandOver'
  OBVIOUS
<1> USE DEF HandOver, outside
<1>1. CASE Watcher
  BY <1>1 DEF Watcher, Subscribe, Announce, WatchDone
<1>2. CASE Loop
  BY <1>2 DEF Loop, LoopCancelled, LoopMessage, LoopClosed, LoopDebounced, LoopTicked,
              LoopError, LoopSync
<1>3. CASE Poll
  BY <1>3 DEF Poll, PollCancelled, PollTicked, PollSync
<1>4. CASE Fire \/ Change \/ StreamEnds \/ Cancel
  BY <1>4 DEF Fire, Change, StreamEnds, Cancel
<1>5. CASE UNCHANGED vars
  BY <1>5 DEF vars
<1>6. QED
  BY <1>1, <1>2, <1>3, <1>4, <1>5 DEF Next

\* At most one goroutine runs syncContainers, whatever the stream does: the
\* premise under which module Lifecycle has a single sync.
THEOREM OneSyncerHolds == Spec => []OneSyncer
<1>1. Init => HandOver
  BY DEF Init, HandOver
<1>2. HandOver => OneSyncer
  BY DEF HandOver, OneSyncer
<1>3. QED
  BY <1>1, <1>2, WatchNextHandOver, PTL DEF Spec
=============================================================================
