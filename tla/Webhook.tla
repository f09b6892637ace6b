------------------------------ MODULE Webhook ------------------------------
(***************************************************************************)
(* The webhook sender (webhooks.go): notify puts an event on a bounded     *)
(* channel or drops it, one worker goroutine posts what it takes from the  *)
(* channel, shutdown ends the worker.  Events are numbered in the order of *)
(* the notify calls that pass the filter.                                  *)
(***************************************************************************)
EXTENDS Naturals, Sequences

CONSTANTS
  Types,      \* event types
  Enabled,    \* types in DOCKNAP_WEBHOOK_EVENTS
  QueueCap,   \* capacity of the channel (256 in the code)
  MaxNotify,  \* bound: events notified
  NoEvent

ASSUME WebhookAssumption ==
  /\ Enabled \subseteq Types
  /\ QueueCap \in Nat \ {0}
  /\ MaxNotify \in Nat
  /\ NoEvent \notin Nat

VARIABLES
  count,     \* events notified so far
  queue,     \* the channel
  worker,    \* goroutine of run: "select", "send", "done"
  sending,   \* the event the worker is posting
  posted,    \* events that reached the receiver, in order of arrival
  ctxDone,   \* w.ctx is cancelled
  stopped,   \* w.stop is closed
  main       \* main in shutdown: "running", "cancelled", "waiting", "done"

vars == <<count, queue, worker, sending, posted, ctxDone, stopped, main>>

Init ==
  /\ count = 0 /\ queue = <<>> /\ worker = "select" /\ sending = NoEvent
  /\ posted = <<>> /\ ctxDone = FALSE /\ stopped = FALSE /\ main = "running"

\* notify: select with a default never blocks; a type that is not enabled
\* changes nothing.  The channel is never closed, so it may also be called
\* after shutdown.
Notify(t) ==
  /\ count < MaxNotify
  /\ t \in Enabled
  /\ count' = count + 1
  /\ queue' = IF Len(queue) < QueueCap THEN Append(queue, count + 1) ELSE queue
  /\ UNCHANGED <<worker, sending, posted, ctxDone, stopped, main>>

\* run: select chooses any case that is ready.
Take ==
  /\ worker = "select" /\ queue # <<>>
  /\ worker' = "send"
  /\ sending' = Head(queue)
  /\ queue' = Tail(queue)
  /\ UNCHANGED <<count, posted, ctxDone, stopped, main>>

\* Mutant: only the queue ends the worker's wait.
QuitNever == FALSE /\ UNCHANGED vars

Quit ==
  /\ worker = "select" /\ (stopped \/ ctxDone)
  /\ worker' = "done"
  /\ UNCHANGED <<count, queue, sending, posted, ctxDone, stopped, main>>

\* Mutant: a failed post is tried again.
SendRetried ==
  /\ worker = "send"
  /\ \/ posted' = Append(posted, sending) /\ worker' = "select" /\ sending' = NoEvent
     \/ posted' \in {posted, Append(posted, sending)} /\ UNCHANGED <<worker, sending>>
  /\ UNCHANGED <<count, queue, ctxDone, stopped, main>>

\* send: the request reaches the receiver or not; an error, a non-2xx status
\* or the three-second timeout all end the attempt.
Send ==
  /\ worker = "send"
  /\ posted' \in {posted, Append(posted, sending)}
  /\ worker' = "select"
  /\ sending' = NoEvent
  /\ UNCHANGED <<count, queue, ctxDone, stopped, main>>

\* main cancels the root context, then calls shutdown: w.cancel().
ShutdownCancel ==
  /\ main = "running"
  /\ ctxDone' = TRUE
  /\ main' = "cancelled"
  /\ UNCHANGED <<count, queue, worker, sending, posted, stopped>>

ShutdownClose ==
  /\ main = "cancelled"
  /\ stopped' = TRUE
  /\ main' = "waiting"
  /\ UNCHANGED <<count, queue, worker, sending, posted, ctxDone>>

ShutdownWait ==
  /\ main = "waiting" /\ worker = "done"
  /\ main' = "done"
  /\ UNCHANGED <<count, queue, worker, sending, posted, ctxDone, stopped>>

Shutdown == ShutdownCancel \/ ShutdownClose \/ ShutdownWait

Next == (\E t \in Types : Notify(t)) \/ Take \/ Quit \/ Send \/ Shutdown

Spec == Init /\ [][Next]_vars

\* The worker runs, a post ends within its timeout, select is random: a case
\* that stays ready is taken in the end; main goes on once it has begun.
Fairness ==
  /\ WF_vars(Take \/ Quit \/ Send)
  /\ SF_vars(Quit)
  /\ WF_vars(ShutdownClose) /\ WF_vars(ShutdownWait)

FairSpec == Spec /\ Fairness
-----------------------------------------------------------------------------
\* TypeOK: every variable has its type; the channel is within its capacity.
TypeOK ==
  /\ count \in 0..MaxNotify
  /\ queue \in Seq(1..MaxNotify) /\ Len(queue) <= QueueCap
  /\ worker \in {"select", "send", "done"}
  /\ sending \in 1..MaxNotify \cup {NoEvent}
  /\ posted \in Seq(1..MaxNotify)
  /\ ctxDone \in BOOLEAN /\ stopped \in BOOLEAN
  /\ main \in {"running", "cancelled", "waiting", "done"}

\* ImplementsBestEffort: the channel, the worker and shutdown together keep
\* the promise of BestEffort: at most once, in order, nothing after the end.
Promise == INSTANCE BestEffort WITH
             Room <- QueueCap + 1,
             last <- count,
             pending <- (IF worker = "send" THEN <<sending>> ELSE <<>>) \o queue,
             received <- posted,
             ended <- main = "done"
ImplementsBestEffort == Promise!Spec

\* ShutdownEnds: shutdown returns, also with a full queue, callers that go
\* on notifying and a receiver that never answers (webhooks.go shutdown).
ShutdownEnds == main = "cancelled" ~> main = "done"
=============================================================================
