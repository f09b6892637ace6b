------------------------------- MODULE LogTail -------------------------------
(***************************************************************************)
(* Live logs (logs.go) of one service: every /_docknap/logs request        *)
(* subscribes a bounded channel, starts a tailer goroutine that replaces   *)
(* the one before, and stops "the" tailer and unsubscribes when its client *)
(* leaves.  Services share nothing, so one is enough.                      *)
(*                                                                         *)
(* A tailer is named by the request that started it.  Its context, once    *)
(* cancelled, stays cancelled.                                             *)
(***************************************************************************)
EXTENDS Naturals, Sequences

CONSTANTS
  Clients,   \* requests to the endpoint
  ChanCap,   \* capacity of a subscriber's channel (64 in the code)
  ShutsDown, \* TRUE: docknap may shut down
  Nobody     \* no entry in lt.cancels

ASSUME LogTailAssumption == ChanCap \in Nat \ {0} /\ ShutsDown \in BOOLEAN /\ Nobody \notin Clients

VARIABLES
  client,      \* handleLogs: "out", "subscribed", "streaming", "leaving", "gone"
  subscribers, \* logSubscribers[sub], a slice: whose channels, in order
  chan,        \* lines waiting in each channel
  current,     \* whose tailer lt.cancels[sub] would cancel
  cancelled,   \* tailers whose context is cancelled
  tailer,      \* run: "none", "open", "check", "read", "publish", "ended"
  copied,      \* publishLogLine: its copy of the slice
  next,        \* ... and its position in the range loop
  offers,      \* history: how often the line being published was offered to each
  stayed       \* history: who has been in the slice since the copy was made

publishing == <<copied, next, offers, stayed>>
vars == <<client, subscribers, chan, current, cancelled, tailer, publishing>>

NoOffers == [c \in Clients |-> 0]

Init ==
  /\ client = [c \in Clients |-> "out"]
  /\ subscribers = <<>>
  /\ chan = [c \in Clients |-> 0]
  /\ current = Nobody
  /\ cancelled = {}
  /\ tailer = [c \in Clients |-> "none"]
  /\ copied = [t \in Clients |-> <<>>]
  /\ next = [t \in Clients |-> 1]
  /\ offers = [t \in Clients |-> NoOffers]
  /\ stayed = [t \in Clients |-> {}]
-----------------------------------------------------------------------------
(* handleLogs *)

\* subscribeLogs, once the service is known and has live logs enabled.
Subscribe(c) ==
  /\ client[c] = "out"
  /\ client' = [client EXCEPT ![c] = "subscribed"]
  /\ subscribers' = Append(subscribers, c)
  /\ UNCHANGED <<chan, current, cancelled, tailer, publishing>>

\* Mutant: the tailer before is left running.
StartBeside(c) ==
  /\ client[c] = "subscribed"
  /\ client' = [client EXCEPT ![c] = "streaming"]
  /\ current' = c
  /\ tailer' = [tailer EXCEPT ![c] = "open"]
  /\ UNCHANGED <<subscribers, chan, cancelled, publishing>>

\* logTailer.start: cancel the tailer in the map, put the new one there.
Start(c) ==
  /\ client[c] = "subscribed"
  /\ client' = [client EXCEPT ![c] = "streaming"]
  /\ cancelled' = cancelled \cup ({current} \ {Nobody})
  /\ current' = c
  /\ tailer' = [tailer EXCEPT ![c] = "open"]
  /\ UNCHANGED <<subscribers, chan, publishing>>

\* One line goes out to the client.
Receive(c) ==
  /\ client[c] = "streaming" /\ chan[c] > 0
  /\ chan' = [chan EXCEPT ![c] = @ - 1]
  /\ UNCHANGED <<client, subscribers, current, cancelled, tailer, publishing>>

\* Mutant: the deferred stop is missing.
LeaveUnstopped(c) ==
  /\ client[c] = "streaming"
  /\ client' = [client EXCEPT ![c] = "leaving"]
  /\ UNCHANGED <<subscribers, chan, current, cancelled, tailer, publishing>>

\* The client disconnects; the deferred logTailer.stop(sub) runs first and
\* cancels whichever tailer the map holds.
Leave(c) ==
  /\ client[c] = "streaming"
  /\ client' = [client EXCEPT ![c] = "leaving"]
  /\ cancelled' = cancelled \cup ({current} \ {Nobody})
  /\ current' = Nobody
  /\ UNCHANGED <<subscribers, chan, tailer, publishing>>

\* append(subs[:i], subs[i+1:]...): what follows moves up, in place.
DeleteAt(s, i) == [j \in 1..(Len(s) - 1) |-> IF j < i THEN s[j] ELSE s[j + 1]]

\* The loop of unsubscribeLogs: the first entry that is the client's channel.
DeleteFirst(c) ==
  \E i \in DOMAIN subscribers :
    /\ subscribers[i] = c /\ \A j \in 1..(i - 1) : subscribers[j] # c
    /\ subscribers' = DeleteAt(subscribers, i)

\* Mutant: the tailer is stopped again after the client has unsubscribed.
UnsubscribeStops(c) ==
  /\ client[c] = "leaving"
  /\ client' = [client EXCEPT ![c] = "gone"]
  /\ DeleteFirst(c)
  /\ cancelled' = cancelled \cup ({current} \ {Nobody})
  /\ current' = Nobody
  /\ stayed' = [t \in Clients |-> stayed[t] \ {c}]
  /\ UNCHANGED <<chan, tailer, copied, next, offers>>

Unsubscribe(c) ==
  /\ client[c] = "leaving"
  /\ client' = [client EXCEPT ![c] = "gone"]
  /\ DeleteFirst(c)
  /\ stayed' = [t \in Clients |-> stayed[t] \ {c}]
  /\ UNCHANGED <<chan, current, cancelled, tailer, copied, next, offers>>

\* The client comes back with a new request; bound: once its old tailer has
\* ended and no publisher has its old channel, so that one name is enough.
Return(c) ==
  /\ client[c] = "gone" /\ tailer[c] = "ended"
  /\ \A t \in Clients : \A i \in DOMAIN copied[t] : copied[t][i] # c
  /\ client' = [client EXCEPT ![c] = "out"]
  /\ chan' = [chan EXCEPT ![c] = 0]
  /\ tailer' = [tailer EXCEPT ![c] = "none"]
  /\ cancelled' = cancelled \ {c}
  /\ UNCHANGED <<subscribers, current, publishing>>
-----------------------------------------------------------------------------
(* logTailer.run and publishLogLine *)

TailerTo(t, l) == tailer' = [tailer EXCEPT ![t] = l]

\* ContainerLogs: opens the stream, or fails.
Open(t) ==
  /\ tailer[t] = "open"
  /\ TailerTo(t, "check") \/ TailerTo(t, "ended")
  /\ UNCHANGED <<client, subscribers, chan, current, cancelled, publishing>>

\* ctx.Err(), tested at the head of the loop.
Check(t) ==
  /\ tailer[t] = "check"
  /\ TailerTo(t, IF t \in cancelled THEN "ended" ELSE "read")
  /\ UNCHANGED <<client, subscribers, chan, current, cancelled, publishing>>

\* A frame is read and publishLogLine takes its copy of the slice; an empty
\* frame is skipped.  A context cancelled since the test may let it through.
Read(t) ==
  /\ tailer[t] = "read"
  /\ \/ /\ TailerTo(t, "publish")
        /\ copied' = [copied EXCEPT ![t] = subscribers]
        /\ stayed' = [stayed EXCEPT ![t] = {subscribers[i] : i \in DOMAIN subscribers}]
     \/ /\ TailerTo(t, "check")
        /\ UNCHANGED <<copied, stayed>>
  /\ UNCHANGED <<client, subscribers, chan, current, cancelled, next, offers>>

\* A read error: the context was cancelled, the daemon failed or the
\* container's log ended.
TailEnds(t) ==
  /\ tailer[t] = "read"
  /\ TailerTo(t, "ended")
  /\ UNCHANGED <<client, subscribers, chan, current, cancelled, publishing>>

\* Mutant: the loop ranges over the slice that unsubscribeLogs edits.
TargetsShared(t) == subscribers

\* What publishLogLine ranges over.
Targets(t) == copied[t]

\* select with a default: a full channel loses the line.
Publish(t) ==
  /\ tailer[t] = "publish" /\ next[t] <= Len(Targets(t))
  /\ LET c == Targets(t)[next[t]]
     IN  /\ chan' = [chan EXCEPT ![c] = IF @ < ChanCap THEN @ + 1 ELSE @]
         /\ offers' = [offers EXCEPT ![t][c] = @ + 1]
  /\ next' = [next EXCEPT ![t] = @ + 1]
  /\ UNCHANGED <<client, subscribers, current, cancelled, tailer, copied, stayed>>

Published(t) ==
  /\ tailer[t] = "publish" /\ next[t] > Len(Targets(t))
  /\ TailerTo(t, "check")
  /\ copied' = [copied EXCEPT ![t] = <<>>]
  /\ next' = [next EXCEPT ![t] = 1]
  /\ offers' = [offers EXCEPT ![t] = NoOffers]
  /\ stayed' = [stayed EXCEPT ![t] = {}]
  /\ UNCHANGED <<client, subscribers, chan, current, cancelled>>

\* main on shutdown: logTailer.stopAll.
StopAll ==
  /\ ShutsDown /\ current # Nobody
  /\ cancelled' = cancelled \cup {current}
  /\ current' = Nobody
  /\ UNCHANGED <<client, subscribers, chan, tailer, publishing>>
-----------------------------------------------------------------------------
Handler(c) == \/ Subscribe(c) \/ Start(c) \/ Receive(c) \/ Leave(c)
              \/ Unsubscribe(c) \/ Return(c)
Run(t) == Open(t) \/ Check(t) \/ Read(t) \/ TailEnds(t) \/ Publish(t) \/ Published(t)

Next == (\E c \in Clients : Handler(c) \/ Run(c)) \/ StopAll

Spec == Init /\ [][Next]_vars

\* Goroutines run and a handler finishes what it began; the stream of a
\* cancelled context reports an error.  Clients need not leave or read.
Fairness ==
  \A c \in Clients :
    /\ WF_vars(Start(c)) /\ WF_vars(Unsubscribe(c))
    /\ WF_vars(Open(c)) /\ WF_vars(Check(c)) /\ WF_vars(Publish(c)) /\ WF_vars(Published(c))
    /\ WF_vars(TailEnds(c) /\ c \in cancelled)

FairSpec == Spec /\ Fairness
-----------------------------------------------------------------------------
Alive(t) == tailer[t] \in {"open", "check", "read", "publish"}

\* TypeOK: every variable has its type; no channel overflows.
TypeOK ==
  /\ client \in [Clients -> {"out", "subscribed", "streaming", "leaving", "gone"}]
  /\ subscribers \in Seq(Clients)
  /\ chan \in [Clients -> 0..ChanCap]
  /\ current \in Clients \cup {Nobody}
  /\ cancelled \subseteq Clients
  /\ tailer \in [Clients -> {"none", "open", "check", "read", "publish", "ended"}]
  /\ copied \in [Clients -> Seq(Clients)]
  /\ next \in [Clients -> Nat \ {0}]
  /\ offers \in [Clients -> [Clients -> Nat]]
  /\ stayed \in [Clients -> SUBSET Clients]

\* OneTailer: a service never has two tailers that nobody has told to stop,
\* and the one left is the one the map can still cancel (logs.go start).
OneTailer == \A t \in Clients : Alive(t) /\ t \notin cancelled => t = current

\* LineOfferedOnce: when a line has been published, every client that was
\* subscribed all the while has been offered it exactly once and nobody twice,
\* whichever clients left the slice in between, which unsubscribeLogs edits in
\* place (logs.go publishLogLine, unsubscribeLogs).
LineOfferedOnce ==
  \A t \in Clients : tailer[t] = "publish" /\ next[t] > Len(Targets(t)) =>
    \A c \in Clients : offers[t][c] <= 1 /\ (c \in stayed[t] => offers[t][c] = 1)

\* TailersEnd: once every client has gone for good, every tailer ends, also
\* one that was publishing to a client that no longer reads.
TailersEnd ==
  (<>[](\A c \in Clients : client[c] = "gone")) =>
     <>[](\A c \in Clients : ~Alive(c))

\* ServedUntilSomeoneLeaves: the streaming clients lose their last live tailer
\* only in a step in which a client disconnects, that tailer's own log ends,
\* or docknap shuts down; never because another client arrives or finishes
\* unsubscribing (logs.go start, stop; the tailer is shared and unnamed).
Serving == {t \in Clients : Alive(t) /\ t \notin cancelled}
ServedUntilSomeoneLeaves ==
  [][(\E c \in Clients : client[c] = "streaming") /\ Serving # {} /\ Serving' = {} =>
       \/ \E c \in Clients : client[c] = "streaming" /\ client'[c] = "leaving"
       \/ \E t \in Serving : tailer'[t] = "ended"
       \/ StopAll]_vars
=============================================================================
