--------------------------- MODULE LogTailProofs ---------------------------
(* Theorems about LogTail, for every set of clients and channel capacity. *)
EXTENDS LogTail, SequenceTheorems, TLAPS

\* Deleting an entry of a slice leaves a slice of the others, in their order.
LEMMA DeleteAtFacts ==
  ASSUME NEW S, NEW s \in Seq(S), NEW i \in DOMAIN s
  PROVE  /\ DeleteAt(s, i) \in Seq(S)
         /\ Len(DeleteAt(s, i)) = Len(s) - 1
         /\ DOMAIN DeleteAt(s, i) = 1..(Len(s) - 1)
         /\ \A j \in 1..(Len(s) - 1) : DeleteAt(s, i)[j] = IF j < i THEN s[j] ELSE s[j + 1]
<1>1. Len(s) \in Nat /\ DOMAIN s = 1..Len(s) /\ \A j \in 1..Len(s) : s[j] \in S
  OBVIOUS
<1>2. Len(s) - 1 \in Nat
  BY <1>1
<1>3. DeleteAt(s, i) \in [1..(Len(s) - 1) -> S]
  BY <1>1 DEF DeleteAt
<1>4. DeleteAt(s, i) \in Seq(S)
  BY <1>2, <1>3, IsASeq
<1>5. QED
  BY <1>2, <1>3, <1>4 DEF DeleteAt

\* One offer more, and every other count as it was.
LEMMA OfferFacts ==
  ASSUME NEW S, NEW f \in [S -> [S -> Nat]], NEW a \in S, NEW b \in S,
         NEW g, g = [f EXCEPT ![a][b] = @ + 1]
  PROVE  /\ g \in [S -> [S -> Nat]]
         /\ \A c \in S : g[a][c] = IF c = b THEN f[a][c] + 1 ELSE f[a][c]
         /\ \A c \in S : c # a => g[c] = f[c]
<1>1. f[a] \in [S -> Nat]
  OBVIOUS
<1>2. [f[a] EXCEPT ![b] = @ + 1] \in [S -> Nat]
  BY <1>1
<1>3. g = [f EXCEPT ![a] = [f[a] EXCEPT ![b] = @ + 1]]
  OBVIOUS
<1>4. QED
  BY <1>1, <1>2, <1>3

\* Every handler and tailer step keeps the types; a channel that publishLogLine
\* offers a line to stays within its capacity.
LEMMA LogNextType == TypeOK /\ [Next]_vars => TypeOK'
<1> SUFFICES ASSUME TypeOK, [Next]_vars
             PROVE  TypeOK'
  OBVIOUS
<1> USE DEF TypeOK, publishing
<1>1. ASSUME NEW c \in Clients, Handler(c)
      PROVE  TypeOK'
  <2>1. CASE Receive(c)
    <3>1. chan' \in [Clients -> 0..ChanCap]
      BY <2>1, LogTailAssumption DEF Receive
    <3>2. QED
      BY <2>1, <3>1 DEF Receive
  <2>2. CASE Return(c)
    <3>1. chan' \in [Clients -> 0..ChanCap] /\ cancelled' \subseteq Clients
      BY <2>2, LogTailAssumption DEF Return
    <3>2. QED
      BY <2>2, <3>1 DEF Return
  <2>3. CASE Unsubscribe(c)
    <3>1. subscribers' \in Seq(Clients)
      BY <2>3, DeleteAtFacts DEF Unsubscribe, DeleteFirst
    <3>2. QED
      BY <2>3, <3>1 DEF Unsubscribe
  <2>4. CASE Subscribe(c)
    BY <2>4 DEF Subscribe
  <2>5. CASE Start(c) \/ Leave(c)
    BY <2>5 DEF Start, Leave
  <2>6. QED
    BY <1>1, <2>1, <2>2, <2>3, <2>4, <2>5 DEF Handler
<1>2. ASSUME NEW t \in Clients, Run(t)
      PROVE  TypeOK'
  <2>1. CASE Publish(t)
    <3>1. PICK c \in Clients : /\ chan' = [chan EXCEPT ![c] = IF @ < ChanCap THEN @ + 1 ELSE @]
                               /\ offers' = [offers EXCEPT ![t][c] = @ + 1]
      <4>1. Targets(t) \in Seq(Clients) /\ next[t] \in 1..Len(Targets(t))
        BY <2>1 DEF Publish, Targets
      <4>2. Targets(t)[next[t]] \in Clients
        BY <4>1
      <4>3. QED
        BY <2>1, <4>2 DEF Publish
    <3>2. chan' \in [Clients -> 0..ChanCap]
      BY <3>1, LogTailAssumption
    <3>3. offers' \in [Clients -> [Clients -> Nat]]
      BY <3>1, OfferFacts
    <3>4. next' \in [Clients -> Nat \ {0}]
      <4>1. next \in [Clients -> Nat \ {0}] /\ next' = [next EXCEPT ![t] = @ + 1]
        BY <2>1 DEF Publish
      <4> HIDE DEF TypeOK
      <4>2. next[t] + 1 \in Nat \ {0}
        BY <4>1
      <4>3. QED
        BY <4>1, <4>2
    <3>5. UNCHANGED <<client, subscribers, current, cancelled, tailer, copied, stayed>>
      BY <2>1 DEF Publish
    <3>6. QED
      BY <3>2, <3>3, <3>4, <3>5
  <2>2. CASE Read(t)
    <3>1. {subscribers[i] : i \in DOMAIN subscribers} \subseteq Clients
      OBVIOUS
    <3>2. copied' \in [Clients -> Seq(Clients)]
      <4>1. CASE copied' = [copied EXCEPT ![t] = subscribers]
        BY <4>1
      <4>2. QED
        BY <2>2, <4>1 DEF Read
    <3>3. stayed' \in [Clients -> SUBSET Clients]
      <4>1. [stayed EXCEPT ![t] = {subscribers[i] : i \in DOMAIN subscribers}]
              \in [Clients -> SUBSET Clients]
        BY <3>1
      <4>2. QED
        BY <2>2, <4>1 DEF Read
    <3>4. QED
      BY <2>2, <3>2, <3>3 DEF Read, TailerTo
  <2>3. CASE Published(t)
    <3>1. <<>> \in Seq(Clients) /\ NoOffers \in [Clients -> Nat]
      BY DEF NoOffers
    <3>2. copied' \in [Clients -> Seq(Clients)]
      BY <2>3, <3>1 DEF Published
    <3>3. offers' \in [Clients -> [Clients -> Nat]]
      BY <2>3, <3>1 DEF Published
    <3>4. next' \in [Clients -> Nat \ {0}] /\ stayed' \in [Clients -> SUBSET Clients]
      BY <2>3 DEF Published
    <3>5. QED
      BY <2>3, <3>2, <3>3, <3>4 DEF Published, TailerTo
  <2>4. CASE Open(t) \/ Check(t) \/ TailEnds(t)
    BY <2>4 DEF Open, Check, TailEnds, TailerTo
  <2>5. QED
    BY <1>2, <2>1, <2>2, <2>3, <2>4 DEF Run
<1>3. CASE StopAll
  BY <1>3 DEF StopAll
<1>4. CASE UNCHANGED vars
  BY <1>4 DEF vars
<1>5. QED
  BY <1>1, <1>2, <1>3, <1>4 DEF Next

\* Type correctness of the live-log endpoint: no subscriber's channel ever
\* holds more than its capacity (logs.go publishLogLine).
THEOREM LogTypeCorrect == Spec => []TypeOK
<1>1. Init => TypeOK
  BY LogTailAssumption DEF Init, TypeOK, NoOffers
<1>2. QED
  BY <1>1, LogNextType, PTL DEF Spec
-----------------------------------------------------------------------------
(* One tailer *)

\* OneTailer is inductive: start and stop cancel the tailer in the map before
\* they forget it, and a context stays cancelled.
LEMMA LogNextOne == TypeOK /\ OneTailer /\ [Next]_vars => OneTailer'
<1> SUFFICES ASSUME TypeOK, OneTailer, [Next]_vars
             PROVE  OneTailer'
  OBVIOUS
<1>0. /\ current \in Clients \cup {Nobody}
      /\ tailer \in [Clients -> {"none", "open", "check", "read", "publish", "ended"}]
  BY DEF TypeOK
<1> USE LogTailAssumption, <1>0 DEF OneTailer, Alive
<1>1. ASSUME NEW c \in Clients, Handler(c)
      PROVE  OneTailer'
  <2>1. CASE Subscribe(c) \/ Receive(c) \/ Unsubscribe(c)
    BY <2>1 DEF Subscribe, Receive, Unsubscribe
  <2>2. CASE Start(c)
    BY <2>2 DEF Start
  <2>3. CASE Leave(c)
    BY <2>3 DEF Leave
  <2>4. CASE Return(c)
    BY <2>4 DEF Return
  <2>5. QED
    BY <1>1, <2>1, <2>2, <2>3, <2>4 DEF Handler
<1>2. ASSUME NEW t \in Clients, Run(t)
      PROVE  OneTailer'
  <2>1. UNCHANGED <<current, cancelled>>
    BY <1>2 DEF Run, Open, Check, Read, TailEnds, Publish, Published, TailerTo
  <2>2. \/ tailer' = tailer
        \/ Alive(t) /\ \E l : tailer' = [tailer EXCEPT ![t] = l]
    BY <1>2 DEF Run, Open, Check, Read, TailEnds, Publish, Published, TailerTo
  <2>3. QED
    BY <2>1, <2>2
<1>3. CASE StopAll
  BY <1>3 DEF StopAll
<1>4. CASE UNCHANGED vars
  BY <1>4 DEF vars
<1>5. QED
  BY <1>1, <1>2, <1>3, <1>4 DEF Next

\* However clients come and go, at most one tailer of a service is running
\* without having been told to stop, and logTailer can still cancel it.
THEOREM OneTailerHolds == Spec => []OneTailer
<1>1. Init => OneTailer
  BY DEF Init, OneTailer, Alive
<1>2. QED
  BY <1>1, LogNextOne, LogTypeCorrect, PTL DEF Spec
-----------------------------------------------------------------------------
(* Whose departure ends the stream *)

\* Fresh: the map never points to the tailer of a client that is not
\* streaming, and a client that has not started its tailer has a context
\* nobody has cancelled.  So a tailer that start puts in the map is served.
Fresh ==
  \A c \in Clients :
    /\ client[c] # "streaming" => current # c
    /\ client[c] \in {"out", "subscribed"} => c \notin cancelled /\ tailer[c] = "none"

\* Fresh is inductive.
LEMMA LogNextFresh == TypeOK /\ Fresh /\ [Next]_vars => Fresh'
<1> SUFFICES ASSUME TypeOK, Fresh, [Next]_vars
             PROVE  Fresh'
  OBVIOUS
<1> USE LogTailAssumption DEF TypeOK, Fresh
<1>1. ASSUME NEW c \in Clients, Handler(c)
      PROVE  Fresh'
  <2>1. CASE Subscribe(c) \/ Receive(c) \/ Unsubscribe(c)
    BY <2>1 DEF Subscribe, Receive, Unsubscribe
  <2>2. CASE Start(c)
    BY <2>2 DEF Start
  <2>3. CASE Leave(c)
    BY <2>3 DEF Leave
  <2>4. CASE Return(c)
    BY <2>4 DEF Return
  <2>5. QED
    BY <1>1, <2>1, <2>2, <2>3, <2>4 DEF Handler
<1>2. ASSUME NEW t \in Clients, Run(t)
      PROVE  Fresh'
  BY <1>2 DEF Run, Open, Check, Read, TailEnds, Publish, Published, TailerTo
<1>3. CASE StopAll \/ UNCHANGED vars
  BY <1>3 DEF StopAll, vars
<1>4. QED
  BY <1>1, <1>2, <1>3 DEF Next

\* What a step may do to the tailers that serve: a new request puts its own in
\* their place; only a departure, the end of a log or the shutdown leaves none.
LEMMA LogServedStep ==
  ASSUME TypeOK, Fresh, [Next]_vars, Serving # {}, Serving' = {}
  PROVE  \/ \E c \in Clients : client[c] = "streaming" /\ client'[c] = "leaving"
         \/ \E t \in Serving : tailer'[t] = "ended"
         \/ StopAll
<1> PICK s \in Clients : Alive(s) /\ s \notin cancelled
  BY DEF Serving
<1> USE DEF TypeOK, Serving, Alive
<1>1. ASSUME NEW c \in Clients, Handler(c)
      PROVE  client[c] = "streaming" /\ client'[c] = "leaving"
  <2>1. CASE Start(c)
    <3>1. c \in Serving'
      BY <2>1 DEF Start, Fresh
    <3>2. QED
      BY <3>1
  <2>2. CASE Return(c)
    BY <2>2 DEF Return
  <2>3. CASE Leave(c)
    BY <2>3 DEF Leave
  <2>4. QED
    BY <1>1, <2>1, <2>2, <2>3 DEF Handler, Subscribe, Receive, Unsubscribe
<1>2. ASSUME NEW t \in Clients, Run(t)
      PROVE  \E u \in Serving : tailer'[u] = "ended"
  <2>1. s = t
    BY <1>2 DEF Run, Open, Check, Read, TailEnds, Publish, Published, TailerTo
  <2>2. QED
    BY <1>2, <2>1 DEF Run, Open, Check, Read, TailEnds, Publish, Published, TailerTo
<1>3. CASE UNCHANGED vars
  BY <1>3 DEF vars
<1>4. QED
  BY <1>1, <1>2, <1>3 DEF Next

\* A stream never falls silent because another client arrives or finishes
\* unsubscribing: while somebody streams, the last live tailer is lost only to
\* a client that disconnects, to the end of its own log or to the shutdown.
THEOREM ServedUntilSomeoneLeavesHolds == Spec => ServedUntilSomeoneLeaves
<1>1. Init => Fresh
  BY LogTailAssumption DEF Init, Fresh
<1>2. TypeOK /\ Fresh /\ [Next]_vars =>
        [(\E c \in Clients : client[c] = "streaming") /\ Serving # {} /\ Serving' = {} =>
            \/ \E c \in Clients : client[c] = "streaming" /\ client'[c] = "leaving"
            \/ \E t \in Serving : tailer'[t] = "ended"
            \/ StopAll]_vars
  BY LogServedStep
<1>3. QED
  BY <1>1, <1>2, LogNextFresh, LogTypeCorrect, PTL
  DEF Spec, ServedUntilSomeoneLeaves
-----------------------------------------------------------------------------
(* What a line's subscribers are offered *)

\* ListInv: no channel is in the slice twice, and those in it are the channels
\* of clients between their subscribeLogs and their unsubscribeLogs.
ListInv ==
  /\ \A i, j \in DOMAIN subscribers : subscribers[i] = subscribers[j] => i = j
  /\ \A i \in DOMAIN subscribers :
       client[subscribers[i]] \in {"subscribed", "streaming", "leaving"}

\* CopyInv: a publisher's copy has no channel twice; the entries before its
\* position have been offered the line once, the others not at all; whoever
\* stayed subscribed is in the copy.
CopyOf(t) ==
  /\ tailer[t] # "publish" => next[t] = 1 /\ offers[t] = NoOffers
  /\ tailer[t] = "publish" =>
       /\ \A i, j \in DOMAIN copied[t] : copied[t][i] = copied[t][j] => i = j
       /\ \A c \in stayed[t] : \E i \in DOMAIN copied[t] : copied[t][i] = c
       /\ \A i \in DOMAIN copied[t] : offers[t][copied[t][i]] = IF i < next[t] THEN 1 ELSE 0
       /\ \A c \in Clients : offers[t][c] # 0 => \E i \in DOMAIN copied[t] : copied[t][i] = c
CopyInv == \A t \in Clients : CopyOf(t)

\* ListInv is inductive: the entry unsubscribeLogs finds is the client's only
\* one, and what moves up stays distinct.
LEMMA LogNextList == TypeOK /\ ListInv /\ [Next]_vars => ListInv'
<1> SUFFICES ASSUME TypeOK, ListInv, [Next]_vars
             PROVE  ListInv'
  OBVIOUS
<1>0. /\ subscribers \in Seq(Clients)
      /\ client \in [Clients -> {"out", "subscribed", "streaming", "leaving", "gone"}]
      /\ DOMAIN subscribers = 1..Len(subscribers) /\ Len(subscribers) \in Nat
      /\ \A i \in DOMAIN subscribers : subscribers[i] \in Clients
  <2>1. subscribers \in Seq(Clients)
    BY DEF TypeOK
  <2>2. client \in [Clients -> {"out", "subscribed", "streaming", "leaving", "gone"}]
    BY DEF TypeOK
  <2>3. QED
    BY <2>1, <2>2
<1> USE DEF ListInv
<1>1. ASSUME NEW c \in Clients, Handler(c)
      PROVE  ListInv'
  <2>1. CASE Subscribe(c)
    <3>1. \A i \in DOMAIN subscribers : subscribers[i] # c
      BY <2>1 DEF Subscribe
    <3>0. subscribers' = Append(subscribers, c) /\ client' = [client EXCEPT ![c] = "subscribed"]
      BY <2>1 DEF Subscribe
    <3>2. /\ DOMAIN subscribers' = 1..(Len(subscribers) + 1)
          /\ \A i \in 1..Len(subscribers) : subscribers'[i] = subscribers[i]
          /\ subscribers'[Len(subscribers) + 1] = c
      BY <1>0, <3>0
    <3>4. \A i, j \in DOMAIN subscribers' : subscribers'[i] = subscribers'[j] => i = j
      BY <1>0, <3>1, <3>2
    <3>5. \A i \in DOMAIN subscribers' :
            client'[subscribers'[i]] \in {"subscribed", "streaming", "leaving"}
      BY <1>0, <3>0, <3>1, <3>2
    <3>6. QED
      BY <3>4, <3>5
  <2>2. CASE Unsubscribe(c)
    <3>1. PICK i \in DOMAIN subscribers : subscribers[i] = c /\ subscribers' = DeleteAt(subscribers, i)
      BY <2>2 DEF Unsubscribe, DeleteFirst
    <3>2. /\ DOMAIN subscribers' = 1..(Len(subscribers) - 1)
          /\ \A j \in 1..(Len(subscribers) - 1) :
               subscribers'[j] = IF j < i THEN subscribers[j] ELSE subscribers[j + 1]
      <4>1. subscribers \in Seq(Clients)
        BY <1>0
      <4>2. /\ DOMAIN DeleteAt(subscribers, i) = 1..(Len(subscribers) - 1)
            /\ \A j \in 1..(Len(subscribers) - 1) :
                 DeleteAt(subscribers, i)[j] = IF j < i THEN subscribers[j] ELSE subscribers[j + 1]
        BY <4>1, DeleteAtFacts, Zenon
      <4>3. QED
        BY <3>1, <4>2, Zenon
    <3> DEFINE From(j) == IF j < i THEN j ELSE j + 1
    <3>3. \A j \in DOMAIN subscribers' :
            From(j) \in DOMAIN subscribers /\ From(j) # i /\ subscribers'[j] = subscribers[From(j)]
      BY <1>0, <3>2
    <3>4. \A j, k \in DOMAIN subscribers' : From(j) = From(k) => j = k
      BY <1>0, <3>2
    <3> HIDE DEF From
    <3>5. \A j, k \in DOMAIN subscribers' : subscribers'[j] = subscribers'[k] => j = k
      BY <3>3, <3>4
    <3>6. \A j \in DOMAIN subscribers' : subscribers'[j] # c /\ client'[subscribers'[j]] = client[subscribers'[j]]
      BY <1>0, <2>2, <3>1, <3>3 DEF Unsubscribe
    <3>7. QED
      BY <3>3, <3>5, <3>6
  <2>3. CASE Start(c) \/ Receive(c) \/ Leave(c)
    BY <1>0, <2>3 DEF Start, Receive, Leave
  <2>4. CASE Return(c)
    BY <1>0, <2>4 DEF Return
  <2>5. QED
    BY <1>1, <2>1, <2>2, <2>3, <2>4 DEF Handler
<1>2. ASSUME NEW t \in Clients, Run(t)
      PROVE  ListInv'
  BY <1>2 DEF Run, Open, Check, Read, TailEnds, Publish, Published
<1>3. CASE StopAll \/ UNCHANGED vars
  BY <1>3 DEF StopAll, vars
<1>4. QED
  BY <1>1, <1>2, <1>3 DEF Next

\* CopyInv is inductive: nobody but the publisher touches its copy, whatever
\* happens to the slice it was taken from.
LEMMA LogNextCopy == TypeOK /\ Fresh /\ ListInv /\ CopyInv /\ [Next]_vars => CopyInv'
<1> SUFFICES ASSUME TypeOK, Fresh, ListInv, CopyInv, [Next]_vars, NEW u \in Clients
             PROVE  CopyOf(u)'
  BY DEF CopyInv
<1>1. CopyOf(u)
  BY DEF CopyInv
\* A step that leaves u's publication alone, or only shortens stayed[u].
<1>2. ASSUME tailer'[u] = "publish" <=> tailer[u] = "publish",
             copied'[u] = copied[u], next'[u] = next[u], offers'[u] = offers[u],
             stayed'[u] \subseteq stayed[u]
      PROVE  CopyOf(u)'
  BY <1>1, <1>2 DEF CopyOf
<1>3. tailer \in [Clients -> {"none", "open", "check", "read", "publish", "ended"}]
  BY DEF TypeOK
<1>4. /\ copied \in [Clients -> Seq(Clients)] /\ next \in [Clients -> Nat \ {0}]
      /\ offers \in [Clients -> [Clients -> Nat]] /\ stayed \in [Clients -> SUBSET Clients]
  BY DEF TypeOK
<1>5. ASSUME NEW c \in Clients, Handler(c)
      PROVE  CopyOf(u)'
  <2>1. CASE Subscribe(c) \/ Receive(c) \/ Leave(c)
    BY <1>2, <2>1 DEF Subscribe, Receive, Leave, publishing
  <2>2. CASE Start(c)
    BY <1>2, <1>3, <2>2 DEF Start, Fresh, publishing
  <2>3. CASE Unsubscribe(c)
    BY <1>2, <1>4, <2>3 DEF Unsubscribe
  <2>4. CASE Return(c)
    BY <1>2, <1>3, <2>4 DEF Return, publishing
  <2>5. QED
    BY <1>5, <2>1, <2>2, <2>3, <2>4 DEF Handler
<1>6. ASSUME NEW t \in Clients, Run(t), u # t
      PROVE  CopyOf(u)'
  <2>1. CASE Publish(t)
    <3>1. offers'[u] = offers[u]
      BY <1>4, <1>6, <2>1 DEF Publish
    <3>2. QED
      BY <1>2, <1>4, <1>6, <2>1, <3>1 DEF Publish
  <2>2. CASE Read(t) \/ Published(t)
    BY <1>2, <1>3, <1>4, <1>6, <2>2 DEF Read, Published, TailerTo
  <2>3. CASE Open(t) \/ Check(t) \/ TailEnds(t)
    BY <1>2, <1>3, <1>6, <2>3 DEF Open, Check, TailEnds, TailerTo, publishing
  <2>4. QED
    BY <1>6, <2>1, <2>2, <2>3 DEF Run
<1>7. CASE Publish(u)
  <2> DEFINE c == copied[u][next[u]]
  <2>1. /\ tailer[u] = "publish" /\ tailer' = tailer /\ copied' = copied /\ stayed' = stayed
        /\ next[u] \in Nat \ {0} /\ next[u] <= Len(copied[u])
        /\ next' = [next EXCEPT ![u] = @ + 1]
        /\ offers' = [offers EXCEPT ![u][c] = @ + 1]
    BY <1>4, <1>7 DEF Publish, Targets
  <2>2. copied[u] \in Seq(Clients)
    BY <1>4
  <2>3. /\ DOMAIN copied[u] = 1..Len(copied[u]) /\ Len(copied[u]) \in Nat
        /\ \A i \in DOMAIN copied[u] : copied[u][i] \in Clients
    BY <2>2
  <2>4. next[u] \in DOMAIN copied[u] /\ c \in Clients
    BY <2>1, <2>3
  <2>5. \A i \in DOMAIN copied[u] : copied[u][i] = c <=> i = next[u]
    BY <1>1, <2>1, <2>4 DEF CopyOf
  <2> HIDE DEF c
  <2>6. \A d \in Clients : offers'[u][d] = IF d = c THEN offers[u][d] + 1 ELSE offers[u][d]
    BY <1>4, <2>1, <2>4, OfferFacts
  <2>7. next'[u] = next[u] + 1
    BY <1>4, <2>1
  <2>8. \A i \in DOMAIN copied[u] : offers[u][copied[u][i]] = IF i < next[u] THEN 1 ELSE 0
    BY <1>1, <2>1 DEF CopyOf
  <2>9. \A i \in DOMAIN copied[u] : offers'[u][copied[u][i]] = IF i < next'[u] THEN 1 ELSE 0
    BY <2>1, <2>3, <2>5, <2>6, <2>7, <2>8
  <2>10. \A d \in Clients : offers'[u][d] # 0 => \E i \in DOMAIN copied[u] : copied[u][i] = d
    BY <1>1, <2>1, <2>4, <2>5, <2>6 DEF CopyOf
  <2>11. QED
    BY <1>1, <2>1, <2>9, <2>10 DEF CopyOf
<1>8. CASE Read(u)
  <2>1. CASE TailerTo(u, "check") /\ UNCHANGED <<copied, stayed>>
    BY <1>2, <1>3, <1>8, <2>1 DEF Read, TailerTo
  <2>2. CASE /\ copied' = [copied EXCEPT ![u] = subscribers] /\ TailerTo(u, "publish")
             /\ stayed' = [stayed EXCEPT ![u] = {subscribers[i] : i \in DOMAIN subscribers}]
    <3>1. copied'[u] = subscribers /\ stayed'[u] = {subscribers[i] : i \in DOMAIN subscribers}
      BY <1>4, <2>2
    <3>2. tailer'[u] = "publish"
      BY <1>3, <2>2 DEF TailerTo
    <3>3. next'[u] = 1 /\ offers'[u] = NoOffers
      BY <1>1, <1>8 DEF CopyOf, Read
    <3>4. subscribers \in Seq(Clients)
      BY DEF TypeOK
    <3>5. \A i \in DOMAIN subscribers : subscribers[i] \in Clients /\ ~(i < 1)
      BY <3>4
    <3>6. \A d \in Clients : NoOffers[d] = 0
      BY DEF NoOffers
    <3>7. QED
      BY <3>1, <3>2, <3>3, <3>5, <3>6 DEF ListInv, CopyOf
  <2>3. QED
    BY <1>8, <2>1, <2>2 DEF Read
<1>9. CASE Published(u)
  <2>1. tailer'[u] = "check" /\ next'[u] = 1 /\ offers'[u] = NoOffers
    BY <1>3, <1>4, <1>9 DEF Published, TailerTo
  <2>2. QED
    BY <2>1 DEF CopyOf
<1>10. CASE Open(u) \/ Check(u) \/ TailEnds(u)
  BY <1>2, <1>3, <1>10 DEF Open, Check, TailEnds, TailerTo, publishing
<1>11. CASE StopAll \/ UNCHANGED vars
  BY <1>2, <1>11 DEF StopAll, vars, publishing
<1>12. QED
  BY <1>5, <1>6, <1>7, <1>8, <1>9, <1>10, <1>11 DEF Next, Run

\* However clients come and go while a line is published, whoever stayed
\* subscribed is offered it exactly once, and nobody twice.
THEOREM LineOfferedOnceHolds == Spec => []LineOfferedOnce
<1>1. Init => Fresh /\ ListInv /\ CopyInv
  BY LogTailAssumption DEF Init, Fresh, ListInv, CopyInv, CopyOf
<1>2. TypeOK /\ CopyInv => LineOfferedOnce
  <2> SUFFICES ASSUME TypeOK, CopyInv, NEW t \in Clients, NEW c \in Clients,
                      tailer[t] = "publish", next[t] > Len(copied[t])
               PROVE  offers[t][c] <= 1 /\ (c \in stayed[t] => offers[t][c] = 1)
    BY DEF LineOfferedOnce, Targets
  <2>1. copied[t] \in Seq(Clients) /\ next[t] \in Nat /\ offers[t][c] \in Nat
    BY DEF TypeOK
  <2>2. \A i \in DOMAIN copied[t] : i < next[t]
    BY <2>1
  <2>3. \A i \in DOMAIN copied[t] : offers[t][copied[t][i]] = 1
    BY <2>2 DEF CopyInv, CopyOf
  <2>4. offers[t][c] # 0 => offers[t][c] = 1
    BY <2>3 DEF CopyInv, CopyOf
  <2>5. c \in stayed[t] => offers[t][c] = 1
    BY <2>3 DEF CopyInv, CopyOf
  <2>6. QED
    BY <2>1, <2>4, <2>5
<1>3. QED
  BY <1>1, <1>2, LogNextFresh, LogNextList, LogNextCopy, LogTypeCorrect, PTL DEF Spec
=============================================================================
