--------------------------- MODULE WebhookProofs ---------------------------
(***************************************************************************)
(* The webhook sender keeps the promise of BestEffort, for every capacity  *)
(* of the channel, every set of event types and every number of events.    *)
(***************************************************************************)
EXTENDS Webhook, SequenceTheorems, TLAPS

\* The numbers of the events.
Numbers == 1..MaxNotify
-----------------------------------------------------------------------------
(* The sequences the refinement mapping is made of *)

\* A queue is its head in front of its tail: taking an event from the channel
\* changes nothing that is pending.
LEMMA HeadFront ==
  ASSUME NEW S, NEW q \in Seq(S), q # <<>>
  PROVE  <<Head(q)>> \o Tail(q) = <<>> \o q
<1>1. Head(q) \in S /\ Tail(q) \in Seq(S) /\ Len(Tail(q)) = Len(q) - 1
  BY HeadTailProperties
<1>2. \A i \in 1..Len(Tail(q)) : Tail(q)[i] = q[i + 1]
  BY HeadTailProperties
<1>3. <<Head(q)>> \in Seq(S) /\ Len(<<Head(q)>>) = 1 /\ <<Head(q)>>[1] = q[1]
  BY <1>1
<1>4. <<>> \o q = q
  BY ConcatEmptySeq
<1>5. <<Head(q)>> \o Tail(q) \in Seq(S) /\ Len(<<Head(q)>> \o Tail(q)) = Len(q)
  BY <1>1, <1>3, ConcatProperties
<1>6. ASSUME NEW i \in 1..Len(q)
      PROVE  (<<Head(q)>> \o Tail(q))[i] = q[i]
  <2>1. (<<Head(q)>> \o Tail(q))[i] = IF i <= 1 THEN <<Head(q)>>[i] ELSE Tail(q)[i - 1]
    BY <1>1, <1>3, ConcatProperties
  <2>2. QED
    BY <1>1, <1>2, <1>3, <2>1
<1>7. QED
  BY <1>4, <1>5, <1>6, SeqEqual

\* Settling takes the event in front away.
LEMMA FrontGoes ==
  ASSUME NEW S, NEW e \in S, NEW q \in Seq(S)
  PROVE  /\ <<e>> \o q # <<>>
         /\ Head(<<e>> \o q) = e
         /\ Tail(<<e>> \o q) = <<>> \o q
<1>1. /\ <<e>> \o q \in Seq(S) /\ Len(<<e>> \o q) = 1 + Len(q)
      /\ \A i \in 1..(1 + Len(q)) : (<<e>> \o q)[i] = IF i <= 1 THEN e ELSE q[i - 1]
  BY ConcatProperties
<1>2. <<e>> \o q # <<>>
  BY <1>1
<1>3. Head(<<e>> \o q) = e
  BY <1>1, <1>2
<1>4. /\ Tail(<<e>> \o q) \in Seq(S) /\ Len(Tail(<<e>> \o q)) = Len(q)
      /\ \A i \in 1..Len(q) : Tail(<<e>> \o q)[i] = q[i]
  BY <1>1, <1>2, HeadTailProperties
<1>5. <<>> \o q = q
  BY ConcatEmptySeq
<1>6. QED
  BY <1>2, <1>3, <1>4, <1>5, SeqEqual

\* What is appended to the channel is appended to what is pending.
LEMMA BackComes ==
  ASSUME NEW S, NEW a \in Seq(S), NEW q \in Seq(S), NEW e \in S
  PROVE  a \o Append(q, e) = Append(a \o q, e) /\ Len(a \o q) = Len(a) + Len(q)
<1>1. Append(q, e) = q \o <<e>> /\ <<e>> \in Seq(S)
  BY AppendIsConcat
<1>2. a \o q \in Seq(S) /\ Len(a \o q) = Len(a) + Len(q)
  BY ConcatProperties
<1>3. Append(a \o q, e) = (a \o q) \o <<e>>
  BY <1>2, AppendIsConcat
<1>4. (a \o q) \o <<e>> = a \o (q \o <<e>>)
  BY <1>1, ConcatAssociative
<1>5. QED
  BY <1>1, <1>2, <1>3, <1>4
-----------------------------------------------------------------------------
\* Initially every variable has its type.
LEMMA WebhookInitType == Init => TypeOK
<1> SUFFICES ASSUME Init
             PROVE  TypeOK
  OBVIOUS
<1>1. <<>> \in Seq(1..MaxNotify) /\ Len(<<>>) = 0
  BY EmptySeq
<1>2. count \in 0..MaxNotify /\ Len(queue) <= QueueCap
  BY <1>1, WebhookAssumption DEF Init
<1>3. QED
  BY <1>1, <1>2, Zenon DEF Init, TypeOK

\* SendingInv: the worker holds an event exactly while it posts, and main has
\* seen the worker end before it ends itself (shutdown waits on done).
SendingInv ==
  /\ worker = "send" => sending \in Numbers
  /\ main = "done" => worker = "done"

\* notify keeps the types and the channel within its capacity.
LEMMA NotifyType ==
  ASSUME TypeOK, NEW t \in Types, Notify(t)
  PROVE  TypeOK'
<1>1. count + 1 \in Numbers
  BY WebhookAssumption DEF Notify, TypeOK, Numbers
<1>2. Append(queue, count + 1) \in Seq(Numbers) /\ Len(Append(queue, count + 1)) = Len(queue) + 1
  BY <1>1, AppendProperties DEF TypeOK, Numbers
<1>3. Len(queue) \in Nat
  BY LenProperties DEF TypeOK
<1>4. queue' \in Seq(Numbers) /\ Len(queue') <= QueueCap
  <2>1. CASE Len(queue) < QueueCap
    <3>1. queue' = Append(queue, count + 1)
      BY <2>1 DEF Notify
    <3>2. Len(queue) + 1 <= QueueCap
      BY <1>3, <2>1, WebhookAssumption
    <3>3. QED
      BY <1>2, <3>1, <3>2, Zenon
  <2>2. CASE ~(Len(queue) < QueueCap)
    BY <2>2 DEF Notify, TypeOK, Numbers
  <2>3. QED
    BY <2>1, <2>2
<1>5. count' \in 0..MaxNotify
  BY <1>1, WebhookAssumption DEF Notify, Numbers
<1>6. QED
  BY <1>4, <1>5, Zenon DEF Notify, TypeOK, Numbers

\* The worker's steps keep the types.
LEMMA WorkerType ==
  ASSUME TypeOK, SendingInv, Take \/ Quit \/ Send
  PROVE  TypeOK'
<1>1. CASE Take
  <2>1. Head(queue) \in Numbers /\ Tail(queue) \in Seq(Numbers) /\ Len(Tail(queue)) = Len(queue) - 1
    BY <1>1, HeadTailProperties DEF Take, TypeOK, Numbers
  <2>2. Len(Tail(queue)) <= QueueCap
    BY <2>1, WebhookAssumption, LenProperties DEF TypeOK, Numbers
  <2>3. QED
    BY <1>1, <2>1, <2>2, Zenon DEF Take, TypeOK, Numbers
<1>2. CASE Quit
  BY <1>2, Zenon DEF Quit, TypeOK
<1>3. CASE Send
  <2>1. Append(posted, sending) \in Seq(Numbers)
    BY <1>3, AppendProperties DEF Send, TypeOK, SendingInv, Numbers
  <2>2. posted' \in Seq(Numbers)
    BY <1>3, <2>1 DEF Send, TypeOK, Numbers
  <2>3. QED
    BY <1>3, <2>2, Zenon DEF Send, TypeOK, Numbers
<1>4. QED
  BY <1>1, <1>2, <1>3

\* shutdown keeps the types.
LEMMA ShutdownType ==
  ASSUME TypeOK, Shutdown \/ UNCHANGED vars
  PROVE  TypeOK'
  BY Zenon DEF Shutdown, ShutdownCancel, ShutdownClose, ShutdownWait, TypeOK, vars

\* Every step keeps SendingInv: a worker that has quit takes nothing more.
LEMMA SendingNext == TypeOK /\ SendingInv /\ [Next]_vars => SendingInv'
<1> SUFFICES ASSUME TypeOK, SendingInv, [Next]_vars
             PROVE  SendingInv'
  OBVIOUS
<1>1. CASE Take
  <2>1. Head(queue) \in Numbers
    BY <1>1, HeadTailProperties DEF Take, TypeOK, Numbers
  <2>2. QED
    BY <1>1, <2>1 DEF Take, SendingInv
<1>2. QED
  BY <1>1 DEF Next, Notify, Quit, Send, Shutdown, ShutdownCancel, ShutdownClose, ShutdownWait,
              SendingInv, vars

\* Type correctness of the sender; in particular the channel never holds more
\* than its capacity and only numbered events are ever posted (webhooks.go).
THEOREM WebhookTypeCorrect == Spec => [](TypeOK /\ SendingInv)
<1>1. Init => TypeOK /\ SendingInv
  BY WebhookInitType DEF Init, SendingInv
<1>2. TypeOK /\ SendingInv /\ [Next]_vars => TypeOK'
  BY NotifyType, WorkerType, ShutdownType DEF Next
<1>3. QED
  BY <1>1, <1>2, SendingNext, PTL DEF Spec
-----------------------------------------------------------------------------
(* The refinement *)

\* What the worker has in hand, in front of the channel.
Hand == IF worker = "send" THEN <<sending>> ELSE <<>>

\* What the worker holds is a sequence of at most one event.
LEMMA HandType ==
  ASSUME SendingInv
  PROVE  Hand \in Seq(Numbers) /\ Len(Hand) <= 1
  BY EmptySeq DEF Hand, SendingInv

\* notify offers an event: it is accepted while there is room, or dropped.
LEMMA NotifyOffers ==
  ASSUME TypeOK, SendingInv, NEW t \in Types, Notify(t)
  PROVE  Promise!Offer
<1>1. count + 1 \in Numbers
  BY WebhookAssumption DEF Notify, TypeOK, Numbers
<1>2. /\ Hand \o Append(queue, count + 1) = Append(Hand \o queue, count + 1)
      /\ Len(Hand \o queue) = Len(Hand) + Len(queue)
  BY <1>1, HandType, BackComes DEF TypeOK, Numbers
<1>3. Len(queue) \in Nat /\ Len(Hand) \in Nat
  BY HandType, LenProperties DEF TypeOK, Numbers
<1>4. Hand' = Hand
  BY DEF Notify, Hand
<1>5. CASE Len(queue) < QueueCap
  <2>1. Hand' \o queue' = Append(Hand \o queue, count + 1)
    BY <1>2, <1>4, <1>5 DEF Notify
  <2>2. Len(Hand \o queue) < QueueCap + 1
    BY <1>2, <1>3, <1>5, HandType, WebhookAssumption
  <2>3. QED
    BY <2>1, <2>2 DEF Notify, Promise!Offer, Hand
<1>6. CASE ~(Len(queue) < QueueCap)
  BY <1>4, <1>6 DEF Notify, Promise!Offer, Hand
<1>7. QED
  BY <1>5, <1>6

\* send settles the event the worker holds, and main is not at its end.
LEMMA SendSettles ==
  ASSUME TypeOK, SendingInv, Send
  PROVE  Promise!Settle
<1>1. sending \in Numbers /\ main # "done" /\ main' = main /\ count' = count /\ queue' = queue
  BY DEF Send, SendingInv
<1>2. /\ <<sending>> \o queue # <<>>
      /\ Head(<<sending>> \o queue) = sending
      /\ Tail(<<sending>> \o queue) = <<>> \o queue
  BY <1>1, FrontGoes DEF TypeOK, Numbers
<1>3. worker = "send" /\ worker' = "select" /\ posted' \in {posted, Append(posted, sending)}
  BY DEF Send
<1>4. QED
  BY <1>1, <1>2, <1>3 DEF Promise!Settle

\* Taking an event from the channel settles and offers nothing.
LEMMA TakeStutters ==
  ASSUME TypeOK, Take
  PROVE  UNCHANGED Promise!vars
<1>1. <<Head(queue)>> \o Tail(queue) = <<>> \o queue
  BY HeadFront DEF Take, TypeOK
<1>2. QED
  BY <1>1 DEF Take, Promise!vars

\* The channel, the worker and shutdown together implement BestEffort: every
\* event reaches the receiver at most once and in the order of the notify
\* calls, at most QueueCap + 1 wait, and once shutdown has returned nothing is
\* posted any more.
THEOREM WebhookRefines == Spec => ImplementsBestEffort
<1>1. Init => Promise!Init
  BY DEF Init, Promise!Init
<1>2. TypeOK /\ SendingInv /\ [Next]_vars => [Promise!Next]_Promise!vars
  <2> SUFFICES ASSUME TypeOK, SendingInv, [Next]_vars
               PROVE  Promise!Next \/ UNCHANGED Promise!vars
    OBVIOUS
  <2>1. CASE \E t \in Types : Notify(t)
    BY <2>1, NotifyOffers DEF Promise!Next
  <2>2. CASE Take
    BY <2>2, TakeStutters
  <2>3. CASE Send
    BY <2>3, SendSettles DEF Promise!Next
  <2>4. CASE Quit
    BY <2>4 DEF Quit, Promise!vars
  <2>5. CASE ShutdownCancel \/ ShutdownClose
    BY <2>5 DEF ShutdownCancel, ShutdownClose, Promise!vars
  <2>6. CASE ShutdownWait
    BY <2>6 DEF ShutdownWait, Promise!Next, Promise!End
  <2>7. CASE UNCHANGED vars
    BY <2>7 DEF vars, Promise!vars
  <2>8. QED
    BY <2>1, <2>2, <2>3, <2>4, <2>5, <2>6, <2>7 DEF Next, Shutdown
<1>3. QED
  BY <1>1, <1>2, WebhookTypeCorrect, PTL DEF Spec, ImplementsBestEffort, Promise!Spec
-----------------------------------------------------------------------------
(* Order *)

Rising(s) == \A i, j \in DOMAIN s : i < j => s[i] < s[j]
Below(s, n) == \A i \in DOMAIN s : s[i] < n
Above(s, n) == \A i \in DOMAIN s : n < s[i]

\* OrderInv: what was posted, what is being posted and what waits are, in this
\* order, events with rising numbers, none of them still to be notified.
OrderInv ==
  /\ Rising(posted) /\ Rising(queue) /\ \A j \in DOMAIN queue : Below(posted, queue[j])
  /\ Below(posted, count + 1) /\ Below(queue, count + 1)
  /\ worker = "send" => Below(posted, sending) /\ Above(queue, sending) /\ sending < count + 1

\* An event with a higher number joins a sequence of events.
LEMMA RisingAppend ==
  ASSUME NEW s \in Seq(Numbers), NEW e \in Numbers, Rising(s), Below(s, e)
  PROVE  /\ Rising(Append(s, e))
         /\ \A n \in Int : Below(s, n) /\ e < n => Below(Append(s, e), n)
         /\ \A n \in Int : Above(s, n) /\ n < e => Above(Append(s, e), n)
         /\ \A i \in DOMAIN Append(s, e) : (i \in DOMAIN s /\ Append(s, e)[i] = s[i]) \/ Append(s, e)[i] = e
<1> DEFINE a == Append(s, e)
           m == Len(s)
<1>1. m \in Nat /\ DOMAIN s = 1..m
  BY LenProperties
<1>2. a \in Seq(Numbers) /\ Len(a) = m + 1 /\ a[m + 1] = e /\ \A i \in 1..m : a[i] = s[i]
  BY AppendProperties
<1> HIDE DEF a
<1>3. DOMAIN a = 1..(m + 1)
  BY <1>2, LenProperties
<1> HIDE DEF m
<1>4. \A i \in 1..(m + 1) : i \in 1..m \/ i = m + 1
  BY <1>1
<1>5. \A i \in DOMAIN a : (i \in DOMAIN s /\ a[i] = s[i]) \/ a[i] = e
  BY <1>1, <1>2, <1>3, <1>4
<1>6. Rising(a)
  <2> SUFFICES ASSUME NEW i \in 1..(m + 1), NEW j \in 1..(m + 1), i < j
               PROVE  a[i] < a[j]
    BY <1>3 DEF Rising
  <2>1. i \in 1..m
    BY <1>1
  <2>2. CASE j \in 1..m
    BY <1>1, <1>2, <2>1, <2>2 DEF Rising
  <2>3. CASE j = m + 1
    BY <1>1, <1>2, <2>1, <2>3 DEF Below
  <2>4. QED
    BY <1>4, <2>2, <2>3
<1>7. QED
  BY <1>5, <1>6 DEF Below, Above, a

\* The event in front leaves a sequence of events.
LEMMA RisingTail ==
  ASSUME NEW s \in Seq(Numbers), s # <<>>, Rising(s)
  PROVE  /\ 1 \in DOMAIN s /\ Head(s) = s[1] /\ Rising(Tail(s)) /\ Above(Tail(s), Head(s))
         /\ \A i \in DOMAIN Tail(s) : i + 1 \in DOMAIN s /\ Tail(s)[i] = s[i + 1]
<1>1. Len(s) \in Nat /\ Len(s) # 0 /\ DOMAIN s = 1..Len(s)
  BY LenProperties, EmptySeq
<1>2. /\ Tail(s) \in Seq(Numbers) /\ Len(Tail(s)) = Len(s) - 1
      /\ \A i \in 1..Len(Tail(s)) : Tail(s)[i] = s[i + 1]
  BY HeadTailProperties
<1>3. PICK t : t = Tail(s)
  OBVIOUS
<1>4. DOMAIN t = 1..(Len(s) - 1)
  BY <1>2, <1>3, LenProperties
<1>5. \A i \in DOMAIN t : i \in Nat /\ 1 < i + 1 /\ i + 1 \in DOMAIN s /\ t[i] = s[i + 1]
  BY <1>1, <1>2, <1>3, <1>4
<1>6. Head(s) = s[1] /\ 1 \in DOMAIN s
  BY <1>1
<1>7. Rising(t)
  <2> SUFFICES ASSUME NEW i \in DOMAIN t, NEW j \in DOMAIN t, i < j
               PROVE  t[i] < t[j]
    BY DEF Rising
  <2>1. i + 1 < j + 1
    BY <1>5
  <2>2. QED
    BY <1>5, <2>1 DEF Rising
<1>8. Above(t, s[1])
  BY <1>5, <1>6 DEF Rising, Above
<1>9. QED
  BY <1>3, <1>5, <1>6, <1>7, <1>8

\* OrderInv is inductive.
LEMMA OrderNext ==
  ASSUME TypeOK, SendingInv, OrderInv, [Next]_vars
  PROVE  OrderInv'
<1>1. posted \in Seq(Numbers) /\ queue \in Seq(Numbers) /\ count \in Nat /\ Numbers \subseteq Int
  BY WebhookAssumption DEF TypeOK, Numbers
<1>2. /\ \A i \in DOMAIN posted : posted[i] \in Numbers /\ posted[i] \in Int
      /\ \A i \in DOMAIN queue : queue[i] \in Numbers /\ queue[i] \in Int
  <2>1. DOMAIN posted = 1..Len(posted) /\ DOMAIN queue = 1..Len(queue)
    BY <1>1, LenProperties
  <2>2. QED
    BY <1>1, <2>1, ElementOfSeq
<1>3. CASE \E t \in Types : Notify(t)
  <2>1. /\ count < MaxNotify /\ count' = count + 1 /\ posted' = posted /\ worker' = worker /\ sending' = sending
        /\ queue' = Append(queue, count + 1) \/ queue' = queue
    BY <1>3 DEF Notify
  <2>2. count + 1 \in Numbers /\ count + 1 < count' + 1
    BY <1>1, <2>1, WebhookAssumption DEF Numbers
  <2>3. Below(posted, count' + 1) /\ Below(queue, count' + 1)
    BY <1>1, <1>2, <2>1 DEF OrderInv, Below
  <2>4. worker = "send" => sending \in Int /\ sending < count + 1 /\ sending < count' + 1
    BY <1>1, <2>1 DEF OrderInv, SendingInv, Numbers
  <2>5. CASE queue' = queue
    BY <2>1, <2>3, <2>4, <2>5 DEF OrderInv
  <2>6. CASE queue' = Append(queue, count + 1)
    <3>1. /\ Rising(queue') /\ Below(queue', count' + 1)
          /\ \A n \in Int : Above(queue, n) /\ n < count + 1 => Above(queue', n)
          /\ \A i \in DOMAIN queue' : (i \in DOMAIN queue /\ queue'[i] = queue[i]) \/ queue'[i] = count + 1
      <4>1. count' + 1 \in Int
        BY <1>1, <2>1
      <4>2. Rising(queue) /\ Below(queue, count + 1)
        BY DEF OrderInv
      <4>3. QED
        BY <1>1, <2>2, <2>3, <2>6, <4>1, <4>2, RisingAppend
    <3>2. \A j \in DOMAIN queue' : Below(posted, queue'[j])
      BY <3>1 DEF OrderInv
    <3>3. QED
      BY <2>1, <2>3, <2>4, <3>1, <3>2 DEF OrderInv
  <2>7. QED
    BY <2>1, <2>5, <2>6
<1>4. CASE Take
  <2>1. /\ queue # <<>> /\ worker' = "send" /\ sending' = Head(queue) /\ queue' = Tail(queue)
        /\ count' = count /\ posted' = posted
    BY <1>4 DEF Take
  <2>2. /\ 1 \in DOMAIN queue /\ Head(queue) = queue[1] /\ Rising(queue') /\ Above(queue', Head(queue))
        /\ \A i \in DOMAIN queue' : i + 1 \in DOMAIN queue /\ queue'[i] = queue[i + 1]
    BY <1>1, <2>1, RisingTail DEF OrderInv
  <2>3. Below(queue', count + 1) /\ \A j \in DOMAIN queue' : Below(posted, queue'[j])
    BY <2>2 DEF OrderInv, Below
  <2>4. Below(posted, sending') /\ sending' < count + 1
    BY <2>1, <2>2 DEF OrderInv, Below
  <2>5. QED
    BY <2>1, <2>2, <2>3, <2>4 DEF OrderInv
<1>5. CASE Send
  <2>1. /\ worker = "send" /\ worker' = "select" /\ count' = count /\ queue' = queue /\ sending \in Numbers
        /\ posted' = posted \/ posted' = Append(posted, sending)
    BY <1>5 DEF Send, SendingInv
  <2>2. CASE posted' = posted
    BY <2>1, <2>2 DEF OrderInv
  <2>3. CASE posted' = Append(posted, sending)
    <3>1. Rising(posted') /\ \A n \in Int : Below(posted, n) /\ sending < n => Below(posted', n)
      BY <1>1, <2>1, <2>3, RisingAppend DEF OrderInv
    <3>2. Below(posted', count + 1)
      BY <1>1, <2>1, <3>1 DEF OrderInv
    <3>3. \A j \in DOMAIN queue : Below(posted', queue[j])
      BY <1>2, <2>1, <3>1 DEF OrderInv, Above
    <3>4. QED
      BY <2>1, <3>1, <3>2, <3>3 DEF OrderInv
  <2>4. QED
    BY <2>1, <2>2, <2>3
<1>6. CASE Quit \/ Shutdown \/ UNCHANGED vars
  <2>1. count' = count /\ queue' = queue /\ posted' = posted /\ (worker' = "send" => worker = "send" /\ sending' = sending)
    BY <1>6 DEF Quit, Shutdown, ShutdownCancel, ShutdownClose, ShutdownWait, vars
  <2>2. QED
    BY <2>1 DEF OrderInv
<1>7. QED
  BY <1>3, <1>4, <1>5, <1>6 DEF Next

\* The receiver gets the events in the order of the notify calls and each at
\* most once, whatever is dropped at a full channel, fails or is interrupted
\* by shutdown (webhooks.go run, send).
THEOREM DeliveredInOrder == Spec => []Promise!InOrder
<1>1. Init => OrderInv
  <2> SUFFICES ASSUME Init
               PROVE  OrderInv
    OBVIOUS
  <2>1. posted = <<>> /\ queue = <<>> /\ worker # "send"
    BY DEF Init
  <2>2. DOMAIN posted = {} /\ DOMAIN queue = {}
    BY <2>1
  <2>3. QED
    BY <2>1, <2>2 DEF OrderInv, Rising, Below
<1>2. TypeOK /\ SendingInv /\ OrderInv /\ [Next]_vars => OrderInv'
  BY OrderNext
<1>3. OrderInv => Promise!InOrder
  BY DEF OrderInv, Rising, Promise!InOrder
<1>4. QED
  BY <1>1, <1>2, <1>3, WebhookTypeCorrect, PTL DEF Spec
=============================================================================
