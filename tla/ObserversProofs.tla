-------------------------- MODULE ObserversProofs --------------------------
(***************************************************************************)
(* Theorems about Observers, Metrics and Response: what docknap reports is *)
(* right for all numbers of goroutines, requests, scrapes and buckets.     *)
(***************************************************************************)
EXTENDS Observers, FiniteSetTheorems, SequenceTheorems, TLAPS

-----------------------------------------------------------------------------
(* Counting *)

\* How many goroutines are at l, if they are at f.
AtIn(f, l) == Cardinality({t \in DOMAIN f : f[t] = l})

\* One position of f moves from one value to another.
LEMMA MoveCounts ==
  ASSUME NEW T, IsFiniteSet(T), NEW f, f = [x \in T |-> f[x]], NEW t \in T, NEW to, to # f[t], NEW l
  PROVE  LET g == [f EXCEPT ![t] = to]
         IN  /\ AtIn(f, l) \in Nat /\ AtIn(g, l) \in Nat
             /\ f[t] = l => AtIn(g, l) = AtIn(f, l) - 1
             /\ to = l => AtIn(g, l) = AtIn(f, l) + 1
             /\ f[t] # l /\ to # l => AtIn(g, l) = AtIn(f, l)
<1> DEFINE g == [f EXCEPT ![t] = to]
           A == {x \in DOMAIN f : f[x] = l}
           B == {x \in DOMAIN g : g[x] = l}
<1>1. DOMAIN f = T /\ DOMAIN g = T /\ g[t] = to /\ \A x \in T \ {t} : g[x] = f[x]
  OBVIOUS
<1>2. AtIn(f, l) = Cardinality(A) /\ AtIn(g, l) = Cardinality(B)
  BY DEF AtIn
<1> HIDE DEF g
<1>3. A \in SUBSET T /\ B \in SUBSET T
  BY <1>1
<1>4. IsFiniteSet(A) /\ IsFiniteSet(B)
  BY <1>3, FS_Subset
<1>5. CASE f[t] = l
  <2>1. B = A \ {t} /\ t \in A
    BY <1>1, <1>5
  <2> HIDE DEF A, B
  <2>2. Cardinality(A) \in Nat /\ Cardinality(B) \in Nat /\ Cardinality(B) = Cardinality(A) - 1
    BY <1>4, <2>1, FS_RemoveElement, FS_CardinalityType
  <2>3. QED
    BY <1>2, <1>5, <2>2 DEF g
<1>6. CASE to = l
  <2>1. B = A \cup {t} /\ t \notin A
    BY <1>1, <1>6
  <2> HIDE DEF A, B
  <2>2. Cardinality(A) \in Nat /\ Cardinality(B) \in Nat /\ Cardinality(B) = Cardinality(A) + 1
    BY <1>4, <2>1, FS_AddElement, FS_CardinalityType
  <2>3. QED
    BY <1>2, <1>6, <2>2 DEF g
<1>7. CASE f[t] # l /\ to # l
  <2>1. B = A
    BY <1>1, <1>7
  <2> HIDE DEF A, B
  <2>2. Cardinality(A) \in Nat
    BY <1>4, FS_CardinalityType
  <2>3. QED
    BY <1>2, <1>7, <2>1, <2>2 DEF g
<1>8. QED
  BY <1>5, <1>6, <1>7

\* How often a value occurs in a sequence that grows by one.
LEMMA AppendCounts ==
  ASSUME NEW S, NEW s \in Seq(S), NEW e \in S, NEW d
  PROVE  /\ Count(s, d) \in Nat
         /\ Count(Append(s, e), d) \in Nat
         /\ e = d => Count(Append(s, e), d) = Count(s, d) + 1
         /\ e # d => Count(Append(s, e), d) = Count(s, d)
<1> DEFINE n == Len(s)
           a == Append(s, e)
           A == {i \in DOMAIN s : s[i] = d}
           B == {i \in DOMAIN a : a[i] = d}
<1>1. n \in Nat /\ DOMAIN s = 1..n
  BY LenProperties
<1>2. /\ a \in Seq(S) /\ Len(a) = n + 1 /\ a[n + 1] = e
      /\ \A i \in 1..n : a[i] = s[i]
  BY AppendProperties
<1>3. DOMAIN a = 1..(n + 1)
  <2> HIDE DEF a, n
  <2>1. QED
    BY <1>2, LenProperties
<1>4. 1..(n + 1) = (1..n) \cup {n + 1} /\ n + 1 \notin 1..n
  BY <1>1
<1>5. IsFiniteSet(A) /\ Cardinality(A) \in Nat /\ n + 1 \notin A
  <2>1. IsFiniteSet(1..n) /\ A \in SUBSET (1..n)
    BY <1>1, FS_Interval
  <2>2. QED
    BY <1>1, <1>4, <2>1, FS_Subset, FS_CardinalityType
<1>6. Count(s, d) = Cardinality(A) /\ Count(a, d) = Cardinality(B)
  BY DEF Count
<1>7. CASE e = d
  <2>1. B = A \cup {n + 1}
    <3> HIDE DEF a, n
    <3>1. QED
      BY <1>1, <1>2, <1>3, <1>4, <1>7
  <2> HIDE DEF A, B
  <2>2. Cardinality(B) = Cardinality(A) + 1
    BY <1>5, <2>1, FS_AddElement
  <2>3. QED
    BY <1>5, <1>6, <1>7, <2>2
<1>8. CASE e # d
  <2>1. B = A
    <3> HIDE DEF a, n
    <3>1. QED
      BY <1>1, <1>2, <1>3, <1>4, <1>8
  <2> HIDE DEF A, B
  <2>2. QED
    BY <1>5, <1>6, <1>8, <2>1
<1>9. QED
  BY <1>7, <1>8
-----------------------------------------------------------------------------
(* Requests *)

\* What is true of a request at a, with recorder c, final code f sent, and an
\* interim answer forwarded or not: once a final answer is out, the recorder
\* holds its code, or the interim one.
RequestOf(a, c, f, i) ==
  /\ a = "port" => c = [status |-> "200", wroteHeader |-> FALSE] /\ f = "" /\ i = FALSE
  /\ a = "upstream" => /\ f = ""
                       /\ i => c = [status |-> "102", wroteHeader |-> TRUE]
                       /\ ~i => c = [status |-> "200", wroteHeader |-> FALSE]
  /\ a \in {"body", "panic", "recover"} => f # ""
  /\ a \notin {"port", "upstream"} => (i => c.status = "102") /\ (~i => c.status = f)

\* A request that has been counted.
Counted(a) == a \in {"recover", "end", "complete"}
CountedWith(code) == {q \in Requests : Counted(at[q]) /\ rec[q].status = code}

\* The requests' types.
ResponseType ==
  /\ at \in [Requests -> {"port", "upstream", "body", "return", "panic", "recover", "end", "complete"}]
  /\ rec \in [Requests -> [status : AllCodes, wroteHeader : BOOLEAN]]
  /\ sent \in [Requests -> AllCodes \cup {""}]
  /\ interim \in [Requests -> BOOLEAN]

\* ResponseInv: the invariant behind StatusCounted.
ResponseInv ==
  /\ ResponseType
  /\ \A q \in Requests : RequestOf(at[q], rec[q], sent[q], interim[q])

StatusLedger == \A code \in AllCodes : values[code] = Cardinality(CountedWith(code))

\* The first answer of a request, recorded on top of its own status.
LEMMA AnswersFirst ==
  ASSUME ResponseInv, NEW q \in Requests, at[q] \in {"port", "upstream"}, NEW l \in {"return", "body"},
         NEW code \in AllCodes, NEW s, interim[q] => s = rec[q].status, NEW bytes,
         Recorded(q, s, code), Answers(q, code, bytes), RequestTo(q, l), UNCHANGED interim
  PROVE  ResponseInv'
<1>1. ResponseType /\ RequestOf(at[q], rec[q], sent[q], interim[q]) /\ interim[q] \in BOOLEAN
  BY DEF ResponseInv, ResponseType
<1>2. sent[q] = "" /\ code # ""
  BY <1>1, ResponseAssumption DEF RequestOf, AllCodes
<1>3. at' = [at EXCEPT ![q] = l] /\ sent' = [sent EXCEPT ![q] = code] /\ interim' = interim
  BY <1>2 DEF Answers, RequestTo
<1>4. CASE interim[q]
  <2> DEFINE d == [status |-> "102", wroteHeader |-> TRUE]
  <2>1. rec[q] = d
    BY <1>1, <1>4 DEF RequestOf
  <2>2. rec' = [rec EXCEPT ![q] = d]
    <3>1. rec[q].wroteHeader = TRUE /\ rec[q].status = "102" /\ s = rec[q].status
      BY <1>4, <2>1
    <3>2. (IF rec[q].wroteHeader THEN [rec[q] EXCEPT !.status = s]
                                 ELSE [status |-> code, wroteHeader |-> TRUE]) = [rec[q] EXCEPT !.status = s]
      BY <3>1, Zenon
    <3>3. [rec[q] EXCEPT !.status = s] = d
      BY <2>1, <3>1
    <3>4. QED
      BY <3>2, <3>3, Zenon DEF Recorded
  <2>3. RequestOf(l, d, code, interim[q]) /\ d \in [status : AllCodes, wroteHeader : BOOLEAN]
    BY <1>2, <1>4 DEF RequestOf, AllCodes
  <2> HIDE DEF d
  <2>4. QED
    BY <1>3, <2>2, <2>3 DEF ResponseInv, ResponseType
<1>5. CASE ~ interim[q]
  <2> DEFINE d == [status |-> code, wroteHeader |-> TRUE]
  <2>1. rec[q] = [status |-> "200", wroteHeader |-> FALSE]
    BY <1>1, <1>5 DEF RequestOf
  <2>2. rec' = [rec EXCEPT ![q] = d]
    <3>1. rec[q].wroteHeader = FALSE
      BY <2>1
    <3>2. (IF rec[q].wroteHeader THEN [rec[q] EXCEPT !.status = s]
                                 ELSE [status |-> code, wroteHeader |-> TRUE]) = d
      BY <3>1, Zenon
    <3>3. QED
      BY <3>2, Zenon DEF Recorded
  <2>3. RequestOf(l, d, code, interim[q]) /\ d \in [status : AllCodes, wroteHeader : BOOLEAN]
    BY <1>2, <1>5 DEF RequestOf
  <2> HIDE DEF d
  <2>4. QED
    BY <1>3, <2>2, <2>3 DEF ResponseInv, ResponseType
<1>6. QED
  BY <1>4, <1>5

\* The request moves and nothing is answered.
LEMMA JustMoves ==
  ASSUME ResponseInv, NEW q \in Requests, NEW l, RequestTo(q, l), UNCHANGED <<rec, sent, interim>>,
         \/ at[q] = "port" /\ l = "upstream"
         \/ at[q] = "upstream" /\ interim[q] /\ l = "return"
         \/ at[q] = "body" /\ l \in {"return", "panic"}
         \/ at[q] = "panic" /\ l = "recover"
         \/ at[q] \in {"return", "recover"} /\ l = "end"
  PROVE  ResponseInv'
<1>1. ResponseType /\ RequestOf(at[q], rec[q], sent[q], interim[q]) /\ interim[q] \in BOOLEAN
  BY DEF ResponseInv, ResponseType
<1>2. at' = [at EXCEPT ![q] = l]
  BY DEF RequestTo
<1>3. CASE at[q] = "upstream" /\ interim[q] /\ l = "return"
  <2>1. rec[q].status = "102"
    <3>1. rec[q] = [status |-> "102", wroteHeader |-> TRUE]
      BY <1>1, <1>3 DEF RequestOf
    <3>2. QED
      BY <3>1
  <2>2. RequestOf(l, rec[q], sent[q], interim[q])
    BY <1>3, <2>1 DEF RequestOf
  <2>3. QED
    BY <1>1, <1>2, <2>2 DEF ResponseInv, ResponseType
<1>4. CASE at[q] # "upstream"
  <2>1. RequestOf(l, rec[q], sent[q], interim[q]) /\ l \in {"upstream", "return", "panic", "recover", "end"}
    BY <1>1, <1>4 DEF RequestOf
  <2>2. QED
    BY <1>1, <1>2, <2>1 DEF ResponseInv, ResponseType
<1>5. QED
  BY <1>3, <1>4

\* Every step of a request keeps ResponseInv.
LEMMA RespondInv ==
  ASSUME ResponseInv, NEW q \in Requests, Respond(q)
  PROVE  ResponseInv'
<1>1. ResponseType /\ RequestOf(at[q], rec[q], sent[q], interim[q]) /\ interim[q] \in BOOLEAN
  BY DEF ResponseInv, ResponseType
<1>2. "102" \in AllCodes /\ "200" \in AllCodes /\ "502" \in AllCodes /\ "503" \in AllCodes
  BY DEF AllCodes
<1>3. ASSUME at[q] \in {"port", "upstream"}, ~ interim[q]
      PROVE  rec[q] = [status |-> "200", wroteHeader |-> FALSE] /\ rec[q].wroteHeader = FALSE
  <2>1. rec[q] = [status |-> "200", wroteHeader |-> FALSE]
    BY <1>1, <1>3 DEF RequestOf
  <2>2. QED
    BY <2>1
<1>4. ASSUME at[q] = "port"
      PROVE  ~ interim[q]
  BY <1>1, <1>4 DEF RequestOf
<1>5. ASSUME at[q] \in {"port", "upstream"}, ~ interim[q], ServeLoading(q), RequestTo(q, "return"), UNCHANGED interim
      PROVE  ResponseInv'
  <2>1. Recorded(q, "503", "503") /\ Answers(q, "503", "loading")
    BY <1>3, <1>5, Zenon DEF ServeLoading
  <2>2. QED
    BY <1>2, <1>5, <2>1, AnswersFirst
<1>6. CASE PortClosed(q)
  BY <1>4, <1>5, <1>6 DEF PortClosed
<1>7. CASE TargetUnavailable(q)
  BY <1>2, <1>4, <1>7, AnswersFirst DEF TargetUnavailable
<1>8. CASE Forward(q)
  BY <1>8, JustMoves DEF Forward
<1>9. CASE Interim(q)
  <2> DEFINE d == [status |-> "102", wroteHeader |-> TRUE]
  <2>1. at[q] = "upstream" /\ ~ interim[q] /\ Recorded(q, rec[q].status, "102")
    BY <1>9 DEF Interim
  <2>2. rec[q].wroteHeader = FALSE
    BY <1>3, <2>1
  <2>3. (IF rec[q].wroteHeader THEN [rec[q] EXCEPT !.status = rec[q].status] ELSE d) = d
    BY <2>2, Zenon
  <2>4. rec' = [rec EXCEPT ![q] = d]
    BY <2>1, <2>3, Zenon DEF Recorded
  <2>5. interim' = [interim EXCEPT ![q] = TRUE] /\ UNCHANGED <<at, sent>>
    BY <1>9 DEF Interim
  <2>6. RequestOf(at[q], d, sent[q], TRUE) /\ d \in [status : AllCodes, wroteHeader : BOOLEAN]
    BY <1>1, <1>2, <2>1 DEF RequestOf
  <2> HIDE DEF d
  <2>7. QED
    BY <2>4, <2>5, <2>6 DEF ResponseInv, ResponseType
<1>10. ASSUME NEW code \in Codes, UpstreamAnswers(q, code)
       PROVE  ResponseInv'
  BY <1>10, AnswersFirst DEF UpstreamAnswers, AllCodes
<1>11. CASE ErrorHandler(q)
  <2>1. at[q] = "upstream" /\ RequestTo(q, "return") /\ UNCHANGED interim
    BY <1>11 DEF ErrorHandler
  <2>2. CASE interim[q]
    <3>1. rec[q] = [status |-> "102", wroteHeader |-> TRUE]
      BY <1>1, <2>1, <2>2 DEF RequestOf
    <3>2. rec[q].wroteHeader = TRUE
      BY <3>1
    <3>3. UNCHANGED <<rec, sent>>
      BY <1>11, <3>2 DEF ErrorHandler
    <3>4. QED
      BY <2>1, <2>2, <3>3, JustMoves
  <2>3. CASE ~ interim[q]
    <3>1. rec[q].wroteHeader = FALSE
      BY <1>3, <2>1, <2>3
    <3>2. ServeLoading(q)
      BY <1>11, <3>1, Zenon DEF ErrorHandler
    <3>3. QED
      BY <1>5, <2>1, <2>3, <3>2
  <2>4. QED
    BY <2>2, <2>3
<1>12. CASE BodyEnds(q)
  BY <1>12, JustMoves DEF BodyEnds
<1>13. CASE BodyBreaks(q)
  BY <1>13, JustMoves DEF BodyBreaks
<1>14. CASE CountProxy(q)
  <2>1. UNCHANGED <<rec, sent, interim>>
    BY <1>14 DEF CountProxy
  <2>2. CASE at[q] = "panic"
    BY <1>14, <2>1, <2>2, JustMoves DEF CountProxy, RequestTo
  <2>3. CASE at[q] = "return"
    BY <1>14, <2>1, <2>3, JustMoves DEF CountProxy, RequestTo
  <2>4. QED
    BY <1>14, <2>2, <2>3 DEF CountProxy
<1>15. CASE Recover(q)
  <2>1. at[q] = "recover" /\ RequestTo(q, "end") /\ Answers(q, "500", "error") /\ UNCHANGED <<rec, interim>>
    BY <1>15 DEF Recover
  <2>2. sent[q] # ""
    BY <1>1, <2>1 DEF RequestOf
  <2>3. sent' = sent
    BY <1>1, <2>1, <2>2 DEF Answers, ResponseType
  <2>4. QED
    BY <2>1, <2>3, JustMoves
<1>16. CASE Complete(q)
  <2>1. at[q] = "end" /\ at' = [at EXCEPT ![q] = "complete"] /\ UNCHANGED <<rec, interim>>
    BY <1>16 DEF Complete, RequestTo
  <2>2. PICK f \in AllCodes \cup {""} : sent' = [sent EXCEPT ![q] = f] /\ (sent[q] # "" => f = sent[q])
    BY <1>1, <1>2, <1>16 DEF Complete, ResponseType
  <2>3. ~ interim[q] => rec[q].status = sent[q]
    BY <1>1, <2>1 DEF RequestOf
  <2>4. ~ interim[q] => sent[q] # ""
    BY <1>1, <2>3, ResponseAssumption DEF ResponseType, AllCodes
  <2>5. RequestOf("complete", rec[q], f, interim[q])
    BY <1>1, <2>1, <2>2, <2>3, <2>4 DEF RequestOf
  <2>6. QED
    BY <2>1, <2>2, <2>5 DEF ResponseInv, ResponseType
<1>17. QED
  BY <1>6, <1>7, <1>8, <1>9, <1>10, <1>11, <1>12, <1>13, <1>14, <1>15, <1>16 DEF Respond

\* A request is counted once, in its deferred call, with the status its
\* recorder then holds and keeps.
LEMMA RespondLedger ==
  ASSUME ResponseInv, StatusLedger, values \in [Series -> Nat], NEW q \in Requests, Respond(q)
  PROVE  StatusLedger'
<1>1. ResponseType /\ IsFiniteSet(Requests) /\ AllCodes \subseteq Series
  BY ResponseAssumption DEF ResponseInv
<1>2. ASSUME values' = values, NEW l, RequestTo(q, l), Counted(at[q]) <=> Counted(l),
             \A p \in Requests : Counted(at[p]) => rec'[p] = rec[p]
      PROVE  StatusLedger'
  <2>1. \A p \in Requests : Counted(at'[p]) <=> Counted(at[p])
    BY <1>1, <1>2 DEF RequestTo, ResponseType
  <2>2. \A code : CountedWith(code)' = CountedWith(code)
    BY <1>2, <2>1 DEF CountedWith
  <2>3. QED
    BY <1>2, <2>2 DEF StatusLedger
<1>3. ASSUME NEW s, NEW code, at[q] \in {"port", "upstream"},
             Recorded(q, s, code) \/ rec' = rec \/ rec' = [rec EXCEPT ![q].status = "503"]
      PROVE  \A p \in Requests : Counted(at[p]) => rec'[p] = rec[p]
  BY <1>1, <1>3 DEF Recorded, ResponseType, Counted
<1>4. ASSUME at[q] \in {"port", "upstream"}, ServeLoading(q)
      PROVE  \A p \in Requests : Counted(at[p]) => rec'[p] = rec[p]
  BY <1>3, <1>4 DEF ServeLoading
<1>5. CASE PortClosed(q)
  BY <1>2, <1>4, <1>5 DEF PortClosed, mvars, metrics, Counted
<1>6. CASE TargetUnavailable(q)
  BY <1>2, <1>3, <1>6 DEF TargetUnavailable, mvars, metrics, Counted
<1>7. CASE Forward(q)
  BY <1>2, <1>7 DEF Forward, mvars, metrics, Counted
<1>8. CASE Interim(q)
  <2>1. \A p \in Requests : Counted(at[p]) => rec'[p] = rec[p]
    BY <1>3, <1>8 DEF Interim
  <2>2. \A code : CountedWith(code)' = CountedWith(code)
    BY <1>8, <2>1 DEF Interim, CountedWith
  <2>3. QED
    BY <1>8, <2>2 DEF Interim, mvars, metrics, StatusLedger
<1>9. ASSUME NEW code \in Codes, UpstreamAnswers(q, code)
      PROVE  StatusLedger'
  BY <1>2, <1>3, <1>9 DEF UpstreamAnswers, mvars, metrics, Counted
<1>10. CASE ErrorHandler(q)
  <2>1. \A p \in Requests : Counted(at[p]) => rec'[p] = rec[p]
    BY <1>4, <1>10 DEF ErrorHandler
  <2>2. QED
    BY <1>2, <1>10, <2>1 DEF ErrorHandler, mvars, metrics, Counted
<1>11. CASE BodyEnds(q)
  BY <1>2, <1>11 DEF BodyEnds, mvars, metrics, Counted
<1>12. CASE BodyBreaks(q)
  BY <1>2, <1>12 DEF BodyBreaks, mvars, metrics, Counted
<1>13. CASE Recover(q)
  BY <1>2, <1>13 DEF Recover, mvars, metrics, Counted
<1>14. CASE Complete(q)
  BY <1>2, <1>14 DEF Complete, mvars, metrics, Counted
<1>15. CASE CountProxy(q)
  <2>1. PICK k \in AllCodes : k = rec[q].status
    BY <1>1 DEF ResponseType
  <2>2. values' = [values EXCEPT ![k] = @ + 1] /\ rec' = rec
    BY <1>15, <2>1 DEF CountProxy, Add
  <2>3. ~ Counted(at[q]) /\ Counted(at'[q]) /\ \A p \in Requests \ {q} : at'[p] = at[p]
    BY <1>1, <1>15 DEF CountProxy, RequestTo, Counted, ResponseType
  <2>4. \A code \in AllCodes \ {k} : CountedWith(code)' = CountedWith(code) /\ values'[code] = values[code]
    BY <1>1, <2>1, <2>2, <2>3 DEF CountedWith
  <2>5. CountedWith(k)' = CountedWith(k) \cup {q} /\ q \notin CountedWith(k)
    BY <2>1, <2>2, <2>3 DEF CountedWith
  <2>6. IsFiniteSet(CountedWith(k)) /\ Cardinality(CountedWith(k)) \in Nat
    <3>1. CountedWith(k) \in SUBSET Requests
      BY DEF CountedWith
    <3>2. QED
      BY <1>1, <3>1, FS_Subset, FS_CardinalityType
  <2>7. values'[k] = values[k] + 1 /\ values[k] = Cardinality(CountedWith(k))
    BY <1>1, <2>1, <2>2 DEF StatusLedger
  <2>8. values'[k] = Cardinality(CountedWith(k)')
    BY <2>5, <2>6, <2>7, FS_AddElement
  <2>9. QED
    BY <2>4, <2>8 DEF StatusLedger
<1>16. QED
  BY <1>5, <1>6, <1>7, <1>8, <1>9, <1>10, <1>11, <1>12, <1>13, <1>14, <1>15 DEF Respond
-----------------------------------------------------------------------------
(* The registry and its scrapes *)

\* The metrics' types.
Page == [saw : States \cup {NoState}, gauge : SUBSET States, values : [Series -> Nat],
         bcount : [DOMAIN Buckets -> Nat] \cup {<<>>}, count : Nat, sum : Nat]
MetricsType ==
  /\ values \in [Series -> Nat] /\ gauge \subseteq States /\ cached \in States \cup {NoState}
  /\ hist \in [count : Nat, sum : Nat, bcount : [DOMAIN Buckets -> Nat]]
  /\ observed \in Seq([value : Nat, total : Nat])
  /\ scrape \in [Scrapers -> {"none", "set", "refreshed", "buckets", "count", "printed"}]
  /\ page \in [Scrapers -> Page]

\* The durations observed so far, o: the total of the first n, and how many of
\* them fit in bucket i.
Observations == [value : Nat, total : Nat]
TotalIn(o, n) == IF n = 0 THEN 0 ELSE o[n].total
FitIn(o, i, n) == Cardinality({j \in 1..n : o[j].value <= Buckets[i]})

\* A histogram or the part of a page that is about durations, p, is the exact
\* summary of the first n durations of o.
Summary(p, o, n) ==
  /\ p.count = n /\ p.sum = TotalIn(o, n)
  /\ \A i \in DOMAIN Buckets : p.bcount[i] = FitIn(o, i, n)

\* What is true of a scrape at l with page p: while it holds the lock what it
\* has printed is what the registry holds.
PageOf(l, p) ==
  /\ l = "none" => p.saw = NoState
  /\ l = "set" => p.saw \in States
  /\ l \in {"buckets", "count"} => p.values = values
  /\ l = "count" => p.bcount = hist.bcount
  /\ l = "printed" => /\ \E n \in 0..Len(observed) : Summary(p, observed, n)
                      /\ p.count <= p.values["starts"]

\* RegistryInv: the invariant behind PageExact and PageOrdered; the histogram
\* sums up all the durations.
RegistryInv ==
  /\ MetricsType
  /\ Summary(hist, observed, Len(observed))
  /\ \A r \in Scrapers : PageOf(scrape[r], page[r])

\* What a step other than a scrape's does to the registry.
Registers ==
  \/ \E k \in Series : Add(k) /\ UNCHANGED <<gauge, hist, observed, scrapes, cached>>
  \/ \E v \in Elapsed : Observe(v) /\ UNCHANGED <<values, gauge, scrapes, cached>>
  \/ cached' \in States \cup {NoState} /\ UNCHANGED <<metrics, scrapes>>
  \/ UNCHANGED mvars

\* A new duration leaves the total and the counts of the first n alone.
LEMMA PrefixStays ==
  ASSUME NEW o \in Seq(Observations), NEW e \in Observations, NEW n \in 0..Len(o), NEW i
  PROVE  TotalIn(Append(o, e), n) = TotalIn(o, n) /\ FitIn(Append(o, e), i, n) = FitIn(o, i, n)
<1>1. Len(o) \in Nat
  BY LenProperties
<1>2. \A j \in 1..n : j \in 1..Len(o)
  BY <1>1
<1>3. \A j \in 1..n : Append(o, e)[j] = o[j]
  BY <1>2, AppendProperties
<1>4. n # 0 => n \in 1..n
  BY <1>1
<1>5. {j \in 1..n : Append(o, e)[j].value <= Buckets[i]} = {j \in 1..n : o[j].value <= Buckets[i]}
  BY <1>3
<1>6. QED
  BY <1>3, <1>4, <1>5 DEF TotalIn, FitIn

\* The counts are numbers, and one more duration counts once where it fits.
LEMMA FitNext ==
  ASSUME NEW o, NEW i, NEW n \in Nat
  PROVE  /\ FitIn(o, i, n) \in Nat
         /\ FitIn(o, i, n + 1) = FitIn(o, i, n) + IF o[n + 1].value <= Buckets[i] THEN 1 ELSE 0
<1> DEFINE A == {j \in 1..n : o[j].value <= Buckets[i]}
           B == {j \in 1..(n + 1) : o[j].value <= Buckets[i]}
<1>1. 1..(n + 1) = (1..n) \cup {n + 1} /\ n + 1 \notin 1..n
  OBVIOUS
<1>2. IsFiniteSet(A) /\ Cardinality(A) \in Nat /\ n + 1 \notin A
  <2>1. IsFiniteSet(1..n) /\ A \in SUBSET (1..n)
    BY FS_Interval
  <2>2. QED
    BY <1>1, <2>1, FS_Subset, FS_CardinalityType
<1>3. CASE o[n + 1].value <= Buckets[i]
  <2>1. B = A \cup {n + 1}
    BY <1>1, <1>3
  <2> HIDE DEF A, B
  <2>2. Cardinality(B) = Cardinality(A) + 1
    BY <1>2, <2>1, FS_AddElement
  <2>3. QED
    BY <1>2, <1>3, <2>2 DEF FitIn, A, B
<1>4. CASE ~ (o[n + 1].value <= Buckets[i])
  <2>1. B = A
    BY <1>1, <1>4
  <2>2. FitIn(o, i, n) = Cardinality(A) /\ FitIn(o, i, n + 1) = Cardinality(B)
    BY DEF FitIn
  <2> HIDE DEF A, B
  <2>3. QED
    BY <1>2, <1>4, <2>1, <2>2
<1>5. QED
  BY <1>3, <1>4

\* Observe keeps the histogram the summary of all durations.
LEMMA ObserveSums ==
  ASSUME MetricsType, Summary(hist, observed, Len(observed)), NEW v \in Nat, Observe(v)
  PROVE  /\ hist' \in [count : Nat, sum : Nat, bcount : [DOMAIN Buckets -> Nat]]
         /\ observed' \in Seq(Observations) /\ Len(observed') = Len(observed) + 1
         /\ Summary(hist', observed', Len(observed'))
         /\ \A p, n : n \in 0..Len(observed) /\ Summary(p, observed, n) => Summary(p, observed', n)
<1> DEFINE N == Len(observed)
           e == [value |-> v, total |-> TotalIn(observed, N) + v]
<1>1. observed \in Seq(Observations) /\ N \in Nat
  BY LenProperties DEF MetricsType, Observations
<1>2. hist \in [count : Nat, sum : Nat, bcount : [DOMAIN Buckets -> Nat]] /\ hist.sum = TotalIn(observed, N)
  BY DEF MetricsType, Summary
<1>3. e \in Observations
  BY <1>2 DEF Observations
<1>4. observed' = Append(observed, e)
  BY DEF Observe, Noted, TotalOf, TotalIn
<1>5. hist' = [count |-> hist.count + 1, sum |-> hist.sum + v,
               bcount |-> [i \in DOMAIN Buckets |-> hist.bcount[i] + IF v <= Buckets[i] THEN 1 ELSE 0]]
  BY DEF Observe
<1>6. e.value = v /\ e.total = hist.sum + v
  BY <1>2
<1> HIDE DEF e
<1>7. observed' \in Seq(Observations) /\ Len(observed') = N + 1 /\ observed'[N + 1] = e
  BY <1>1, <1>3, <1>4, AppendProperties
<1>8. \A n \in 0..N : \A i : TotalIn(observed', n) = TotalIn(observed, n) /\ FitIn(observed', i, n) = FitIn(observed, i, n)
  BY <1>1, <1>3, <1>4, PrefixStays
<1>9. \A p, n : n \in 0..N /\ Summary(p, observed, n) => Summary(p, observed', n)
  BY <1>8 DEF Summary
<1>10. hist'.count = N + 1
  BY <1>5 DEF Summary
<1>11. hist'.sum = TotalIn(observed', N + 1)
  BY <1>1, <1>5, <1>6, <1>7 DEF TotalIn
<1>12. ASSUME NEW i \in DOMAIN Buckets
       PROVE  hist'.bcount[i] = FitIn(observed', i, N + 1)
  <2>1. hist'.bcount[i] = hist.bcount[i] + IF v <= Buckets[i] THEN 1 ELSE 0
    BY <1>5
  <2>2. hist.bcount[i] = FitIn(observed, i, N) /\ FitIn(observed', i, N) = FitIn(observed, i, N)
    BY <1>1, <1>8 DEF Summary
  <2>3. FitIn(observed', i, N + 1) = FitIn(observed', i, N) + IF v <= Buckets[i] THEN 1 ELSE 0
    BY <1>1, <1>6, <1>7, FitNext
  <2>4. QED
    BY <2>1, <2>2, <2>3
<1>13. hist' \in [count : Nat, sum : Nat, bcount : [DOMAIN Buckets -> Nat]]
  BY <1>2, <1>5
<1>14. QED
  BY <1>7, <1>9, <1>10, <1>11, <1>12, <1>13 DEF Summary

\* A step of a scrape: the other scrapes' pages stay as they were, and so does
\* all that the registry holds but the gauge, which only grows.
LEMMA ScrapeInv ==
  ASSUME RegistryInv, hist.count <= values["starts"], NEW r \in Scrapers, Scrape(r)
  PROVE  RegistryInv'
<1>1. /\ MetricsType /\ PageOf(scrape[r], page[r]) /\ page[r] \in Page
      /\ Summary(hist, observed, Len(observed))
      /\ values \in [Series -> Nat] /\ gauge \subseteq States /\ cached \in States \cup {NoState}
      /\ hist \in [count : Nat, sum : Nat, bcount : [DOMAIN Buckets -> Nat]]
      /\ Len(observed) \in Nat
  BY LenProperties DEF RegistryInv, MetricsType
<1>2. ASSUME NEW l \in {"none", "set", "refreshed", "buckets", "count", "printed"}, NEW p \in Page,
             scrape' = [scrape EXCEPT ![r] = l], page' = [page EXCEPT ![r] = p], PageOf(l, p)',
             gauge \subseteq gauge', gauge' \subseteq States, UNCHANGED <<values, hist, observed, cached>>
      PROVE  RegistryInv'
  <2>1. MetricsType'
    BY <1>1, <1>2 DEF MetricsType
  <2>2. Summary(hist', observed', Len(observed'))
    BY <1>1, <1>2
  <2>3. ASSUME NEW x \in Scrapers
        PROVE  PageOf(scrape[x], page[x])'
    <3>1. CASE x = r
      <4>1. scrape'[r] = l /\ page'[r] = p
        BY <1>1, <1>2 DEF MetricsType
      <4>2. QED
        BY <1>2, <3>1, <4>1
    <3>2. CASE x # r
      <4>1. scrape'[x] = scrape[x] /\ page'[x] = page[x]
        BY <1>1, <1>2, <3>2 DEF MetricsType
      <4>2. PageOf(scrape[x], page[x])
        BY DEF RegistryInv
      <4>3. QED
        BY <1>2, <4>1, <4>2 DEF PageOf
    <3>3. QED
      BY <3>1, <3>2
  <2>4. QED
    BY <2>1, <2>2, <2>3 DEF RegistryInv
<1>3. CASE ReadStates(r)
  <2> DEFINE p == [NoPage EXCEPT !.saw = cached]
             l == IF cached = NoState THEN "refreshed" ELSE "set"
  <2>1. PICK x \in Page : x = p /\ x.saw = cached
    <3>1. p \in Page /\ p.saw = cached
      BY <1>1 DEF NoPage, Page
    <3>2. QED
      BY <3>1
  <2>2. PICK y \in {"none", "set", "refreshed", "buckets", "count", "printed"} :
          y = l /\ (cached = NoState => y = "refreshed") /\ (cached # NoState => y = "set")
    OBVIOUS
  <2>3. /\ scrape' = [scrape EXCEPT ![r] = y] /\ page' = [page EXCEPT ![r] = x]
        /\ UNCHANGED <<values, gauge, hist, observed, cached>>
    BY <1>3, <2>1, <2>2 DEF ReadStates, ScrapeTo, metrics
  <2> HIDE DEF p, l
  <2>4. PageOf(y, x)'
    BY <1>1, <2>1, <2>2 DEF PageOf
  <2>5. QED
    BY <1>1, <1>2, <2>3, <2>4
<1>4. CASE SetGauge(r)
  <2>1. /\ scrape[r] = "set" /\ scrape' = [scrape EXCEPT ![r] = "refreshed"] /\ page' = page
        /\ gauge' = gauge \cup {page[r].saw} /\ UNCHANGED <<values, hist, observed, cached>>
    BY <1>4 DEF SetGauge, ScrapeTo
  <2>2. PICK x \in Page : x = page[r] /\ page' = [page EXCEPT ![r] = x]
    BY <1>1, <2>1 DEF MetricsType
  <2>3. page[r].saw \in States
    BY <1>1, <2>1 DEF PageOf
  <2>4. PageOf("refreshed", x)'
    BY <2>1, <2>2 DEF PageOf
  <2>5. QED
    BY <1>1, <1>2, <2>1, <2>2, <2>3, <2>4
<1>5. CASE WriteValues(r)
  <2>1. /\ scrape[r] \in {"refreshed", "none"} /\ scrape' = [scrape EXCEPT ![r] = "buckets"]
        /\ page' = [page EXCEPT ![r] = [page[r] EXCEPT !.gauge = gauge, !.values = values]]
        /\ UNCHANGED <<values, gauge, hist, observed, cached>>
    BY <1>5 DEF WriteValues, ScrapeTo, metrics
  <2>2. PICK x \in Page : /\ x = [page[r] EXCEPT !.gauge = gauge, !.values = values]
                          /\ x.saw = page[r].saw /\ x.gauge = gauge /\ x.values = values
    <3> DEFINE p == [page[r] EXCEPT !.gauge = gauge, !.values = values]
    <3>1. p \in Page
      BY <1>1 DEF Page
    <3>2. p.saw = page[r].saw /\ p.gauge = gauge /\ p.values = values
      BY <1>1 DEF Page
    <3>3. QED
      BY <3>1, <3>2
  <2>3. PageOf("buckets", x)'
    BY <2>1, <2>2 DEF PageOf
  <2>4. QED
    BY <1>1, <1>2, <2>1, <2>2, <2>3
<1>6. CASE WriteBuckets(r)
  <2>1. /\ scrape[r] = "buckets" /\ scrape' = [scrape EXCEPT ![r] = "count"]
        /\ page' = [page EXCEPT ![r] = [page[r] EXCEPT !.bcount = hist.bcount]]
        /\ UNCHANGED <<values, gauge, hist, observed, cached>>
    BY <1>6 DEF WriteBuckets, ScrapeTo, metrics
  <2>2. PICK x \in Page : /\ x = [page[r] EXCEPT !.bcount = hist.bcount] /\ x.saw = page[r].saw
                          /\ x.gauge = page[r].gauge /\ x.values = page[r].values /\ x.bcount = hist.bcount
    <3> DEFINE p == [page[r] EXCEPT !.bcount = hist.bcount]
    <3>1. p \in Page
      BY <1>1 DEF Page
    <3>2. /\ p.saw = page[r].saw /\ p.gauge = page[r].gauge
          /\ p.values = page[r].values /\ p.bcount = hist.bcount
      BY <1>1 DEF Page
    <3>3. QED
      BY <3>1, <3>2
  <2>3. PageOf("count", x)'
    BY <1>1, <2>1, <2>2 DEF PageOf
  <2>4. QED
    BY <1>1, <1>2, <2>1, <2>2, <2>3
<1>7. CASE WriteCount(r)
  <2>1. /\ scrape[r] = "count" /\ scrape' = [scrape EXCEPT ![r] = "printed"]
        /\ page' = [page EXCEPT ![r] = [page[r] EXCEPT !.count = hist.count, !.sum = hist.sum]]
        /\ UNCHANGED <<values, gauge, hist, observed, cached>>
    BY <1>7 DEF WriteCount, ScrapeTo, metrics
  <2>2. PICK x \in Page : /\ x = [page[r] EXCEPT !.count = hist.count, !.sum = hist.sum] /\ x.saw = page[r].saw
                          /\ x.gauge = page[r].gauge /\ x.values = page[r].values /\ x.bcount = page[r].bcount
                          /\ x.count = hist.count /\ x.sum = hist.sum
    <3> DEFINE p == [page[r] EXCEPT !.count = hist.count, !.sum = hist.sum]
    <3>1. p \in Page
      BY <1>1 DEF Page
    <3>2. /\ p.saw = page[r].saw /\ p.gauge = page[r].gauge /\ p.values = page[r].values
          /\ p.bcount = page[r].bcount /\ p.count = hist.count /\ p.sum = hist.sum
      BY <1>1 DEF Page
    <3>3. QED
      BY <3>1, <3>2
  <2>3. x.values = values /\ x.bcount = hist.bcount
    BY <1>1, <2>1, <2>2 DEF PageOf
  <2>4. Summary(x, observed, Len(observed))
    BY <1>1, <2>2, <2>3 DEF Summary
  <2>5. Len(observed) \in 0..Len(observed) /\ x.count <= x.values["starts"]
    BY <1>1, <2>2, <2>3
  <2>6. PageOf("printed", x)'
    BY <1>1, <2>1, <2>2, <2>4, <2>5 DEF PageOf
  <2>7. QED
    BY <1>1, <1>2, <2>1, <2>2, <2>6
<1>8. CASE ScrapeEnds(r)
  <2>1. /\ scrape' = [scrape EXCEPT ![r] = "none"] /\ page' = [page EXCEPT ![r] = NoPage]
        /\ UNCHANGED <<values, gauge, hist, observed, cached>>
    BY <1>8 DEF ScrapeEnds, ScrapeTo, metrics
  <2>2. NoPage \in Page /\ NoPage.saw = NoState
    BY <1>1 DEF NoPage, Page
  <2>3. PageOf("none", NoPage)'
    BY <2>2 DEF PageOf
  <2>4. QED
    BY <1>1, <1>2, <2>1, <2>2, <2>3
<1>9. QED
  BY <1>3, <1>4, <1>5, <1>6, <1>7, <1>8 DEF Scrape

\* The other steps: no scrape holds the lock when the registry is written, and
\* a page that is printed sums up durations that stay.
LEMMA RegistersInv ==
  ASSUME RegistryInv, Registers
  PROVE  RegistryInv'
<1>1. /\ MetricsType /\ Summary(hist, observed, Len(observed)) /\ Len(observed) \in Nat
      /\ \A r \in Scrapers : PageOf(scrape[r], page[r])
  BY LenProperties DEF RegistryInv, MetricsType
<1>2. ASSUME NEW k \in Series, Add(k), UNCHANGED <<gauge, hist, observed, scrapes, cached>>
      PROVE  RegistryInv'
  <2>1. values' \in [Series -> Nat] /\ scrape' = scrape /\ page' = page
    BY <1>1, <1>2 DEF MetricsType, Add, scrapes
  <2>2. MetricsType'
    BY <1>1, <1>2, <2>1 DEF MetricsType
  <2>3. ASSUME NEW r \in Scrapers
        PROVE  PageOf(scrape[r], page[r])'
    <3>1. scrape[r] \notin {"buckets", "count"}
      BY <1>2 DEF Add, Unlocked
    <3>2. QED
      BY <1>1, <1>2, <2>1, <3>1 DEF PageOf
  <2>4. QED
    BY <1>1, <1>2, <2>2, <2>3 DEF RegistryInv
<1>3. ASSUME NEW v \in Elapsed, Observe(v), UNCHANGED <<values, gauge, scrapes, cached>>
      PROVE  RegistryInv'
  <2>1. v \in Nat
    BY ObserversAssumption
  <2>2. /\ hist' \in [count : Nat, sum : Nat, bcount : [DOMAIN Buckets -> Nat]]
        /\ observed' \in Seq(Observations) /\ Len(observed') = Len(observed) + 1
        /\ Summary(hist', observed', Len(observed'))
        /\ \A p, n : n \in 0..Len(observed) /\ Summary(p, observed, n) => Summary(p, observed', n)
    BY <1>1, <1>3, <2>1, ObserveSums
  <2>3. scrape' = scrape /\ page' = page
    BY <1>3 DEF scrapes
  <2>4. MetricsType'
    BY <1>1, <1>3, <2>2, <2>3 DEF MetricsType, Observations
  <2>5. ASSUME NEW r \in Scrapers
        PROVE  PageOf(scrape[r], page[r])'
    <3>1. scrape[r] \notin {"buckets", "count"} /\ PageOf(scrape[r], page[r])
      BY <1>1, <1>3 DEF Observe, Unlocked
    <3>2. ASSUME scrape[r] = "printed"
          PROVE  \E n \in 0..Len(observed') : Summary(page[r], observed', n)
      <4>1. PICK n \in 0..Len(observed) : Summary(page[r], observed, n)
        BY <3>1, <3>2 DEF PageOf
      <4>2. n \in 0..Len(observed') /\ Summary(page[r], observed', n)
        BY <1>1, <2>2, <4>1
      <4>3. QED
        BY <4>2
    <3>3. QED
      BY <1>3, <2>3, <3>1, <3>2 DEF PageOf
  <2>6. QED
    BY <2>2, <2>4, <2>5 DEF RegistryInv
<1>4. ASSUME cached' \in States \cup {NoState}, UNCHANGED <<metrics, scrapes>>
      PROVE  RegistryInv'
  BY <1>1, <1>4 DEF RegistryInv, MetricsType, PageOf, metrics, scrapes
<1>5. CASE UNCHANGED mvars
  BY <1>1, <1>4, <1>5 DEF mvars, MetricsType
<1>6. QED
  BY <1>2, <1>3, <1>4, <1>5 DEF Registers
-----------------------------------------------------------------------------
(* The goroutines and the event history *)

Goroutines == Starters \cup Stoppers
Places == {"none", "counted", "docker", "waiting", "observed", "idle", "stop", "stopped"}
EventTypes == {"start_requested", "start_error", "ready", "idle_stop", "stopped", "stop_error", "disappeared"}

\* The event history, ev, is the newest events of all, lg.
TailOf(ev, lg) ==
  /\ ev \in Seq(EventTypes) /\ lg \in Seq(EventTypes)
  /\ Len(ev) = IF Len(lg) < MaxEvents THEN Len(lg) ELSE MaxEvents
  /\ \A i \in 1..Len(ev) : ev[i] = lg[Len(lg) - Len(ev) + i]

\* Counters v, the histogram's count h and the events lg agree, with the
\* goroutines at f; and every start that was observed, or is under way and may
\* be, has been counted.
Ledger(f, lg, v, h) ==
  /\ v["starts"] = Count(lg, "start_requested") + AtIn(f, "counted")
  /\ h = Count(lg, "ready") + AtIn(f, "observed")
  /\ v["idle"] = Count(lg, "idle_stop") + AtIn(f, "idle")
  /\ v["stops"] = Count(lg, "stopped") - AtIn(f, "stopped")
  /\ h + AtIn(f, "counted") + AtIn(f, "docker") + AtIn(f, "waiting") <= v["starts"]

\* LedgerInv: the invariant behind LedgersAgree and HistoryIsTail.
LedgerInv ==
  /\ task \in [Goroutines -> Places]
  /\ TailOf(events, log) /\ Len(log) <= MaxLog
  /\ Ledger(task, log, values, hist.count)

\* recordEvent keeps the history the newest events.
LEMMA RecordTail ==
  ASSUME TailOf(events, log), NEW e \in EventTypes, RecordEvent(e)
  PROVE  TailOf(events', log') /\ log' = Append(log, e) /\ Len(log') <= MaxLog
<1> DEFINE n == Len(events)
           m == Len(log)
           a == Append(events, e)
<1>1. /\ events \in Seq(EventTypes) /\ log \in Seq(EventTypes) /\ n \in Nat /\ m \in Nat
      /\ n = (IF m < MaxEvents THEN m ELSE MaxEvents)
      /\ \A i \in 1..n : events[i] = log[m - n + i]
      /\ MaxEvents \in Nat \ {0} /\ MaxLog \in Nat
  BY LenProperties, ObserversAssumption DEF TailOf
<1>2. /\ log' = Append(log, e) /\ m < MaxLog
      /\ events' = IF Len(a) > MaxEvents THEN SubSeq(a, Len(a) - MaxEvents + 1, Len(a)) ELSE a
  BY DEF RecordEvent
<1>3. /\ a \in Seq(EventTypes) /\ Len(a) = n + 1 /\ a[n + 1] = e /\ \A i \in 1..n : a[i] = events[i]
  BY <1>1, AppendProperties
<1>4. /\ log' \in Seq(EventTypes) /\ Len(log') = m + 1 /\ log'[m + 1] = e /\ \A i \in 1..m : log'[i] = log[i]
  BY <1>1, <1>2, AppendProperties
<1> HIDE DEF n, m, a
<1>5. \A i \in 1..(n + 1) : a[i] = log'[m - n + i]
  <2>1. ASSUME NEW i \in 1..n
        PROVE  a[i] = log'[m - n + i]
    <3>1. m - n + i \in 1..m
      BY <1>1
    <3>2. QED
      BY <1>1, <1>3, <1>4, <3>1
  <2>2. m - n + (n + 1) = m + 1
    BY <1>1
  <2>3. \A i \in 1..(n + 1) : i \in 1..n \/ i = n + 1
    BY <1>1
  <2>4. QED
    BY <1>3, <1>4, <2>1, <2>2, <2>3
<1>6. CASE n + 1 > MaxEvents
  <2>1. n = MaxEvents /\ m >= MaxEvents
    BY <1>1, <1>6
  <2>2. events' = SubSeq(a, 2, n + 1)
    <3>1. Len(a) - MaxEvents + 1 = 2
      BY <1>1, <1>3, <2>1
    <3>2. QED
      BY <1>2, <1>3, <1>6, <3>1
  <2>3. \A i \in 2..(n + 1) : a[i] \in EventTypes
    <3>1. \A i \in 2..(n + 1) : i \in 1..Len(a)
      BY <1>1, <1>3
    <3>2. QED
      BY <1>3, <3>1, ElementOfSeq
  <2>4. /\ SubSeq(a, 2, n + 1) \in Seq(EventTypes)
        /\ Len(SubSeq(a, 2, n + 1)) = IF 2 <= n + 1 THEN (n + 1) - 2 + 1 ELSE 0
        /\ \A i \in 1..((n + 1) - 2 + 1) : SubSeq(a, 2, n + 1)[i] = a[2 + i - 1]
    BY <1>1, <2>3, SubSeqProperties
  <2>5. (n + 1) - 2 + 1 = n /\ 2 <= n + 1
    BY <1>1, <2>1
  <2>6. events' \in Seq(EventTypes) /\ Len(events') = n
    BY <2>2, <2>4, <2>5
  <2>7. ASSUME NEW i \in 1..n
        PROVE  events'[i] = log'[Len(log') - Len(events') + i]
    <3>1. 2 + i - 1 = i + 1 /\ i + 1 \in 1..(n + 1) /\ m - n + (i + 1) = m + 1 - n + i
      BY <1>1
    <3>2. events'[i] = a[i + 1]
      BY <2>2, <2>4, <2>5, <3>1
    <3>3. a[i + 1] = log'[m - n + (i + 1)]
      BY <1>5, <3>1
    <3>4. Len(log') - Len(events') + i = m + 1 - n + i
      BY <1>1, <1>4, <2>6
    <3>5. QED
      BY <3>1, <3>2, <3>3, <3>4
  <2>8. Len(events') = (IF Len(log') < MaxEvents THEN Len(log') ELSE MaxEvents) /\ Len(log') <= MaxLog
    BY <1>1, <1>2, <1>4, <2>1, <2>6
  <2>9. QED
    BY <1>2, <1>4, <2>6, <2>7, <2>8 DEF TailOf
<1>7. CASE ~ (n + 1 > MaxEvents)
  <2>1. n = m /\ events' = a
    BY <1>1, <1>2, <1>3, <1>7
  <2>2. Len(events') = (IF Len(log') < MaxEvents THEN Len(log') ELSE MaxEvents) /\ Len(log') <= MaxLog
    BY <1>1, <1>2, <1>3, <1>4, <1>7, <2>1
  <2>3. ASSUME NEW i \in 1..Len(events')
        PROVE  events'[i] = log'[Len(log') - Len(events') + i]
    <3>1. Len(events') = n + 1
      BY <1>3, <2>1
    <3>2. i \in 1..(n + 1) /\ m - n + i = Len(log') - Len(events') + i
      BY <1>1, <1>4, <3>1
    <3>3. a[i] = log'[m - n + i]
      BY <1>5, <3>2
    <3>4. QED
      BY <2>1, <3>2, <3>3
  <2>4. QED
    BY <1>2, <1>3, <1>4, <2>1, <2>2, <2>3 DEF TailOf
<1>8. QED
  BY <1>6, <1>7

\* A goroutine goes from one place to another, at g then.
Moved(f, g, from, to) ==
  \A l : /\ AtIn(f, l) \in Int /\ AtIn(g, l) \in Int
         /\ l = from => AtIn(g, l) = AtIn(f, l) - 1
         /\ l = to => AtIn(g, l) = AtIn(f, l) + 1
         /\ l # from /\ l # to => AtIn(g, l) = AtIn(f, l)

LEMMA TaskMoves ==
  ASSUME NEW f \in [Goroutines -> Places], NEW t \in Goroutines, NEW to \in Places, to # f[t]
  PROVE  Moved(f, [f EXCEPT ![t] = to], f[t], to)
<1>1. IsFiniteSet(Goroutines) /\ f = [x \in Goroutines |-> f[x]]
  BY ObserversAssumption DEF Goroutines
<1>2. QED
  BY <1>1, MoveCounts DEF Moved

\* Event e is recorded after the events lg.
Grown(lg, lh, e) ==
  \A d : /\ Count(lg, d) \in Int /\ Count(lh, d) \in Int
         /\ d = e => Count(lh, d) = Count(lg, d) + 1
         /\ d # e => Count(lh, d) = Count(lg, d)

\* The events that goroutines record, and where ...
EventStep(from, e, to) ==
  \/ from = "counted" /\ e = "start_requested" /\ to = "docker"
  \/ from = "docker" /\ e = "start_error" /\ to = "none"
  \/ from = "observed" /\ e = "ready" /\ to = "none"
  \/ from = "idle" /\ e = "idle_stop" /\ to = "stop"
  \/ from = "stop" /\ e = "stopped" /\ to = "stopped"
  \/ from = "stop" /\ e = "stop_error" /\ to = "none"

\* ... where they go on without a call ...
GoStep(from, to) ==
  \/ from = "docker" /\ to = "waiting"
  \/ from = "waiting" /\ to = "none"
  \/ from = "none" /\ to = "stop"

\* ... and their other steps: w are the counters and k the histogram's count
\* after it.
MoveStep(from, to, v, w, h, k) ==
  \/ /\ from = "none" /\ to = "counted" /\ w["starts"] = v["starts"] + 1
     /\ w["idle"] = v["idle"] /\ w["stops"] = v["stops"] /\ k = h
  \/ /\ from = "none" /\ to = "idle" /\ w["idle"] = v["idle"] + 1
     /\ w["starts"] = v["starts"] /\ w["stops"] = v["stops"] /\ k = h
  \/ /\ from = "stopped" /\ to = "none" /\ w["stops"] = v["stops"] + 1
     /\ w["starts"] = v["starts"] /\ w["idle"] = v["idle"] /\ k = h
  \/ GoStep(from, to) /\ w = v /\ k = h
  \/ from = "waiting" /\ to = "observed" /\ w = v /\ k = h + 1

\* Both keep the ledger.
LEMMA EventBalance ==
  ASSUME NEW f, NEW g, NEW lg, NEW lh, NEW v, NEW h, Ledger(f, lg, v, h), NEW from, NEW e, NEW to,
         Moved(f, g, from, to), Grown(lg, lh, e), EventStep(from, e, to)
  PROVE  Ledger(g, lh, v, h)
  BY DEF Ledger, Moved, Grown, EventStep

LEMMA MoveBalance ==
  ASSUME NEW f, NEW g, NEW lg, NEW v, NEW w, NEW h, NEW k, Ledger(f, lg, v, h), NEW from, NEW to,
         Moved(f, g, from, to), \A d : Count(lg, d) \in Int, MoveStep(from, to, v, w, h, k)
  PROVE  Ledger(g, lg, w, k)
  BY DEF Ledger, Moved, MoveStep, GoStep

\* A goroutine records an event.
LEMMA EventLedger ==
  ASSUME LedgerInv, NEW t \in Goroutines, NEW from, NEW e, NEW to, Event(t, from, e, to), EventStep(from, e, to)
  PROVE  LedgerInv'
<1>1. from # to /\ to \in Places /\ e \in EventTypes
  BY DEF EventStep, Places, EventTypes
<1>2. /\ task \in [Goroutines -> Places] /\ task[t] = from
      /\ task' = [task EXCEPT ![t] = to] /\ values' = values /\ hist' = hist
      /\ TailOf(events, log) /\ RecordEvent(e) /\ log \in Seq(EventTypes)
      /\ Ledger(task, log, values, hist.count)
  BY DEF LedgerInv, Event, TaskTo, mvars, metrics, TailOf
<1>3. TailOf(events', log') /\ log' = Append(log, e) /\ Len(log') <= MaxLog
  BY <1>1, <1>2, RecordTail
<1>4. Grown(log, log', e)
  BY <1>1, <1>2, <1>3, AppendCounts DEF Grown
<1>5. Moved(task, task', from, to) /\ task' \in [Goroutines -> Places]
  BY <1>1, <1>2, TaskMoves
<1>6. Ledger(task', log', values, hist.count)
  BY <1>2, <1>4, <1>5, EventBalance
<1>7. QED
  BY <1>2, <1>3, <1>5, <1>6 DEF LedgerInv

\* A goroutine moves and counts, observes or does neither.
LEMMA MoveLedger ==
  ASSUME LedgerInv, NEW t \in Goroutines, NEW from, NEW to, task[t] = from, TaskTo(t, to),
         UNCHANGED <<events, log>>, MoveStep(from, to, values, values', hist.count, hist'.count)
  PROVE  LedgerInv'
<1>1. from # to /\ to \in Places
  BY DEF MoveStep, GoStep, Places
<1>2. /\ task \in [Goroutines -> Places] /\ task[t] = from /\ task' = [task EXCEPT ![t] = to] /\ log \in Seq(EventTypes)
      /\ Ledger(task, log, values, hist.count)
  BY DEF LedgerInv, TaskTo, TailOf
<1>3. \A d : Count(log, d) \in Int
  BY <1>2, AppendCounts DEF EventTypes
<1>4. Moved(task, task', from, to) /\ task' \in [Goroutines -> Places]
  BY <1>1, <1>2, TaskMoves
<1>5. Ledger(task', log, values', hist'.count)
  BY <1>2, <1>3, <1>4, MoveBalance
<1>6. QED
  BY <1>2, <1>4, <1>5 DEF LedgerInv

\* Steps that leave the goroutines, the history and their series alone.
LEMMA OtherLedger ==
  ASSUME LedgerInv, UNCHANGED <<task, events, log, hist>>,
         values'["starts"] = values["starts"], values'["idle"] = values["idle"], values'["stops"] = values["stops"]
  PROVE  LedgerInv'
  BY DEF LedgerInv, Ledger

\* The sync records that a container is gone.
LEMMA DisappearedLedger ==
  ASSUME LedgerInv, Disappeared
  PROVE  LedgerInv'
<1>1. /\ "disappeared" \in EventTypes /\ TailOf(events, log) /\ RecordEvent("disappeared") /\ log \in Seq(EventTypes)
      /\ Ledger(task, log, values, hist.count) /\ task \in [Goroutines -> Places]
      /\ UNCHANGED <<task, values, hist>>
  BY DEF LedgerInv, Disappeared, RecordEventLocked, metrics, EventTypes, TailOf
<1>2. TailOf(events', log') /\ log' = Append(log, "disappeared") /\ Len(log') <= MaxLog
  BY <1>1, RecordTail
<1>3. \A d : "disappeared" # d => Count(log', d) = Count(log, d)
  BY <1>1, <1>2, AppendCounts
<1>4. Ledger(task, log', values, hist.count)
  BY <1>1, <1>3 DEF Ledger
<1>5. QED
  BY <1>1, <1>2, <1>4 DEF LedgerInv

\* The history has no more ready events than were recorded.
LEMMA TailCounts ==
  ASSUME NEW ev, NEW lg, TailOf(ev, lg), NEW e
  PROVE  Count(ev, e) \in Nat /\ Count(lg, e) \in Nat /\ Count(ev, e) <= Count(lg, e)
<1> DEFINE n == Len(ev)
           m == Len(lg)
           A == {i \in DOMAIN ev : ev[i] = e}
           B == {i \in DOMAIN lg : lg[i] = e}
           f == [i \in A |-> m - n + i]
<1>1. /\ ev \in Seq(EventTypes) /\ lg \in Seq(EventTypes) /\ n \in Nat /\ m \in Nat
      /\ DOMAIN ev = 1..n /\ DOMAIN lg = 1..m
  BY LenProperties DEF TailOf
<1>2. n <= m /\ \A i \in 1..n : ev[i] = lg[m - n + i]
  BY <1>1, ObserversAssumption DEF TailOf
<1> HIDE DEF n, m
<1>3. \A i \in A : i \in 1..n /\ m - n + i \in B
  <2> SUFFICES ASSUME NEW i \in A
               PROVE  i \in 1..n /\ m - n + i \in B
    OBVIOUS
  <2>1. i \in 1..n /\ ev[i] = e
    BY <1>1
  <2>2. m - n + i \in 1..m
    BY <1>1, <1>2, <2>1
  <2>3. QED
    BY <1>1, <1>2, <2>1, <2>2
<1>4. IsFiniteSet(A) /\ IsFiniteSet(B) /\ Cardinality(A) \in Nat /\ Cardinality(B) \in Nat
  <2>1. IsFiniteSet(1..n) /\ IsFiniteSet(1..m) /\ A \in SUBSET (1..n) /\ B \in SUBSET (1..m)
    BY <1>1, FS_Interval
  <2>2. QED
    BY <2>1, FS_Subset, FS_CardinalityType
<1>5. Count(ev, e) = Cardinality(A) /\ Count(lg, e) = Cardinality(B)
  BY DEF Count
<1> HIDE DEF A, B
<1>6. f \in Injection(A, B)
  <2>1. f \in [A -> B]
    BY <1>3
  <2>2. \A i, j \in A : f[i] = f[j] => i = j
    BY <1>1, <1>3
  <2>3. QED
    BY <2>1, <2>2 DEF Injection, IsInjective
<1> HIDE DEF f
<1>7. Cardinality(A) <= Cardinality(B)
  BY <1>4, <1>6, FS_Injection
<1>8. QED
  BY <1>4, <1>5, <1>7

\* What the ledger says of the histogram's count.
LEMMA LedgerBounds ==
  ASSUME LedgerInv, MetricsType
  PROVE  /\ hist.count <= values["starts"]
         /\ Count(events, "ready") \in Nat /\ Count(events, "ready") <= hist.count
<1>1. \A l : AtIn(task, l) \in Nat
  <2> SUFFICES ASSUME NEW l
               PROVE  AtIn(task, l) \in Nat
    OBVIOUS
  <2>1. {t \in DOMAIN task : task[t] = l} \in SUBSET Goroutines /\ IsFiniteSet(Goroutines)
    BY ObserversAssumption DEF LedgerInv, Goroutines
  <2>2. QED
    BY <2>1, FS_Subset, FS_CardinalityType DEF AtIn
<1>2. values["starts"] \in Nat /\ hist.count \in Nat
  BY ObserversAssumption DEF MetricsType
<1>3. /\ Count(events, "ready") \in Nat /\ Count(log, "ready") \in Nat
      /\ Count(events, "ready") <= Count(log, "ready")
  BY TailCounts DEF LedgerInv
<1>4. /\ hist.count = Count(log, "ready") + AtIn(task, "observed")
      /\ hist.count + AtIn(task, "counted") + AtIn(task, "docker") + AtIn(task, "waiting") <= values["starts"]
  BY DEF LedgerInv, Ledger
<1>5. /\ AtIn(task, "observed") \in Nat /\ AtIn(task, "counted") \in Nat
      /\ AtIn(task, "docker") \in Nat /\ AtIn(task, "waiting") \in Nat
  BY <1>1
<1>6. QED
  BY <1>2, <1>3, <1>4, <1>5
-----------------------------------------------------------------------------
(* All together *)

\* What the history page has read is explained by the histogram as it is now,
\* and by what the page shows of it.
HistoryInv ==
  /\ hpage \in [step : {"none", "copied", "shown"}, ready : Nat, count : Nat]
  /\ hpage.step = "copied" => hpage.ready <= hist.count
  /\ hpage.step = "shown" => hpage.ready <= hpage.count

\* ObserversInv is inductive.
ObserversInv == RegistryInv /\ ResponseInv /\ StatusLedger /\ LedgerInv /\ HistoryInv

\* A step that leaves the requests, the history page and the requests' series
\* alone.
LEMMA QuietStep ==
  ASSUME ObserversInv, UNCHANGED rvars, UNCHANGED hpage, RegistryInv', LedgerInv',
         \A code \in AllCodes : values'[code] = values[code], hist.count <= hist'.count
  PROVE  ObserversInv'
<1>1. ResponseInv'
  BY DEF ObserversInv, ResponseInv, ResponseType, rvars
<1>2. \A code : CountedWith(code)' = CountedWith(code)
  BY DEF CountedWith, rvars
<1>3. StatusLedger'
  BY <1>2 DEF ObserversInv, StatusLedger
<1>4. hist.count \in Nat /\ hist'.count \in Nat
  BY DEF ObserversInv, RegistryInv, MetricsType
<1>5. HistoryInv'
  BY <1>4 DEF ObserversInv, HistoryInv
<1>6. QED
  BY <1>1, <1>3, <1>5 DEF ObserversInv

\* A goroutine records an event.
LEMMA EventInv ==
  ASSUME ObserversInv, NEW t \in Goroutines, NEW from, NEW e, NEW to, Event(t, from, e, to), EventStep(from, e, to)
  PROVE  ObserversInv'
<1>1. UNCHANGED <<mvars, rvars, hpage>>
  BY DEF Event
<1>2. RegistryInv'
  BY <1>1, RegistersInv DEF Registers, ObserversInv
<1>3. LedgerInv'
  BY EventLedger DEF ObserversInv
<1>4. values' = values /\ hist' = hist /\ hist.count \in Nat
  BY <1>1 DEF mvars, metrics, ObserversInv, RegistryInv, MetricsType
<1>5. QED
  BY <1>1, <1>2, <1>3, <1>4, QuietStep

\* A goroutine counts.
LEMMA AddInv ==
  ASSUME ObserversInv, NEW t \in Goroutines, NEW from, NEW k, NEW to, AddStep(t, from, k, to),
         \/ from = "none" /\ k = "starts" /\ to = "counted"
         \/ from = "none" /\ k = "idle" /\ to = "idle"
         \/ from = "stopped" /\ k = "stops" /\ to = "none"
  PROVE  ObserversInv'
<1>1. /\ k \in Series /\ k \notin AllCodes /\ AllCodes \subseteq Series
      /\ "starts" \in Series /\ "idle" \in Series /\ "stops" \in Series
  BY ObserversAssumption, ResponseAssumption
<1>2. /\ Add(k) /\ UNCHANGED <<gauge, hist, observed, scrapes, cached>> /\ UNCHANGED rvars /\ UNCHANGED hpage
      /\ task[t] = from /\ TaskTo(t, to) /\ UNCHANGED <<events, log>>
  BY DEF AddStep
<1>3. values' = [values EXCEPT ![k] = @ + 1] /\ values \in [Series -> Nat] /\ hist' = hist /\ hist.count \in Nat
  BY <1>2 DEF Add, ObserversInv, RegistryInv, MetricsType
<1>4. RegistryInv'
  BY <1>1, <1>2, RegistersInv DEF Registers, ObserversInv
<1>5. MoveStep(from, to, values, values', hist.count, hist'.count)
  BY <1>1, <1>3 DEF MoveStep
<1>6. LedgerInv'
  BY <1>2, <1>5, MoveLedger DEF ObserversInv
<1>7. \A code \in AllCodes : values'[code] = values[code]
  BY <1>1, <1>3
<1>8. QED
  BY <1>2, <1>3, <1>4, <1>6, <1>7, QuietStep

\* A goroutine goes on without a call of those.
LEMMA GoInv ==
  ASSUME ObserversInv, NEW t \in Goroutines, NEW from, NEW to, task[t] = from, TaskTo(t, to),
         GoStep(from, to),
         UNCHANGED <<mvars, rvars, events, log, cast, hpage>>
  PROVE  ObserversInv'
<1>1. RegistryInv'
  BY RegistersInv DEF Registers, ObserversInv
<1>2. values' = values /\ hist' = hist /\ hist.count \in Nat
  BY DEF mvars, metrics, ObserversInv, RegistryInv, MetricsType
<1>3. MoveStep(from, to, values, values', hist.count, hist'.count)
  BY <1>2 DEF MoveStep
<1>4. LedgerInv'
  BY <1>3, MoveLedger DEF ObserversInv
<1>5. QED
  BY <1>1, <1>2, <1>4, QuietStep

\* A start is observed.
LEMMA ObserveInv ==
  ASSUME ObserversInv, NEW t \in Goroutines, ReadyObserved(t)
  PROVE  ObserversInv'
<1>1. PICK v \in Elapsed : Observe(v)
  BY DEF ReadyObserved
<1>2. /\ task[t] = "waiting" /\ TaskTo(t, "observed") /\ UNCHANGED <<values, gauge, scrapes, cached>>
      /\ UNCHANGED rvars /\ UNCHANGED <<events, log>> /\ UNCHANGED hpage
  BY DEF ReadyObserved
<1>3. RegistryInv'
  BY <1>1, <1>2, RegistersInv DEF Registers, ObserversInv
<1>4. hist'.count = hist.count + 1 /\ hist.count \in Nat /\ values' = values
  BY <1>1, <1>2 DEF Observe, ObserversInv, RegistryInv, MetricsType
<1>5. MoveStep("waiting", "observed", values, values', hist.count, hist'.count)
  BY <1>4 DEF MoveStep
<1>6. LedgerInv'
  BY <1>2, <1>5, MoveLedger DEF ObserversInv
<1>7. hist.count <= hist'.count
  BY <1>4
<1>8. QED
  BY <1>2, <1>3, <1>4, <1>6, <1>7, QuietStep

\* A scrape.
LEMMA ScrapeStep ==
  ASSUME ObserversInv, NEW r \in Scrapers, Scrape(r), UNCHANGED <<rvars, ovars>>
  PROVE  ObserversInv'
<1>1. RegistryInv'
  BY ScrapeInv, LedgerBounds DEF ObserversInv, RegistryInv
<1>2. values' = values /\ hist' = hist /\ hist.count \in Nat
  BY DEF Scrape, ReadStates, SetGauge, WriteValues, WriteBuckets, WriteCount, ScrapeEnds, metrics,
         ObserversInv, RegistryInv, MetricsType
<1>3. UNCHANGED <<task, events, log, hpage>>
  BY DEF ovars
<1>4. LedgerInv'
  BY <1>2, <1>3, OtherLedger DEF ObserversInv
<1>5. QED
  BY <1>1, <1>2, <1>3, <1>4, QuietStep

\* A request.
LEMMA RespondStep ==
  ASSUME ObserversInv, NEW q \in Requests, Respond(q), UNCHANGED ovars
  PROVE  ObserversInv'
<1>1. ResponseInv /\ StatusLedger /\ values \in [Series -> Nat] /\ ResponseType
  BY DEF ObserversInv, RegistryInv, MetricsType, ResponseInv
<1>2. ResponseInv' /\ StatusLedger'
  BY <1>1, RespondInv, RespondLedger
<1>3. UNCHANGED mvars \/ CountProxy(q)
  BY DEF Respond, PortClosed, TargetUnavailable, Forward, Interim, UpstreamAnswers, ErrorHandler,
         BodyEnds, BodyBreaks, Recover, Complete
<1>4. /\ Registers /\ hist' = hist
      /\ values'["starts"] = values["starts"] /\ values'["idle"] = values["idle"] /\ values'["stops"] = values["stops"]
  <2>1. CASE UNCHANGED mvars
    BY <2>1 DEF Registers, mvars, metrics
  <2>2. CASE CountProxy(q)
    <3>1. PICK k \in AllCodes : k = rec[q].status
      BY <1>1 DEF ResponseType
    <3>2. k \in Series /\ k # "starts" /\ k # "idle" /\ k # "stops"
      BY ResponseAssumption, ObserversAssumption
    <3>3. Add(k) /\ UNCHANGED <<gauge, hist, observed, scrapes, cached>>
      BY <2>2, <3>1 DEF CountProxy
    <3>4. Registers
      BY <3>2, <3>3 DEF Registers
    <3>5. values' = [values EXCEPT ![k] = @ + 1] /\ {"starts", "idle", "stops"} \subseteq Series
      BY <3>3, ObserversAssumption DEF Add
    <3>6. QED
      BY <1>1, <3>2, <3>3, <3>4, <3>5
  <2>3. QED
    BY <1>3, <2>1, <2>2
<1>5. UNCHANGED <<task, events, log, hpage>>
  BY DEF ovars
<1>6. RegistryInv' /\ LedgerInv'
  BY <1>4, <1>5, RegistersInv, OtherLedger DEF ObserversInv
<1>7. HistoryInv'
  BY <1>4, <1>5 DEF ObserversInv, HistoryInv
<1>8. QED
  BY <1>2, <1>6, <1>7 DEF ObserversInv

\* The sync.
LEMMA SyncStep ==
  ASSUME ObserversInv, StateListed \/ Disappeared
  PROVE  ObserversInv'
<1>1. /\ cached' \in States \cup {NoState} /\ UNCHANGED <<metrics, scrapes>> /\ UNCHANGED rvars
      /\ UNCHANGED hpage /\ values' = values /\ hist' = hist
  BY DEF StateListed, Disappeared, ovars, metrics
<1>2. RegistryInv'
  BY <1>1, RegistersInv DEF Registers, ObserversInv
<1>3. LedgerInv'
  <2>1. CASE Disappeared
    BY <2>1, DisappearedLedger DEF ObserversInv
  <2>2. CASE StateListed
    <3>1. UNCHANGED <<task, events, log>>
      BY <2>2 DEF StateListed, ovars
    <3>2. QED
      BY <1>1, <3>1, OtherLedger DEF ObserversInv
  <2>3. QED
    BY <2>1, <2>2
<1>4. hist.count \in Nat
  BY DEF ObserversInv, RegistryInv, MetricsType
<1>5. QED
  BY <1>1, <1>2, <1>3, <1>4, QuietStep

\* The history page: what it copies was observed before, and the histogram it
\* reads afterwards has at least that many.
LEMMA HistoryStep ==
  ASSUME ObserversInv, History
  PROVE  ObserversInv'
<1>1. UNCHANGED mvars /\ UNCHANGED rvars /\ UNCHANGED <<task, events, log>> /\ values' = values /\ hist' = hist
  BY DEF History, HistoryCopied, HistoryShown, HistoryEnds, mvars, metrics
<1>2. RegistryInv' /\ LedgerInv'
  BY <1>1, RegistersInv, OtherLedger DEF Registers, ObserversInv
<1>3. /\ Count(events, "ready") \in Nat /\ Count(events, "ready") <= hist.count /\ hist.count \in Nat
      /\ hpage \in [step : {"none", "copied", "shown"}, ready : Nat, count : Nat]
      /\ hpage.step = "copied" => hpage.ready <= hist.count
  BY LedgerBounds DEF ObserversInv, RegistryInv, MetricsType, HistoryInv
<1>4. HistoryInv'
  <2>1. CASE HistoryCopied
    BY <1>1, <1>3, <2>1 DEF HistoryCopied, HistoryInv
  <2>2. CASE HistoryShown
    <3>1. CASE cached = NoState
      BY <1>1, <1>3, <2>2, <3>1 DEF HistoryShown, HistoryInv
    <3>2. CASE cached # NoState
      BY <1>1, <1>3, <2>2, <3>2 DEF HistoryShown, HistoryInv, HistogramStats
    <3>3. QED
      BY <3>1, <3>2
  <2>3. CASE HistoryEnds
    BY <1>1, <2>3 DEF HistoryEnds, HistoryInv
  <2>4. QED
    BY <2>1, <2>2, <2>3 DEF History
<1>5. ResponseInv' /\ StatusLedger'
  <2>1. \A code : CountedWith(code)' = CountedWith(code)
    BY <1>1 DEF CountedWith, rvars
  <2>2. QED
    BY <1>1, <2>1 DEF ObserversInv, ResponseInv, ResponseType, StatusLedger, rvars
<1>6. QED
  BY <1>2, <1>4, <1>5 DEF ObserversInv

\* Nothing is counted, recorded or printed at the start.
LEMMA InitObservers ==
  ASSUME Init
  PROVE  ObserversInv
<1>1. MInit /\ RInit
  BY DEF Init
<1>2. /\ "starts" \in Series /\ "idle" \in Series /\ "stops" \in Series /\ AllCodes \subseteq Series
      /\ MaxEvents \in Nat \ {0} /\ MaxLog \in Nat \ {0}
  BY ObserversAssumption, ResponseAssumption
<1>3. MetricsType
  <2>1. NoPage \in Page
    BY DEF NoPage, Page
  <2>2. page \in [Scrapers -> Page]
    BY <1>1, <2>1 DEF MInit
  <2>3. observed \in Seq([value : Nat, total : Nat])
    BY <1>1, EmptySeq DEF MInit
  <2>4. QED
    BY <1>1, <2>2, <2>3 DEF MInit, MetricsType
<1>4. Summary(hist, observed, Len(observed))
  <2>1. observed = <<>> /\ Len(observed) = 0
    BY <1>1, EmptySeq DEF MInit
  <2>2. hist.count = 0 /\ hist.sum = 0 /\ \A i \in DOMAIN Buckets : hist.bcount[i] = 0
    BY <1>1 DEF MInit
  <2>3. \A i : FitIn(observed, i, 0) = 0
    <3>1. \A i : {j \in 1..0 : observed[j].value <= Buckets[i]} = {}
      OBVIOUS
    <3>2. QED
      BY <3>1, FS_EmptySet DEF FitIn
  <2>4. TotalIn(observed, 0) = 0
    BY DEF TotalIn
  <2>5. QED
    BY <2>1, <2>2, <2>3, <2>4 DEF Summary
<1>5. \A r \in Scrapers : PageOf(scrape[r], page[r])
  <2>1. \A r \in Scrapers : scrape[r] = "none" /\ page[r].saw = NoState
    BY <1>1 DEF MInit, NoPage
  <2>2. QED
    BY <2>1 DEF PageOf
<1>6. ResponseInv
  <2>1. ResponseType
    BY <1>1 DEF RInit, ResponseType, AllCodes
  <2>2. \A q \in Requests : /\ at[q] = "port" /\ rec[q] = [status |-> "200", wroteHeader |-> FALSE]
                            /\ sent[q] = "" /\ interim[q] = FALSE
    BY <1>1 DEF RInit
  <2>3. QED
    BY <2>1, <2>2 DEF ResponseInv, RequestOf
<1>7. StatusLedger
  <2>1. \A q \in Requests : at[q] = "port"
    BY <1>1 DEF RInit
  <2>2. \A code : CountedWith(code) = {}
    BY <2>1 DEF CountedWith, Counted
  <2>3. \A code \in AllCodes : values[code] = 0
    BY <1>1, <1>2 DEF MInit
  <2>4. QED
    BY <2>2, <2>3, FS_EmptySet DEF StatusLedger
<1>8. LedgerInv
  <2>1. task \in [Goroutines -> Places] /\ \A t \in DOMAIN task : task[t] = "none"
    BY DEF Init, Goroutines, Places
  <2>2. \A l : l # "none" => AtIn(task, l) = 0
    <3>1. \A l : l # "none" => {t \in DOMAIN task : task[t] = l} = {}
      BY <2>1
    <3>2. QED
      BY <3>1, FS_EmptySet DEF AtIn
  <2>3. events = <<>> /\ log = <<>>
    BY DEF Init
  <2>4. <<>> \in Seq(EventTypes) /\ Len(<<>>) = 0
    BY EmptySeq
  <2>5. TailOf(events, log) /\ Len(log) <= MaxLog
    BY <1>2, <2>3, <2>4 DEF TailOf
  <2>6. \A d : Count(log, d) = 0
    <3>1. DOMAIN log = {}
      BY <2>3, <2>4, LenProperties
    <3>2. \A d : {i \in DOMAIN log : log[i] = d} = {}
      BY <3>1
    <3>3. QED
      BY <3>2, FS_EmptySet DEF Count
  <2>7. values["starts"] = 0 /\ values["idle"] = 0 /\ values["stops"] = 0 /\ hist.count = 0
    BY <1>1, <1>2 DEF MInit
  <2>8. Ledger(task, log, values, hist.count)
    BY <2>2, <2>6, <2>7 DEF Ledger
  <2>9. QED
    BY <2>1, <2>5, <2>8 DEF LedgerInv
<1>9. HistoryInv
  BY DEF Init, HistoryInv
<1>10. QED
  BY <1>3, <1>4, <1>5, <1>6, <1>7, <1>8, <1>9 DEF ObserversInv, RegistryInv

\* ObserversInv is inductive: one case for each kind of step.
LEMMA NextObservers ==
  ASSUME ObserversInv, [Next]_vars
  PROVE  ObserversInv'
<1>1. ASSUME NEW t \in Goroutines, Starter(t)
      PROVE  ObserversInv'
  <2>1. CASE StartCounted(t)
    BY <2>1, AddInv DEF StartCounted
  <2>2. CASE StartRequested(t)
    BY <2>2, EventInv DEF StartRequested, EventStep
  <2>3. CASE StartError(t)
    BY <2>3, EventInv DEF StartError, EventStep
  <2>4. CASE Started(t)
    BY <2>4, GoInv DEF Started, GoStep
  <2>5. CASE ReadyObserved(t)
    BY <2>5, ObserveInv
  <2>6. CASE ReadyRecorded(t)
    BY <2>6, EventInv DEF ReadyRecorded, EventStep
  <2>7. CASE WaitCancelled(t)
    BY <2>7, GoInv DEF WaitCancelled, GoStep
  <2>8. QED
    BY <1>1, <2>1, <2>2, <2>3, <2>4, <2>5, <2>6, <2>7 DEF Starter
<1>2. ASSUME NEW t \in Goroutines, Stopper(t)
      PROVE  ObserversInv'
  <2>1. CASE IdleCounted(t)
    BY <2>1, AddInv DEF IdleCounted
  <2>2. CASE IdleRecorded(t)
    BY <2>2, EventInv DEF IdleRecorded, EventStep
  <2>3. CASE ManualStop(t)
    BY <2>3, GoInv DEF ManualStop, GoStep
  <2>4. CASE Stopped(t)
    BY <2>4, EventInv DEF Stopped, EventStep
  <2>5. CASE StopError(t)
    BY <2>5, EventInv DEF StopError, EventStep
  <2>6. CASE StopCounted(t)
    BY <2>6, AddInv DEF StopCounted
  <2>7. QED
    BY <1>2, <2>1, <2>2, <2>3, <2>4, <2>5, <2>6 DEF Stopper
<1>3. CASE \E r \in Scrapers \cap cast : Scrape(r) /\ UNCHANGED <<rvars, ovars>>
  BY <1>3, ScrapeStep
<1>4. CASE \E q \in Requests \cap cast : Respond(q) /\ UNCHANGED ovars
  BY <1>4, RespondStep
<1>5. CASE UNCHANGED vars
  <2>1. /\ UNCHANGED mvars /\ UNCHANGED rvars /\ UNCHANGED <<task, events, log>> /\ UNCHANGED hpage
        /\ values' = values /\ hist' = hist /\ hist.count \in Nat
    BY <1>5 DEF vars, ovars, mvars, metrics, ObserversInv, RegistryInv, MetricsType
  <2>2. RegistryInv' /\ LedgerInv'
    BY <2>1, RegistersInv, OtherLedger DEF Registers, ObserversInv
  <2>3. QED
    BY <2>1, <2>2, QuietStep
<1>6. QED
  BY <1>1, <1>2, <1>3, <1>4, <1>5, SyncStep, HistoryStep DEF Next, Goroutines
-----------------------------------------------------------------------------
(* Theorems *)

\* ObserversInv, the inductive invariant of what docknap reports, always holds.
THEOREM ObserversSound == Spec => []ObserversInv
<1>1. Init => ObserversInv
  BY InitObservers
<1>2. ObserversInv /\ [Next]_vars => ObserversInv'
  BY NextObservers
<1>3. QED
  BY <1>1, <1>2, PTL DEF Spec

\* Every variable keeps its type, and recordEvent the bound of the history.
THEOREM ObserversTypeCorrect == Spec => []TypeOK
<1>1. ObserversInv => TypeOK
  <2> SUFFICES ASSUME ObserversInv
               PROVE  TypeOK
    OBVIOUS
  <2>1. Len(events) <= MaxEvents
    <3>1. TailOf(events, log) /\ MaxEvents \in Nat
      BY ObserversAssumption DEF ObserversInv, LedgerInv
    <3>2. Len(log) \in Nat /\ Len(events) = IF Len(log) < MaxEvents THEN Len(log) ELSE MaxEvents
      BY <3>1, LenProperties DEF TailOf
    <3>3. QED
      BY <3>1, <3>2
  <2>2. QED
    BY <2>1 DEF TypeOK, ObserversInv, RegistryInv, MetricsType, ResponseInv, ResponseType, LedgerInv,
                Goroutines, Places
<1>2. QED
  BY <1>1, ObserversSound, PTL

\* Counters, histogram and history have counted each start, ready, idle stop
\* and stop exactly once, up to the goroutines between two calls.
THEOREM LedgersAgreeHolds == Spec => []LedgersAgree
<1>1. ObserversInv => LedgersAgree
  BY DEF ObserversInv, LedgerInv, Ledger, LedgersAgree, At, AtIn
<1>2. QED
  BY <1>1, ObserversSound, PTL

\* The history is the newest MaxEvents events in the order they were recorded.
THEOREM HistoryIsTailHolds == Spec => []HistoryIsTail
<1>1. ObserversInv => HistoryIsTail
  <2> SUFFICES ASSUME ObserversInv
               PROVE  HistoryIsTail
    OBVIOUS
  <2>1. TailOf(events, log) /\ MaxEvents \in Nat
    BY ObserversAssumption DEF ObserversInv, LedgerInv
  <2> DEFINE n == Len(events)
             m == Len(log)
             tail == SubSeq(log, m - n + 1, m)
  <2>2. /\ events \in Seq(EventTypes) /\ log \in Seq(EventTypes)
        /\ n = (IF m < MaxEvents THEN m ELSE MaxEvents)
        /\ \A i \in 1..n : events[i] = log[m - n + i]
    BY <2>1 DEF TailOf
  <2>3. m \in Nat /\ n \in Nat
    BY <2>2, LenProperties
  <2>4. n <= m
    BY <2>1, <2>2, <2>3
  <2> HIDE DEF n, m
  <2>5. m - n + 1 \in 1..(m + 1) /\ m \in (m - n)..m
    BY <2>3, <2>4
  <2>6. tail \in Seq(EventTypes) /\ Len(tail) = n /\ \A i \in 1..n : tail[i] = log[m - n + i]
    BY <2>2, <2>3, <2>4, <2>5, SubSeqProperties DEF m
  <2>7. Len(tail) = Len(events) /\ \A i \in 1..Len(events) : tail[i] = events[i]
    BY <2>2, <2>6 DEF n
  <2>8. tail = events
    <3> HIDE DEF tail
    <3>1. QED
      BY <2>2, <2>6, <2>7, SeqEqual
  <2>9. QED
    BY <2>2, <2>8 DEF HistoryIsTail, n, m
<1>2. QED
  BY <1>1, ObserversSound, PTL

\* The history page shows no ready event without a start in its statistics.
THEOREM HistoryExplainedHolds == Spec => []HistoryExplained
<1>1. ObserversInv => HistoryExplained
  BY DEF ObserversInv, HistoryInv, HistoryExplained
<1>2. QED
  BY <1>1, ObserversSound, PTL

\* The histogram of a printed page is the exact summary of the durations
\* observed up to some moment.
THEOREM PageExactHolds == Spec => []PageExact
<1>1. ObserversInv => PageExact
  <2> SUFFICES ASSUME ObserversInv, NEW r \in Scrapers, scrape[r] = "printed"
               PROVE  /\ page[r].count <= Len(observed)
                      /\ page[r].sum = TotalOf(page[r].count)
                      /\ \A i \in DOMAIN Buckets : page[r].bcount[i] = Fitting(i, page[r].count)
    BY DEF PageExact
  <2>1. PICK n \in 0..Len(observed) : Summary(page[r], observed, n)
    BY DEF ObserversInv, RegistryInv, PageOf
  <2>2. n <= Len(observed)
    BY <2>1
  <2>3. page[r].count = n /\ page[r].sum = TotalIn(observed, n)
        /\ \A i \in DOMAIN Buckets : page[r].bcount[i] = FitIn(observed, i, n)
    BY <2>1 DEF Summary
  <2>4. TotalIn(observed, n) = TotalOf(n) /\ \A i : FitIn(observed, i, n) = Fitting(i, n)
    BY DEF TotalIn, TotalOf, FitIn, Fitting
  <2>5. QED
    BY <2>2, <2>3, <2>4
<1>2. QED
  BY <1>1, ObserversSound, PTL

\* No scrape shows more completed starts than starts.
THEOREM PageOrderedHolds == Spec => []PageOrdered
<1>1. ObserversInv => PageOrdered
  BY DEF ObserversInv, RegistryInv, PageOf, PageOrdered
<1>2. QED
  BY <1>1, ObserversSound, PTL

\* When all requests are complete, each is counted under the code its client
\* got, and one with an interim answer under some code.
THEOREM StatusCountedHolds == Spec => []StatusCounted
<1>1. ObserversInv => StatusCounted
  <2> DEFINE Got(code) == {q \in Requests : ~interim[q] /\ sent[q] = code}
             Other == {q \in Requests : interim[q]}
  <2> SUFFICES ASSUME ObserversInv, \A q \in Requests : at[q] = "complete", NEW code \in AllCodes
               PROVE  /\ Cardinality(Got(code)) <= values[code]
                      /\ values[code] <= Cardinality(Got(code)) + Cardinality(Other)
    BY DEF StatusCounted
  <2>1. \A q \in Requests : interim[q] \in BOOLEAN /\ RequestOf(at[q], rec[q], sent[q], interim[q])
    BY DEF ObserversInv, ResponseInv, ResponseType
  <2>2. \A q \in Requests : ~ interim[q] => rec[q].status = sent[q]
    BY <2>1 DEF RequestOf
  <2>3. /\ CountedWith(code) \subseteq Got(code) \cup Other
        /\ Got(code) \subseteq CountedWith(code)
    BY <2>2 DEF CountedWith, Counted
  <2>4. /\ Got(code) \subseteq Requests /\ Other \subseteq Requests
        /\ CountedWith(code) \subseteq Requests
    BY DEF CountedWith
  <2> HIDE DEF Got, Other
  <2>5. IsFiniteSet(Got(code)) /\ IsFiniteSet(Other) /\ IsFiniteSet(CountedWith(code))
    BY <2>4, FS_Subset, ResponseAssumption
  <2>6. Cardinality(Got(code)) <= Cardinality(CountedWith(code))
    BY <2>3, <2>5, FS_Subset
  <2>7. /\ IsFiniteSet(Got(code) \cup Other)
        /\ Cardinality(Got(code) \cup Other) <= Cardinality(Got(code)) + Cardinality(Other)
    <3>1. /\ IsFiniteSet(Got(code) \cup Other)
          /\ Cardinality(Got(code) \cup Other) =
               Cardinality(Got(code)) + Cardinality(Other) - Cardinality(Got(code) \cap Other)
      BY <2>5, FS_Union
    <3>2. IsFiniteSet(Got(code) \cap Other)
      BY <2>5, FS_Intersection
    <3>3. /\ Cardinality(Got(code)) \in Nat /\ Cardinality(Other) \in Nat
          /\ Cardinality(Got(code) \cap Other) \in Nat
      BY <2>5, <3>2, FS_CardinalityType
    <3>4. QED
      BY <3>1, <3>3
  <2>8. Cardinality(CountedWith(code)) <= Cardinality(Got(code) \cup Other)
    BY <2>3, <2>7, FS_Subset
  <2>9. /\ Cardinality(CountedWith(code)) \in Nat /\ Cardinality(Got(code) \cup Other) \in Nat
        /\ Cardinality(Got(code)) \in Nat /\ Cardinality(Other) \in Nat
    BY <2>5, <2>7, FS_CardinalityType
  <2>10. values[code] = Cardinality(CountedWith(code))
    BY DEF ObserversInv, StatusLedger
  <2>11. QED
    BY <2>6, <2>7, <2>8, <2>9, <2>10
<1>2. QED
  BY <1>1, ObserversSound, PTL
=============================================================================
