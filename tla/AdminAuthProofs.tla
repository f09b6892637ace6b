-------------------------- MODULE AdminAuthProofs --------------------------
(***************************************************************************)
(* Theorems about AdminAuth, for all addresses, tokens, times and limits.  *)
(***************************************************************************)
EXTENDS AdminAuth, SequenceTheorems, WellFoundedInduction, TLAPS

-----------------------------------------------------------------------------
(* Sessions *)

\* The ages a session in the map can have.
Session == [created : 0..AgeCap, used : 0..AgeCap]

\* The session store's part of TypeOK.
SessionType ==
  /\ tokens \in [Tokens -> Session \cup {Absent}]
  /\ issued \subseteq Tokens /\ logouts \subseteq issued /\ revoked \subseteq issued
  /\ age \in [Tokens -> 0..TTL + 1]
  /\ gcTimer \in 0..GCPeriod

\* What is true of a token t in the map: it was issued, has not been logged
\* out, is as old as its login, was last used while its TTL had not run out
\* (valid deletes it after that), and was used since the collector's last pass
\* would have dropped it.
Kept(t) ==
  /\ t \in issued \ revoked
  /\ age[t] <= tokens[t].created
  /\ tokens[t].created <= tokens[t].used + TTL
  /\ tokens[t].used + gcTimer <= TTL + GCPeriod

\* SessionInv: the invariant behind LogoutIsFinal, SessionsCollected and
\* SessionActs.
SessionInv == SessionType /\ \A t \in Tokens : tokens[t] # Absent => Kept(t)

\* What the assumption says of Absent and of the arithmetic.
LEMMA AuthFacts ==
  /\ TTL \in Nat \ {0} /\ GCPeriod \in Nat \ {0} /\ Limit \in Nat \ {0} /\ Window \in Nat \ {0}
  /\ AgeCap \in Nat /\ AgeCap > 2 * TTL + GCPeriod /\ AgeCap > TTL + 1
  /\ Absent \notin Session /\ Absent \notin Tokens /\ Absent \notin Keys
<1>1. TTL \in Nat \ {0} /\ GCPeriod \in Nat \ {0} /\ Limit \in Nat \ {0} /\ Window \in Nat \ {0}
  BY AuthAssumption
<1>2. AgeCap \in Nat /\ AgeCap > 2 * TTL + GCPeriod /\ AgeCap > TTL + 1
  BY <1>1 DEF AgeCap
<1>3. Session \subseteq [created : Nat, used : Nat]
  BY <1>2 DEF Session
<1>4. QED
  BY <1>1, <1>2, <1>3, AuthAssumption

\* Initially the map is empty.
LEMMA InitSession == Init => SessionInv
  BY AuthFacts DEF Init, SessionInv, SessionType

\* Collecting a map of kept sessions leaves a map of kept sessions.
LEMMA GcKeeps ==
  ASSUME NEW m \in [Tokens -> Session \cup {Absent}]
  PROVE  /\ GcLocked(m) \in [Tokens -> Session \cup {Absent}]
         /\ \A t \in Tokens : GcLocked(m)[t] # Absent => GcLocked(m)[t] = m[t] /\ m[t].used <= TTL
  BY AuthFacts DEF GcLocked, Session

\* A login: the new session is fresh, and the collection touches no kept one.
LEMMA LoginSession ==
  ASSUME SessionInv, NEW p \in Keys, LoginSucceeds(p)
  PROVE  SessionInv'
<1> USE AuthFacts DEF SessionInv, SessionType
<1>1. PICK t \in Tokens \ issued : /\ Issue(t)
                                   /\ issued' = issued \cup {t}
                                   /\ age' = [age EXCEPT ![t] = 0]
  BY DEF LoginSucceeds
<1>2. UNCHANGED <<logouts, revoked, gcTimer>>
  BY DEF LoginSucceeds
<1> DEFINE m == [tokens EXCEPT ![t] = [created |-> 0, used |-> 0]]
<1>3. m \in [Tokens -> Session \cup {Absent}] /\ m[t] = [created |-> 0, used |-> 0]
  BY DEF Session
<1>4. tokens' = GcLocked(m)
  BY <1>1 DEF Issue
<1> HIDE DEF m
<1>5. SessionType'
  BY <1>1, <1>2, <1>3, <1>4, GcKeeps
<1>6. ASSUME NEW u \in Tokens, tokens'[u] # Absent
      PROVE  Kept(u)'
  <2>1. tokens'[u] = m[u]
    BY <1>3, <1>4, <1>6, GcKeeps
  <2>2. CASE u = t
    BY <1>1, <1>2, <1>3, <2>1, <2>2 DEF Kept
  <2>3. CASE u # t
    <3>1. tokens'[u] = tokens[u] /\ age'[u] = age[u]
      BY <1>1, <2>1, <2>3 DEF m
    <3>2. Kept(u)
      BY <1>6, <3>1
    <3>3. QED
      BY <1>1, <1>2, <3>1, <3>2 DEF Kept
  <2>4. QED
    BY <2>2, <2>3
<1>7. QED
  BY <1>5, <1>6

\* A request: an accepted session is used anew while its TTL lasts, any other
\* one is deleted.
LEMMA RequestSession ==
  ASSUME SessionInv, NEW q \in Requests, Request(q)
  PROVE  SessionInv'
<1> USE AuthFacts DEF SessionInv, SessionType
<1> DEFINE t == q.cookie
<1>1. t \in issued /\ t \in Tokens
  BY DEF Request
<1>2. UNCHANGED <<issued, age, revoked, gcTimer>> /\ logouts' \subseteq issued
  BY <1>1 DEF Request
<1>3. tokens' = tokens \/ tokens' = [tokens EXCEPT ![t] = IF Accepted(t) THEN [@ EXCEPT !.used = 0] ELSE Absent]
  BY DEF Request, Valid
<1>4. CASE tokens' = tokens
  BY <1>2, <1>4 DEF Kept
<1>5. CASE Accepted(t) /\ tokens' = [tokens EXCEPT ![t] = [@ EXCEPT !.used = 0]]
  <2>1. tokens[t] \in Session /\ tokens[t].created <= TTL
    BY <1>1, <1>5 DEF Accepted
  <2>2. /\ tokens'[t] \in Session /\ tokens'[t].created = tokens[t].created /\ tokens'[t].used = 0
        /\ \A u \in Tokens \ {t} : tokens'[u] = tokens[u]
        /\ tokens' \in [Tokens -> Session \cup {Absent}]
    BY <1>1, <1>5, <2>1 DEF Session
  <2>3. Kept(t)
    BY <1>1, <2>1
  <2>4. Kept(t)'
    BY <1>2, <2>1, <2>2, <2>3 DEF Kept, Session
  <2>5. QED
    BY <1>2, <2>2, <2>4 DEF Kept
<1>6. CASE tokens' = [tokens EXCEPT ![t] = Absent]
  BY <1>1, <1>2, <1>6 DEF Kept
<1>7. QED
  BY <1>3, <1>4, <1>5, <1>6

\* A logout deletes the token it adds to revoked.
LEMMA LogoutSession ==
  ASSUME SessionInv, NEW t \in Tokens, Logout(t)
  PROVE  SessionInv'
<1>1. tokens' = [tokens EXCEPT ![t] = Absent] /\ revoked' = revoked \cup {t} /\ logouts' = logouts \ {t}
  BY DEF Logout, Revoke
<1>2. UNCHANGED <<issued, age, gcTimer>> /\ t \in logouts
  BY DEF Logout
<1>3. QED
  BY <1>1, <1>2 DEF SessionInv, SessionType, Kept

\* The collector's pass leaves only sessions used within the TTL.
LEMMA GcSession ==
  ASSUME SessionInv, Gc
  PROVE  SessionInv'
<1> USE AuthFacts DEF SessionInv, SessionType
<1>1. tokens' = GcLocked(tokens) /\ gcTimer' = GCPeriod /\ UNCHANGED <<issued, age, logouts, revoked>>
  BY DEF Gc
<1>2. ASSUME NEW t \in Tokens, tokens'[t] # Absent
      PROVE  Kept(t)'
  <2>1. tokens'[t] = tokens[t] /\ tokens[t].used <= TTL
    BY <1>1, <1>2, GcKeeps
  <2>2. Kept(t) /\ tokens[t] \in Session
    BY <1>2, <2>1
  <2>3. QED
    BY <1>1, <2>1, <2>2 DEF Kept, Session
<1>3. QED
  BY <1>1, <1>2, GcKeeps

\* Time: as the collector is at most a period late, no age saturates.
LEMMA TickSession ==
  ASSUME SessionInv, Tick
  PROVE  SessionInv'
<1> USE AuthFacts DEF SessionInv, SessionType
<1>1. gcTimer > 0 /\ gcTimer' = gcTimer - 1 /\ UNCHANGED <<issued, logouts, revoked>>
  BY DEF Tick
<1>2. ASSUME NEW t \in Tokens, tokens[t] = Absent
      PROVE  tokens'[t] = Absent
  BY <1>2 DEF Tick
<1>3. ASSUME NEW t \in Tokens, tokens[t] # Absent
      PROVE  tokens'[t] \in Session /\ Kept(t)'
  <2>1. Kept(t) /\ tokens[t] \in Session
    BY <1>3
  <2>2. tokens[t].created < AgeCap /\ tokens[t].used < AgeCap
    BY <1>1, <2>1 DEF Kept, Session, AgeCap
  <2>3. tokens'[t] = [created |-> tokens[t].created + 1, used |-> tokens[t].used + 1]
    BY <1>3, <2>2 DEF Tick, Older
  <2>4. age'[t] \in 0..TTL + 1 /\ age'[t] <= age[t] + 1
    BY <2>1 DEF Tick, Older, Kept
  <2>5. tokens'[t] \in Session
    BY <2>1, <2>2, <2>3 DEF Session
  <2>6. QED
    BY <1>1, <2>1, <2>3, <2>4, <2>5 DEF Kept, Session
<1>4. tokens' \in [Tokens -> Session \cup {Absent}]
  <2>1. tokens' = [t \in Tokens |-> tokens'[t]]
    BY DEF Tick
  <2>2. QED
    BY <1>2, <1>3, <2>1
<1>5. age' \in [Tokens -> 0..TTL + 1]
  BY DEF Tick, Older
<1>6. gcTimer' \in 0..GCPeriod
  BY <1>1
<1>7. QED
  BY <1>1, <1>2, <1>3, <1>4, <1>5, <1>6

\* SessionInv is inductive.
LEMMA NextSession == SessionInv /\ [Next]_vars => SessionInv'
<1> SUFFICES ASSUME SessionInv, [Next]_vars
             PROVE  SessionInv'
  OBVIOUS
<1>1. CASE UNCHANGED <<sessions, gcTimer>>
  BY <1>1 DEF sessions, SessionInv, SessionType, Kept
<1>2. ASSUME NEW p \in Keys, NEW f \in Keys \cup {Absent}, LoginPost(p, f)
      PROVE  SessionInv'
  BY <1>1, <1>2 DEF LoginPost
<1>3. ASSUME NEW p \in Keys, Denied(p) \/ LoginFails(p)
      PROVE  SessionInv'
  BY <1>1, <1>3 DEF Denied, LoginFails
<1>4. CASE UNCHANGED vars
  BY <1>1, <1>4 DEF vars
<1>5. QED
  BY <1>2, <1>3, <1>4, LoginSession, RequestSession, LogoutSession, GcSession, TickSession DEF Next

\* The session store keeps SessionInv.
THEOREM SessionsSound == Spec => []SessionInv
  BY InitSession, NextSession, PTL DEF Spec

\* A session that was logged out is never in the map again, for all tokens,
\* whatever requests admitted before it, logins and collections follow.
THEOREM LogoutIsFinalHolds == Spec => []LogoutIsFinal
<1>1. SessionInv => LogoutIsFinal
  BY DEF SessionInv, SessionType, LogoutIsFinal, Kept
<1>2. QED
  BY <1>1, SessionsSound, PTL

\* The map forgets a session two TTLs and a collector period after its login,
\* for every TTL and period, although every accepted request renews it.
THEOREM SessionsCollectedHolds == Spec => []SessionsCollected
<1>1. SessionInv => SessionsCollected
  <2> SUFFICES ASSUME SessionInv, NEW t \in Tokens, tokens[t] # Absent
               PROVE  tokens[t].created <= 2 * TTL + GCPeriod
    BY DEF SessionsCollected
  <2>1. Kept(t) /\ tokens[t] \in Session /\ gcTimer \in 0..GCPeriod
    BY DEF SessionInv, SessionType
  <2>2. QED
    BY <2>1, AuthFacts DEF Kept, Session
<1>2. QED
  BY <1>1, SessionsSound, PTL

\* A request that is admitted without the right credentials carries a session
\* that was issued, is not logged out and began at most a TTL ago.
THEOREM SessionActsHolds == Spec => []SessionActs
<1>1. SessionInv => SessionActs
  <2> SUFFICES ASSUME SessionInv, NEW q \in Requests, CheckRequestAuth(q), q.auth # "right"
               PROVE  q.cookie \in issued \ revoked /\ age[q.cookie] <= TTL
    BY DEF SessionActs
  <2>1. Accepted(q.cookie)
    BY DEF CheckRequestAuth, Parsed, VerifyCredentials
  <2>2. q.cookie \in Tokens
    BY <2>1 DEF Accepted, Requests
  <2>3. Kept(q.cookie) /\ tokens[q.cookie] \in Session /\ tokens[q.cookie].created <= TTL
    BY <2>1, <2>2 DEF SessionInv, SessionType, Accepted
  <2>4. age[q.cookie] \in 0..TTL + 1
    BY <2>2 DEF SessionInv, SessionType
  <2>5. QED
    BY <2>3, <2>4, AuthFacts DEF Kept, Session
<1>2. QED
  BY <1>1, SessionsSound, PTL
-----------------------------------------------------------------------------
(* The login rate limiter *)

\* What is true of a client k: the recorded attempts h, oldest first, end in
\* the attempts let through and still in the window, s, newest first; what
\* stands before them is outside the window, and there are never more than
\* Limit.
LimiterOf(h, s) ==
  /\ h \in Seq(0..Window) /\ Len(h) <= Limit
  /\ s \in Seq(0..Window) /\ Len(s) <= Len(h)
  /\ \A i \in 1..Len(s) : s[i] = h[Len(h) + 1 - i] /\ s[i] < Window
  /\ \A i, j \in 1..Len(s) : i <= j => s[i] <= s[j]
  /\ \A i \in 1..(Len(h) - Len(s)) : h[i] >= Window

\* LimiterInv: the invariant behind SlidingWindow and NoUndueDenial.
LimiterInv ==
  /\ hits = [k \in Keys |-> hits[k]] /\ passed = [k \in Keys |-> passed[k]]
  /\ login \in [Keys -> {"none", "verify", "denied"}]
  /\ \A k \in Keys : LimiterOf(hits[k], passed[k])

\* A nonempty set of numbers has a least one, and Min yields it.
LEMMA MinNat ==
  ASSUME NEW I \in SUBSET Nat, I # {}
  PROVE  Min(I) \in I /\ \A i \in I : Min(I) <= i
<1> DEFINE R == {ss \in Nat \X Nat : ss[1] < ss[2]}
<1>1. IsWellFoundedOn(R, Nat)
  BY NatLessThanWellFounded DEF OpToRel
<1>2. \A x, y \in Nat : y < x => <<y, x>> \in R
  OBVIOUS
<1> HIDE DEF R
<1>3. PICK x \in I : \A y \in I : ~ (<<y, x>> \in R)
  BY <1>1, WFMin
<1>4. ASSUME NEW y \in I
      PROVE  x <= y
  <2>1. x \in Nat /\ y \in Nat
    OBVIOUS
  <2>2. ~ (y < x)
    BY <1>2, <1>3, <2>1, Zenon
  <2>3. QED
    BY <2>1, <2>2
<1>5. \E z \in I : \A y \in I : z <= y
  BY <1>4
<1>6. QED
  BY <1>5 DEF Min

\* What a part of a sequence of ages is.
LEMMA PartOf ==
  ASSUME NEW s \in Seq(0..Window), NEW m \in 1..(Len(s) + 1), NEW n \in (m - 1)..Len(s)
  PROVE  /\ SubSeq(s, m, n) \in Seq(0..Window) /\ Len(SubSeq(s, m, n)) = n - m + 1
         /\ \A i \in 1..(n - m + 1) : SubSeq(s, m, n)[i] = s[m + i - 1]
<1>1. Len(s) \in Nat /\ m \in Int /\ n \in Int
  BY LenProperties
<1>2. \A i \in m..n : i \in 1..Len(s)
  BY <1>1
<1>3. \A i \in m..n : s[i] \in 0..Window
  BY <1>2, ElementOfSeq
<1>4. QED
  BY <1>1, <1>3, SubSeqProperties

\* Trimming h cuts off what stands before the attempts of s, and only that.
LEMMA TrimmedIs ==
  ASSUME NEW k \in Keys, LimiterOf(hits[k], passed[k])
  PROVE  /\ Trimmed(k) \in Seq(0..Window) /\ Len(Trimmed(k)) = Len(passed[k])
         /\ \A i \in 1..Len(passed[k]) : Trimmed(k)[i] = hits[k][Len(hits[k]) - Len(passed[k]) + i]
<1> DEFINE h == hits[k]
           s == passed[k]
           I == {i \in 1..Len(h) : Recent(h[i])}
           n == Len(h)
           d == Len(h) - Len(s)
<1>1. /\ h \in Seq(0..Window) /\ s \in Seq(0..Window) /\ Len(s) <= Len(h)
      /\ \A i \in 1..Len(s) : s[i] = h[Len(h) + 1 - i] /\ s[i] < Window
      /\ \A i \in 1..d : h[i] >= Window
  BY DEF LimiterOf
<1>2. Trimmed(k) = IF SelectInSeq(h, Recent) = 0 THEN <<>> ELSE SubSeq(h, SelectInSeq(h, Recent), n)
  BY DEF Trimmed
<1>3. SelectInSeq(h, Recent) = IF I # {} THEN Min(I) ELSE 0
  BY DEF SelectInSeq
<1>4. Trimmed(k) = IF I = {} \/ Min(I) = 0 THEN <<>> ELSE SubSeq(h, Min(I), n)
  BY <1>2, <1>3
<1> HIDE DEF h, s
<1>5. n \in Nat /\ Len(s) \in Nat /\ d \in Nat
  BY <1>1, LenProperties
<1>6. \A i \in 1..n : i \in I <=> h[i] < Window
  BY DEF Recent
<1>7. ASSUME NEW i \in 1..n, i > d
      PROVE  i \in I
  <2>1. n + 1 - i \in 1..Len(s) /\ n + 1 - (n + 1 - i) = i
    BY <1>1, <1>5, <1>7
  <2>2. s[n + 1 - i] = h[n + 1 - (n + 1 - i)] /\ s[n + 1 - i] < Window
    BY <1>1, <2>1
  <2>3. QED
    BY <1>6, <2>1, <2>2
<1>8. ASSUME NEW i \in I
      PROVE  i > d /\ i \in 1..n
  <2>1. i \in 1..n /\ h[i] < Window
    BY DEF Recent
  <2>2. h[i] \in 0..Window
    BY <1>1, <2>1, ElementOfSeq
  <2>3. ~ (i \in 1..d)
    <3>1. \A j \in 1..d : h[j] >= Window
      BY <1>1
    <3>2. QED
      BY <2>1, <2>2, <3>1, AuthFacts
  <2>4. QED
    BY <1>5, <2>1, <2>3
<1> HIDE DEF I
<1>9. CASE Len(s) = 0
  <2>1. \A i \in I : FALSE
    BY <1>5, <1>8, <1>9
  <2>2. Trimmed(k) = <<>>
    BY <1>4, <2>1
  <2>3. QED
    BY <1>9, <2>2, EmptySeq DEF s
<1>10. CASE Len(s) # 0
  <2>1. d + 1 \in I
    <3>1. d + 1 \in 1..n /\ d + 1 > d
      BY <1>1, <1>5, <1>10
    <3>2. QED
      BY <1>7, <3>1
  <2>2. I \in SUBSET Nat
    BY <1>5, <1>8
  <2>3. Min(I) \in I /\ \A i \in I : Min(I) <= i
    BY <2>1, <2>2, MinNat
  <2>4. Min(I) = d + 1
    <3>1. Min(I) > d /\ Min(I) \in Nat /\ Min(I) <= d + 1
      BY <1>8, <2>1, <2>2, <2>3
    <3>2. QED
      BY <1>5, <3>1
  <2>5. Trimmed(k) = SubSeq(h, d + 1, n)
    BY <1>4, <1>5, <2>1, <2>4
  <2>6. d + 1 \in 1..(Len(h) + 1) /\ n \in (d + 1 - 1)..Len(h) /\ n - (d + 1) + 1 = Len(s)
    BY <1>5
  <2>7. \A i \in 1..Len(s) : d + 1 + i - 1 = d + i
    BY <1>5
  <2>8. /\ SubSeq(h, d + 1, n) \in Seq(0..Window) /\ Len(SubSeq(h, d + 1, n)) = Len(s)
        /\ \A i \in 1..Len(s) : SubSeq(h, d + 1, n)[i] = h[d + 1 + i - 1]
    <3>1. h \in Seq(0..Window)
      BY <1>1
    <3> HIDE DEF n, d
    <3>2. QED
      BY <2>6, <3>1, PartOf
  <2>9. QED
    BY <2>5, <2>7, <2>8 DEF h, s
<1>11. QED
  BY <1>9, <1>10

\* Of attempts s whose ages do not decrease, Within keeps exactly those inside
\* the window.
LEMMA WithinIs ==
  ASSUME NEW s \in Seq(0..Window), \A i, j \in 1..Len(s) : i <= j => s[i] <= s[j]
  PROVE  /\ Within(s) \in Seq(0..Window) /\ Len(Within(s)) <= Len(s)
         /\ \A i \in 1..Len(Within(s)) : Within(s)[i] = s[i] /\ s[i] < Window
         /\ \A i \in 1..Len(s) : i > Len(Within(s)) => s[i] >= Window
<1> DEFINE I == {i \in 1..Len(s) : Outside(s[i])}
<1>1. SelectInSeq(s, Outside) = IF I # {} THEN Min(I) ELSE 0
  BY DEF SelectInSeq
<1>2. Within(s) = IF I = {} \/ Min(I) = 0 THEN s ELSE SubSeq(s, 1, Min(I) - 1)
  BY <1>1 DEF Within
<1>3. Len(s) \in Nat /\ \A i \in 1..Len(s) : s[i] \in 0..Window
  BY LenProperties, ElementOfSeq
<1>4. \A i \in 1..Len(s) : i \in I <=> s[i] >= Window
  BY DEF Outside
<1>5. I \in SUBSET (1..Len(s))
  OBVIOUS
<1> HIDE DEF I
<1>6. CASE I = {}
  <2>1. Within(s) = s
    BY <1>2, <1>6
  <2>2. \A i \in 1..Len(s) : s[i] < Window
    BY <1>3, <1>4, <1>6, AuthFacts
  <2>3. QED
    BY <1>3, <2>1, <2>2
<1>7. CASE I # {}
  <2>1. Min(I) \in I /\ \A i \in I : Min(I) <= i
    BY <1>3, <1>5, <1>7, MinNat
  <2> DEFINE m == Min(I)
  <2>2. m \in 1..Len(s) /\ s[m] >= Window
    BY <1>4, <1>5, <2>1
  <2>3. Within(s) = SubSeq(s, 1, m - 1)
    BY <1>2, <1>7, <2>2
  <2>4. \A i \in 1..(m - 1) : s[i] < Window
    BY <1>3, <1>4, <2>1, <2>2, AuthFacts
  <2> HIDE DEF m
  <2>5. 1 \in 1..(Len(s) + 1) /\ m - 1 \in (1 - 1)..Len(s) /\ m - 1 - 1 + 1 = m - 1
    BY <1>3, <2>2
  <2>6. \A i \in 1..(m - 1) : 1 + i - 1 = i
    BY <1>3, <2>2
  <2>7. Within(s) \in Seq(0..Window) /\ Len(Within(s)) = m - 1 /\ \A i \in 1..(m - 1) : Within(s)[i] = s[i]
    BY <2>3, <2>5, <2>6, PartOf
  <2>8. \A i \in 1..Len(s) : i > m - 1 => s[i] >= Window
    BY <1>3, <2>2, AuthFacts
  <2>9. QED
    BY <1>3, <2>2, <2>4, <2>7, <2>8
<1>8. QED
  BY <1>6, <1>7

\* The attempts that trimming leaves, t, are again as LimiterOf says ...
LEMMA TrimmedKeeps ==
  ASSUME NEW h, NEW s, LimiterOf(h, s), NEW t \in Seq(0..Window), Len(t) = Len(s),
         \A i \in 1..Len(s) : t[i] = h[Len(h) - Len(s) + i]
  PROVE  LimiterOf(t, s)
<1>1. Len(h) \in Nat /\ Len(s) \in Nat /\ Len(s) <= Len(h) /\ Len(h) <= Limit
  BY LenProperties DEF LimiterOf
<1>2. ASSUME NEW i \in 1..Len(s)
      PROVE  s[i] = t[Len(t) + 1 - i] /\ s[i] < Window
  <2>1. Len(s) + 1 - i \in 1..Len(s) /\ Len(h) - Len(s) + (Len(s) + 1 - i) = Len(h) + 1 - i
    BY <1>1
  <2>2. t[Len(s) + 1 - i] = h[Len(h) - Len(s) + (Len(s) + 1 - i)]
    BY <2>1
  <2>3. s[i] = h[Len(h) + 1 - i] /\ s[i] < Window
    BY DEF LimiterOf
  <2>4. QED
    BY <2>1, <2>2, <2>3
<1>3. /\ s \in Seq(0..Window)
      /\ \A i, j \in 1..Len(s) : i <= j => s[i] <= s[j]
  BY DEF LimiterOf
<1>4. Len(t) <= Limit /\ Len(s) <= Len(t) /\ \A i \in 1..(Len(t) - Len(s)) : t[i] >= Window
  BY <1>1, AuthFacts
<1>5. QED
  BY <1>2, <1>3, <1>4 DEF LimiterOf

\* ... and so they are with the new attempt, if there is room for it.
LEMMA AppendKeeps ==
  ASSUME NEW h, NEW s, LimiterOf(h, s), Len(h) = Len(s), Len(h) < Limit
  PROVE  LimiterOf(Append(h, 0), <<0>> \o s)
<1> DEFINE a == Append(h, 0)
           b == <<0>> \o s
<1>1. /\ h \in Seq(0..Window) /\ s \in Seq(0..Window) /\ Len(h) \in Nat /\ Len(s) \in Nat
      /\ 0 \in 0..Window
  BY LenProperties, AuthFacts DEF LimiterOf
<1>2. /\ \A i \in 1..Len(s) : s[i] = h[Len(h) + 1 - i] /\ s[i] < Window
      /\ \A i, j \in 1..Len(s) : i <= j => s[i] <= s[j]
  BY DEF LimiterOf
<1>3. /\ a \in Seq(0..Window) /\ Len(a) = Len(h) + 1 /\ a[Len(h) + 1] = 0
      /\ \A i \in 1..Len(h) : a[i] = h[i]
  BY <1>1, AppendProperties
<1>4. /\ b \in Seq(0..Window) /\ Len(b) = Len(s) + 1 /\ b[1] = 0
      /\ \A i \in 1..Len(s) : b[i + 1] = s[i]
  <2>1. <<0>> \in Seq(0..Window) /\ Len(<<0>>) = 1 /\ <<0>>[1] = 0
    BY <1>1
  <2>2. b \in Seq(0..Window) /\ Len(b) = 1 + Len(s)
    BY <1>1, <2>1, ConcatProperties
  <2>3. \A i \in 1..(1 + Len(s)) : b[i] = IF i <= 1 THEN <<0>>[i] ELSE s[i - 1]
    BY <1>1, <2>1, ConcatProperties
  <2>4. \A i \in 1..Len(s) : i + 1 \in 1..(1 + Len(s)) /\ ~ (i + 1 <= 1) /\ i + 1 - 1 = i
    BY <1>1
  <2> HIDE DEF b
  <2>5. \A i \in 1..Len(s) : b[i + 1] = s[i]
    BY <2>3, <2>4
  <2>6. 1 \in 1..(1 + Len(s))
    BY <1>1
  <2>7. QED
    BY <1>1, <2>1, <2>2, <2>3, <2>5, <2>6
<1> HIDE DEF a, b
<1>5. ASSUME NEW i \in 1..Len(b)
      PROVE  b[i] = a[Len(a) + 1 - i] /\ b[i] < Window
  <2>1. CASE i = 1
    BY <1>1, <1>3, <1>4, <2>1, AuthFacts
  <2>2. CASE i # 1
    <3>1. i - 1 \in 1..Len(s) /\ (i - 1) + 1 = i /\ Len(h) + 1 - (i - 1) = Len(a) + 1 - i
      BY <1>1, <1>3, <1>4, <2>2
    <3>2. Len(a) + 1 - i \in 1..Len(h)
      BY <1>1, <1>3, <3>1
    <3>3. b[(i - 1) + 1] = s[i - 1] /\ s[i - 1] = h[Len(h) + 1 - (i - 1)] /\ s[i - 1] < Window
      BY <1>2, <1>4, <3>1
    <3>4. a[Len(a) + 1 - i] = h[Len(a) + 1 - i]
      BY <1>3, <3>2
    <3>5. QED
      BY <3>1, <3>3, <3>4
  <2>3. QED
    BY <2>1, <2>2
<1>6. ASSUME NEW i \in 1..Len(b), NEW j \in 1..Len(b), i <= j
      PROVE  b[i] <= b[j]
  <2>1. CASE i = 1
    BY <1>4, <1>6, <2>1, ElementOfSeq, AuthFacts
  <2>2. CASE i # 1
    <3>1. i - 1 \in 1..Len(s) /\ j - 1 \in 1..Len(s) /\ i - 1 <= j - 1 /\ (i - 1) + 1 = i /\ (j - 1) + 1 = j
      BY <1>1, <1>4, <1>6, <2>2
    <3>2. b[(i - 1) + 1] = s[i - 1] /\ b[(j - 1) + 1] = s[j - 1] /\ s[i - 1] <= s[j - 1]
      BY <1>2, <1>4, <3>1
    <3>3. QED
      BY <3>1, <3>2
  <2>3. QED
    BY <2>1, <2>2
<1>7. Len(a) <= Limit /\ Len(b) <= Len(a) /\ \A i \in 1..(Len(a) - Len(b)) : a[i] >= Window
  BY <1>1, <1>3, <1>4, AuthFacts
<1>8. LimiterOf(a, b)
  BY <1>3, <1>4, <1>5, <1>6, <1>7 DEF LimiterOf
<1>9. QED
  BY <1>8 DEF a, b

\* A unit of time passes.
LEMMA AgedKeeps ==
  ASSUME NEW h, NEW s, LimiterOf(h, s)
  PROVE  LimiterOf(Aged(h), Within(Aged(s)))
<1> DEFINE a == Aged(h)
           g == Aged(s)
           b == Within(g)
<1>1. /\ h \in Seq(0..Window) /\ s \in Seq(0..Window) /\ Len(h) \in Nat /\ Len(s) \in Nat
      /\ Len(s) <= Len(h) /\ Len(h) <= Limit
  BY LenProperties DEF LimiterOf
<1>2. /\ \A i \in 1..Len(s) : s[i] = h[Len(h) + 1 - i] /\ s[i] < Window
      /\ \A i, j \in 1..Len(s) : i <= j => s[i] <= s[j]
      /\ \A i \in 1..(Len(h) - Len(s)) : h[i] >= Window
  BY DEF LimiterOf
<1>3. ASSUME NEW q \in Seq(0..Window)
      PROVE  /\ Aged(q) \in Seq(0..Window) /\ Len(Aged(q)) = Len(q)
             /\ \A i \in 1..Len(q) : q[i] \in 0..Window /\ Aged(q)[i] = Older(q[i], Window)
  <2>1. Len(q) \in Nat /\ DOMAIN q = 1..Len(q) /\ \A i \in 1..Len(q) : q[i] \in 0..Window
    BY LenProperties, ElementOfSeq
  <2>2. Aged(q) = [i \in 1..Len(q) |-> Older(q[i], Window)]
    BY <2>1 DEF Aged
  <2>3. \A i \in 1..Len(q) : Older(q[i], Window) \in 0..Window
    BY <2>1, AuthFacts DEF Older
  <2>4. QED
    BY <2>1, <2>2, <2>3
<1>4. /\ a \in Seq(0..Window) /\ Len(a) = Len(h)
      /\ \A i \in 1..Len(h) : h[i] \in 0..Window /\ a[i] = Older(h[i], Window)
  BY <1>1, <1>3
<1>5. /\ g \in Seq(0..Window) /\ Len(g) = Len(s)
      /\ \A i \in 1..Len(s) : s[i] \in 0..Window /\ g[i] = Older(s[i], Window)
  BY <1>1, <1>3
<1> HIDE DEF a, g
<1>6. \A i, j \in 1..Len(g) : i <= j => g[i] <= g[j]
  BY <1>2, <1>5, AuthFacts DEF Older
<1>7. /\ b \in Seq(0..Window) /\ Len(b) <= Len(g)
      /\ \A i \in 1..Len(b) : b[i] = g[i] /\ g[i] < Window
      /\ \A i \in 1..Len(g) : i > Len(b) => g[i] >= Window
  BY <1>5, <1>6, WithinIs
<1>8. Len(b) \in Nat
  BY <1>7, LenProperties
<1> HIDE DEF b
<1>9. \A i \in 1..Len(g) : Len(a) + 1 - i \in 1..Len(h) /\ g[i] = a[Len(a) + 1 - i]
  <2>1. \A i \in 1..Len(s) : Len(h) + 1 - i \in 1..Len(h) /\ s[i] = h[Len(h) + 1 - i]
    BY <1>1, <1>2
  <2>2. QED
    BY <1>4, <1>5, <2>1
<1>10. \A i \in 1..Len(b) : i \in 1..Len(g)
  BY <1>1, <1>5, <1>7, <1>8
<1>11. \A i \in 1..Len(b) : b[i] = a[Len(a) + 1 - i] /\ b[i] < Window
  BY <1>7, <1>9, <1>10
<1>12. \A i, j \in 1..Len(b) : i <= j => b[i] <= b[j]
  BY <1>6, <1>7, <1>10
<1>13. ASSUME NEW i \in 1..(Len(a) - Len(b))
       PROVE  a[i] >= Window
  <2>1. i \in 1..Len(h)
    BY <1>1, <1>4, <1>8
  <2>2. CASE i <= Len(h) - Len(s)
    <3>1. h[i] >= Window
      BY <1>1, <1>2, <2>1, <2>2
    <3>2. QED
      BY <1>4, <2>1, <3>1, AuthFacts DEF Older
  <2>3. CASE i > Len(h) - Len(s)
    <3>1. Len(a) + 1 - i \in 1..Len(g) /\ Len(a) + 1 - i > Len(b) /\ Len(a) + 1 - (Len(a) + 1 - i) = i
      BY <1>1, <1>4, <1>5, <1>8, <2>1, <2>3
    <3>2. g[Len(a) + 1 - i] >= Window
      BY <1>7, <3>1
    <3>3. g[Len(a) + 1 - i] = a[Len(a) + 1 - (Len(a) + 1 - i)]
      BY <1>9, <3>1
    <3>4. QED
      BY <3>1, <3>2, <3>3
  <2>4. QED
    BY <1>1, <2>1, <2>2, <2>3
<1>14. Len(a) <= Limit /\ Len(b) <= Len(a)
  BY <1>1, <1>4, <1>5, <1>7, <1>8, AuthFacts
<1>15. LimiterOf(a, b)
  BY <1>4, <1>7, <1>11, <1>12, <1>13, <1>14 DEF LimiterOf
<1>16. QED
  BY <1>15 DEF a, b, g

\* Initially nothing is recorded.
LEMMA InitLimiter == Init => LimiterInv
<1>1. LimiterOf(<<>>, <<>>)
  BY AuthFacts DEF LimiterOf
<1>2. QED
  BY <1>1 DEF Init, LimiterInv

\* The limiter and the history agree on whom an attempt is from.
LEMMA ClientIsCaller ==
  ASSUME NEW p \in Keys, NEW f \in Keys \cup {Absent}
  PROVE  ClientKey(p, f) = Caller(p, f) /\ ClientKey(p, f) \in Keys
  BY DEF ClientKey, Caller, TrustedProxy

\* An attempt is recorded or refused.
LEMMA PostLimiter ==
  ASSUME LimiterInv, NEW p \in Keys, NEW f \in Keys \cup {Absent}, LoginPost(p, f)
  PROVE  LimiterInv'
<1> DEFINE k == ClientKey(p, f)
           t == Trimmed(k)
<1>1. k \in Keys /\ Caller(p, f) = k
  BY ClientIsCaller
<1>2. LimiterOf(hits[k], passed[k]) /\ \A j \in Keys : LimiterOf(hits[j], passed[j])
  BY <1>1 DEF LimiterInv
<1>3. t \in Seq(0..Window) /\ Len(t) = Len(passed[k]) /\ LimiterOf(t, passed[k])
  <2>1. /\ t \in Seq(0..Window) /\ Len(t) = Len(passed[k])
        /\ \A i \in 1..Len(passed[k]) : t[i] = hits[k][Len(hits[k]) - Len(passed[k]) + i]
    BY <1>1, <1>2, TrimmedIs
  <2> HIDE DEF k, t
  <2>2. QED
    BY <1>2, <2>1, TrimmedKeeps
<1>4. (Len(t) >= Limit /\ Refused(p, k, t)) \/ (~ (Len(t) >= Limit) /\ LetThrough(p, f))
  BY DEF LoginPost
<1> HIDE DEF k, t
<1>5. CASE Refused(p, k, t)
  <2>1. hits' = [hits EXCEPT ![k] = t] /\ passed' = passed /\ login' = [login EXCEPT ![p] = "denied"]
    BY <1>5 DEF Refused
  <2>2. QED
    BY <1>1, <1>2, <1>3, <2>1 DEF LimiterInv
<1>6. CASE ~ (Len(t) >= Limit) /\ LetThrough(p, f)
  <2>1. /\ hits' = [hits EXCEPT ![k] = Append(t, 0)] /\ login' = [login EXCEPT ![p] = "verify"]
        /\ passed' = [passed EXCEPT ![k] = <<0>> \o passed[k]]
    BY <1>1, <1>6 DEF LetThrough, k, t
  <2>2. Len(t) < Limit
    BY <1>3, <1>6, LenProperties, AuthFacts
  <2>3. LimiterOf(Append(t, 0), <<0>> \o passed[k])
    BY <1>3, <2>2, AppendKeeps
  <2>4. /\ hits'[k] = Append(t, 0) /\ passed'[k] = <<0>> \o passed[k]
        /\ \A j \in Keys \ {k} : hits'[j] = hits[j] /\ passed'[j] = passed[j]
        /\ hits' = [j \in Keys |-> hits'[j]] /\ passed' = [j \in Keys |-> passed'[j]]
        /\ login' \in [Keys -> {"none", "verify", "denied"}]
    BY <1>1, <2>1 DEF LimiterInv
  <2>5. \A j \in Keys : LimiterOf(hits'[j], passed'[j])
    BY <1>2, <2>3, <2>4
  <2>6. QED
    BY <2>4, <2>5 DEF LimiterInv
<1>7. QED
  BY <1>4, <1>5, <1>6

\* LimiterInv is inductive.
LEMMA NextLimiter == LimiterInv /\ [Next]_vars => LimiterInv'
<1> SUFFICES ASSUME LimiterInv, [Next]_vars
             PROVE  LimiterInv'
  OBVIOUS
<1>1. CASE UNCHANGED limiter
  BY <1>1 DEF limiter, LimiterInv
<1>2. ASSUME NEW p \in Keys, Denied(p) \/ LoginFails(p) \/ LoginSucceeds(p)
      PROVE  LimiterInv'
  <2>1. login' = [login EXCEPT ![p] = "none"] /\ hits' = hits /\ passed' = passed
    BY <1>2 DEF Denied, LoginFails, LoginSucceeds
  <2>2. QED
    BY <2>1 DEF LimiterInv
<1>3. CASE Tick
  <2>1. /\ hits' = [k \in Keys |-> Aged(hits[k])] /\ login' = login
        /\ passed' = [k \in Keys |-> Within(Aged(passed[k]))]
    BY <1>3 DEF Tick
  <2>2. \A k \in Keys : LimiterOf(Aged(hits[k]), Within(Aged(passed[k])))
    BY AgedKeeps DEF LimiterInv
  <2>3. QED
    BY <2>1, <2>2 DEF LimiterInv
<1>4. ASSUME NEW q \in Requests, Request(q)
      PROVE  LimiterInv'
  BY <1>1, <1>4 DEF Request
<1>5. ASSUME NEW t \in Tokens, Logout(t)
      PROVE  LimiterInv'
  BY <1>1, <1>5 DEF Logout
<1>6. CASE Gc
  BY <1>1, <1>6 DEF Gc
<1>7. CASE UNCHANGED vars
  BY <1>1, <1>7 DEF vars
<1>8. QED
  BY <1>2, <1>3, <1>4, <1>5, <1>6, <1>7, PostLimiter DEF Next

\* The limiter keeps LimiterInv.
THEOREM LimiterSound == Spec => []LimiterInv
  BY InitLimiter, NextLimiter, PTL DEF Spec

\* Both halves together give every variable its type.
THEOREM AuthTypeCorrect == Spec => []TypeOK
<1>1. SessionInv /\ LimiterInv => TypeOK
  <2> SUFFICES ASSUME SessionInv, LimiterInv
               PROVE  TypeOK
    OBVIOUS
  <2>1. ASSUME NEW k \in Keys
        PROVE  Len(hits[k]) <= Limit /\ \A i \in DOMAIN hits[k] : hits[k][i] \in 0..Window
    <3>1. hits[k] \in Seq(0..Window) /\ Len(hits[k]) <= Limit
      BY DEF LimiterInv, LimiterOf
    <3>2. QED
      BY <3>1, LenProperties, ElementOfSeq
  <2>2. QED
    BY <2>1 DEF SessionInv, SessionType, Session, LimiterInv, TypeOK
<1>2. QED
  BY <1>1, SessionsSound, LimiterSound, PTL

\* At most Limit attempts of a client reach the credential check in any
\* stretch of Window, for all limits, windows, clients and proxies.
THEOREM SlidingWindowHolds == Spec => []SlidingWindow
<1>1. LimiterInv => SlidingWindow
  <2> SUFFICES ASSUME LimiterInv, NEW k \in Keys
               PROVE  Len(passed[k]) <= Limit
    BY DEF SlidingWindow
  <2>1. /\ hits[k] \in Seq(0..Window) /\ passed[k] \in Seq(0..Window)
        /\ Len(passed[k]) <= Len(hits[k]) /\ Len(hits[k]) <= Limit
    BY DEF LimiterInv, LimiterOf
  <2>2. Len(hits[k]) \in Nat /\ Len(passed[k]) \in Nat
    BY <2>1, LenProperties
  <2>3. QED
    BY <2>1, <2>2, AuthFacts
<1>2. QED
  BY <1>1, LimiterSound, PTL

\* A client is refused only while Limit of its own attempts were let through
\* within the last Window, for all limits, windows, clients and proxies.
THEOREM NoUndueDenialHolds == Spec => NoUndueDenial
<1> DEFINE Act == \A p \in Keys : login[p] # "denied" /\ login'[p] = "denied" =>
                    \E f \in Keys \cup {Absent} : LoginPost(p, f) /\ Len(passed[Caller(p, f)]) >= Limit
<1>1. LimiterInv /\ [Next]_vars => [Act]_vars
  <2> SUFFICES ASSUME LimiterInv, Next, NEW p \in Keys, login[p] # "denied", login'[p] = "denied"
               PROVE  \E f \in Keys \cup {Absent} : LoginPost(p, f) /\ Len(passed[Caller(p, f)]) >= Limit
    OBVIOUS
  <2>1. login \in [Keys -> {"none", "verify", "denied"}] /\ login' # login
    BY DEF LimiterInv
  <2>2. ASSUME NEW q \in Keys, Denied(q) \/ LoginFails(q) \/ LoginSucceeds(q)
        PROVE  FALSE
    BY <2>1, <2>2 DEF Denied, LoginFails, LoginSucceeds
  <2>3. ~ Tick /\ ~ Gc /\ ~ (\E q \in Requests : Request(q)) /\ ~ (\E t \in Tokens : Logout(t))
    BY <2>1 DEF Tick, Gc, Request, Logout, limiter
  <2>4. PICK q \in Keys, f \in Keys \cup {Absent} : LoginPost(q, f)
    BY <2>2, <2>3 DEF Next
  <2>5. q = p
    BY <2>1, <2>4 DEF LoginPost, Refused, LetThrough
  <2> DEFINE k == ClientKey(p, f)
  <2>6. Len(Trimmed(k)) >= Limit
    BY <2>1, <2>4, <2>5 DEF LoginPost, LetThrough
  <2>7. Caller(p, f) = k /\ Len(Trimmed(k)) = Len(passed[k])
    BY ClientIsCaller, TrimmedIs DEF LimiterInv
  <2>8. QED
    BY <2>4, <2>5, <2>6, <2>7
<1>2. QED
  BY <1>1, LimiterSound, PTL DEF Spec, NoUndueDenial
=============================================================================
