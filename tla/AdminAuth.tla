------------------------------ MODULE AdminAuth ------------------------------
(***************************************************************************)
(* Admin login: the session store (sessions.go), the login rate limiter    *)
(* (ratelimit.go), the handlers that use them (auth.go processLogin,       *)
(* handleLogout; main.go sessionGC) and what admits a request to an admin  *)
(* route (auth.go requireAuth, requireCSRF, clientKey; cidr.go), with      *)
(* authentication enabled.                                                 *)
(*                                                                         *)
(* Times are ages.  Tick lets one unit pass; it waits for the session      *)
(* collector when its ticker is due, so the collector is at most GCPeriod  *)
(* late.  Tokens are random 256-bit values: issue returns one never used.  *)
(***************************************************************************)
EXTENDS Naturals, Sequences, SequencesExt, TLC

CONSTANTS
  Keys,      \* client addresses
  Trusted,   \* the addresses DOCKNAP_TRUSTED_PROXIES names
  Tokens,    \* session tokens the random source will yield
  TTL,       \* sessionStore.ttl
  GCPeriod,  \* period of sessionGC
  Limit,     \* loginRateLimiter.limit
  Window,    \* loginRateLimiter.window
  Absent     \* no entry in the token map; no cookie; no X-Forwarded-For

ASSUME AuthAssumption ==
  /\ {TTL, GCPeriod, Limit, Window} \subseteq Nat \ {0}
  /\ Trusted \subseteq Keys
  /\ Absent \notin [created : Nat, used : Nat] \cup Keys \cup Tokens

VARIABLES
  tokens,    \* token -> ages of createdAt and lastUsed
  issued,    \* tokens handed out
  age,       \* history: token -> time since its login
  logouts,   \* tokens of the logout requests admitted and not yet handled
  revoked,   \* tokens logged out
  hits,      \* key -> ages of the recorded attempts, oldest first
  passed,    \* history: key -> ages of the attempts let through, newest first
  login,     \* peer -> its login in progress: "none", "verify", "denied"
             \* (bound: one at a time per peer)
  gcTimer    \* time until the collector's next tick

sessions == <<tokens, issued, age, logouts, revoked>>
limiter == <<hits, passed, login>>
vars == <<sessions, limiter, gcTimer>>

\* Ages of sessions at or above AgeCap, and of attempts at or above Window,
\* are not told apart.
AgeCap == 2 * TTL + GCPeriod + 1
Older(a, cap) == IF a < cap THEN a + 1 ELSE a

Init ==
  /\ tokens = [t \in Tokens |-> Absent]
  /\ issued = {} /\ logouts = {} /\ revoked = {}
  /\ age = [t \in Tokens |-> 0]
  /\ hits = [k \in Keys |-> <<>>]
  /\ passed = [k \in Keys |-> <<>>]
  /\ login = [k \in Keys |-> "none"]
  /\ gcTimer = GCPeriod
-----------------------------------------------------------------------------
(* clientKey and loginRateLimiter.allow *)

\* Mutant: the forwarded address is taken from any peer.
ClientKeyAny(p, f) == IF f # Absent THEN f ELSE p

\* trustedProxy: the peer's address is in one of the networks.
TrustedProxy(p) == p \in Trusted

\* clientKey: the first X-Forwarded-For entry f, if the peer p is a trusted
\* proxy and sent one.
ClientKey(p, f) == IF TrustedProxy(p) /\ f # Absent THEN f ELSE p

\* History: whom an attempt is from, if only trusted proxies are believed.
Caller(p, f) == IF p \in Trusted /\ f # Absent THEN f ELSE p

\* Mutant: an attempt at the edge of the window is dropped one unit early.
RecentEarly(a) == a < Window - 1

\* hits[j].After(cutoff)
Recent(a) == a < Window

\* The leading attempts outside the window are cut off.
Trimmed(k) == LET j == SelectInSeq(hits[k], Recent)
              IN  IF j = 0 THEN <<>> ELSE SubSeq(hits[k], j, Len(hits[k]))

\* The window as the history variables and the properties measure it: of
\* attempts s, newest first, those that are not outside it.
Outside(a) == a >= Window
Within(s) == LET j == SelectInSeq(s, Outside) IN IF j = 0 THEN s ELSE SubSeq(s, 1, j - 1)

\* The attempt of peer p with forwarded address f is let through or refused.
LetThrough(p, f) ==
  /\ hits' = [hits EXCEPT ![ClientKey(p, f)] = Append(Trimmed(ClientKey(p, f)), 0)]
  /\ login' = [login EXCEPT ![p] = "verify"]
  /\ passed' = [passed EXCEPT ![Caller(p, f)] = <<0>> \o @]
Refused(p, k, left) ==
  /\ hits' = [hits EXCEPT ![k] = left]
  /\ login' = [login EXCEPT ![p] = "denied"]
  /\ UNCHANGED passed

\* Mutant: a refused attempt takes the place of the oldest one.
LoginPostRenews(p, f) ==
  LET k == ClientKey(p, f) IN
  /\ login[p] = "none"
  /\ IF Len(Trimmed(k)) >= Limit THEN Refused(p, k, Append(Tail(Trimmed(k)), 0)) ELSE LetThrough(p, f)
  /\ UNCHANGED <<sessions, gcTimer>>

\* processLogin up to the limiter.
LoginPost(p, f) ==
  LET k == ClientKey(p, f) IN
  /\ login[p] = "none"
  /\ IF Len(Trimmed(k)) >= Limit THEN Refused(p, k, Trimmed(k)) ELSE LetThrough(p, f)
  /\ UNCHANGED <<sessions, gcTimer>>

Denied(p) ==
  /\ login[p] = "denied"
  /\ login' = [login EXCEPT ![p] = "none"]
  /\ UNCHANGED <<sessions, hits, passed, gcTimer>>

\* A malformed form, an empty field, or credentials that do not match.
LoginFails(p) ==
  /\ login[p] = "verify"
  /\ login' = [login EXCEPT ![p] = "none"]
  /\ UNCHANGED <<sessions, hits, passed, gcTimer>>
-----------------------------------------------------------------------------
(* sessionStore *)

\* Mutant: the collector collects nothing.
GcLockedNever(m) == m

\* gcLocked: drop what has not been used for longer than the TTL.
GcLocked(m) == [t \in Tokens |-> IF m[t] # Absent /\ m[t].used > TTL THEN Absent ELSE m[t]]

\* issue: the new token goes in, then the map is collected.
Issue(t) == tokens' = GcLocked([tokens EXCEPT ![t] = [created |-> 0, used |-> 0]])

\* processLogin with the right credentials.
LoginSucceeds(p) ==
  /\ login[p] = "verify"
  /\ login' = [login EXCEPT ![p] = "none"]
  /\ \E t \in Tokens \ issued :
       /\ Issue(t)
       /\ issued' = issued \cup {t}
       /\ age' = [age EXCEPT ![t] = 0]
  /\ UNCHANGED <<logouts, revoked, hits, passed, gcTimer>>

Accepted(t) == t # Absent /\ tokens[t] # Absent /\ tokens[t].created <= TTL

\* Mutant: the write-back after the check does not ask whether the token is
\* still in the map.
ValidWritesBack(t) == [tokens EXCEPT ![t] = IF @ = Absent THEN [created |-> 0, used |-> 0]
                                            ELSE [@ EXCEPT !.used = 0]]

\* Mutant: a use renews the whole session.
ValidRenews(t) == [tokens EXCEPT ![t] = IF Accepted(t) THEN [created |-> 0, used |-> 0] ELSE Absent]

\* valid: the map it leaves; a token past its TTL is deleted.
Valid(t) == [tokens EXCEPT ![t] = IF Accepted(t) THEN [@ EXCEPT !.used = 0] ELSE Absent]
-----------------------------------------------------------------------------
(* Requests to the admin routes.  auth: the Authorization header (absent,  *)
(* Basic with the right or wrong credentials, anything parseBasicAuth      *)
(* rejects); csrf: the header or form field repeats the csrf cookie; does: *)
(* a request other than POST, a POST to the logout route or to another.    *)

Requests == [auth : {"none", "right", "wrong", "unparsed"}, cookie : Tokens \cup {Absent},
             csrf : BOOLEAN, does : {"get", "post", "logout"}]

\* parseBasicAuth succeeds.
Parsed(q) == q.auth \in {"right", "wrong"}

VerifyCredentials(q) == q.auth = "right"

\* checkRequestAuth: a Basic header that parses decides alone.
CheckRequestAuth(q) == IF Parsed(q) THEN VerifyCredentials(q) ELSE Accepted(q.cookie)

\* requireCSRF lets the request pass.
RequireCSRF(q) == q.does = "get" \/ q.auth # "none" \/ q.csrf

\* requireAuth (and handleLogin's check); a request without a session cookie
\* leaves this state alone.  The logout handler runs later, with the cookie.
Request(q) ==
  /\ q.cookie \in issued
  /\ tokens' = IF Parsed(q) THEN tokens ELSE Valid(q.cookie)
  /\ logouts' = IF CheckRequestAuth(q) /\ RequireCSRF(q) /\ q.does = "logout"
                THEN logouts \cup {q.cookie} ELSE logouts
  /\ UNCHANGED <<issued, age, revoked, limiter, gcTimer>>

\* revoke: the map it leaves.
Revoke(t) == [tokens EXCEPT ![t] = Absent]

\* handleLogout: the token is deleted whatever became of it since.
Logout(t) ==
  /\ t \in logouts
  /\ logouts' = logouts \ {t}
  /\ tokens' = Revoke(t)
  /\ revoked' = revoked \cup {t}
  /\ UNCHANGED <<issued, age, limiter, gcTimer>>
-----------------------------------------------------------------------------
\* sessionGC
Gc ==
  /\ gcTimer = 0
  /\ tokens' = GcLocked(tokens)
  /\ gcTimer' = GCPeriod
  /\ UNCHANGED <<issued, age, logouts, revoked, limiter>>
-----------------------------------------------------------------------------
Aged(s) == [i \in DOMAIN s |-> Older(s[i], Window)]

Tick ==
  /\ gcTimer > 0
  /\ gcTimer' = gcTimer - 1
  /\ tokens' = [t \in Tokens |-> IF tokens[t] = Absent THEN Absent
                                 ELSE [created |-> Older(tokens[t].created, AgeCap),
                                       used |-> Older(tokens[t].used, AgeCap)]]
  /\ age' = [t \in Tokens |-> IF t \in issued THEN Older(age[t], TTL + 1) ELSE 0]
  /\ hits' = [k \in Keys |-> Aged(hits[k])]
  /\ passed' = [k \in Keys |-> Within(Aged(passed[k]))]
  /\ UNCHANGED <<issued, logouts, revoked, login>>

Next ==
  \/ \E p \in Keys : (\E f \in Keys \cup {Absent} : LoginPost(p, f)) \/ Denied(p) \/ LoginFails(p) \/ LoginSucceeds(p)
  \/ \E q \in Requests : Request(q)
  \/ \E t \in Tokens : Logout(t)
  \/ Gc
  \/ Tick

Spec == Init /\ [][Next]_vars

\* Tokens are random and interchangeable.
Symmetry == Permutations(Tokens)
-----------------------------------------------------------------------------
\* TypeOK: every variable has its type; the limiter keeps at most Limit
\* attempts of a key.
TypeOK ==
  /\ tokens \in [Tokens -> [created : 0..AgeCap, used : 0..AgeCap] \cup {Absent}]
  /\ issued \subseteq Tokens /\ logouts \subseteq issued /\ revoked \subseteq issued
  /\ age \in [Tokens -> 0..TTL + 1]
  /\ \A k \in Keys : /\ Len(hits[k]) <= Limit
                     /\ \A i \in DOMAIN hits[k] : hits[k][i] \in 0..Window
  /\ login \in [Keys -> {"none", "verify", "denied"}]
  /\ gcTimer \in 0..GCPeriod

\* SlidingWindow: in any stretch of Window at most Limit login attempts of a
\* client reach the credential check, however they are spaced and whatever
\* forwarded address a peer that is no trusted proxy claims (allow, clientKey).
SlidingWindow == \A k \in Keys : Len(passed[k]) <= Limit

\* NoUndueDenial: a client is refused only while Limit of its own attempts
\* were let through within the last Window: refusals do not prolong the
\* refusal, and other clients' attempts do not bring it about.
NoUndueDenial ==
  [][\A p \in Keys : login[p] # "denied" /\ login'[p] = "denied" =>
       \E f \in Keys \cup {Absent} : LoginPost(p, f) /\ Len(passed[Caller(p, f)]) >= Limit]_vars

\* LogoutIsFinal: a session that was logged out is never in the map again,
\* whatever validations, logins and collections follow (sessions.go).
LogoutIsFinal == \A t \in revoked : tokens[t] = Absent

\* SessionsCollected: the map forgets a session at the latest two TTLs and
\* one collector period after its login, although the collector looks at the
\* last use and every accepted request renews it.
SessionsCollected ==
  \A t \in Tokens : tokens[t] # Absent => tokens[t].created <= 2 * TTL + GCPeriod

\* SessionActs: a request admitted without Basic credentials carries a session
\* that was issued, is not logged out and began at most a TTL ago, however
\* often it was used since (auth.go checkRequestAuth, sessions.go valid).
SessionActs ==
  \A q \in Requests : CheckRequestAuth(q) /\ RequireCSRF(q) /\ q.auth # "right" =>
    q.cookie \in issued \ revoked /\ age[q.cookie] <= TTL
=============================================================================
