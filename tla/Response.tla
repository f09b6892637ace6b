------------------------------ MODULE Response ------------------------------
(***************************************************************************)
(* What a proxied request answers and what is counted: statusRecorder      *)
(* and handleProxy from the port check on (proxy.go), serveLoading         *)
(* (templates.go) and recoverMiddleware (middleware.go).  Starting the     *)
(* container and the idle timer are in Lifecycle.                          *)
(*                                                                         *)
(* External, from net/http: ReverseProxy forwards an interim (1xx) answer  *)
(* of the upstream with WriteHeader, panics with ErrAbortHandler when the  *)
(* upstream breaks off in the body, and a handler that returns without a   *)
(* header has answered 200.                                                *)
(***************************************************************************)
EXTENDS Metrics

CONSTANTS
  Requests,  \* proxied requests
  Codes      \* final codes an upstream answers with

\* Every code statusRecorder can hold.
AllCodes == Codes \cup {"102", "200", "502", "503"}

ASSUME ResponseAssumption ==
  /\ "102" \notin Codes /\ "" \notin Codes /\ AllCodes \subseteq Series
  /\ IsFiniteSet(Requests)

VARIABLES
  at,        \* where each request is
  rec,       \* its statusRecorder: status and wroteHeader
  sent,      \* the final code the client got, "": none yet
  body,      \* whose bytes the client got, in order
  interim    \* history: an interim answer was forwarded

rvars == <<at, rec, sent, body, interim>>

RInit ==
  /\ at = [q \in Requests |-> "port"]
  /\ rec = [q \in Requests |-> [status |-> "200", wroteHeader |-> FALSE]]
  /\ sent = [q \in Requests |-> ""]
  /\ body = [q \in Requests |-> <<>>]
  /\ interim = [q \in Requests |-> FALSE]

RequestTo(q, l) == at' = [at EXCEPT ![q] = l]

\* statusRecorder.WriteHeader on top of status s: the first code is kept.
Recorded(q, s, code) ==
  rec' = [rec EXCEPT ![q] = IF @.wroteHeader THEN [@ EXCEPT !.status = s]
                            ELSE [status |-> code, wroteHeader |-> TRUE]]

\* The client gets the first final header and every byte.
Answers(q, code, bytes) ==
  /\ sent' = [sent EXCEPT ![q] = IF @ = "" THEN code ELSE @]
  /\ body' = [body EXCEPT ![q] = Append(@, bytes)]

\* serveLoading after rec.status = 503: nothing once a header is out, otherwise
\* 503 and the loading page.
ServeLoading(q) ==
  IF rec[q].wroteHeader THEN rec' = [rec EXCEPT ![q].status = "503"] /\ UNCHANGED <<sent, body>>
  ELSE Recorded(q, "503", "503") /\ Answers(q, "503", "loading")

PortClosed(q) ==
  /\ at[q] = "port"
  /\ ServeLoading(q)
  /\ RequestTo(q, "return")
  /\ UNCHANGED <<interim, mvars>>

\* The container's address is gone since the port check.
TargetUnavailable(q) ==
  /\ at[q] = "port"
  /\ Recorded(q, "502", "502") /\ Answers(q, "502", "error")
  /\ RequestTo(q, "return")
  /\ UNCHANGED <<interim, mvars>>

Forward(q) ==
  /\ at[q] = "port"
  /\ RequestTo(q, "upstream")
  /\ UNCHANGED <<rec, sent, body, interim, mvars>>

\* An interim answer; bound: one.
Interim(q) ==
  /\ at[q] = "upstream" /\ ~interim[q]
  /\ Recorded(q, rec[q].status, "102")
  /\ interim' = [interim EXCEPT ![q] = TRUE]
  /\ UNCHANGED <<at, sent, body, mvars>>

\* The upstream's header and the first bytes of its body.
UpstreamAnswers(q, code) ==
  /\ at[q] = "upstream"
  /\ Recorded(q, rec[q].status, code) /\ Answers(q, code, "upstream")
  /\ RequestTo(q, "body")
  /\ UNCHANGED <<interim, mvars>>

\* Mutant: the error handler writes its page and its status in any case.
ErrorHandlerAlways(q) ==
  /\ at[q] \in {"upstream", "body"}
  /\ rec' = [rec EXCEPT ![q].status = "503"] /\ Answers(q, "503", "loading")
  /\ RequestTo(q, "return")
  /\ UNCHANGED <<interim, mvars>>

\* proxy.ErrorHandler, when the upstream fails before its header: nothing
\* after a header, otherwise 503 and the loading page.
ErrorHandler(q) ==
  /\ at[q] = "upstream"
  /\ RequestTo(q, "return")
  /\ IF rec[q].wroteHeader THEN UNCHANGED <<rec, sent, body>>
     ELSE ServeLoading(q)
  /\ UNCHANGED <<interim, mvars>>

BodyEnds(q) ==
  /\ at[q] = "body"
  /\ RequestTo(q, "return")
  /\ UNCHANGED <<rec, sent, body, interim, mvars>>

\* The upstream breaks off in the body: panic(http.ErrAbortHandler).
BodyBreaks(q) ==
  /\ at[q] = "body"
  /\ RequestTo(q, "panic")
  /\ UNCHANGED <<rec, sent, body, interim, mvars>>

\* The deferred m.Proxy.Add of handleProxy, which a panic runs as well; the
\* second histogram, ProxyDur, is like the first and left out.
CountProxy(q) ==
  /\ at[q] \in {"return", "panic"}
  /\ RequestTo(q, IF at[q] = "panic" THEN "recover" ELSE "end")
  /\ Add(rec[q].status)
  /\ UNCHANGED <<rec, sent, body, interim, gauge, hist, observed, scrapes, cached>>

\* recoverMiddleware: WriteHeader(500), without effect once a header is sent,
\* and the text "internal server error".
Recover(q) ==
  /\ at[q] = "recover"
  /\ Answers(q, "500", "error")
  /\ RequestTo(q, "end")
  /\ UNCHANGED <<rec, interim, mvars>>

\* The handler has returned; net/http completes the response.
Complete(q) ==
  /\ at[q] = "end"
  /\ RequestTo(q, "complete")
  /\ sent' = [sent EXCEPT ![q] = IF @ = "" THEN "200" ELSE @]
  /\ UNCHANGED <<rec, body, interim, mvars>>

Respond(q) == \/ PortClosed(q) \/ TargetUnavailable(q) \/ Forward(q) \/ Interim(q)
              \/ (\E code \in Codes : UpstreamAnswers(q, code))
              \/ ErrorHandler(q) \/ BodyEnds(q) \/ BodyBreaks(q)
              \/ CountProxy(q) \/ Recover(q) \/ Complete(q)
-----------------------------------------------------------------------------
\* StatusCounted: once all requests have been answered,
\* docknap_proxy_requests_total has counted each under the code its client got,
\* however its upstream failed; a request with an interim answer is counted
\* once as well, under whichever code (statusRecorder, handleProxy).
StatusCounted ==
  (\A q \in Requests : at[q] = "complete") =>
     \A code \in AllCodes :
       LET got == Cardinality({q \in Requests : ~interim[q] /\ sent[q] = code})
       IN  got <= values[code] /\ values[code] <= got + Cardinality({q \in Requests : interim[q]})

\* FinalStatusCounted: what README.md:297 says of docknap_proxy_requests_total:
\* "Proxied requests by HTTP status".  statusRecorder keeps the first code it is
\* given, an interim one included (proxy.go:22).
FinalStatusCounted ==
  (\A q \in Requests : at[q] = "complete") =>
     \A code \in AllCodes : values[code] = Cardinality({q \in Requests : sent[q] = code})

\* PartialAborted: CHANGELOG.md says of a response whose upstream disconnects
\* in mid-stream that docknap "aborts the connection instead of writing" on top
\* of the partial body: what was begun as the upstream's body has no other
\* bytes in it.
PartialAborted == \A q \in Requests : Len(body[q]) <= 1
=============================================================================
