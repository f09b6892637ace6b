------------------------------- MODULE Metrics -------------------------------
(***************************************************************************)
(* The hand-written metrics registry (metrics.go): counters, gauges and a  *)
(* histogram under one RWMutex, and the scrapes that print them.  A write  *)
(* is one critical section; a scrape holds the read lock from its first    *)
(* line to its last, so between its steps others run but none of them      *)
(* writes.                                                                 *)
(*                                                                         *)
(* labelKey and parseKey are inverse to each other on texts without NUL: a *)
(* series is its key.  The layout of the text format is left out.          *)
(***************************************************************************)
EXTENDS Naturals, FiniteSets, Sequences

CONSTANTS
  Series,    \* the counters' series
  States,    \* container states, the series of the state gauge
  Buckets,   \* upper bounds of the histogram, ascending
  Scrapers,  \* scrapes, full or filtered to the service
  NoState    \* a cached state that is not there

ASSUME MetricsAssumption ==
  /\ Buckets \in Seq(Nat)
  /\ \A i \in 1..(Len(Buckets) - 1) : Buckets[i] < Buckets[i + 1]
  /\ NoState \notin States

VARIABLES
  values,    \* metric.values of the counters
  gauge,     \* the states whose series of docknap_container_state is 1
  hist,      \* docknap_start_duration_seconds: count, sum, bcount
  scrape,    \* where each scrape is
  page,      \* what it has printed
  observed,  \* history: the durations observed, in order, and their running total
  cached     \* s.states of the service

metrics == <<values, gauge, hist, observed>>
scrapes == <<scrape, page>>
mvars == <<metrics, scrapes, cached>>

NoPage == [saw |-> NoState, gauge |-> {}, values |-> [k \in Series |-> 0],
           bcount |-> <<>>, count |-> 0, sum |-> 0]

MInit ==
  /\ values = [k \in Series |-> 0]
  /\ gauge = {}
  /\ hist = [count |-> 0, sum |-> 0, bcount |-> [i \in DOMAIN Buckets |-> 0]]
  /\ scrape = [r \in Scrapers |-> "none"]
  /\ page = [r \in Scrapers |-> NoPage]
  /\ observed = <<>>
  /\ cached = NoState
-----------------------------------------------------------------------------
\* Mutant: a scrape locks each kind of metric for itself.
UnlockedBetween == \A r \in Scrapers : scrape[r] # "count"

\* r.mu can be locked for writing.
Unlocked == \A r \in Scrapers : scrape[r] \notin {"buckets", "count"}

\* History: the total of the first n durations, and the next one.
TotalOf(n) == IF n = 0 THEN 0 ELSE observed[n].total
Noted(v) == observed' = Append(observed, [value |-> v, total |-> TotalOf(Len(observed)) + v])

Add(k) == Unlocked /\ values' = [values EXCEPT ![k] = @ + 1]

\* Mutant: a duration equal to a bound falls into the next bucket.
ObserveBelow(v) ==
  /\ Unlocked
  /\ hist' = [count |-> hist.count + 1, sum |-> hist.sum + v,
              bcount |-> [i \in DOMAIN Buckets |-> hist.bcount[i] + IF v < Buckets[i] THEN 1 ELSE 0]]
  /\ Noted(v)

\* Histogram.Observe: every bucket the value fits in is counted up.
Observe(v) ==
  /\ Unlocked
  /\ hist' = [count |-> hist.count + 1, sum |-> hist.sum + v,
              bcount |-> [i \in DOMAIN Buckets |-> hist.bcount[i] + IF v <= Buckets[i] THEN 1 ELSE 0]]
  /\ Noted(v)

\* HistogramStats of the service, the number of observations.
HistogramStats == hist.count
-----------------------------------------------------------------------------
(* handleMetrics: refreshStateGauges, then writeTo *)

ScrapeTo(r, l) == scrape' = [scrape EXCEPT ![r] = l]

\* The cached states are copied under s.mu; a service without one is skipped.
ReadStates(r) ==
  /\ scrape[r] = "none"
  /\ ScrapeTo(r, IF cached = NoState THEN "refreshed" ELSE "set")
  /\ page' = [page EXCEPT ![r] = [NoPage EXCEPT !.saw = cached]]
  /\ UNCHANGED <<metrics, cached>>

\* m.State.Set: the series of the state goes to 1; none ever goes back.
SetGauge(r) ==
  /\ scrape[r] = "set" /\ Unlocked
  /\ gauge' = gauge \cup {page[r].saw}
  /\ ScrapeTo(r, "refreshed")
  /\ UNCHANGED <<values, hist, observed, page, cached>>

\* writeTo takes the read lock and prints counters and gauges.  A filtered
\* scrape (handleServiceMetrics) of a registered service begins here.
WriteValues(r) ==
  /\ scrape[r] = "refreshed" \/ (scrape[r] = "none" /\ cached # NoState)
  /\ ScrapeTo(r, "buckets")
  /\ page' = [page EXCEPT ![r] = [@ EXCEPT !.gauge = gauge, !.values = values]]
  /\ UNCHANGED <<metrics, cached>>

WriteBuckets(r) ==
  /\ scrape[r] = "buckets"
  /\ ScrapeTo(r, "count")
  /\ page' = [page EXCEPT ![r].bcount = hist.bcount]
  /\ UNCHANGED <<metrics, cached>>

\* The +Inf bucket, sum and count; the lock is released.
WriteCount(r) ==
  /\ scrape[r] = "count"
  /\ ScrapeTo(r, "printed")
  /\ page' = [page EXCEPT ![r] = [@ EXCEPT !.count = hist.count, !.sum = hist.sum]]
  /\ UNCHANGED <<metrics, cached>>

\* The page is gone and the next scrape may come.
ScrapeEnds(r) ==
  /\ scrape[r] = "printed"
  /\ ScrapeTo(r, "none")
  /\ page' = [page EXCEPT ![r] = NoPage]
  /\ UNCHANGED <<metrics, cached>>

Scrape(r) == \/ ReadStates(r) \/ SetGauge(r) \/ WriteValues(r) \/ WriteBuckets(r)
             \/ WriteCount(r) \/ ScrapeEnds(r)
-----------------------------------------------------------------------------
\* How many of the first n durations fit in bucket i.
Fitting(i, n) == Cardinality({j \in 1..n : observed[j].value <= Buckets[i]})

\* PageExact: the histogram on a printed page is the exact summary of the
\* durations observed up to some moment, bounds included, although the page is
\* written in several steps while goroutines go on observing (writeTo).
PageExact ==
  \A r \in Scrapers : scrape[r] = "printed" =>
    /\ page[r].count <= Len(observed)
    /\ page[r].sum = TotalOf(page[r].count)
    /\ \A i \in DOMAIN Buckets : page[r].bcount[i] = Fitting(i, page[r].count)

\* OneActiveState: what README.md:304 and the metric's own help text
\* (registry.go:91) say of docknap_container_state: "Current container state (1
\* for active state)": a page shows 1 for at most one state.  The series of a
\* former state is never taken back (handlers_status.go:22).
OneActiveState ==
  \A r \in Scrapers : scrape[r] = "printed" => Cardinality(page[r].gauge) <= 1
=============================================================================
