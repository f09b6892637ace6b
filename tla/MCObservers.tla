---------------------------- MODULE MCObservers ----------------------------
(* Observers with a small histogram and the casts worth telling apart.      *)
EXTENDS Observers

MCBuckets == <<1, 3>>
MCSeries == {"starts", "idle", "stops", "102", "200", "404", "502", "503"}

CONSTANTS t1, t2, s1, p1, p2, q1, q2

\* Competing starts under a scrape; two scrapes of a changing state; starts
\* and stops with the history page; requests under a scrape.
MCCasts == {{t1, t2, p1}, {p1, p2, "sync"}, {t1, s1, "sync", "history"}, {q1, q2, p1}}

\* One request; one idle callback; one scrape of a changing state.
MCOneRequest == {{q1}}
MCOneStopper == {{s1}}
MCOneScrape == {{p1, "sync"}}
=============================================================================
