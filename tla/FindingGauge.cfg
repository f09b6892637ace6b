SPECIFICATION Spec
CONSTANTS
  t1 = t1
  t2 = t2
  s1 = s1
  p1 = p1
  p2 = p2
  q1 = q1
  q2 = q2
  Series <- MCSeries
  States = {running, exited}
  Buckets <- MCBuckets
  Scrapers = {p1, p2}
  NoState = NoState
  Requests = {q1, q2}
  Codes = {"200", "404"}
  Starters = {t1, t2}
  Stoppers = {s1}
  Elapsed = {1, 2}
  MaxEvents = 3
  MaxLog = 5
  Casts <- MCOneScrape
INVARIANT OneActiveState
CHECK_DEADLOCK FALSE
