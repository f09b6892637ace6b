SPECIFICATION FairSpec
CONSTANTS
  Requests = {r1}
  Nobody = Nobody
INVARIANTS WatchExitsFirst
CHECK_DEADLOCK FALSE
