SPECIFICATION FairSpec
CONSTANTS
  Requests = {r1, r2}
  Nobody = Nobody
INVARIANTS LookupsNeverRace
PROPERTIES ShutdownCompletes RequestsReturn
CHECK_DEADLOCK FALSE
