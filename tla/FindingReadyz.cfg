SPECIFICATION FairSpec
CONSTANTS
  MaxEvents = 2
  StreamFaults = {"error", "close"}
  ListFails = TRUE
INVARIANTS ReadyzTells
