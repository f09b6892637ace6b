SPECIFICATION FairSpec
CONSTANTS
  Clients = {c1, c2}
  ChanCap = 1
  ShutsDown = TRUE
  Nobody = Nobody
INVARIANTS OneTailer LineOfferedOnce
PROPERTIES TailersEnd ServedUntilSomeoneLeaves
