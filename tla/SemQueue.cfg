SPECIFICATION FairSpec
CHECK_DEADLOCK FALSE
CONSTANTS
  MaxProds = 2
  MaxCons = 1
  InitialCap = 1
  MaxCap = 3
  Msg = {m1, m2}
  NoMsg = NoMsg
  Junk = Junk
INVARIANTS
  SlotsAccounted
  NoNullPop
PROPERTIES
  ImplementsFifo
  DecreaseHangs
  JoinHangs
