SPECIFICATION FairSpec
CONSTANTS
  MaxProds = 2
  MaxCons = 1
  InitialCap = 1
  MaxCap = 1
  Msg = {m1, m2}
  NoMsg = NoMsg
  Junk = Junk
  CountMod = 2
INVARIANTS
  CountersAgree
PROPERTIES
  ShutdownCompletes
  JoinHangs
