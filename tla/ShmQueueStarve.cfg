SPECIFICATION FairSpec
CONSTANTS
  QueueSize = 1
  MaxProcs = 2
  MaxStarts = 2
  Msg = {m1}
  NoMsg = NoMsg
  Junk = Zero
PROPERTIES
  NobodyStarves
