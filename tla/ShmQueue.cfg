SPECIFICATION Spec
CONSTANTS
  QueueSize = 2
  MaxProcs = 2
  MaxStarts = 2
  Msg = {m1, m2}
  NoMsg = NoMsg
  Junk = Zero
SYMMETRY MsgSymmetry
INVARIANTS
  TypeOK
  MutexAccounted
  SlotsAccounted
PROPERTIES
  ImplementsFifo
