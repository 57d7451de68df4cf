SPECIFICATION Spec
CONSTANTS
  MaxProds = 1
  MaxCons = 2
  InitialCap = 1
  MaxCap = 3
  Msg = {m1, m2}
  NoMsg = NoMsg
  Junk = Junk
  CountMod = 1
SYMMETRY MsgSymmetry
INVARIANTS
  TypeOK
  RingConsistent
  OneOwner
  NoLostWakeup
  DestroyedLast
PROPERTIES
  ImplementsFifo
