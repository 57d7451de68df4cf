SPECIFICATION FairSpec
CONSTANTS
  Clients = {p1, p2}
  RecCount = 2
  Texts = {"a"}
  Sems = {0, 1}
  NoRec = NoRec
  Absent = Absent
INVARIANTS
  TypeOK
  InitFillsFile
PROPERTIES
  ImplementsCas
  LocksReleased
