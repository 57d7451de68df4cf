SPECIFICATION FairSpec
CONSTANTS
  Clients = {c1}
  InfoFiles <- AllShapes
  Roots = {TRUE, FALSE}
  MaxTyped = 4
  NoFd = NoFd
  Freed = Freed
  NumCells = 2
  MaxFails = 1
INVARIANTS
  InSync
  MisusedOnly
  DiesOnly
PROPERTIES
  WaitsForeverOnly
  SigintEnds
