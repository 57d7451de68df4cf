SPECIFICATION Spec
CONSTANTS
  Clients = {c1, c2}
  InfoFiles <- Plain
  Roots = {TRUE}
  MaxTyped = 1
  NoFd = NoFd
  Freed = Freed
  NumCells = 3
  MaxFails = 0
INVARIANTS
  ServerSurvives
