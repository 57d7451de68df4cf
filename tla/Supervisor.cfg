SPECIFICATION FairSpec
CONSTANTS
  Pid = {c1, c2}
  Talkers = {c1, c2}
  NoPid = {c1, c2}
INVARIANTS
  TypeOK
  TracksUnlessRaced
PROPERTIES
  AskAnswered
