SPECIFICATION Spec
CONSTANTS
  Paths = {"a", "b"}
  Content = {c1, c2}
  Links = {c2}
  LinkTarget = "a"
  None = None
  Empty = Empty
  Programs = {d1, d2}
  Tools = {t1}
  Rand <- Numbers
  Modulus = 2
  MaxTime = 1
  MaxCalls = 1
SYMMETRY ProgramSymmetry
INVARIANTS
  OnePlace
  FileHasInfo
