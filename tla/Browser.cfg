SPECIFICATION BrowserSpec
CONSTANTS
  Paths = {"a", "b"}
  Content = {c1, c2}
  Links = {}
  LinkTarget = "a"
  None = None
  Empty = Empty
  Programs = {d1}
  Tools = {t1, t2}
  Rand <- Numbers
  Modulus = 2
  MaxTime = 1
  MaxCalls = 2
  Viewer = t1
  ViewerCalls = d1
  NameOrder <- Alphabet
  VisibleItems = 1
VIEW Seen
SYMMETRY Symmetry
INVARIANTS
  BrowserTypeOK
  CursorAtList
PROPERTIES
  RestoresToOrigin
  TakesOnlyWhatWasShown
