SPECIFICATION WaysSpec
CONSTANTS
  c1 = c1
  t1 = t1
  t2 = t2
  w1 = w1
  w2 = w2
  s1 = s1
  Clients = {c1}
  Tags = {t1, t2}
  Sets = {s1}
  Ways = {w1, w2}
  Values = {0, 1}
  NumABC = 1
  NumL1MSHR = 1
  SameL1Set = FALSE
  Secondary = 1
  RelLists = 2
  UncachedOps = {}
  Flushes = TRUE
SYMMETRY Symmetry
INVARIANTS UniqueWay MemFresh
