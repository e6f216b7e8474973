SPECIFICATION Spec
CONSTANTS
  c1 = c1
  c2 = c2
  t1 = t1
  t2 = t2
  w1 = w1
  w2 = w2
  s1 = s1
  s2 = s2
  Clients = {c1, c2}
  Tags = {t1, t2}
  Sets = {s1}
  Ways = {w1}
  Values = {0}
  NumABC = 1
  NumL1MSHR = 1
  SameL1Set = FALSE
  Secondary = 2
  RelLists = 2
  UncachedOps = {}
  Flushes = FALSE
SYMMETRY Symmetry
INVARIANTS Inclusion SourceAsserts
