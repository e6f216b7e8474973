SPECIFICATION ServedSpec
CONSTANTS
  c1 = c1
  t1 = t1
  t2 = t2
  w1 = w1
  s1 = s1
  s2 = s2
  Clients = {c1}
  Tags = {t1, t2}
  Sets = {s1, s2}
  Ways = {w1}
  Values = {0}
  NumABC = 1
  NumL1MSHR = 2
  SameL1Set = FALSE
  Secondary = 1
  RelLists = 1
  UncachedOps = {"Get", "Put"}
  Flushes = FALSE
PROPERTY Served
