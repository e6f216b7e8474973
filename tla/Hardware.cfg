CONSTANTS
  queues = 2
  entries = 3
  Data = {0, 1}
  NUM_CTXT = 8
  CTXT_ID_LEN = 3
  Beats = 4
  FillMod = 8
  Flow = FALSE
  dSets = 2
  dWays = 2
  dTags = {a, b}
  NoWrite = NoWrite
  NoLookup = NoLookup
  Shapes <- MCShapes
  nRPQ = 2
  FinishStall = 4
  NoReq = NoReq
  sdWays = {0}
  sdBeats = 2
  sdChunks = {0, 1}
  sdKinds <- MCKinds
  MaxReqs = 3
  NoBeat = NoBeat
INIT HwInit
NEXT HwNext
INVARIANTS SelectorFair EvictionsIntact DirectoryExact MissesSafe DataInTime WaySettled
PROPERTY Refines
