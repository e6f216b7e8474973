CONSTANTS
  Procs = {0, 1, 2}
  Words <- Numbers
  NoWord = 0
  size = 4
  UINT = 12
  Users = {0, 1, 2}
  Jobs <- SpinNumbers
  NoJob = 0
  QUEUE_SIZE = 3
  LRSC_TRIES = 2
  LockMax = 10
  Threads = {0, 1, 2}
  Team = {0, 1, 2}
  BarrierCalls = 3
  TOTAL_HARTS = 2
  PAIRED_TEST_ITERATIONS = 2
  Operands = {1, 2, 3}
  MEGAZORD_RUNS = 2
  Pairings <- MCPairings
  Drawn <- Tests
  COH_CHECKER_ROWS = 2
  MAX_HOPS = 2
  TOTAL_CIRCUITS = 2
  Payloads = {0, 5}
  MaxFaults = 1
  Limits = {7, 12}
  Sizes = {0, 2, 4}
  Aligns = {2, 3, 4}
  BLOCKS = 4
  kMaxPdst = 3
  LINES = 6
INIT SwInit
NEXT SwNext
INVARIANTS TestsSound CheckerSound HeapSound LogRight
PROPERTIES RingIsQueue SpinIsQueue tbRefines sbRefines
