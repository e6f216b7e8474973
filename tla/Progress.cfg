CONSTANTS
  NUM_DIV = 3
  CntrMax = 3
  quDepth = 2
  quIds = 3
  quWait = 1
  NoOp = NoOp
  Banks = {"b0", "b1"}
  BankOf <- MCBankOf
  NoBank = "none"
  FlushData = {1, 2, 16, 32}
  NoFlush = NoFlush
  NHARTS = 2
  INT = 3
  WORD = 6
  Codes <- MCCodes
  PRINTS = 1
  Modes = {"plain", "abort", "timer"}
  VmRows = 2
  MAX_TEST_PAGES = 3
  MAX_NUM_CODE_PAGES = 1
  ACCESSES = 2
  Procs = {0, 1, 2}
  Threads = {0, 1, 2}
  size = 2
  UINT = 12
  NoWord = 99
  Words = {1}
  PRODUCERS = 1
  ITERATIONS = 2
  RUNS = 2
  CHUNK = 10
SPECIFICATION PrSpec
INVARIANTS UnitSafe RowInOrder AnswerIsMine ExitAfterAll
PROPERTIES PoolDrains OpsPerformed FlushCorrect RunEnds VmCorrect WorkCorrect
