SPECIFICATION BridgeSpec
CONSTANTS
  ranks = 1
  bankgroups = 1
  banks_per_group = 2
  Param <- MCParam
  Addrs = {1, 2}
  Configs <- MCConfigs
  SETTLE_TICKS = 1
INVARIANTS NoFatalExit DoneOnce
PROPERTIES Drains WriteAfterRead
