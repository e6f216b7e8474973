SPECIFICATION BridgeSpec
CONSTANTS
  ranks = 1
  bankgroups = 1
  banks_per_group = 2
  Param <- MCParam
  Addrs = {1, 2}
  Configs <- LPDDR5
  SETTLE_TICKS = 1
PROPERTY RefreshedBankRests
