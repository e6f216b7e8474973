SPECIFICATION hiSpec
CONSTANTS
  NHARTS = 3
  WORD = 4
  INT = 2
  Codes = {{}}
  PRINTS = 0
  Modes = {"plain"}
INVARIANT ExitAfterAll
CHECK_DEADLOCK FALSE
