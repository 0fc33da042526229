CONSTANTS
  p = p
  q = q
  a = a
  b = b
  c = c
  NoTransfer = NoTransfer
  Tokens = {p, q}
  Accounts = {a, b}
  InitialBalances <- MCBalances
  Transfers <- MCBothWays
  Executions <- MCExecutions
  Fifo = TRUE
  MaxInputs = 2
  MaxAborts = 0
  MaxDebt = 0
SPECIFICATION FairSpec
PROPERTIES
  DecisionApplied
CHECK_DEADLOCK FALSE
