CONSTANTS
  p = p
  q = q
  a = a
  b = b
  c = c
  NoTransfer = NoTransfer
  Tokens = {p, q}
  Accounts = {a, b}
  InitialBalances <- MCBalances
  Transfers <- MCSigned
  Executions <- MCExecutions
  Fifo = TRUE
  MaxInputs = 1
  MaxAborts = 0
  MaxDebt = 1
SPECIFICATION Spec
INVARIANTS
  NobodyInDebt
CHECK_DEADLOCK FALSE
