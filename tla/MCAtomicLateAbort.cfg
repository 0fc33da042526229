CONSTANTS
  p = p
  q = q
  a = a
  b = b
  c = c
  NoTransfer = NoTransfer
  Tokens = {p, q}
  Accounts = {a, b}
  InitialBalances <- MCBalances
  Transfers <- MCOneWay
  Executions <- MCExecutions
  Fifo = TRUE
  MaxInputs = 1
  MaxAborts = 1
  MaxDebt = 0
SPECIFICATION Spec
INVARIANTS
  NoRollbackOnceCommitted
CHECK_DEADLOCK FALSE
