CONSTANTS
  p = p
  q = q
  a = a
  b = b
  c = c
  NoTransfer = NoTransfer
  Tokens = {p, q}
  Accounts = {a, b}
  InitialBalances <- MCBalances
  Transfers <- MCSigned
  Executions <- MCExecutions
  Fifo = FALSE
  MaxInputs = 2
  MaxAborts = 1
  MaxDebt = 1
SPECIFICATION Spec
INVARIANTS
  LockOwned
CHECK_DEADLOCK FALSE
