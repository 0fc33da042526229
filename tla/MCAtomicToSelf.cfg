CONSTANTS
  p = p
  q = q
  a = a
  b = b
  c = c
  NoTransfer = NoTransfer
  Tokens = {p, q}
  Accounts = {a, b}
  InitialBalances <- MCBalances
  Transfers <- MCToSelf
  Executions <- MCExecutions
  Fifo = TRUE
  MaxInputs = 1
  MaxAborts = 0
  MaxDebt = 0
SPECIFICATION Spec
INVARIANTS
  SupplyConserved
CHECK_DEADLOCK FALSE
