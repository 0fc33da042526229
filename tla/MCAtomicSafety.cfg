CONSTANTS
  p = p
  q = q
  a = a
  b = b
  c = c
  NoTransfer = NoTransfer
  Tokens = {p, q}
  Accounts = {a, b}
  InitialBalances <- MCBalances
  Transfers <- MCBothWays
  Executions <- MCExecutions
  Fifo = TRUE
  MaxInputs = 2
  MaxAborts = 2
  MaxDebt = 0
SPECIFICATION Spec
INVARIANTS
  TypeOK
  LockOwned
  SupplyConserved
  AllOrNothing
CHECK_DEADLOCK FALSE
