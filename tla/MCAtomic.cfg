CONSTANTS
  p = p
  q = q
  a = a
  b = b
  c = c
  NoTransfer = NoTransfer
  Tokens = {p, q}
  Accounts = {a, b, c}
  InitialBalances <- MCSingles
  Transfers <- MCToOne
  Executions <- MCRivals
  Fifo = TRUE
  MaxInputs = 2
  MaxAborts = 1
  MaxDebt = 0
SPECIFICATION FairSpec
INVARIANTS
  TypeOK
  LockOwned
  SupplyConserved
  AllOrNothing
PROPERTIES
  DecisionApplied
  AbortAnswered
CHECK_DEADLOCK FALSE
