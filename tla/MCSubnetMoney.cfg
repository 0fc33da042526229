CONSTANTS
  a = a
  b = b
  c = c
  NoVote = NoVote
  Voters = {a, b}
  Epochs <- MCMoneyEpochs
  Votes <- MCMoneyVotes
  InitialFunds <- MCMoneyFunds
  JoinAmounts = {1, 2}
  FundAmounts = {1, 3}
  MinCollateral = 2
  MinValidatorStake = 2
  BottomupCheckPeriod = 1
  MaxTopdownMsgs = 3
  CrossMsgFee = 1
  GenesisCid = "genesis"
SPECIFICATION Spec
INVARIANTS
  TypeOK
  StakeLedger
  CollateralMirrored
  FundsConserved
  Withdrawable
  KilledClean
PROPERTIES
  KilledIsFinal
CHECK_DEADLOCK FALSE
