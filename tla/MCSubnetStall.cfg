CONSTANTS
  a = a
  b = b
  c = c
  NoVote = NoVote
  Voters = {a, b, c}
  Epochs <- MCOneEpoch
  Votes <- MCOneVote
  InitialFunds <- MCChainFunds
  JoinAmounts = {1, 2}
  FundAmounts = {}
  MinCollateral = 1
  MinValidatorStake = 1
  BottomupCheckPeriod = 1
  MaxTopdownMsgs = 3
  CrossMsgFee = 1
  GenesisCid = "genesis"
SPECIFICATION Spec
INVARIANTS
  FullTurnoutDecides
CHECK_DEADLOCK FALSE
