CONSTANTS
  a = a
  b = b
  c = c
  NoVote = NoVote
  Voters = {a, b, c}
  Epochs <- MCSteadyEpochs
  Votes <- MCSteadyVotes
  InitialFunds <- MCSteadyFunds
  JoinAmounts = {1}
  FundAmounts = {}
  MinCollateral = 1
  MinValidatorStake = 1
  BottomupCheckPeriod = 1
  MaxTopdownMsgs = 3
  CrossMsgFee = 1
  GenesisCid = "genesis"
SPECIFICATION SteadySpec
PROPERTIES
  EveryEpochCommitted
CHECK_DEADLOCK FALSE
