CONSTANTS
  a = a
  b = b
  c = c
  NoVote = NoVote
  Voters = {a, b, c}
  Epochs <- MCChainEpochs
  Votes <- MCChainVotes
  InitialFunds <- MCChainFunds
  JoinAmounts = {1, 2}
  FundAmounts = {}
  MinCollateral = 1
  MinValidatorStake = 1
  BottomupCheckPeriod = 1
  MaxTopdownMsgs = 3
  CrossMsgFee = 1
  GenesisCid = "genesis"
SPECIFICATION Spec
INVARIANTS
  CommittedChained
  BottomUpInOrder
PROPERTIES
  ImplementsLog
CHECK_DEADLOCK FALSE
