CONSTANTS
  Networks <- MCNetworks
  Accounts = {"u", "v"}
  Senders = {"u"}
  Payloads = {"call", "fail"}
  Aborting = {"fail"}
  FundRoutes <- MCTreeFund
  SendRoutes <- MCTreeSend
  Releasing <- NonRoot
  Killable <- MCTreeKill
  Amounts = {1, 2}
  CrossMsgFee = 1
  CheckPeriod = 2
  Endowment <- MCTreeEndowment
  RootFunds = 4
  Reserve = 10
  ValidatorFunds <- MCTreeGrant
  MaxMsgs = 2
SPECIFICATION FairSpec
INVARIANTS
  TypeOK
  SupplyAccounted
  RootBacked
  BurntIsReleased
  NothingLost
  OnRoute
  NeighbourOrder
PROPERTIES
  AllArrive
CHECK_DEADLOCK FALSE
