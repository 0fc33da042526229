CONSTANTS
  Networks <- MCNetworks
  Accounts = {"u"}
  Senders = {"u"}
  Payloads = {"call"}
  Aborting = {}
  FundRoutes <- MCLongFund
  SendRoutes <- MCLongSend
  Releasing <- MCLongRelease
  Killable = {}
  Amounts = {1, 2}
  CrossMsgFee = 1
  CheckPeriod = 2
  Endowment <- MCLongEndowment
  RootFunds = 6
  Reserve = 10
  ValidatorFunds <- MCLongGrant
  MaxMsgs = 3
SPECIFICATION Spec
INVARIANTS
  SupplyAccounted
  RootBacked
  BurntIsReleased
  NothingLost
  NeighbourOrder
CHECK_DEADLOCK FALSE
