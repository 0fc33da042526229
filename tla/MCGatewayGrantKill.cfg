CONSTANTS
  Networks <- MCChain
  Accounts = {"u"}
  Senders = {"u"}
  Payloads = {"call"}
  Aborting = {}
  FundRoutes <- MCDownFund
  SendRoutes = {}
  Releasing <- NonRoot
  Killable <- NonRoot
  Amounts = {1, 2}
  CrossMsgFee = 1
  CheckPeriod = 2
  Endowment <- NoEndowment
  RootFunds = 6
  Reserve = 10
  ValidatorFunds <- MCGrant
  MaxMsgs = 2
SPECIFICATION Spec
INVARIANTS
  SupplyAccounted
CHECK_DEADLOCK FALSE
