CONSTANTS
  Networks <- MCDeepNetworks
  Accounts = {"u"}
  Senders = {"u"}
  Payloads = {"call"}
  Aborting = {}
  FundRoutes <- MCDeepFund
  SendRoutes = {}
  Releasing = {}
  Killable = {}
  Amounts = {1, 2}
  CrossMsgFee = 1
  CheckPeriod = 2
  Endowment <- NoEndowment
  RootFunds = 6
  Reserve = 10
  ValidatorFunds <- NoGrant
  MaxMsgs = 1
SPECIFICATION Spec
INVARIANTS
  OriginHonest
CHECK_DEADLOCK FALSE
