CONSTANTS
  Networks <- MCChain
  Accounts = {"u"}
  Senders = {"u"}
  Payloads = {"call"}
  Aborting = {}
  FundRoutes <- MCDownFund
  SendRoutes <- MCDownSend
  Releasing = {}
  Killable = {}
  Amounts = {2}
  CrossMsgFee = 1
  CheckPeriod = 2
  Endowment <- MCDownEndowment
  RootFunds = 6
  Reserve = 10
  ValidatorFunds <- NoGrant
  MaxMsgs = 2
SPECIFICATION FairSpec
PROPERTIES
  FundsArrive
CHECK_DEADLOCK FALSE
