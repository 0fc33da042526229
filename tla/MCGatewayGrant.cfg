CONSTANTS
  Networks <- MCChain
  Accounts = {"u"}
  Senders = {"u"}
  Payloads = {"call"}
  Aborting = {}
  FundRoutes = {}
  SendRoutes = {}
  Releasing <- NonRoot
  Killable = {}
  Amounts = {1, 2}
  CrossMsgFee = 1
  CheckPeriod = 2
  Endowment <- NoEndowment
  RootFunds = 6
  Reserve = 10
  ValidatorFunds <- MCGrant
  MaxMsgs = 1
SPECIFICATION Spec
INVARIANTS
  ReleaseCovered
CHECK_DEADLOCK FALSE
