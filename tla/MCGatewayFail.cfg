CONSTANTS
  Networks <- MCChain
  Accounts = {"u"}
  Senders = {"u"}
  Payloads = {"call"}
  Aborting = {"call"}
  FundRoutes = {}
  SendRoutes <- MCFailSend
  Releasing <- MCUpRelease
  Killable = {}
  Amounts = {2}
  CrossMsgFee = 1
  CheckPeriod = 2
  Endowment <- MCUpEndowment
  RootFunds = 6
  Reserve = 10
  ValidatorFunds <- NoGrant
  MaxMsgs = 2
SPECIFICATION FairSpec
PROPERTIES
  ReleasesArrive
CHECK_DEADLOCK FALSE
