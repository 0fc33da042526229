CONSTANTS
  Networks <- MCDeepKillNetworks
  Accounts = {"u"}
  Senders = {"u"}
  Payloads = {"call"}
  Aborting = {}
  FundRoutes <- MCDeepKillFund
  SendRoutes = {}
  Releasing = {}
  Killable <- MCDeepKill
  Amounts = {1, 2}
  CrossMsgFee = 1
  CheckPeriod = 2
  Endowment <- NoEndowment
  RootFunds = 6
  Reserve = 10
  ValidatorFunds <- NoGrant
  MaxMsgs = 1
SPECIFICATION Spec
INVARIANTS
  NothingLost
CHECK_DEADLOCK FALSE
