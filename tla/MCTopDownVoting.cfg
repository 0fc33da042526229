CONSTANTS
  a = a
  b = b
  c = c
  d = d
  NoVote = NoVote
  Voters = {a, b, c}
  Honest = {a, b}
  CheckPeriodParam = 0
  DefaultCheckpointPeriod = 2
  Epochs <- MCEpochs
  Votes <- MCVotes
  GenesisEpochs <- MCGenesisEpochs
  Memberships <- MCFixed
  Ballots <- MCBallots
SPECIFICATION Spec
INVARIANTS
  TypeOK
  ExecutedInOrder
  DeliveredInOrder
  QuorumExecuted
  QueueReady
  TallyExact
  NoWedgedRound
PROPERTIES
  AbortOnlyWhenHopeless
