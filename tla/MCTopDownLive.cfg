CONSTANTS
  a = a
  b = b
  c = c
  d = d
  NoVote = NoVote
  Voters = {a, b, c, d}
  Honest = {a, b, c}
  CheckPeriodParam = 2
  DefaultCheckpointPeriod = 1
  Epochs <- MCLiveEpochs
  Votes <- MCLiveVotes
  GenesisEpochs <- MCGenesisEpochs
  Memberships <- MCLiveMembership
  Ballots <- MCLiveBallots
SPECIFICATION FairSpec
PROPERTIES
  EveryEpochExecuted
  QueueDrained
