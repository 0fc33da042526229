CONSTANTS
  a = a
  b = b
  c = c
  d = d
  NoVote = NoVote
  Voters = {a, b, c}
  Honest = {a, b}
  CheckPeriodParam = 2
  DefaultCheckpointPeriod = 1
  Epochs <- MCReconfigEpochs
  Votes <- MCReconfigVotes
  GenesisEpochs <- MCGenesisEpochs
  Memberships <- MCReconfigured
  Ballots <- MCReconfigBallots
SPECIFICATION Spec
INVARIANTS
  NoWedgedRound
