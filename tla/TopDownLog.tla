----------------------------- MODULE TopDownLog -----------------------------
(* TopDownVoting implements CheckpointLog: the log is what was executed. *)
EXTENDS TopDownVoting

EpochOfCheckpoint(ch) == ch.epoch
NoncesOfCheckpoint(ch) == ch.top_down_msgs

\* Top-down checkpoints do not name the one before.
AnyFollows(l, ch) == TRUE

Log == INSTANCE CheckpointLog WITH
  Entries <- Checkpoints, Period <- TopdownCheckPeriod, Pairs <- TRUE,
  EpochOf <- EpochOfCheckpoint, NoncesOf <- NoncesOfCheckpoint, Follows <- AnyFollows,
  started <- initialized, genesis <- voting.genesis_epoch,
  log <- [i \in DOMAIN executed |-> executed[i].ch], applied <- applied_topdown_nonce

\* submit_topdown_check implements the abstract log: the checkpoints a gateway executes
\* are one sequence over consecutive epochs, with consecutive message nonces over all of
\* them.  A call appends one, or an empty one together with the one queued behind it.
ImplementsLog == Log!Spec
=============================================================================
