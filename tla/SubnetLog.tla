----------------------------- MODULE SubnetLog -----------------------------
(* SubnetActor implements CheckpointLog: the log is committed_checkpoints. *)
EXTENDS SubnetActor

EpochOfCheckpoint(ch) == ch.epoch
NoncesOfCheckpoint(ch) == [i \in DOMAIN ch.msgs |-> ch.msgs[i].nonce]

\* A bottom-up checkpoint names the cid of the one before.
ChainedTo(l, ch) == ch.prev = IF l = <<>> THEN GenesisCid ELSE l[Len(l)].cid

Committed ==
  [i \in 1..(voting.last_voting_executed_epoch - GenesisEpoch) \div BottomupCheckPeriod |->
     committed_checkpoints[GenesisEpoch + i * BottomupCheckPeriod]]

\* The messages the gateway has applied; it forgets its count with the subnet.
AppliedMessages ==
  IF Registered THEN subnet.applied_bottomup_nonce
  ELSE SumFunction([i \in DOMAIN Committed |-> Len(Committed[i].msgs)])

Log == INSTANCE CheckpointLog WITH
  Entries <- Checkpoints, Period <- BottomupCheckPeriod, Pairs <- FALSE,
  EpochOf <- EpochOfCheckpoint, NoncesOf <- NoncesOfCheckpoint, Follows <- ChainedTo,
  started <- TRUE, genesis <- GenesisEpoch, log <- Committed, applied <- AppliedMessages

\* submit_checkpoint implements the abstract log: what a subnet actor has committed is
\* one chain from the genesis cid over consecutive epochs, in which no checkpoint is ever
\* replaced, and the gateway's count of applied messages keeps up with it through every
\* join, leave, kill and aborted epoch.
ImplementsLog == Log!Spec
=============================================================================
