---------------------------- MODULE MCSubnetActor ----------------------------
(* Instances of SubnetActor for TLC. *)
EXTENDS SubnetLog, TLC

CONSTANTS a, b, c

Ch(cid, e, prev, msgs, fee) ==
  [cid |-> cid, epoch |-> e, prev |-> prev, msgs |-> msgs, fee |-> fee]

Msg(nonce, value) == [nonce |-> nonce, value |-> value, to |-> a]

\* Money: stakes of every size around the two minima, funds, fees with a remainder,
\* and one checkpoint that releases supply.
MCMoneyEpochs == {1}
MCMoneyFunds == (a :> 6) @@ (b :> 4)
MCMoneyVotes == {Ch("p1", 1, "genesis", <<Msg(0, 1)>>, 1)}

\* Checkpoints: two rivals at epoch 1, both extended at epoch 2 (one by a message
\* whose nonce is not the next after its rival), one that skips epoch 1, and
\* validators that come and go.
MCChainEpochs == {1, 2}
MCChainFunds == (a :> 2) @@ (b :> 1) @@ (c :> 1)
MCChainVotes ==
  { Ch("p1", 1, "genesis", <<Msg(0, 0)>>, 0), Ch("q1", 1, "genesis", <<>>, 0),
    Ch("p2", 2, "p1", <<Msg(1, 0)>>, 0), Ch("q2", 2, "q1", <<Msg(1, 0)>>, 0),
    Ch("r2", 2, "genesis", <<>>, 0) }

\* Steady: one chain over three epochs, and validators with one stake each.
MCSteadyEpochs == {1, 2, 3}
MCSteadyFunds == (a :> 1) @@ (b :> 1) @@ (c :> 1)
MCSteadyVotes ==
  { Ch("p1", 1, "genesis", <<Msg(0, 0)>>, 0), Ch("p2", 2, "p1", <<>>, 0),
    Ch("p3", 3, "p2", <<Msg(1, 0)>>, 0) }

\* One honest checkpoint, to vote on while stakes change.
MCOneEpoch == {1}
MCOneVote == {Ch("p1", 1, "genesis", <<>>, 0)}
=============================================================================
