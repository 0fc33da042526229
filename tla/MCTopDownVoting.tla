--------------------------- MODULE MCTopDownVoting ---------------------------
(* Instances of TopDownVoting for TLC. *)
EXTENDS TopDownLog, TLC

CONSTANTS a, b, c, d

Ch(e, msgs) == [epoch |-> e, top_down_msgs |-> msgs]

\* Genesis 1 and period 2: the votable epochs are 3, 5 and 7, epoch 4 is not.
MCGenesisEpochs == {1}
MCEpochs == {3, 4, 5, 7}

\* One reconfiguration only, with unequal weights: a and one other are a quorum.
MCFixed == {(a :> 2) @@ (b :> 1) @@ (c :> 1)}

\* Two rival views of the parent at every epoch; b also votes for a misaligned
\* epoch, c for a checkpoint out of order and for one with a gap in its nonces.
MCViews ==
  {Ch(3, <<>>), Ch(3, <<0>>), Ch(5, <<>>), Ch(5, <<0, 1>>), Ch(7, <<1>>)}
MCBallots ==
     (a :> MCViews)
  @@ (b :> MCViews \cup {Ch(4, <<>>)})
  @@ (c :> MCViews \cup {Ch(5, <<1, 0>>), Ch(7, <<2>>)})
MCVotes == UNION {MCBallots[v] : v \in Voters}

\* Reconfigurations: the subnet grows from one validator to three and shrinks to two.
MCReconfigured ==
  { (a :> 1) @@ (b :> 0) @@ (c :> 0),
    (a :> 1) @@ (b :> 1) @@ (c :> 1),
    (a :> 1) @@ (b :> 1) @@ (c :> 0) }
MCReconfigEpochs == {3, 5}
MCReconfigBallots ==
  [v \in Voters |-> {Ch(3, <<>>), Ch(3, <<0>>), Ch(5, <<0>>), Ch(5, <<1>>)}]
MCReconfigVotes == UNION {MCReconfigBallots[v] : v \in Voters}

\* Three honest validators of four; d may vote for the honest view or a rival one.
MCLiveEpochs == {3, 5, 7}
MCLiveView == {Ch(3, <<0>>), Ch(5, <<>>), Ch(7, <<1>>)}
MCLiveMembership == {[v \in Voters |-> 1]}
MCLiveBallots ==
  [v \in Voters |-> IF v = d THEN {Ch(3, <<>>), Ch(5, <<>>)} ELSE MCLiveView]
MCLiveVotes == UNION {MCLiveBallots[v] : v \in Voters}
=============================================================================
