# TLA+ specifications of the IPC actors

This directory models the actors of the IPC (InterPlanetary Consensus) protocol in
this repository: how a subnet's validators agree on checkpoints, in which order the
checkpoints are executed, how cross-messages find their way through the hierarchy, and
what happens to the tokens on the way. The models are
checked with TLC and their central invariants are proved with TLAPS.

## 1. Inventory

An IPC hierarchy is a tree of blockchains (subnets). On every chain runs a **gateway**
actor. For every child subnet the parent chain also runs a **subnet actor**. Each
handler of an actor is one transaction: it runs to its end with all the calls it makes,
or it fails and leaves no trace. There is no concurrency inside a chain. What is hard is
the *order of messages* from many independent senders, and the two actors keeping copies
of the same facts.

| Component | Source | State | Operations | Correct when |
|---|---|---|---|---|
| Vote submissions | `common/src/vote/submission.rs` | ballots of one epoch: submitters, weight per vote, leader, turnout | `submit`, `abort`, `derive_execution_status` | tallies are exact in every round; a round is decided with more than 2/3, given up only when nobody can win |
| Epoch voting | `common/src/vote/voting.rs` | a submission per epoch, last executed epoch, queue of decided epochs | `submit_vote`, `abort_epoch`, `mark_epoch_executed`, `get_next_executable_vote` | epochs execute once, in order, with a quorum; the queue never gets stuck or panics |
| Gateway, top-down checkpoints | `gateway/src/lib.rs`, `state.rs` | validators, voting, `applied_topdown_nonce`, `initialized` | `init_genesis_epoch`, `set_membership`, `submit_topdown_check` | messages of the parent are applied once and in the order of their nonces |
| Subnet actor | `subnet-actor/src` | status, stakes, validator set, voting, committed checkpoints | `join`, `leave`, `kill`, `submit_checkpoint`, `reward`, `set_validator_net_addr` | ledgers agree, collateral can be withdrawn, commits form one chain |
| Gateway, child subnets | `gateway/src/lib.rs`, `subnet.rs` | stake, status, circulating supply, nonces, last checkpoint of each child | `register`, `add_stake`, `release_stake`, `kill`, `commit_child_check`, `fund` | agrees with the subnet actor; never owes more than it holds |
| Gateway, cross-message routing | `gateway/src/lib.rs`, `cross.rs`, `sdk/src/cross.rs` | postbox, nonces, circulating supply | `release`, `send_cross`, `propagate`, `whitelist_propagator`, `apply_msg_inner` in transit | every message reaches its subnet once, supply is conserved over the hierarchy |
| Gateway, window checkpoints | `gateway/src/checkpoint.rs`, `state.rs` | a checkpoint per window, `bottomup_nonce` | `get_window_checkpoint`, `store_msg_in_checkpoint`, `add_child_check` | a message lands in one window; nonces are consecutive over windows |
| Subnet identifiers | `sdk/src/subnet_id.rs`, `address.rs` | none | `parent`, `common_parent`, `up`, `down` | they compute the path between two nodes of the tree |
| Validator sets | `sdk/src/lib.rs` | addresses and weights | `push`, `rm`, `update_weight` | follows the stakes |
| Atomic execution coordinator | `atomic-exec/src` | pre-committed parties per execution | `pre_commit`, `revoke` | all parties commit or all roll back |
| Atomic primitives, token | `atomic-exec/primitives`, `examples/fungible-token` | locked inputs, outputs, balances | lock, finalize, cancel, transfer | tokens conserved, locks released |

Interactions. `join`, `leave`, `kill` and `submit_checkpoint` of the subnet actor call
the gateway in the same transaction; the gateway calls `reward` back with the fees.
Gateways of different chains never call each other: validators carry checkpoints from one
chain to the next by voting on them, through the *same* `Voting` type in both directions.

What makes it hard, and where a test would hardly look (the full list with lines is
`hazards` in `PROJECT.json`): validators vote for the epochs in any order, so a later
epoch can be decided first and must wait; rounds are aborted and voted again with the
stored votes kept; the membership changes between two ballots of one round; a ballot
outlives the stake it was cast with; collateral and activity are kept twice; fees leave
remainders; a killed subnet must not come back; a message crosses several chains, each
with its own epochs, windows, nonces and supply, and others are on their way in both
directions; what waits in a postbox is overtaken by what does not.

## 2. Modules

| Module | Models |
|---|---|
| `VoteSubmission` | `EpochVoteSubmissions`: a submission is a record, its methods are operators |
| `Voting` | `Voting`: a record and operators; a guard (`CanSubmitVote`, `CanMarkEpochExecuted`) where the code returns `Err` |
| `TopDownVoting` | gateway of a child subnet: `InitGenesisEpoch`, `SetMembership`, `SubmitTopdownCheck` |
| `SubnetActor` | subnet actor composed with the parent gateway's record of that subnet: `Join`, `Leave`, `Kill`, `SubmitCheckpoint`, `Fund` |
| `SubnetPath` | subnet identifiers and the direction of a message: pure operators on routes |
| `RouteWalk` | one message walking from network to network by the rule of the gateways |
| `Gateway` | a tree of gateways: `Fund`, `Release`, `SendCross`, `Propagate`, `WhitelistPropagator`, `ExecuteTopdown`, `CommitChildCheck`, `SetMembership`, `Kill`, and the windows of bottom-up checkpoints |
| `CheckpointLog` | abstract: what a voting on checkpoints promises, an append-only log |
| `TopDownLog`, `SubnetLog` | the refinement mappings from `TopDownVoting` and `SubnetActor` to `CheckpointLog` |
| `AtomicTransfer` | token actors with the atomic-execution registry, the coordinator, and the cross-messages between them |
| `MCTopDownVoting`, `MCSubnetActor`, `MCGateway`, `MCAtomicTransfer` | instances for TLC (`RouteWalk` needs none) |
| `Lemmas` | lemmas on sums over finite sets and functions, used by all ledgers, and on the operators of `SubnetPath`, for identifiers of any depth |
| `Voting_proofs` | lemmas on the operators of `VoteSubmission` and `Voting` |
| `TopDownVoting_proofs`, `SubnetActor_proofs`, `RouteWalk_proofs`, `AtomicTransfer_proofs`, `Gateway_proofs` | theorems on the module of that name |
| `GatewayHistory_proofs` | theorems on `Gateway` about what was sent and what was delivered |

`TopDownVoting` and `SubnetActor` both extend `Voting`, as both actors hold one.
`Gateway` and `RouteWalk` extend `SubnetPath`. The gateway's code is split by question:
`TopDownVoting` has the vote on top-down checkpoints, `SubnetActor` the vote on bottom-up
checkpoints and the collateral, `Gateway` what the checkpoints carry once decided.

**Correspondence.** Variables carry the names of the fields. A HAMT is a total function
with the value the code reads for an absent key; a vote stands for its `unique_key`.
The voting a gateway is constructed with is a placeholder until `init_genesis_epoch`; it has
the period of the constructor's parameter, whatever that is, where the field
`topdown_check_period` is raised to the default (`TopdownCheckPeriod`).
A handler is one action. `SubmitTopdownCheck` is the disjunction of three actions, after
the three ways through `submit_topdown_check`: nothing decided for now (the queue is
tried), a decided checkpoint with messages (the queue is *not* tried), a decided empty
checkpoint (the queue is tried in the same call). In the same way `SubmitCheckpoint` is
`SubmitOnly`, `SubmitUnchained` (the due checkpoint does not chain, its epoch is
aborted) and `SubmitAndCommit`, which contains `commit_checkpoint`, the gateway's
`commit_child_check`, the messages it pays out and the `reward` it sends. A call that
fails or panics anywhere is reverted by the runtime, so it is a stuttering step and its
checks are conjuncts of the action. `executed`, `delivered`, `ballots` and `commits` are
history variables that the properties speak of and no guard reads; `child_checks` flattens
the lists that the gateway spreads over its own window checkpoints.

In `AtomicTransfer` each token handler and each coordinator handler is an action (the two
ways out of `pre_commit` are `PreCommitWaits` and `PreCommitCompletes`). Messages
between a token and the coordinator travel in two queues. With `Fifo` the tokens are in
child subnets of the coordinator's network, where the nonces of the gateways keep the
order; without it they are further away and messages are taken out of postboxes in any
order. A message whose handler fails is reverted with the checkpoint that carries it, so it
stays in its queue and, with `Fifo`, blocks what is behind it. Amounts and balances are
integers, as `TokenAmount` is signed and no handler looks at the sign. An input id is the registry's nonce, an execution id the
function from the actors to their inputs. `send_cross` is taken to accept the messages, as
the tests of those crates do; the gateway of this repository expects other parameters
(`CrossMsgParams`) and a fee from the value, so the crates do not fit together as they are.

In `Gateway` every variable is a function over the networks of a tree. A handler is one
action at one network, with the transfers it makes: `Settle` moves what was paid in, what
is burnt and what is handed on, and is the only way balances change. The two kinds of
checkpoint are decided in one step, with the content honest validators give them:
`ExecuteTopdown(c, n)` applies the next `n` messages of the parent's queue for `c`, for any
`n` (the code that cuts checkpoints is not in the repository), `CommitChildCheck(c)` the
checkpoint of the next window of `c` that is over. Each is applied as a whole or not at
all. `carried` counts what top-down checkpoints have taken from a queue: the validators
keep that count, by reading both chains, not an actor. A postbox is a set of items, because
its key is the hash of the item. A receiver is a payload that fails (`Aborting`) or does
not. `wallet[s]` is all that circulates on a chain outside of its gateway, so rewards and
fees go there; `SubnetActor` has how they are shared. `sent`, `delivered` and `granted` are
history. A subnet starts with an endowment that came as one message from its parent, which
is a state the handlers themselves produce.
`Only(msgs, S)`, the messages of a sequence that are in a set, is a recursive function
rather than `SelectSeq`, of which the prover has no definition; `Own`, the messages of a
checkpoint that have arrived, is one use of it.

What `set_membership` pays out to the first validators of a subnet is in nobody's
circulating supply (`granted` remembers it). If those tokens are released instead of the
ones in the supply, the supply is back to 0, and the subnet can be killed, while funds are
still queued for it: they are lost, and `SupplyAccounted` does not hold. In the instances
here the subnets that receive a grant are not the ones that are killed.

`SubnetPath` has the functions of `subnet_id.rs` and `cross.rs` one to one. An `Option` is
`None` or the value; a call that panics is `Panic`. `Above` and `OnPath` are the reference
definitions the properties use: they need neither `common_parent` nor `down`.

**Refinement.** `CheckpointLog` is what the users of a voting may rely on: a log that only
grows at its end, over consecutive epochs, each entry following from the one before, with
message nonces that are consecutive over all entries. `TopDownLog` maps the log to
`executed` and the count of messages to `applied_topdown_nonce`; a call may append an empty
checkpoint together with the one queued behind it. `SubnetLog` maps it to
`committed_checkpoints` (in which entries follow by cid) and the gateway's
`applied_bottomup_nonce`. `ImplementsLog` is the abstract specification as a property of
both.

**Abstractions.** A top-down message is its nonce; a bottom-up message has nonce, value
and receiver; in `TopDownVoting` and `SubnetActor` all messages are addressed to the chain
that applies them (`Gateway` has the others). Addresses are atoms. Cids are model
values or strings, distinct for distinct checkpoints. The balance check on minting in
`apply_msg_inner` and a failing receiver make the call fail, hence stutter.

## 3. Runs

| Run | Result | Question |
|---|---|---|
| `topdown_voting` | pass | Order of execution and delivery, quorums, exact tallies, no stuck round and none given up early, with a fixed membership |
| `topdown_reconfig` | pass | What of it survives any sequence of reconfigurations |
| `topdown_live` | pass | Is every epoch executed in the end, and is the queue drained by whatever is submitted next? |
| `subnet_money` | pass | Do both actors' ledgers agree, is every token accounted for, can everybody withdraw? |
| `subnet_chain` | pass | Is what gets committed one chain with consecutive nonces, on both sides? |
| `subnet_quorum` | violation | Does a commit have the votes of 2/3 of the collateral? |
| `subnet_steady` | pass | Is every epoch committed when validators join at any time and stay? |
| `route_walk` | pass | Does a message follow the path between any two networks, hop by hop, and arrive? |
| `gateway_tree` | pass | On every kind of route: is every token accounted for at every level, is every message in one place, on its path, and does it arrive? |
| `gateway_up` | violation | Is a release paid out in the end? |
| `atomic_transfer` | pass | Does every lock have one owner, are tokens conserved, has an execution one outcome, does a decision take effect everywhere, is an abort answered? |
| `atomic_late_abort` | violation | Is there no rollback once the coordinator has committed? |

`topdown_reconfig` and `subnet_chain` check the refinement.

The violations are disagreements between the code and its own comments:

* **Votes of stake that has left** (`subnet_quorum`, `TwoThirdsOfCollateral`). `leave` does
  not touch the votes cast. A validator can vote and leave, and its old stake counts against
  the new, smaller total: the commit has less than the "2/3 of miners with collateral" of
  `subnet-actor/src/lib.rs:252-253`.
* **A nonce nobody applies** (`gateway_up`, `ReleasesArrive`). The child numbers all its
  bottom-up messages; the parent counts only those for itself as applied. After one message
  in transit, the next message for the parent is refused, with every later checkpoint.
* **A rollback after the commit** (`atomic_late_abort`, `NoRollbackOnceCommitted`). A
  revocation that reaches the coordinator after the last pre-commitment finds no entry and
  is answered with a rollback all the same. By then the execution cannot be aborted any more
  (`lib.rs:67-69` of the token); the rollback follows the commit and the token can never
  apply it. As messages arrive in order no party ends with another outcome than the others
  (`AllOrNothing`), but what is behind such a rollback waits for good (`LateRollback`).

### Further instances

These configurations are kept beside the runs, to be started by hand
(`tlc -config <file>.cfg <module>`). Each but the last three checks one property, which TLC
finds violated.

| Configuration | Module | Property | Shows |
|---|---|---|---|
| `MCTopDownReconfigQueue` | `MCTopDownVoting` | `QueueHasLeader` | A queued epoch loses its checkpoint. An epoch is queued with a quorum of that moment's membership. If `set_membership` then raises the total weight, a late ballot may end in `RoundAbort`, which clears the leader and leaves the epoch queued; once it is due, `get_next_executable_vote` unwraps `None` until the epoch has a leader again. `voting.rs:25` calls these epochs "ready to be executed". |
| `MCTopDownReconfigWedge` | `MCTopDownVoting` | `NoWedgedRound` | A round nobody can complete. If `set_membership` removes those who have not voted, all have voted, the round is neither decided nor aborted, and nothing evaluates it again (`voting.rs:207-212`: "none of the epochs will be stuck"). |
| `MCSubnetStall` | `MCSubnetActor` | `FullTurnoutDecides` | The same for the subnet actor: `leave`, and a `join` that adds stake, change `total_stake` under open rounds. |
| `MCSubnetSmallStake` | `MCSubnetActor` | `QuorumReachable` | Stake below `min_validator_stake` counts in `total_stake` but cannot vote; two such stakes activate a subnet with no validator. |
| `MCSubnetNoLeave` | `MCSubnetActor` | `StakersMayLeave` | `leave` asks the gateway for stake that it does not have before the subnet is registered. |
| `MCRouteUp` | `RouteWalk` | `UpFollowsPath` | `up` panics, by unsigned underflow, when two routes share no level. Only tests call it. |
| `MCGatewayFail` | `MCGateway` | `ReleasesArrive` | `commit_child_check` returns the error of a message's receiver: the checkpoint, and all behind it, can never be committed. |
| `MCGatewayDown` | `MCGateway` | `FundsArrive` | `commit_cross_message` counts every message that goes down as a top-down message applied here, also one that starts here: the next message of the parent is refused for good. |
| `MCGatewayGrant` | `MCGateway` | `ReleaseCovered` | What `set_membership` pays the first validators is in no circulating supply; a checkpoint that releases it is refused. |
| `MCGatewayGrantKill` | `MCGateway` | `SupplyAccounted` | A subnet is killed after releasing what its validators were paid: its supply is 0 while a fund for it is still queued, and the gateway forgets both. |
| `MCGatewayDeepFund` | `MCGateway` | `OriginHonest` | `fund` takes any descendant as its destination and names that subnet's parent as the origin. |
| `MCGatewayDeepOrder` | `MCGateway` | `NeighbourOrder` | Such a message arrives at the grandchild as one from its parent, which never sent it. |
| `MCGatewayDeepKill` | `MCGateway` | `NothingLost` | Such a message, of value 0, is in the queue of a subnet that is not on the path between the ends it names: it goes with the subnet when that is killed. |
| `MCAtomicToSelf` | `MCAtomicTransfer` | `SupplyConserved` | `do_transfer` reads both accounts before it writes them, the receiver last: a transfer to oneself makes tokens. |
| `MCAtomicOvertake` | `MCAtomicTransfer` | `AllOrNothing` | With actors more than one level away from the coordinator a revocation can overtake the pre-commitment it revokes: it is answered with a rollback, and the late pre-commitment still counts. |
| `MCAtomicCrossed` | `MCAtomicTransfer` | `DecisionApplied` | Prepared transfers from a to b and from b to a hold each other's receiver locked; neither commit can be applied. |
| `MCAtomicNegative` | `MCAtomicTransfer` | `NobodyInDebt` | Nothing looks at the sign of an amount: the sender's balance covers a negative amount, and the receiver's falls, below zero if it was too small. |
| `MCGatewayLong` | `MCGateway` | safety | Passes: three messages that share queues, windows and postboxes, with first funds at two levels (138,000 states). |
| `MCAtomicSafety` | `MCAtomicTransfer` | safety | Passes: transfers both ways, every execution, two aborts (572,000 states). |
| `MCAtomicReorder` | `MCAtomicTransfer` | `LockOwned` | Passes: messages in any order, every execution, one abort, amounts of both signs (582,000 states). |

Smaller mismatches met on the way, without a run: `gateway/src/lib.rs:751` says "more
than or equal to 2/3" where the comparison is strict; `gateway/src/checkpoint.rs:282`
says messages are sorted in descending order where `ensure_message_sorted` demands an
ascending one; `has_majority_vote` of the subnet actor has no caller.

### Bounds, and why they are enough

* `MCTopDownVoting.cfg`: genesis epoch 1 and period 2, so that alignment is not trivial,
  from a parameter 0 that is raised to the default, so that the placeholder has a period
  that cannot be divided by; epochs 3, 5, 7 (a queue of two behind an open epoch) and the
  misaligned 4; weights 2, 1, 1 of which the threshold 8/3 rounds; two rival checkpoints
  at 3 and 5, with overlapping, gapped and unsorted nonces. Rounds abort, leads change,
  epochs are decided in every order.
* `MCTopDownReconfig*.cfg`: three memberships, from one to three validators, installed
  at any time; two epochs.
* `MCTopDownLive.cfg`: four validators of equal weight, three honest, three epochs.
* `MCSubnetMoney.cfg`: two accounts, joins of 1 and 2 against a minimum of 2, so that a
  subnet is formed by one or by two and a staker may stay below the validators'
  minimum; a fee of 1 that two validators cannot share; one checkpoint that releases
  supply with a fee; at most `MaxTopdownMsgs` = 3 funds (the only unbounded counter).
* `MCSubnetChain.cfg`: three validators who join and leave, two epochs, five
  checkpoints: two rivals, an extension of each, one that skips an epoch. Amounts of
  money are minimal here; `subnet_money` has them.
* `MCAtomic.cfg`: two tokens, three accounts each, transfers from two of them to the third,
  two initiated at each token (so that one pending transfer meets another), one of them of a
  negative amount, three executions that share inputs with one another, and one abort, which is enough to come before, between and
  after the pre-commitments. The receiver is never locked: `MCAtomicCrossed.cfg` has what
  happens otherwise. `MaxDebt` bounds how far below zero a direct transfer takes an account,
  which it could do again and again; it is 0 here, and a commit still takes the receiver to -1.
* `MCAtomicReorder.cfg`: two accounts, a transfer from one to the other and the same turned
  round with a negative amount, so that senders and receivers are locked in turn; every
  execution, one abort, a debt of at most 1, messages in any order.
* `MCSubnetSteady.cfg`: three validators, one stake each, three epochs of one chain, so that
  two epochs can be queued behind an open one.
* `MCRouteWalk.cfg`: all pairs of the 15 networks with two addresses at each of three
  levels: ends that are equal, on one line, siblings, cousins, and routes that agree again
  after they have parted. The walk has no other parameters.
* `MCGatewayTree.cfg`: root, two children, a grandchild; messages up, down, up and down, and
  to a subnet that does not exist; receivers that fail; subnets that are killed once their
  supply is back to zero; first funds of one subnet's validators. Two messages of one sender,
  with two accounts to own them in transit: two are what two kinds of counters need to get
  out of step. An amount of 1 is the fee alone, a message without value. `CheckPeriod` is 2:
  a message may come in the epoch in which a window ends and in the one before. `Tick` is
  bounded: time passes only while messages wait for the end of a window (an empty
  checkpoint changes nothing but the window count).

`CHECK_DEADLOCK FALSE` in the subnet runs: a killed subnet refuses everything, and a
subnet whose tokens are all staked and whose epochs are all committed may rest. The same
holds for the atomic and the gateway runs, where the bounded number of transfers and
messages comes to an end. The
top-down runs check deadlock; there `set_membership` is always possible.

### Fairness

`FairSpec` assumes that the system actor initialises the subnet and installs a
membership, and that each *honest* validator that has something to submit eventually
gets a submission in (weak fairness per validator: the validator's agent polls the parent
and resubmits, and a chain includes valid messages). Nothing is assumed of the
other validators. `EveryEpochExecuted` holds for the finite set of epochs up to what a
ballot for a further epoch would trigger: a submission that applies messages leaves the
queue to the next submission, so that the last decided epoch may wait for one
(`OutOfBallots`). `QueueDrained` has the other half: while an honest validator still has
a ballot to cast, for whatever epoch, a due epoch does not stay in the queue.

`SteadySpec` of `SubnetActor` assumes the same of every validator, and that nobody leaves;
whether and when accounts join is left open. With leaves epochs can get stuck
(`MCSubnetStall.cfg`).

`FairSpec` of `Gateway` assumes that both kinds of checkpoint go on being made and that time
passes (what validators are there for), and that owners propagate their messages in the
end. Nothing in the code does that for them: it is a condition on users, without which no
message in transit need arrive. `AllArrive` holds up to `Obstructed`, which lists what stops
messages even so: a killed or unknown subnet, a failing receiver, and the two ways in which
a gateway's counter gets out of step with the messages. `RouteWalk` takes
hops as fair for the same reasons.

For `AtomicTransfer`, `FairSpec` assumes that a message whose handler succeeds is
delivered in the end (checkpoints go on), and nothing of the users. A rollback that comes too
late blocks its queue (`LateRollback`), so `DecisionApplied` and `AbortAnswered` hold up to
that.

## 4. Proofs

The theorems hold for every value of the constants that satisfies the modules' named
`ASSUME`s, which TLC evaluates in every run. Some have a hypothesis of their own. None is
there for convenience: where it fails, TLC finds the property violated
(`FixedTotal` and `OneMembership`: all of their properties on the instance of
`MCTopDownReconfigWedge.cfg`; `NoSelfTransfer`: `MCAtomicToSelf.cfg`;
`NoNegatives`: `MCAtomicNegative.cfg`; `Fifo`:
`MCAtomicOvertake.cfg`; `FundsToChildren`: `OnRoute` on the instance of
`MCGatewayDeepFund.cfg`, `OriginHonest` with that configuration itself, `NeighbourOrder`
with `MCGatewayDeepOrder.cfg`, `NothingLost`, where a subnet may be killed as well, with
`MCGatewayDeepKill.cfg`; `Unfunded`: `MCGatewayGrantKill.cfg` and `MCGatewayGrant.cfg`). Only that `Votes` is finite is a condition of the proof, a sum
over infinitely many votes having no meaning.

| Module | Theorem | Establishes | Provided that |
|---|---|---|---|
| `TopDownVoting` | `TypeCorrect` | `Spec => []TypeOK` | |
| | `EpochsInOrder` | `Spec => []ExecutedInOrder` | |
| | `MessagesInOrder` | `Spec => []DeliveredInOrder` | |
| | `Implementation` | `Spec => ImplementsLog` | |
| | `QueueStaysReady` | `Spec => []QueueReady` | `FixedTotal` |
| | `QuorumBehindExecution` | `Spec => []QuorumExecuted` | `FixedTotal` |
| | `CountedConsistently` | `Spec => []TallyConsistent` | `Votes` is finite |
| | `CountedExactly` | `Spec => []TallyExact` | `OneMembership` |
| | `NeverWedged` | `Spec => []NoWedgedRound` | `OneMembership` |
| | `HopelessAborts` | `Spec => AbortOnlyWhenHopeless` | `OneMembership` |
| `SubnetActor` | `TypeCorrect` | `Spec => []TypeOK` | |
| | `StakeAccounted` | `Spec => []StakeLedger` | |
| | `CollateralAgrees` | `Spec => []CollateralMirrored` | |
| | `MoneyConserved` | `Spec => []FundsConserved` | |
| | `NothingStranded` | `Spec => []KilledClean` | |
| | `Chained` | `Spec => []CommittedChained` | |
| | `BottomUpOrdered` | `Spec => []BottomUpInOrder` | |
| | `KilledForGood` | `Spec => KilledIsFinal` | |
| | `Implementation` | `Spec => ImplementsLog` | |
| `RouteWalk` | `NeverStrays` | `Spec => []StaysOnPath` | |
| | `EveryHopCloser` | `Spec => HopsCloser` | |
| `AtomicTransfer` | `TypeCorrect` | `Spec => []TypeOK` | |
| | `LocksOwned` | `Spec => []LockOwned` | |
| | `SupplyKept` | `Spec => []SupplyConserved` | `NoSelfTransfer` |
| | `DebtFree` | `Spec => []NobodyInDebt` | `NoNegatives` |
| | `OneOutcome` | `Spec => []AllOrNothing` | `Fifo` |
| `Gateway` | `TypeCorrect` | `Spec => []TypeOK` | |
| | `BurnsWhatIsReleased` | `Spec => []BurntIsReleased` | |
| | `NeverOffRoute` | `Spec => []OnRoute` | `FundsToChildren` |
| | `RootIsBacked` | `Spec => []RootBacked` | |
| | `SupplyIsAccounted` | `Spec => []SupplyAccounted` | `Unfunded(Killable)` |
| | `ReleasesAreCovered` | `Spec => []ReleaseCovered` | `Unfunded(NonRoot)` |
| | `OriginsAreHonest` | `Spec => []OriginHonest` | `FundsToChildren` |
| | `NeighboursInOrder` | `Spec => []NeighbourOrder` | `FundsToChildren` |
| | `NothingIsLost` | `Spec => []NothingLost` | `FundsToChildren \/ Killable = {}` |

**Assumptions.**

* Voting: there are finitely many validators, memberships give them natural weights,
  epochs are naturals, the default period is positive (the parameter is any integer),
  every checkpoint has an epoch and a sequence of messages, `NoVote` is no vote.
* `SubnetActor`: checkpoints with the same cid are the same (a cid is a hash), none has the
  cid of the genesis, and the minima are in the order `constructor` and `join` rely on
  (`min_validator_stake` at least the gateway's minimum collateral, which is positive).
* `AtomicTransfer`: finitely many accounts, balances and amounts of any sign, executions over
  tokens and input ids.
* `Gateway`: a finite set of networks that contains a root and the parent of every other
  network; destinations, existing or not, are identifiers of the same hierarchy; amounts are
  naturals; an endowment covers those of the levels below, since it passed through.

**Order of execution (`TopDownVoting`).** `IInv` adds to the two order properties:
`SoundVoting` (the leader of a submission is one of its stored votes, and the votes stored
for an epoch are votes for that epoch), the clamped period once the subnet is initialised,
and that nothing is executed before the genesis epoch is set. Without `SoundVoting` an
execution from the queue could mark another epoch than the one at the head; without the
last part `init_genesis_epoch` could move the origin under a history that already exists.
What a handler does is captured once by `GoodOutcome`: it executes `k` checkpoints at the
next `k` epochs and applies the next nonces. Executing one (`ExecuteOne`), none, the head
of the queue, or one and then the queue (`ExecuteBoth`) are good outcomes, and
`FinishGood` carries any good outcome over to `IInv'`.

**Refinement.** The same outcomes carry the refinements. In `TopDownVoting` a good outcome
executes at most two checkpoints, of which the first is empty if there are two
(`OneOrTwo`): these are the steps `CheckpointLog` allows. In `SubnetActor` a commit appends
one checkpoint to the chain (`ChainGrows`), every other step leaves the log and the count
of messages alone (`ChainStays`).

**Quorums.** `QInv` adds `QueueReady` and `QuorumExecuted`. The point is a late
ballot for an epoch that is already queued: it must not abort the round or put a leader
without quorum in place. Weights only grow within a round and the leader of a queued epoch
has more than two thirds, so that the status stays `ConsensusReached` as long as the
total is the same. Hence `FixedTotal`, the assumption that all memberships installed have
the same total weight (the members and their shares may change). It cannot be dropped:
`MCTopDownReconfigQueue.cfg` is a counterexample. `QInv` also needs the last executed epoch to
be aligned with the period (`MultiplesApart`): a queued epoch later than the last
executed one is at least one period later, so that the next in line is the head
of the queue and `mark_epoch_executed` finds it there.

**Tallies.** The round of an open epoch, with the ballots cast in it, satisfies
`RoundExact`: a vote's weight is the sum of the weights of those whose ballot it is, the
turnout is the sum of those who have a ballot. `TallyInv` adds that there are no ballots
before the membership is known, and `NoWedgedRound`. A ballot adds the same weight to the
tally and to the reference, an abort clears both, and the execution of other epochs touches
neither. With another membership installed in between, the stored weights are those of the
old one: hence `OneMembership`, without which `MCTopDownReconfigWedge.cfg` is a
counterexample. What survives a reconfiguration is that the stored weights add up to
the turnout and none exceeds the leader's (`ConsistentInv`).
`AbortOnlyWhenHopeless` follows from exact tallies: the weight of a rival plus the
weight that has not voted is what the code compares with the threshold.

**Ledgers and chain (`SubnetActor`).** `MoneyInv` holds the accounts together; none of its
parts is inductive alone. `release_stake` finds the stake it asks for because the two
copies of the collateral agree; `kill` leaves nothing behind because what the gateway holds
is the collateral plus the supply; the payments of a commit add up because every message
has one receiver (`PaymentsAddUp`) and the reward is shared out with its remainder.
`ChainInv` says of the votes that they are checkpoints for their epoch, and of the last
executed epoch that its checkpoint is the end of the chain (`ChainEnd`): only then does a
checkpoint that chains to `previous_executed_checkpoint_cid` chain to the last committed one.

**Paths (`RouteWalk`).** `WalkInv` is that the message is at a network on its path. The
lemmas on `SubnetPath` say what `Parent`, `CommonParent` and `Down` return for
identifiers of any depth; a hop up ends below or at the common parent, a hop down on the
line to the destination.

**Locks and outcomes (`AtomicTransfer`).** `LockInv` says that a locked account is the
sender of exactly one transfer, initiated or prepared, and covers its amount
(`SoundLocks`); a release can then free nothing that another transfer holds. Supply needs
only that a transfer takes from one account what it gives another. `OrderInv` puts every
execution of every token into one of five phases, by what the two queues between token and
coordinator and the coordinator's entry may hold: `Unprepared`, `Asking`, `Standing`,
`Refused`, `Agreed`. An execution is agreed for all its actors or for none, and a token in
phase `Agreed` has the commit ahead of any rollback. That is where `Fifo` is used:
`MCAtomicOvertake.cfg` shows the outcomes parting without it.

**Gateways.** `TypeInv` is stated variable by variable; that counters never become negative
is part of it. `Released` equates what a gateway has burnt with the values in all of its
checkpoints, over a log that only grows (`LogGrows`). `RouteInv` is stronger than `OnRoute`:
a message in a checkpoint or a queue has both ends of that hop on its path (`Climbing`,
`Descending`), one in a postbox the network itself (`Passing`). A killed subnet's queue is
forgotten with its record, and nothing is added to it again. `FundsToChildren` excludes
that `fund` is called for a deeper descendant (`MCGatewayDeepFund.cfg`): such a message
starts with an origin that is not the chain it is on. `RouteInv` itself needs no hypothesis:
it exempts these messages by name (`Misnamed`) from the path; they can only go down, never
up into a checkpoint, which is enough for the supply theorems.

**Supplies (`Gateway`).** `RootBacked` and `SupplyAccounted` add up values over sets of
messages, so a message that came into a postbox a second time would be counted once and the
books would be off by its value. `OnceInv` rules this out: a chain gives each bottom-up
nonce to one checkpoint (`Numbered`), a queue numbers its messages by their places
(`QueueNumbered`), and in a postbox (`BoxInv`) no two items carry the same message, one from
below is not in a checkpoint its child has still to commit (`Fresh`), and one from above has
a number that `carried` has passed. Which of the two a message is, `RouteInv` tells: a
message from below is one that went up from that child. With that, what a checkpoint brings
is disjoint from what is there (`QueueTaken`, `ChildTaken`) and its value is that of the
messages that have arrived and of those in transit. `Books` is `SupplyAccounted` with the
terms on the two sides of a gateway kept apart: what the parent owes beyond the queue
(`Owed`) and what there is outside of the gateway and below (`Held`). Every action moves
value between two of the terms: what leaves upwards from the wallet into the window that is
open (`UpMoves`), what leaves downwards from the wallet into the supply below (`DownMoves`),
a top-down checkpoint from the queue to wallet and postbox (`QueueBooks`), and a child's
checkpoint, at the child, out of what is pending and, at the parent, from the supply below to
wallet and postbox (`ChildBooks`). That a checkpoint is listed only after its window
(`ListedPast`) is needed twice: a listed window cannot grow any more, and the next one to be
committed is not listed yet. `Unfunded` says that no subnet of the set pays its validators
from `set_membership`. A killed subnet must not have: otherwise its supply is back to zero
while there are still tokens on its way (`MCGatewayGrantKill.cfg`). If no subnet has, the
check in `release_supply` never fails (`ReleasesAreCovered`).

**Order between neighbours (`Gateway`).** `NeighbourOrder` compares two histories, `sent` and
`delivered`, and says nothing of what is between them; the invariant does. `DownOrder(c)`:
what the parent of `c` has sent to `c` is what has arrived at `c`, followed by what is in
the queue from place `carried` on (`Line`). A message sent goes to the end of the line, a
checkpoint takes messages off its front. `UpOrder(c)`: there is no such queue upwards, but
a log of checkpoints by the epoch in which they end. `Windows(w, Batches(c))` defines
`w[n]` as what the first `n` windows of `c` have for its parent. Then what `c` has sent is
`w[n]` from the window on that is open now, and what has arrived is `w[j]` where
`prev_epoch` is the end of window `j`: a window before the open one does not change any
more, so that one more executed checkpoint adds one more batch. Two things are needed for that. Only messages
sent *from* an end are to be compared with what that end sent (`OriginsAreHonest`), and none
of these may come back through a postbox and be queued again (`Abroad`, with `RouteInv`).
When a subnet is killed its queue is forgotten; what has arrived remains a beginning of what was sent.

**Nothing lost (`Gateway`).** `NothingLost` speaks of the messages sent only. `Balanced`
extends it to every message, sent or not, so that it is inductive: if its way is open, the
sum of `Ahead` over the networks is 0, where `Ahead(d, m)` is what waits to leave `d` or
to come to it (`Waiting`) and what has come (`Reached`), less what `d` has sent. Every step is of
one of few kinds (`StepKinds`): one message is sent (`SendsOne`) or passed on out of a
postbox (`PassesOn`), a top-down checkpoint takes the next messages of a queue
(`TakesNext`), a child's checkpoint is executed (`CommitChildCheck`), or no message moves.
In each, one network is ahead by as much more as another one is by less (`Shifts`): within one
network for a message that is sent or passed on up, from child to parent for an executed
checkpoint. What counts copies is a cardinality of a set, so that a message which is added
must not be there already, and one which is taken must be: this is `OnceInv` again, together with
`ListedPast`. `kill` drops a queue; every message in it has the killed subnet on its way
(`RouteInv`), which is then not open any more. This is where a message with a wrong origin
breaks the property, unless no subnet is killed.

**Induction.** The library's induction theorems that take an operator cannot be used with
the provers at hand. Where a definition recurs (`SumFunctionOnSet`, `Only`), the property is
stated as a set of naturals that contains 0 and with every number the next one
(`NatSetInduction` in `Lemmas`).

**Only model-checked.**

* Liveness, which is out of the prover's reach: `EveryEpochExecuted`, `QueueDrained`,
  `EveryEpochCommitted`, `AllArrive`, `Arrives`, `DecisionApplied`, `AbortAnswered`.
* `Withdrawable`, which is stated with `ENABLED`.
* The properties of the violation runs, of course.

## 5. Not modelled

* The spellings of an address (f0, f1, f2, f4) and their translation: `f0_id`,
  `enforce_f0_source`, `resolved_from_to`; parsing and formatting of subnet ids and IPC
  addresses; `chain_id`. Addresses are atoms, so that an alias of a subnet id, which the
  gateway compares as another subnet, does not exist in the models.
* In `Gateway`: collateral and the status of subnets (`SubnetActor` has them), how fees are
  shared, how checkpoints are agreed on, and checkpoints with content other than what the
  chains hold. A subnet that was removed does not register again.
* In `SubnetActor`: `set_validator_net_addr`, which only writes a network address,
  `configuration_number` of validator sets, `total_subnets`.
* In `AtomicTransfer`: registering an input without locking it, which the token does not
  do; users of one execution who list its actors differently, against the stated
  precondition; the composition with `Gateway` itself, of which only the order of messages
  matters here (`Fifo`).
* Serialization, HAMT and AMT plumbing, dispatch and build scripts decide nothing.

## 6. Plan

Every invariant and every action property that a passing run checks is proved, except
`Withdrawable`. What could be added next is more of the system:

1. The composition of `AtomicTransfer` with `Gateway`. It needs the code that adapts the one
   to the other, which the repository does not have (see Section 2); until then `Fifo` is an
   assumption, for which `NeighbourOrder` is the justification.
2. A model of how validators cut top-down checkpoints, once that code is part of the
   repository. `ExecuteTopdown` takes any number of messages, which covers every such rule.
3. Membership changes in `SubnetActor` that reset open votes, should `leave` be changed to do
   so: then `TwoThirdsOfCollateral` becomes a property to prove.
