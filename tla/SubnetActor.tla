----------------------------- MODULE SubnetActor -----------------------------
(***************************************************************************)
(* One subnet seen from its parent chain: the subnet actor                 *)
(* (subnet-actor/src), which takes the validators' collateral and their    *)
(* votes on bottom-up checkpoints, and what the parent's gateway           *)
(* (gateway/src) keeps about that subnet: the same collateral, a status of *)
(* its own, the circulating supply and the last checkpoint.                *)
(*                                                                         *)
(* A handler of one actor calls the other synchronously: join calls        *)
(* register or add_stake, leave calls release_stake, kill calls kill,      *)
(* submit_checkpoint calls commit_child_check, and the gateway calls       *)
(* reward.  The call tree is one message: when any part of it fails all of *)
(* it is reverted.  An action is therefore a whole call tree, its guard    *)
(* the conjunction of the checks along it, and a failing call a stutter.   *)
(*                                                                         *)
(* Token amounts are small numbers.  Every cross-message of a checkpoint   *)
(* is addressed to the parent itself (one in transit goes to its postbox)  *)
(* and pays its value to an account there.                                 *)
(***************************************************************************)
EXTENDS Voting, Functions, Sequences

CONSTANTS
  JoinAmounts,          \* the amounts a join may carry
  FundAmounts,          \* the amounts a fund may carry
  InitialFunds,         \* what each address owns at first
  MinCollateral,        \* MIN_COLLATERAL_AMOUNT
  MinValidatorStake,    \* min_validator_stake, at least MinCollateral
  BottomupCheckPeriod,  \* bottomup_check_period
  CrossMsgFee,          \* CROSS_MSG_FEE
  MaxTopdownMsgs,       \* bound: the top-down messages committed to the subnet
  GenesisCid            \* CHECKPOINT_GENESIS_CID

\* A checkpoint is [cid, epoch, prev, msgs, fee]: prev is the cid it chains to, msgs
\* the sequence of its cross-messages [nonce, value, to].
Checkpoints == Votes

\* The constructor passes 0 as the genesis epoch of every subnet.
GenesisEpoch == 0

ASSUME CheckpointsAssumption ==
  \A c \in Checkpoints :
    /\ c.epoch \in Epochs /\ c.fee \in Nat
    /\ c.msgs \in Seq([nonce : Nat, value : Nat, to : Voters])
    /\ c.cid # GenesisCid
    /\ \A k \in Checkpoints : k.cid = c.cid => k = c
ASSUME AmountsAssumption ==
  /\ JoinAmounts \subseteq Nat /\ FundAmounts \subseteq Nat
  /\ InitialFunds \in [Voters -> Nat]
  /\ MinCollateral \in Nat \ {0} /\ MinValidatorStake \in Nat
  /\ MinValidatorStake >= MinCollateral
  /\ CrossMsgFee \in Nat /\ MaxTopdownMsgs \in Nat
ASSUME PeriodAssumption == BottomupCheckPeriod \in Nat \ {0}

VARIABLES
  status,                             \* State.status of the subnet actor
  total_stake,                        \* State.total_stake
  stake,                              \* State.stake, 0 where the HAMT has no entry
  validator_set,                      \* State.validator_set: weights, 0 when absent
  bottomup_checkpoint_voting,         \* State.bottomup_checkpoint_voting
  previous_executed_checkpoint_cid,   \* State.previous_executed_checkpoint_cid
  committed_checkpoints,              \* State.committed_checkpoints, by epoch
  subnet,            \* the gateway's Subnet for this actor, NotRegistered without one
  actor_balance,     \* balance of the subnet actor
  gateway_balance,   \* what the gateway holds on behalf of this subnet
  wallet,            \* balances of the accounts
  child_checks,      \* the cids the gateway listed in its own checkpoints, in order
  commits            \* history: for each commit, the stake of those who had voted for it

actor == <<status, total_stake, stake, validator_set, bottomup_checkpoint_voting,
           previous_executed_checkpoint_cid, committed_checkpoints>>
vars == <<actor, subnet, actor_balance, gateway_balance, wallet, child_checks, commits>>

voting == bottomup_checkpoint_voting

Instantiated == "Instantiated"
Active       == "Active"
Inactive     == "Inactive"
Terminating  == "Terminating"
Killed       == "Killed"

NotRegistered ==
  [registered |-> FALSE, stake |-> 0, status |-> Inactive, circ_supply |-> 0,
   topdown_nonce |-> 0, applied_bottomup_nonce |-> 0, prev_checkpoint |-> NoVote]

Registered == subnet.registered

SubnetType ==
  [registered : BOOLEAN, stake : Nat, status : {Active, Inactive}, circ_supply : Nat,
   topdown_nonce : Nat, applied_bottomup_nonce : Nat,
   prev_checkpoint : Votes \cup {NoVote}]

TypeOK ==
  /\ status \in {Instantiated, Active, Inactive, Killed}
  /\ total_stake \in Nat
  /\ stake \in [Voters -> Nat]
  /\ validator_set \in [Voters -> Nat]
  /\ bottomup_checkpoint_voting \in VotingType
  /\ previous_executed_checkpoint_cid \in {c.cid : c \in Checkpoints} \cup {GenesisCid}
  /\ committed_checkpoints \in [Epochs -> Checkpoints \cup {NoVote}]
  /\ subnet \in SubnetType
  /\ actor_balance \in Nat
  /\ gateway_balance \in Nat
  /\ wallet \in [Voters -> Nat]
  /\ child_checks \in Seq({c.cid : c \in Checkpoints})
  /\ commits \in Seq([stake : Nat, total : Nat])

Validators == {a \in Voters : validator_set[a] > 0}

Init ==
  /\ status = Instantiated
  /\ total_stake = 0
  /\ stake = [a \in Voters |-> 0]
  /\ validator_set = [a \in Voters |-> 0]
  /\ bottomup_checkpoint_voting = NewVoting(GenesisEpoch, BottomupCheckPeriod)
  /\ previous_executed_checkpoint_cid = GenesisCid
  /\ committed_checkpoints = [e \in Epochs |-> NoVote]
  /\ subnet = NotRegistered
  /\ actor_balance = 0
  /\ gateway_balance = 0
  /\ wallet = InitialFunds
  /\ child_checks = <<>>
  /\ commits = <<>>

-----------------------------------------------------------------------------

(* The gateway's record of the subnet. *)

\* Subnet::add_stake: the status follows the collateral.
SubnetAddStake(sub, value) ==
  [sub EXCEPT !.stake = @ + value,
              !.status = IF sub.stake + value < MinCollateral THEN Inactive ELSE Active]

\* register_subnet: the record of a new subnet.
RegisterSubnet(value) ==
  [registered |-> TRUE, stake |-> value, status |-> Active, circ_supply |-> 0,
   topdown_nonce |-> 0, applied_bottomup_nonce |-> 0, prev_checkpoint |-> NoVote]

\* register: called with all of the collateral.
GatewayRegister(value) ==
  /\ ~Registered
  /\ value >= MinCollateral
  /\ subnet' = RegisterSubnet(value)

\* A plausible slip: the subnet is created on the fly when it is not registered.
GatewayAddStakeAny(value) ==
  /\ value > 0
  /\ subnet' = SubnetAddStake(subnet, value)

\* add_stake
GatewayAddStake(value) ==
  /\ value > 0
  /\ Registered
  /\ subnet' = SubnetAddStake(subnet, value)

\* A plausible slip: off by one, the last of the collateral cannot be released.
GatewayReleaseStakeNotAll(value) ==
  /\ value > 0
  /\ Registered
  /\ subnet.stake > value
  /\ gateway_balance >= value
  /\ subnet' = SubnetAddStake(subnet, -value)

\* release_stake
GatewayReleaseStake(value) ==
  /\ value > 0
  /\ Registered
  /\ subnet.stake >= value
  /\ gateway_balance >= value
  /\ subnet' = SubnetAddStake(subnet, -value)

\* A plausible slip: the circulating supply is not looked at.
GatewayKillAnySupply ==
  /\ Registered
  /\ gateway_balance >= subnet.stake
  /\ subnet' = NotRegistered

\* kill
GatewayKill ==
  /\ Registered
  /\ gateway_balance >= subnet.stake
  /\ subnet.circ_supply = 0
  /\ subnet' = NotRegistered

\* commit_topdown_msg: the message takes the next nonce and its value enters the
\* circulating supply.
CommitTopdownMsg(sub, value) ==
  [sub EXCEPT !.topdown_nonce = @ + 1, !.circ_supply = @ + value]

\* collect_cross_fee: what is left of an amount that can pay for its message.
CanPayCrossFee(amount) == amount >= CrossMsgFee
CollectCrossFee(amount) == amount - CrossMsgFee

\* BottomUpCheckpoint::total_value, and the part of it that goes to one account.
MsgValues(ch) == [i \in DOMAIN ch.msgs |-> ch.msgs[i].value]

TotalValue(ch) == SumFunction(MsgValues(ch))

PaidTo(ch, a) == SumFunctionOnSet(MsgValues(ch), {i \in DOMAIN ch.msgs : ch.msgs[i].to = a})

\* ensure_cross_msgs_sorted
EnsureCrossMsgsSorted(ch) ==
  \A i \in 2..Len(ch.msgs) : ch.msgs[i-1].nonce < ch.msgs[i].nonce

\* A plausible slip in apply_msg_inner: a gap in the nonces is let through.
CanApplyMsgsAhead(ch) ==
  \A i \in DOMAIN ch.msgs : ch.msgs[i].nonce >= subnet.applied_bottomup_nonce + i - 1

\* apply_msg_inner on each message in turn: every nonce must be the next one.
CanApplyMsgs(ch) ==
  \A i \in DOMAIN ch.msgs : ch.msgs[i].nonce = subnet.applied_bottomup_nonce + i - 1

\* release_supply
CanReleaseSupply(sub, value) == sub.circ_supply >= value
ReleaseSupply(sub, value) == [sub EXCEPT !.circ_supply = @ - value]

\* The checks of commit_child_check, of the release_supply and of the
\* apply_msg_inner it calls.  (add_child_check refuses a cid that the parent's
\* current checkpoint lists already: CommittedChained shows there is none.)
CanCommitChildCheck(ch) ==
  /\ EnsureCrossMsgsSorted(ch)
  /\ Registered
  /\ subnet.status = Active
  /\ subnet.prev_checkpoint # NoVote =>
       /\ subnet.prev_checkpoint.epoch < ch.epoch
       /\ ch.prev = subnet.prev_checkpoint.cid
  /\ CanReleaseSupply(subnet, TotalValue(ch) + ch.fee)
  /\ CanApplyMsgs(ch)

\* The record after a commit: the supply released, the messages applied.
RecordCheckpoint(sub, ch) ==
  [ReleaseSupply(sub, TotalValue(ch) + ch.fee) EXCEPT
     !.applied_bottomup_nonce = @ + Len(ch.msgs),
     !.prev_checkpoint = ch]

\* commit_child_check, up to the fee it sends to reward.
CommitChildCheck(ch) ==
  /\ CanCommitChildCheck(ch)
  /\ subnet' = RecordCheckpoint(subnet, ch)
  /\ child_checks' = Append(child_checks, ch.cid)
  /\ gateway_balance' = gateway_balance - TotalValue(ch) - ch.fee

-----------------------------------------------------------------------------

(* reward, called by the gateway with the fee: an equal share each, rounded *)
(* down; the remainder stays with the subnet actor.                         *)

CanReward(fee) == fee > 0 => Validators # {}

\* A plausible slip: the share is rounded up.
ShareRoundedUp(fee) == (fee + Cardinality(Validators) - 1) \div Cardinality(Validators)

Share(fee) == fee \div Cardinality(Validators)

Rewards(fee) ==
  [a \in Voters |-> IF fee > 0 /\ a \in Validators THEN Share(fee) ELSE 0]

Remainder(fee) == IF fee > 0 THEN fee % Cardinality(Validators) ELSE 0

-----------------------------------------------------------------------------

(* The subnet actor's state. *)

\* A plausible slip: a validator that adds stake keeps its old weight.
AddStakeOldWeight(addr, amount) ==
  LET updated == stake[addr] + amount
  IN  /\ stake' = [stake EXCEPT ![addr] = updated]
      /\ total_stake' = total_stake + amount
      /\ validator_set' =
           IF updated >= MinValidatorStake /\ validator_set[addr] = 0
             THEN [validator_set EXCEPT ![addr] = updated] ELSE validator_set

\* State::add_stake
AddStake(addr, amount) ==
  LET updated == stake[addr] + amount
  IN  /\ stake' = [stake EXCEPT ![addr] = updated]
      /\ total_stake' = total_stake + amount
      /\ validator_set' =
           IF updated >= MinValidatorStake
             THEN [validator_set EXCEPT ![addr] = updated] ELSE validator_set

\* State::rm_stake, with all of the stake and LEAVING_COEFF = 1.
RmStake(addr) ==
  /\ stake' = [stake EXCEPT ![addr] = 0]
  /\ total_stake' = total_stake - stake[addr]
  /\ validator_set' = [validator_set EXCEPT ![addr] = 0]

\* A plausible slip: an active subnet stays active when its collateral leaves.
MutateStateSticky(st, total) ==
  CASE st \in {Instantiated, Inactive} /\ total >= MinCollateral -> Active
    [] st = Terminating /\ total = 0 -> Killed
    [] OTHER -> st

\* A plausible slip: nothing leads out of Terminating.
MutateStateNoKill(st, total) ==
  CASE st \in {Instantiated, Inactive} /\ total >= MinCollateral -> Active
    [] st = Active /\ total < MinCollateral -> Inactive
    [] OTHER -> st

\* State::mutate_state
MutateState(st, total) ==
  CASE st \in {Instantiated, Inactive} /\ total >= MinCollateral -> Active
    [] st = Active /\ total < MinCollateral -> Inactive
    [] st = Terminating /\ total = 0 -> Killed
    [] OTHER -> st

\* State::verify_checkpoint: only the next epoch in line must already be chained.
VerifyCheckpoint(ch) ==
  /\ status = Active
  /\ IsNextExecutableEpoch(voting, ch.epoch) => ch.prev = previous_executed_checkpoint_cid

\* State::ensure_checkpoint_chained
IsChained(ch) == ch.prev = previous_executed_checkpoint_cid

-----------------------------------------------------------------------------

(* The handlers. *)

\* join before the subnet has its collateral: the stake stays with the actor.
JoinUnregistered(addr, amount) ==
  /\ status = Instantiated
  /\ total_stake + amount < MinCollateral
  /\ AddStake(addr, amount)
  /\ status' = MutateState(status, total_stake')
  /\ actor_balance' = actor_balance + amount
  /\ wallet' = [wallet EXCEPT ![addr] = @ - amount]
  /\ UNCHANGED <<subnet, gateway_balance>>

\* join that completes the collateral: all of it goes to the gateway.
JoinRegister(addr, amount) ==
  /\ status = Instantiated
  /\ total_stake + amount >= MinCollateral
  /\ AddStake(addr, amount)
  /\ status' = MutateState(status, total_stake')
  /\ actor_balance + amount >= total_stake'
  /\ GatewayRegister(total_stake')
  /\ actor_balance' = actor_balance + amount - total_stake'
  /\ gateway_balance' = gateway_balance + total_stake'
  /\ wallet' = [wallet EXCEPT ![addr] = @ - amount]

\* join of a registered subnet: the stake goes on to the gateway.
JoinAddStake(addr, amount) ==
  /\ status # Instantiated
  /\ AddStake(addr, amount)
  /\ status' = MutateState(status, total_stake')
  /\ GatewayAddStake(amount)
  /\ gateway_balance' = gateway_balance + amount
  /\ wallet' = [wallet EXCEPT ![addr] = @ - amount]
  /\ UNCHANGED actor_balance

Join(addr, amount) ==
  /\ amount > 0
  /\ wallet[addr] >= amount
  /\ \/ JoinUnregistered(addr, amount)
     \/ JoinRegister(addr, amount)
     \/ JoinAddStake(addr, amount)
  /\ UNCHANGED <<bottomup_checkpoint_voting, previous_executed_checkpoint_cid,
                 committed_checkpoints, child_checks, commits>>

\* leave: the gateway releases the stake to the actor, which passes it on.  (In the
\* Terminating state the stake would only be written off, but kill leaves that
\* state in the call that enters it.)
Leave(addr) ==
  /\ stake[addr] > 0
  /\ status # Terminating
  /\ RmStake(addr)
  /\ status' = MutateState(status, total_stake')
  /\ GatewayReleaseStake(stake[addr])
  /\ gateway_balance' = gateway_balance - stake[addr]
  /\ wallet' = [wallet EXCEPT ![addr] = @ + stake[addr]]
  /\ UNCHANGED <<bottomup_checkpoint_voting, previous_executed_checkpoint_cid,
                 committed_checkpoints, actor_balance, child_checks, commits>>

\* kill: to Terminating, then mutate_state, then the gateway, which sends back
\* what collateral it still holds.
Kill ==
  /\ actor_balance = 0
  /\ status \notin {Terminating, Killed}
  /\ Validators = {}
  /\ total_stake = 0
  /\ status' = MutateState(Terminating, total_stake)
  /\ GatewayKill
  /\ gateway_balance' = gateway_balance - subnet.stake
  /\ actor_balance' = actor_balance + subnet.stake
  /\ UNCHANGED <<total_stake, stake, validator_set, bottomup_checkpoint_voting,
                 previous_executed_checkpoint_cid, committed_checkpoints, wallet, child_checks,
                 commits>>

-----------------------------------------------------------------------------

\* The checkpoint a submission leads to: the one its ballot decided, else the one
\* at the head of the queue when it is due.
Decided(r) == IF r.to_execute # NoVote THEN r.to_execute ELSE NextExecutableVote(r.voting)

\* What submit_checkpoint requires of every ballot.
Accepted(addr, ch) ==
  /\ addr \in Validators
  /\ VerifyCheckpoint(ch)
  /\ CanSubmitVote(voting, ch.epoch, addr)

CastVote(addr, ch) == SubmitVote(voting, ch, ch.epoch, addr, stake[addr], total_stake)

NothingDue(r) == r.to_execute = NoVote /\ ~HasDueEpoch(r.voting)

\* submit_checkpoint, nothing to commit.
SubmitOnly(addr, ch) ==
  /\ Accepted(addr, ch)
  /\ \E r \in {CastVote(addr, ch)} :
       /\ NothingDue(r)
       /\ bottomup_checkpoint_voting' = r.voting
  /\ UNCHANGED <<status, total_stake, stake, validator_set,
                 previous_executed_checkpoint_cid, committed_checkpoints, subnet,
                 actor_balance, gateway_balance, wallet, child_checks, commits>>

\* submit_checkpoint, what is due does not chain to the last commit: its epoch is
\* aborted and has to be voted again.
SubmitUnchained(addr, ch) ==
  /\ Accepted(addr, ch)
  /\ \E r \in {CastVote(addr, ch)} :
       /\ ~NothingDue(r)
       /\ \E won \in {Decided(r)} :
            /\ won # NoVote
            /\ ~IsChained(won)
            /\ bottomup_checkpoint_voting' = AbortEpoch(r.voting, won.epoch)
  /\ UNCHANGED <<status, total_stake, stake, validator_set,
                 previous_executed_checkpoint_cid, committed_checkpoints, subnet,
                 actor_balance, gateway_balance, wallet, child_checks, commits>>

\* The stake now held by those whose ballot was counted at the epoch being committed.
StakeOfVoters(addr, ch, won) ==
  LET cast == voting.epoch_vote_submissions[won.epoch].submitters
  IN  SumFunctionOnSet(stake, IF won.epoch = ch.epoch THEN cast \cup {addr} ELSE cast)

\* commit_checkpoint, for a checkpoint that is chained.
CommitCheckpoint(vt, ch) ==
  /\ CanMarkEpochExecuted(vt, ch.epoch)
  /\ bottomup_checkpoint_voting' = MarkEpochExecuted(vt, ch.epoch)
  /\ previous_executed_checkpoint_cid' = ch.cid
  /\ committed_checkpoints' = [committed_checkpoints EXCEPT ![ch.epoch] = ch]

\* submit_checkpoint, something to commit: commit_checkpoint, then the gateway's
\* commit_child_check, which pays the messages out and sends the fee to reward.
SubmitAndCommit(addr, ch) ==
  /\ Accepted(addr, ch)
  /\ \E r \in {CastVote(addr, ch)} :
       /\ ~NothingDue(r)
       /\ \E won \in {Decided(r)} :
            /\ won # NoVote
            /\ IsChained(won)
            /\ CommitCheckpoint(r.voting, won)
            /\ CommitChildCheck(won)
            /\ CanReward(won.fee)
            /\ actor_balance' = actor_balance + Remainder(won.fee)
            /\ wallet' = [a \in Voters |->
                            wallet[a] + Rewards(won.fee)[a] + PaidTo(won, a)]
            /\ commits' = Append(commits, [stake |-> StakeOfVoters(addr, ch, won),
                                           total |-> total_stake])
  /\ UNCHANGED <<status, total_stake, stake, validator_set>>

SubmitCheckpoint(addr, ch) ==
  \/ SubmitOnly(addr, ch)
  \/ SubmitUnchained(addr, ch)
  \/ SubmitAndCommit(addr, ch)

\* fund, a call to the gateway: the funds are frozen there and enter the subnet's
\* circulating supply, less the fee, which goes to reward.
Fund(addr, amount) ==
  /\ amount > 0
  /\ CanPayCrossFee(amount)
  /\ wallet[addr] >= amount
  /\ Registered
  /\ subnet.topdown_nonce < MaxTopdownMsgs
  /\ CanReward(CrossMsgFee)
  /\ subnet' = CommitTopdownMsg(subnet, CollectCrossFee(amount))
  /\ gateway_balance' = gateway_balance + CollectCrossFee(amount)
  /\ actor_balance' = actor_balance + Remainder(CrossMsgFee)
  /\ wallet' = [a \in Voters |->
                  wallet[a] + Rewards(CrossMsgFee)[a] - (IF a = addr THEN amount ELSE 0)]
  /\ UNCHANGED <<actor, child_checks, commits>>

Next ==
  \/ \E addr \in Voters, amount \in JoinAmounts : Join(addr, amount)
  \/ \E addr \in Voters : Leave(addr)
  \/ Kill
  \/ \E addr \in Voters, ch \in Checkpoints : SubmitCheckpoint(addr, ch)
  \/ \E addr \in Voters, amount \in FundAmounts : Fund(addr, amount)

Spec == Init /\ [][Next]_vars

\* Nobody leaves, and every validator submits in the end what it has to submit:
\* validators are there to do it, joining is up to the accounts.
SteadySpec ==
  /\ Init
  /\ [][\E addr \in Voters :
          \/ \E amount \in JoinAmounts : Join(addr, amount)
          \/ \E ch \in Checkpoints : SubmitCheckpoint(addr, ch)]_vars
  /\ \A addr \in Voters : WF_vars(\E ch \in Checkpoints : SubmitCheckpoint(addr, ch))

-----------------------------------------------------------------------------

\* The subnet actor's three accounts of the collateral agree through every join,
\* top-up and leave: total_stake is the sum of the stakes, and the validators are
\* exactly those with min_validator_stake, each with its stake as weight.
StakeLedger ==
  /\ total_stake = SumFunction(stake)
  /\ \A a \in Voters :
       validator_set[a] = IF stake[a] >= MinValidatorStake THEN stake[a] ELSE 0

\* The gateway and the subnet actor keep the collateral and the activity of the
\* subnet separately, and never disagree: commit_child_check and verify_checkpoint
\* look at different copies.
CollateralMirrored ==
  /\ Registered <=> status \in {Active, Inactive}
  /\ Registered => /\ subnet.stake = total_stake
                   /\ subnet.status = status

\* No token is lost or made in any of the transfers between accounts, subnet actor
\* and gateway, and what the gateway holds is what it owes: the collateral and the
\* circulating supply.
FundsConserved ==
  /\ SumFunction(wallet) + actor_balance + gateway_balance = SumFunction(InitialFunds)
  /\ gateway_balance = subnet.stake + subnet.circ_supply

\* In a registered subnet every staker can leave at any moment: release_stake finds
\* the stake and the balance it asks for.
Withdrawable ==
  Registered => \A a \in Voters : stake[a] > 0 => ENABLED Leave(a)

\* The committed checkpoints are a chain over consecutive epochs from the genesis
\* cid on, although ballots for later epochs are accepted unchained, the gateway's
\* prev_checkpoint is its end, and the gateway lists each of them to its own parent
\* exactly once and in order.
CommittedChained ==
  /\ \A e \in Epochs : committed_checkpoints[e] # NoVote =>
       LET ch == committed_checkpoints[e]
           p  == e - BottomupCheckPeriod
       IN  /\ ch.epoch = e /\ e <= voting.last_voting_executed_epoch
           /\ IF p = GenesisEpoch THEN ch.prev = GenesisCid
              ELSE /\ p \in Epochs
                   /\ committed_checkpoints[p] # NoVote
                   /\ ch.prev = committed_checkpoints[p].cid
  /\ LET last == voting.last_voting_executed_epoch
     IN  last # GenesisEpoch =>
           /\ previous_executed_checkpoint_cid = committed_checkpoints[last].cid
           /\ Registered => subnet.prev_checkpoint = committed_checkpoints[last]
  /\ GenesisEpoch + Len(child_checks) * BottomupCheckPeriod
       = voting.last_voting_executed_epoch
  /\ \A i \in DOMAIN child_checks :
       child_checks[i] = committed_checkpoints[GenesisEpoch + i * BottomupCheckPeriod].cid

CommittedEpochs == {e \in Epochs : committed_checkpoints[e] # NoVote}

\* The number of messages in the checkpoints that cc has at the epochs E.
MessagesAt(cc, E) == SumFunctionOnSet([e \in E |-> Len(cc[e].msgs)], E)

\* The messages that commit_child_check applies, over all checkpoints of the subnet,
\* carry the nonces 0, 1, 2, ... without gap or repeat, although the ballots for the
\* checkpoints are cast and decided without a look at them.
BottomUpInOrder ==
  /\ \A e \in CommittedEpochs : \A i \in DOMAIN committed_checkpoints[e].msgs :
       committed_checkpoints[e].msgs[i].nonce
         = MessagesAt(committed_checkpoints, {f \in CommittedEpochs : f < e}) + i - 1
  /\ Registered =>
       subnet.applied_bottomup_nonce = MessagesAt(committed_checkpoints, CommittedEpochs)

\* kill strands nobody's money: a killed subnet has no collateral, no circulating
\* supply and no balance anywhere.
KilledClean ==
  status = Killed =>
    total_stake = 0 /\ actor_balance = 0 /\ gateway_balance = 0 /\ ~Registered

\* A killed subnet stays as it is: no join revives it, none of its handlers and no
\* fund succeeds again.
KilledIsFinal == [][status # Killed]_vars

\* The comment on submit_checkpoint: a commit has the votes of at least two thirds
\* of the collateral.  Those who voted for any checkpoint of that epoch are counted.
TwoThirdsOfCollateral ==
  \A i \in DOMAIN commits : commits[i].stake * RatioDen >= commits[i].total * RatioNum

OpenEpochs ==
  {e \in Epochs : EpochCanVote(voting, e) /\ e > voting.last_voting_executed_epoch}

\* "It expects at least votes from 2/3 of miners with collateral" (submit_checkpoint):
\* when every validator has voted on an epoch the epoch is decided, whoever left or
\* added stake while the votes were coming in.
FullTurnoutDecides ==
  \A e \in OpenEpochs \ voting.executable_epoch_queue :
    Validators # {} => ~(Validators \subseteq voting.epoch_vote_submissions[e].submitters)

\* The same comment: while the subnet is active its validators together are a quorum
\* of the collateral that total_stake counts.
QuorumReachable ==
  status = Active => SumFunction(validator_set) > Threshold(total_stake)

\* "Called by peers looking to leave a subnet" (leave): whoever has stake can leave.
StakersMayLeave == \A a \in Voters : stake[a] > 0 => ENABLED Leave(a)

\* All that is not committed waits in the queue, with no validator's ballot left to
\* trigger it: only the finite set of epochs keeps it from going on.
OutOfBallots ==
  \A e \in OpenEpochs :
    /\ e \in voting.executable_epoch_queue
    /\ Validators \subseteq voting.epoch_vote_submissions[e].submitters

\* When validators join at any moment and stay, with the stake they came with, every
\* epoch is committed once the subnet is active, in whatever order the epochs are
\* voted on and decided.
EveryEpochCommitted ==
  \A e \in Epochs :
    status = Active ~> voting.last_voting_executed_epoch >= e \/ OutOfBallots
=============================================================================
