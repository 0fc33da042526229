------------------------- MODULE SubnetActor_proofs -------------------------
(***************************************************************************)
(* The collateral, the money and the chain of checkpoints of a subnet, for *)
(* every set of accounts, amounts, checkpoints and epochs.                 *)
(***************************************************************************)
EXTENDS SubnetLog, Voting_proofs, SequenceTheorems

-----------------------------------------------------------------------------

(* The operators. *)

\* What assumptions say of a checkpoint.
LEMMA CheckpointFields ==
  ASSUME NEW ch \in Checkpoints
  PROVE  /\ ch.epoch \in Epochs /\ ch.epoch \in Nat /\ ch.fee \in Nat
         /\ ch.cid # GenesisCid /\ ch # NoVote
         /\ ch.msgs \in Seq([nonce : Nat, value : Nat, to : Voters])
         /\ DOMAIN ch.msgs = 1..Len(ch.msgs) /\ Len(ch.msgs) \in Nat
         /\ IsFiniteSet(DOMAIN ch.msgs)
         /\ \A i \in DOMAIN ch.msgs : /\ ch.msgs[i].nonce \in Nat
                                      /\ ch.msgs[i].value \in Nat
                                      /\ ch.msgs[i].to \in Voters
  <1>1. /\ ch.epoch \in Epochs /\ ch.fee \in Nat /\ ch.cid # GenesisCid
        /\ ch.msgs \in Seq([nonce : Nat, value : Nat, to : Voters])
    BY CheckpointsAssumption
  <1>2. ch.epoch \in Nat
    BY <1>1, EpochsAssumption
  <1>3. ch # NoVote
    BY NoVoteAssumption DEF Checkpoints
  <1>4. DOMAIN ch.msgs = 1..Len(ch.msgs) /\ Len(ch.msgs) \in Nat
    BY <1>1
  <1>5. IsFiniteSet(DOMAIN ch.msgs)
    BY <1>4, FS_Interval
  <1>6. \A i \in DOMAIN ch.msgs : ch.msgs[i] \in [nonce : Nat, value : Nat, to : Voters]
    <2> DEFINE R == [nonce : Nat, value : Nat, to : Voters]
               m == ch.msgs
    <2>1. m \in Seq(R)
      BY <1>1
    <2> HIDE DEF R, m
    <2>2. \A i \in DOMAIN m : m[i] \in R
      BY <2>1
    <2>3. QED
      BY <2>2 DEF R, m
  <1>7. QED
    BY <1>1, <1>2, <1>3, <1>4, <1>5, <1>6

\* The values of a checkpoint's messages, all of them paid to some account: nothing
\* is left over, nothing is paid twice.
LEMMA PaymentsAddUp ==
  ASSUME NEW ch \in Checkpoints
  PROVE  /\ TotalValue(ch) \in Nat
         /\ \A a \in Voters : PaidTo(ch, a) \in Nat
         /\ SumFunction([a \in Voters |-> PaidTo(ch, a)]) = TotalValue(ch)
  <1> DEFINE M == DOMAIN ch.msgs
             f == MsgValues(ch)
             k == [i \in M |-> ch.msgs[i].to]
             file == [a \in Voters |-> {i \in M : ch.msgs[i].to = a}]
             h == [a \in Voters |-> PaidTo(ch, a)]
  <1>1. IsFiniteSet(M) /\ f \in [M -> Nat] /\ \A i \in M : k[i] \in Voters
    BY CheckpointFields DEF MsgValues
  <1>2. TotalValue(ch) = SumFunctionOnSet(f, M) /\ TotalValue(ch) \in Nat
    BY <1>1, LedgerTotal DEF TotalValue
  <1>3. \A a \in Voters : /\ file[a] \in SUBSET M
                          /\ \A i \in M : i \in file[a] <=> k[i] = a
                          /\ PaidTo(ch, a) = SumFunctionOnSet(f, file[a])
    BY DEF PaidTo
  <1>4. \A a \in Voters : PaidTo(ch, a) \in Nat
    <2> HIDE DEF M, f, k, file
    <2>1. QED
      BY <1>1, <1>3, SumNat
  <1>5. h \in [Voters -> Nat] /\ \A a \in Voters : h[a] = PaidTo(ch, a)
    BY <1>4
  <1> HIDE DEF M, f, k, h, file
  <1>6. SumFunctionOnSet(h, Voters) = SumFunctionOnSet(f, M)
    <2>1. \A a \in Voters : h[a] = SumFunctionOnSet(f, file[a])
      BY <1>3, <1>5
    <2>2. \A i \in M : f[i] \in Int
      BY <1>1
    <2>3. QED
      BY <1>1, <1>3, <2>1, <2>2, VotersAssumption, SumByKey
  <1>7. SumFunction(h) = TotalValue(ch)
    BY <1>2, <1>5, <1>6, VotersAssumption, LedgerTotal
  <1>8. QED
    BY <1>2, <1>4, <1>7 DEF h

\* reward splits the fee without loss: the shares and the remainder are the fee.
LEMMA RewardAddsUp ==
  ASSUME NEW fee \in Nat, validator_set \in [Voters -> Nat], CanReward(fee)
  PROVE  /\ Rewards(fee) \in [Voters -> Nat]
         /\ Remainder(fee) \in Nat
         /\ SumFunction(Rewards(fee)) + Remainder(fee) = fee
  <1> DEFINE n == Cardinality(Validators)
  <1>1. IsFiniteSet(Voters) /\ Validators \in SUBSET Voters
    BY VotersAssumption DEF Validators
  <1>2. IsFiniteSet(Validators) /\ n \in Nat
    BY <1>1, FS_Subset, FS_CardinalityType
  <1>3. CASE fee = 0
    <2>1. Rewards(fee) = [a \in Voters |-> 0] /\ Remainder(fee) = 0
      BY <1>3 DEF Rewards, Remainder
    <2>2. QED
      BY <1>1, <1>3, <2>1, LedgerZero
  <1>4. CASE fee > 0
    <2>1. n # 0
      BY <1>2, <1>4, FS_EmptySet DEF CanReward
    <2> DEFINE q == fee \div n
               r == Rewards(fee)
    <2>2. q \in Nat /\ fee % n \in Nat /\ (q * n) + (fee % n) = fee
      <3> HIDE DEF n
      <3>1. QED
        BY <1>2, <2>1
    <2>3. /\ r \in [Voters -> Nat] /\ r \in [Voters -> Int]
          /\ \A a \in Validators : r[a] = q
          /\ \A a \in Voters \ Validators : r[a] = 0
      <3>1. Share(fee) = q
        BY DEF Share
      <3> HIDE DEF q
      <3>2. QED
        BY <1>1, <1>4, <2>2, <3>1 DEF Rewards
    <2>4. Remainder(fee) = fee % n
      BY <1>4 DEF Remainder
    <2> HIDE DEF n, q, r
    <2>5. SumFunctionOnSet(r, Voters) = SumFunctionOnSet(r, Validators)
      BY <1>1, <2>3, SumSupport
    <2>6. SumFunctionOnSet(r, Validators) = q * n
      BY <1>2, <2>2, <2>3, SumConstant DEF n
    <2>7. SumFunction(r) = q * n
      BY <1>1, <2>3, <2>5, <2>6, LedgerTotal
    <2>8. QED
      BY <2>2, <2>3, <2>4, <2>7 DEF r
  <1>5. QED
    BY <1>3, <1>4

\* The gateway's record after a change of collateral: the status follows the stake.
LEMMA SubnetAddStakeFields ==
  ASSUME NEW sub \in SubnetType, NEW v \in Int, sub.stake + v \in Nat
  PROVE  LET new == SubnetAddStake(sub, v)
         IN  /\ new \in SubnetType
             /\ new.registered = sub.registered
             /\ new.stake = sub.stake + v
             /\ new.status = IF sub.stake + v < MinCollateral THEN Inactive ELSE Active
             /\ new.circ_supply = sub.circ_supply
             /\ new.applied_bottomup_nonce = sub.applied_bottomup_nonce
             /\ new.prev_checkpoint = sub.prev_checkpoint
  <1> DEFINE st == IF sub.stake + v < MinCollateral THEN Inactive ELSE Active
             new == [sub EXCEPT !.stake = sub.stake + v, !.status = st]
  <1>1. SubnetAddStake(sub, v) = new
    BY DEF SubnetAddStake
  <1>2. st \in {Active, Inactive}
    OBVIOUS
  <1> HIDE DEF st
  <1>3. /\ new \in SubnetType
        /\ new.registered = sub.registered
        /\ new.stake = sub.stake + v
        /\ new.status = st
        /\ new.circ_supply = sub.circ_supply
        /\ new.applied_bottomup_nonce = sub.applied_bottomup_nonce
        /\ new.prev_checkpoint = sub.prev_checkpoint
    BY <1>2 DEF SubnetType
  <1> HIDE DEF new
  <1>4. QED
    BY <1>1, <1>3 DEF st

\* The record after a top-down message.
LEMMA CommitTopdownMsgFields ==
  ASSUME NEW sub \in SubnetType, NEW v \in Nat
  PROVE  LET new == CommitTopdownMsg(sub, v)
         IN  /\ new \in SubnetType
             /\ new.registered = sub.registered
             /\ new.stake = sub.stake
             /\ new.status = sub.status
             /\ new.circ_supply = sub.circ_supply + v
             /\ new.applied_bottomup_nonce = sub.applied_bottomup_nonce
             /\ new.prev_checkpoint = sub.prev_checkpoint
  <1> DEFINE nonce  == sub.topdown_nonce + 1
             supply == sub.circ_supply + v
             new    == [sub EXCEPT !.topdown_nonce = nonce, !.circ_supply = supply]
  <1>1. CommitTopdownMsg(sub, v) = new
    BY DEF CommitTopdownMsg
  <1>2. nonce \in Nat /\ supply \in Nat
    BY DEF SubnetType
  <1> HIDE DEF nonce, supply
  <1>3. /\ new \in SubnetType
        /\ new.registered = sub.registered
        /\ new.stake = sub.stake
        /\ new.status = sub.status
        /\ new.circ_supply = supply
        /\ new.applied_bottomup_nonce = sub.applied_bottomup_nonce
        /\ new.prev_checkpoint = sub.prev_checkpoint
    BY <1>2 DEF SubnetType
  <1> HIDE DEF new
  <1>4. QED
    BY <1>1, <1>3 DEF supply

\* The record after a commit.
LEMMA RecordCheckpointFields ==
  ASSUME NEW sub \in SubnetType, NEW ch \in Checkpoints, TotalValue(ch) + ch.fee \in Nat,
         sub.circ_supply >= TotalValue(ch) + ch.fee
  PROVE  LET new == RecordCheckpoint(sub, ch)
         IN  /\ new \in SubnetType
             /\ new.registered = sub.registered
             /\ new.stake = sub.stake
             /\ new.status = sub.status
             /\ new.circ_supply = sub.circ_supply - (TotalValue(ch) + ch.fee)
             /\ new.applied_bottomup_nonce = sub.applied_bottomup_nonce + Len(ch.msgs)
             /\ new.prev_checkpoint = ch
  <1> DEFINE v == TotalValue(ch) + ch.fee
             n == Len(ch.msgs)
             mid == [sub EXCEPT !.circ_supply = sub.circ_supply - v]
             nonce == mid.applied_bottomup_nonce + n
             new == [mid EXCEPT !.applied_bottomup_nonce = nonce, !.prev_checkpoint = ch]
  <1>1. RecordCheckpoint(sub, ch) = new
    BY DEF RecordCheckpoint, ReleaseSupply
  <1>2. n \in Nat /\ v \in Nat /\ ch \in Votes /\ sub.circ_supply >= v
    BY CheckpointFields DEF Checkpoints
  <1> HIDE DEF v, n
  <1>3. /\ mid \in SubnetType
        /\ mid.registered = sub.registered
        /\ mid.stake = sub.stake
        /\ mid.status = sub.status
        /\ mid.circ_supply = sub.circ_supply - v
        /\ mid.applied_bottomup_nonce = sub.applied_bottomup_nonce
    BY <1>2 DEF SubnetType
  <1> HIDE DEF mid
  <1>4. nonce \in Nat
    BY <1>2, <1>3 DEF SubnetType
  <1> HIDE DEF nonce
  <1>5. /\ new \in SubnetType
        /\ new.registered = mid.registered
        /\ new.stake = mid.stake
        /\ new.status = mid.status
        /\ new.circ_supply = mid.circ_supply
        /\ new.applied_bottomup_nonce = nonce
        /\ new.prev_checkpoint = ch
    BY <1>2, <1>3, <1>4 DEF SubnetType
  <1> HIDE DEF new
  <1>6. QED
    BY <1>1, <1>3, <1>5 DEF nonce, v, n

\* The record of a new subnet, and the absence of one.
LEMMA FreshRecords ==
  ASSUME NEW value \in Nat
  PROVE  /\ RegisterSubnet(value) \in SubnetType
         /\ RegisterSubnet(value).registered
         /\ RegisterSubnet(value).stake = value
         /\ RegisterSubnet(value).status = Active
         /\ RegisterSubnet(value).circ_supply = 0
         /\ RegisterSubnet(value).applied_bottomup_nonce = 0
         /\ NotRegistered \in SubnetType
         /\ ~NotRegistered.registered
         /\ NotRegistered.stake = 0
         /\ NotRegistered.circ_supply = 0
  BY DEF RegisterSubnet, NotRegistered, SubnetType

\* mutate_state, case by case.
LEMMA MutateStateCases ==
  ASSUME NEW total \in Nat
  PROVE  /\ MutateState(Instantiated, total)
              = IF total >= MinCollateral THEN Active ELSE Instantiated
         /\ \A st \in {Active, Inactive} :
              MutateState(st, total) = IF total < MinCollateral THEN Inactive ELSE Active
         /\ MutateState(Terminating, 0) = Killed
  BY AmountsAssumption
     DEF MutateState, Active, Inactive, Instantiated, Terminating, Killed

-----------------------------------------------------------------------------

(* Stakes and balances. *)

MoneyType ==
  /\ status \in {Instantiated, Active, Inactive, Killed}
  /\ total_stake \in Nat
  /\ stake \in [Voters -> Nat]
  /\ validator_set \in [Voters -> Nat]
  /\ subnet \in SubnetType
  /\ actor_balance \in Nat
  /\ gateway_balance \in Nat
  /\ wallet \in [Voters -> Nat]

\* The accounts of the collateral and of all the money, in one invariant: none of its
\* parts is inductive alone.  release_stake finds the stake because the two copies of
\* the collateral agree, kill leaves nothing behind because what the gateway holds is
\* the collateral and the supply.
MoneyInv ==
  /\ MoneyType /\ StakeLedger /\ CollateralMirrored /\ FundsConserved /\ KilledClean
  /\ ~Registered => subnet = NotRegistered

\* State::add_stake keeps the ledger.
LEMMA AddStakeLedger ==
  ASSUME MoneyType, StakeLedger, NEW addr \in Voters, NEW amount \in Nat,
         AddStake(addr, amount)
  PROVE  /\ stake' \in [Voters -> Nat]
         /\ total_stake' = total_stake + amount /\ total_stake' \in Nat
         /\ validator_set' \in [Voters -> Nat]
         /\ StakeLedger'
  <1>1. stake \in [Voters -> Nat] /\ stake \in [Voters -> Int]
    BY DEF MoneyType
  <1> DEFINE updated == stake[addr] + amount
  <1>2. updated \in Nat
    BY <1>1
  <1>3. /\ stake' = [stake EXCEPT ![addr] = updated]
        /\ total_stake' = total_stake + amount
        /\ validator_set' =
             IF updated >= MinValidatorStake
               THEN [validator_set EXCEPT ![addr] = updated] ELSE validator_set
    BY DEF AddStake
  <1> HIDE DEF updated
  <1>4. /\ stake' \in [Voters -> Nat] /\ total_stake' \in Nat
        /\ validator_set' \in [Voters -> Nat]
    BY <1>1, <1>2, <1>3 DEF MoneyType
  <1>5. SumFunction(stake') = SumFunction(stake) - stake[addr] + updated
    <2>1. /\ stake' \in [Voters -> Int] /\ stake'[addr] = updated
          /\ \A x \in Voters : x # addr => stake'[x] = stake[x]
      BY <1>1, <1>2, <1>3
    <2>2. QED
      BY <1>1, <2>1, VotersAssumption, LedgerUpdate
  <1>6. total_stake' = SumFunction(stake')
    BY <1>1, <1>3, <1>5, VotersAssumption, LedgerTotal DEF StakeLedger, updated, MoneyType
  <1>7. ASSUME NEW a \in Voters
        PROVE  validator_set'[a] = IF stake'[a] >= MinValidatorStake THEN stake'[a] ELSE 0
    <2>1. validator_set[a] = IF stake[a] >= MinValidatorStake THEN stake[a] ELSE 0
      BY DEF StakeLedger
    <2>2. updated >= stake[addr]
      BY <1>1 DEF updated
    <2>3. validator_set \in [Voters -> Nat] /\ MinValidatorStake \in Nat
      BY AmountsAssumption DEF MoneyType
    <2>4. CASE a = addr
      <3>1. stake'[a] = updated
        BY <1>1, <1>3, <2>4
      <3>2. CASE updated >= MinValidatorStake
        BY <1>3, <2>3, <2>4, <3>1, <3>2
      <3>3. CASE ~(updated >= MinValidatorStake)
        <4>1. validator_set'[a] = 0
          BY <1>1, <1>2, <1>3, <2>1, <2>2, <2>3, <2>4, <3>3
        <4>2. QED
          BY <3>1, <3>3, <4>1
      <3>4. QED
        BY <3>2, <3>3
    <2>5. CASE a # addr
      <3>1. stake'[a] = stake[a] /\ validator_set'[a] = validator_set[a]
        BY <1>1, <1>3, <2>3, <2>5
      <3>2. QED
        BY <2>1, <3>1
    <2>6. QED
      BY <2>4, <2>5
  <1>8. QED
    BY <1>3, <1>4, <1>6, <1>7 DEF StakeLedger

\* State::rm_stake keeps the ledger.
LEMMA RmStakeLedger ==
  ASSUME MoneyType, StakeLedger, NEW addr \in Voters, RmStake(addr)
  PROVE  /\ stake' \in [Voters -> Nat]
         /\ total_stake' = total_stake - stake[addr] /\ total_stake' \in Nat
         /\ validator_set' \in [Voters -> Nat]
         /\ StakeLedger'
  <1>1. stake \in [Voters -> Nat] /\ stake \in [Voters -> Int] /\ total_stake \in Nat
    BY DEF MoneyType
  <1>2. /\ stake' = [stake EXCEPT ![addr] = 0]
        /\ total_stake' = total_stake - stake[addr]
        /\ validator_set' = [validator_set EXCEPT ![addr] = 0]
    BY DEF RmStake
  <1>3. SumFunction(stake') = SumFunction(stake) - stake[addr] + 0
    <2>1. /\ stake' \in [Voters -> Int] /\ stake'[addr] = 0
          /\ \A x \in Voters : x # addr => stake'[x] = stake[x]
      BY <1>1, <1>2
    <2>2. QED
      BY <1>1, <2>1, VotersAssumption, LedgerUpdate
  <1>4. total_stake = SumFunction(stake)
    BY DEF StakeLedger
  <1>5. stake[addr] <= total_stake
    BY <1>1, <1>4, VotersAssumption, LedgerTotal, SumTerm
  <1>6. /\ stake' \in [Voters -> Nat] /\ total_stake' \in Nat
        /\ validator_set' \in [Voters -> Nat]
    BY <1>1, <1>2, <1>5 DEF MoneyType
  <1>7. total_stake' = SumFunction(stake')
    BY <1>1, <1>2, <1>3, <1>4
  <1>8. ASSUME NEW a \in Voters
        PROVE  validator_set'[a] = IF stake'[a] >= MinValidatorStake THEN stake'[a] ELSE 0
    <2>1. validator_set[a] = IF stake[a] >= MinValidatorStake THEN stake[a] ELSE 0
      BY DEF StakeLedger
    <2>2. validator_set \in [Voters -> Nat]
      BY DEF MoneyType
    <2>3. QED
      BY <1>1, <1>2, <2>1, <2>2
  <1>9. QED
    BY <1>2, <1>6, <1>7, <1>8 DEF StakeLedger

\* join before the collateral is complete.
LEMMA JoinUnregisteredMoney ==
  ASSUME MoneyInv, NEW addr \in Voters, NEW amount \in Nat, wallet[addr] >= amount,
         JoinUnregistered(addr, amount)
  PROVE  MoneyInv'
  <1>1. /\ status = Instantiated
        /\ total_stake + amount < MinCollateral
        /\ AddStake(addr, amount)
        /\ status' = MutateState(status, total_stake')
        /\ actor_balance' = actor_balance + amount
        /\ wallet' = [wallet EXCEPT ![addr] = wallet[addr] - amount]
        /\ subnet' = subnet /\ gateway_balance' = gateway_balance
    BY DEF JoinUnregistered
  <1>2. MoneyType /\ StakeLedger /\ CollateralMirrored /\ FundsConserved
    BY DEF MoneyInv
  <1>3. /\ stake' \in [Voters -> Nat]
        /\ total_stake' = total_stake + amount /\ total_stake' \in Nat
        /\ validator_set' \in [Voters -> Nat]
        /\ StakeLedger'
    BY <1>1, <1>2, AddStakeLedger
  <1>4. status' = Instantiated
    BY <1>1, <1>3, MutateStateCases, AmountsAssumption
  <1>5. /\ wallet' \in [Voters -> Nat]
        /\ SumFunction(wallet') = SumFunction(wallet) - amount
        /\ SumFunction(wallet) \in Nat
    <2>1. wallet \in [Voters -> Nat]
      BY <1>2 DEF MoneyType
    <2>2. /\ wallet' \in [Voters -> Nat]
          /\ wallet'[addr] = wallet[addr] - amount
          /\ \A x \in Voters : x # addr => wallet'[x] = wallet[x]
      BY <1>1, <2>1
    <2>3. QED
      BY <2>1, <2>2, VotersAssumption, LedgerUpdateNat
  <1>6. MoneyType'
    BY <1>1, <1>2, <1>3, <1>4, <1>5 DEF MoneyType
  <1>7. CollateralMirrored'
    BY <1>1, <1>2, <1>4
       DEF CollateralMirrored, Registered, Instantiated, Active, Inactive
  <1>8. FundsConserved'
    BY <1>1, <1>2, <1>5 DEF FundsConserved, MoneyType
  <1>9. KilledClean'
    BY <1>4 DEF KilledClean, Instantiated, Killed
  <1>10. Registered' = Registered
    BY <1>1 DEF Registered
  <1>11. QED
    BY <1>1, <1>3, <1>6, <1>7, <1>8, <1>9, <1>10 DEF MoneyInv

\* join that completes the collateral.
LEMMA JoinRegisterMoney ==
  ASSUME MoneyInv, NEW addr \in Voters, NEW amount \in Nat, wallet[addr] >= amount,
         JoinRegister(addr, amount)
  PROVE  MoneyInv'
  <1>1. /\ status = Instantiated
        /\ total_stake + amount >= MinCollateral
        /\ AddStake(addr, amount)
        /\ status' = MutateState(status, total_stake')
        /\ actor_balance + amount >= total_stake'
        /\ subnet' = RegisterSubnet(total_stake')
        /\ actor_balance' = actor_balance + amount - total_stake'
        /\ gateway_balance' = gateway_balance + total_stake'
        /\ wallet' = [wallet EXCEPT ![addr] = wallet[addr] - amount]
    BY DEF JoinRegister, GatewayRegister
  <1>2. MoneyType /\ StakeLedger /\ CollateralMirrored /\ FundsConserved
    BY DEF MoneyInv
  <1>3. /\ stake' \in [Voters -> Nat]
        /\ total_stake' = total_stake + amount /\ total_stake' \in Nat
        /\ validator_set' \in [Voters -> Nat]
        /\ StakeLedger'
    BY <1>1, <1>2, AddStakeLedger
  <1>4. status' = Active
    BY <1>1, <1>3, MutateStateCases
  <1>5. /\ wallet' \in [Voters -> Nat]
        /\ SumFunction(wallet') = SumFunction(wallet) - amount
        /\ SumFunction(wallet) \in Nat
    <2>1. wallet \in [Voters -> Nat]
      BY <1>2 DEF MoneyType
    <2>2. /\ wallet' \in [Voters -> Nat]
          /\ wallet'[addr] = wallet[addr] - amount
          /\ \A x \in Voters : x # addr => wallet'[x] = wallet[x]
      BY <1>1, <2>1
    <2>3. QED
      BY <2>1, <2>2, VotersAssumption, LedgerUpdateNat
  <1>6. /\ subnet' \in SubnetType /\ subnet'.registered /\ subnet'.stake = total_stake'
        /\ subnet'.status = Active /\ subnet'.circ_supply = 0
    BY <1>1, <1>3, FreshRecords
  <1>7. gateway_balance = 0
    <2>1. subnet = NotRegistered
      BY DEF JoinRegister, GatewayRegister, MoneyInv
    <2>2. gateway_balance = subnet.stake + subnet.circ_supply
      BY <1>2 DEF FundsConserved
    <2>3. QED
      BY <2>1, <2>2, FreshRecords
  <1>8. MoneyType'
    BY <1>1, <1>2, <1>3, <1>4, <1>5, <1>6 DEF MoneyType
  <1>9. CollateralMirrored'
    BY <1>4, <1>6 DEF CollateralMirrored, Registered
  <1>10. FundsConserved'
    BY <1>1, <1>2, <1>3, <1>5, <1>6, <1>7 DEF FundsConserved, MoneyType
  <1>11. KilledClean'
    BY <1>4 DEF KilledClean, Active, Killed
  <1>12. Registered'
    BY <1>6 DEF Registered
  <1>13. QED
    BY <1>3, <1>8, <1>9, <1>10, <1>11, <1>12 DEF MoneyInv

\* join of a registered subnet.
LEMMA JoinAddStakeMoney ==
  ASSUME MoneyInv, NEW addr \in Voters, NEW amount \in Nat, wallet[addr] >= amount,
         JoinAddStake(addr, amount)
  PROVE  MoneyInv'
  <1>1. /\ AddStake(addr, amount)
        /\ status' = MutateState(status, total_stake')
        /\ Registered
        /\ subnet' = SubnetAddStake(subnet, amount)
        /\ gateway_balance' = gateway_balance + amount
        /\ wallet' = [wallet EXCEPT ![addr] = wallet[addr] - amount]
        /\ actor_balance' = actor_balance
    BY DEF JoinAddStake, GatewayAddStake
  <1>2. MoneyType /\ StakeLedger /\ CollateralMirrored /\ FundsConserved
    BY DEF MoneyInv
  <1>3. /\ stake' \in [Voters -> Nat]
        /\ total_stake' = total_stake + amount /\ total_stake' \in Nat
        /\ validator_set' \in [Voters -> Nat]
        /\ StakeLedger'
    BY <1>1, <1>2, AddStakeLedger
  <1>4. status \in {Active, Inactive} /\ subnet.stake = total_stake
    BY <1>1, <1>2 DEF CollateralMirrored
  <1>5. /\ wallet' \in [Voters -> Nat]
        /\ SumFunction(wallet') = SumFunction(wallet) - amount
        /\ SumFunction(wallet) \in Nat
    <2>1. wallet \in [Voters -> Nat]
      BY <1>2 DEF MoneyType
    <2>2. /\ wallet' \in [Voters -> Nat]
          /\ wallet'[addr] = wallet[addr] - amount
          /\ \A x \in Voters : x # addr => wallet'[x] = wallet[x]
      BY <1>1, <2>1
    <2>3. QED
      BY <2>1, <2>2, VotersAssumption, LedgerUpdateNat
  <1>6. status' = IF total_stake' < MinCollateral THEN Inactive ELSE Active
    BY <1>1, <1>3, <1>4, MutateStateCases
  <1>7. /\ subnet' \in SubnetType /\ subnet'.registered /\ subnet'.stake = total_stake'
        /\ subnet'.status = status' /\ subnet'.circ_supply = subnet.circ_supply
    <2>1. subnet \in SubnetType /\ amount \in Int /\ subnet.stake + amount \in Nat
      BY <1>2, <1>3, <1>4 DEF MoneyType
    <2>2. QED
      BY <1>1, <1>3, <1>4, <1>6, <2>1, SubnetAddStakeFields DEF Registered
  <1>8. MoneyType'
    BY <1>1, <1>2, <1>3, <1>5, <1>6, <1>7 DEF MoneyType
  <1>9. CollateralMirrored'
    BY <1>6, <1>7 DEF CollateralMirrored, Registered
  <1>10. FundsConserved'
    <2>1. subnet.circ_supply \in Nat /\ gateway_balance \in Nat /\ actor_balance \in Nat
      BY <1>2 DEF MoneyType, SubnetType
    <2>2. QED
      BY <1>1, <1>2, <1>3, <1>4, <1>5, <1>7, <2>1 DEF FundsConserved, MoneyType
  <1>11. KilledClean'
    BY <1>6 DEF KilledClean, Active, Inactive, Killed
  <1>12. Registered'
    BY <1>7 DEF Registered
  <1>13. QED
    BY <1>3, <1>8, <1>9, <1>10, <1>11, <1>12 DEF MoneyInv

\* leave
LEMMA LeaveMoney ==
  ASSUME MoneyInv, NEW addr \in Voters, Leave(addr)
  PROVE  MoneyInv'
  <1> DEFINE amount == stake[addr]
  <1>1. /\ RmStake(addr)
        /\ status' = MutateState(status, total_stake')
        /\ Registered
        /\ gateway_balance >= amount
        /\ subnet' = SubnetAddStake(subnet, -amount)
        /\ gateway_balance' = gateway_balance - amount
        /\ wallet' = [wallet EXCEPT ![addr] = wallet[addr] + amount]
        /\ actor_balance' = actor_balance
    BY DEF Leave, GatewayReleaseStake
  <1>2. MoneyType /\ StakeLedger /\ CollateralMirrored /\ FundsConserved
    BY DEF MoneyInv
  <1>3. /\ stake' \in [Voters -> Nat]
        /\ total_stake' = total_stake - amount /\ total_stake' \in Nat
        /\ validator_set' \in [Voters -> Nat]
        /\ StakeLedger' /\ amount \in Nat
    BY <1>1, <1>2, RmStakeLedger DEF MoneyType
  <1> HIDE DEF amount
  <1>4. status \in {Active, Inactive} /\ subnet.stake = total_stake /\ total_stake \in Nat
    BY <1>1, <1>2 DEF CollateralMirrored, MoneyType
  <1>5. /\ wallet' \in [Voters -> Nat]
        /\ SumFunction(wallet') = SumFunction(wallet) + amount
        /\ SumFunction(wallet) \in Nat
    <2>1. wallet \in [Voters -> Nat]
      BY <1>2 DEF MoneyType
    <2>2. /\ wallet' \in [Voters -> Nat]
          /\ wallet'[addr] = wallet[addr] + amount
          /\ \A x \in Voters : x # addr => wallet'[x] = wallet[x]
      BY <1>1, <1>3, <2>1
    <2>3. QED
      BY <1>3, <2>1, <2>2, VotersAssumption, LedgerUpdateNat
  <1>6. status' = IF total_stake' < MinCollateral THEN Inactive ELSE Active
    BY <1>1, <1>3, <1>4, MutateStateCases
  <1>7. /\ subnet' \in SubnetType /\ subnet'.registered /\ subnet'.stake = total_stake'
        /\ subnet'.status = status' /\ subnet'.circ_supply = subnet.circ_supply
    <2> DEFINE minus == -amount
    <2>1. subnet \in SubnetType /\ minus \in Int /\ subnet.stake + minus = total_stake'
      BY <1>2, <1>3, <1>4 DEF MoneyType
    <2>2. subnet' = SubnetAddStake(subnet, minus)
      BY <1>1
    <2> HIDE DEF minus
    <2>3. QED
      BY <1>1, <1>3, <1>6, <2>1, <2>2, SubnetAddStakeFields DEF Registered
  <1>8. MoneyType'
    BY <1>1, <1>2, <1>3, <1>5, <1>6, <1>7 DEF MoneyType
  <1>9. CollateralMirrored'
    BY <1>6, <1>7 DEF CollateralMirrored, Registered
  <1>10. FundsConserved'
    <2>1. subnet.circ_supply \in Nat /\ gateway_balance \in Nat /\ actor_balance \in Nat
      BY <1>2 DEF MoneyType, SubnetType
    <2>2. QED
      BY <1>1, <1>2, <1>3, <1>4, <1>5, <1>7, <2>1 DEF FundsConserved, MoneyType
  <1>11. KilledClean'
    BY <1>6 DEF KilledClean, Active, Inactive, Killed
  <1>12. Registered'
    BY <1>7 DEF Registered
  <1>13. QED
    BY <1>3, <1>8, <1>9, <1>10, <1>11, <1>12 DEF MoneyInv

\* kill
LEMMA KillMoney ==
  ASSUME MoneyInv, Kill
  PROVE  MoneyInv'
  <1>1. /\ actor_balance = 0 /\ total_stake = 0
        /\ status' = MutateState(Terminating, total_stake)
        /\ Registered
        /\ subnet.circ_supply = 0
        /\ subnet' = NotRegistered
        /\ gateway_balance' = gateway_balance - subnet.stake
        /\ actor_balance' = actor_balance + subnet.stake
        /\ total_stake' = total_stake /\ stake' = stake /\ validator_set' = validator_set
        /\ wallet' = wallet
    BY DEF Kill, GatewayKill
  <1>2. MoneyType /\ StakeLedger /\ CollateralMirrored /\ FundsConserved
    BY DEF MoneyInv
  <1>3. subnet.stake = 0 /\ gateway_balance = 0
    BY <1>1, <1>2 DEF CollateralMirrored, FundsConserved
  <1>4. status' = Killed
    BY <1>1, MutateStateCases
  <1>5. subnet' \in SubnetType /\ ~Registered' /\ subnet'.stake + subnet'.circ_supply = 0
    BY <1>1, FreshRecords DEF Registered
  <1>6. MoneyType'
    BY <1>1, <1>2, <1>3, <1>4, <1>5 DEF MoneyType
  <1>7. StakeLedger'
    BY <1>1, <1>2 DEF StakeLedger
  <1>8. CollateralMirrored'
    BY <1>4, <1>5 DEF CollateralMirrored, Active, Inactive, Killed
  <1>9. FundsConserved'
    BY <1>1, <1>2, <1>3, <1>5 DEF FundsConserved, MoneyType
  <1>10. KilledClean'
    BY <1>1, <1>3, <1>5 DEF KilledClean
  <1>11. QED
    BY <1>1, <1>6, <1>7, <1>8, <1>9, <1>10 DEF MoneyInv

\* A commit pays out what it takes from the supply: the messages' values to their
\* accounts, the fee to the validators and, what does not divide, to the actor.
LEMMA CommitMoney ==
  ASSUME MoneyInv, NEW won \in Checkpoints,
         CommitChildCheck(won), CanReward(won.fee),
         actor_balance' = actor_balance + Remainder(won.fee),
         wallet' = [a \in Voters |-> wallet[a] + Rewards(won.fee)[a] + PaidTo(won, a)],
         UNCHANGED <<status, total_stake, stake, validator_set>>
  PROVE  MoneyInv'
  <1> DEFINE value == TotalValue(won) + won.fee
             paid  == [a \in Voters |-> PaidTo(won, a)]
             got   == [a \in Voters |-> Rewards(won.fee)[a] + PaidTo(won, a)]
  <1>1. /\ status' = status /\ total_stake' = total_stake /\ stake' = stake
        /\ validator_set' = validator_set
    OBVIOUS
  <1>2. MoneyType /\ StakeLedger /\ CollateralMirrored /\ FundsConserved
    BY DEF MoneyInv
  <1>3. /\ won.fee \in Nat /\ TotalValue(won) \in Nat /\ value \in Nat
        /\ SumFunction(paid) = TotalValue(won)
        /\ \A a \in Voters : PaidTo(won, a) \in Nat
    <2>1. won.fee \in Nat
      BY CheckpointFields
    <2>2. TotalValue(won) \in Nat /\ \A a \in Voters : PaidTo(won, a) \in Nat
      BY PaymentsAddUp
    <2>3. SumFunction(paid) = TotalValue(won)
      BY PaymentsAddUp, Zenon
    <2>4. QED
      BY <2>1, <2>2, <2>3
  <1>4. /\ Rewards(won.fee) \in [Voters -> Nat]
        /\ Remainder(won.fee) \in Nat
        /\ SumFunction(Rewards(won.fee)) + Remainder(won.fee) = won.fee
    BY <1>2, <1>3, RewardAddsUp DEF MoneyType
  <1>5. /\ Registered /\ subnet.status = Active /\ subnet.circ_supply >= value
        /\ gateway_balance' = gateway_balance - TotalValue(won) - won.fee
    BY DEF CommitChildCheck, CanCommitChildCheck, CanReleaseSupply
  <1>6. /\ subnet' \in SubnetType /\ subnet'.registered /\ subnet'.stake = subnet.stake
        /\ subnet'.status = subnet.status
        /\ subnet'.circ_supply = subnet.circ_supply - value
    <2>1. subnet' = RecordCheckpoint(subnet, won)
      BY DEF CommitChildCheck
    <2>2. subnet \in SubnetType
      BY <1>2 DEF MoneyType
    <2>3. QED
      BY <1>3, <1>5, <2>1, <2>2, RecordCheckpointFields DEF Registered
  <1>7. /\ wallet' \in [Voters -> Nat]
        /\ SumFunction(wallet') = SumFunction(wallet) + SumFunction(got)
        /\ SumFunction(got) = SumFunction(Rewards(won.fee)) + SumFunction(paid)
        /\ SumFunction(wallet) \in Nat /\ SumFunction(Rewards(won.fee)) \in Nat
    <2>1. wallet \in [Voters -> Nat] /\ wallet \in [Voters -> Int]
      BY <1>2 DEF MoneyType
    <2>2. /\ got \in [Voters -> Int] /\ paid \in [Voters -> Int]
          /\ Rewards(won.fee) \in [Voters -> Int]
          /\ \A a \in Voters : got[a] = Rewards(won.fee)[a] + paid[a]
      BY <1>3, <1>4
    <2>3. /\ wallet' \in [Voters -> Nat] /\ wallet' \in [Voters -> Int]
          /\ \A a \in Voters : wallet'[a] = wallet[a] + got[a]
      BY <1>3, <1>4, <2>1
    <2> HIDE DEF got, paid
    <2>4. SumFunction(got) = SumFunction(Rewards(won.fee)) + SumFunction(paid)
      BY <2>2, VotersAssumption, LedgerPlus
    <2>5. SumFunction(wallet') = SumFunction(wallet) + SumFunction(got)
      <3> DEFINE new == wallet'
      <3>1. /\ new \in [Voters -> Int]
            /\ \A a \in Voters : new[a] = wallet[a] + got[a]
        BY <2>3
      <3> HIDE DEF new
      <3>2. SumFunction(new) = SumFunction(wallet) + SumFunction(got)
        BY <2>1, <2>2, <3>1, VotersAssumption, LedgerPlus
      <3>3. QED
        BY <3>2 DEF new
    <2>6. SumFunction(wallet) \in Nat /\ SumFunction(Rewards(won.fee)) \in Nat
      BY <1>4, <2>1, VotersAssumption, LedgerTotal
    <2>7. QED
      BY <2>3, <2>4, <2>5, <2>6
  <1>8. /\ subnet.circ_supply \in Nat /\ subnet.stake \in Nat
        /\ gateway_balance \in Nat /\ actor_balance \in Nat
        /\ gateway_balance = subnet.stake + subnet.circ_supply
    BY <1>2 DEF MoneyType, SubnetType, FundsConserved
  <1>9. MoneyType'
    <2>1. gateway_balance' \in Nat
      BY <1>3, <1>5, <1>8
    <2>2. actor_balance' \in Nat
      BY <1>4, <1>8
    <2>3. QED
      BY <1>1, <1>2, <1>6, <1>7, <2>1, <2>2 DEF MoneyType
  <1>10. StakeLedger'
    BY <1>1, <1>2 DEF StakeLedger
  <1>11. CollateralMirrored'
    BY <1>1, <1>2, <1>5, <1>6 DEF CollateralMirrored, Registered
  <1>12. FundsConserved'
    <2>1. gateway_balance' = subnet'.stake + subnet'.circ_supply
      BY <1>3, <1>5, <1>6, <1>8
    <2>2. SumFunction(wallet') + actor_balance' + gateway_balance'
            = SumFunction(wallet) + actor_balance + gateway_balance
      <3> HIDE DEF got, paid
      <3>1. QED
        BY <1>3, <1>4, <1>5, <1>7, <1>8
    <2>3. QED
      BY <1>2, <2>1, <2>2 DEF FundsConserved
  <1>13. KilledClean'
    <2>1. status' # Killed
      BY <1>1, <1>2, <1>5 DEF CollateralMirrored, Active, Inactive, Killed
    <2>2. QED
      BY <2>1 DEF KilledClean
  <1>14. Registered'
    BY <1>6 DEF Registered
  <1>15. QED
    BY <1>9, <1>10, <1>11, <1>12, <1>13, <1>14 DEF MoneyInv

\* fund
LEMMA FundMoney ==
  ASSUME MoneyInv, NEW addr \in Voters, NEW amount \in Nat, Fund(addr, amount)
  PROVE  MoneyInv'
  <1> DEFINE fee == CrossMsgFee
             net == amount - CrossMsgFee
             got == [a \in Voters |->
                       Rewards(fee)[a] - (IF a = addr THEN amount ELSE 0)]
             cost == [a \in Voters |-> IF a = addr THEN -amount ELSE 0]
  <1>1. /\ amount >= fee /\ wallet[addr] >= amount /\ Registered /\ CanReward(fee)
        /\ subnet' = CommitTopdownMsg(subnet, net)
        /\ gateway_balance' = gateway_balance + net
        /\ actor_balance' = actor_balance + Remainder(fee)
        /\ wallet' = [a \in Voters |->
                        wallet[a] + Rewards(fee)[a] - (IF a = addr THEN amount ELSE 0)]
        /\ status' = status /\ total_stake' = total_stake /\ stake' = stake
        /\ validator_set' = validator_set
    BY DEF Fund, CanPayCrossFee, CollectCrossFee, actor
  <1>2. MoneyType /\ StakeLedger /\ CollateralMirrored /\ FundsConserved
    BY DEF MoneyInv
  <1>3. fee \in Nat /\ net \in Nat /\ net = amount - fee
    BY <1>1, AmountsAssumption
  <1> HIDE DEF fee, net
  <1>4. /\ Rewards(fee) \in [Voters -> Nat]
        /\ Remainder(fee) \in Nat
        /\ SumFunction(Rewards(fee)) + Remainder(fee) = fee
    BY <1>1, <1>2, <1>3, RewardAddsUp DEF MoneyType
  <1>5. /\ subnet' \in SubnetType /\ subnet'.registered /\ subnet'.stake = subnet.stake
        /\ subnet'.status = subnet.status
        /\ subnet'.circ_supply = subnet.circ_supply + net
    BY <1>1, <1>2, <1>3, CommitTopdownMsgFields DEF MoneyType, Registered
  <1>6. SumFunction(cost) = -amount
    <2> DEFINE zero == [a \in Voters |-> 0]
    <2>1. /\ cost \in [Voters -> Int] /\ zero \in [Voters -> Int]
          /\ cost[addr] = -amount /\ zero[addr] = 0
          /\ \A a \in Voters : a # addr => cost[a] = zero[a]
      OBVIOUS
    <2>2. SumFunction(zero) = 0
      BY VotersAssumption, LedgerZero
    <2> HIDE DEF cost, zero
    <2>3. SumFunction(cost) = SumFunction(zero) - zero[addr] + cost[addr]
      BY <2>1, VotersAssumption, LedgerUpdate
    <2>4. QED
      BY <2>1, <2>2, <2>3
  <1>7. /\ wallet' \in [Voters -> Nat]
        /\ SumFunction(wallet') = SumFunction(wallet) + SumFunction(got)
        /\ SumFunction(got) = SumFunction(Rewards(fee)) + SumFunction(cost)
        /\ SumFunction(wallet) \in Nat /\ SumFunction(Rewards(fee)) \in Nat
    <2>1. wallet \in [Voters -> Nat] /\ wallet \in [Voters -> Int]
      BY <1>2 DEF MoneyType
    <2>2. /\ got \in [Voters -> Int] /\ cost \in [Voters -> Int]
          /\ Rewards(fee) \in [Voters -> Int]
          /\ \A a \in Voters : got[a] = Rewards(fee)[a] + cost[a]
      BY <1>4
    <2>3. /\ wallet' \in [Voters -> Nat] /\ wallet' \in [Voters -> Int]
          /\ \A a \in Voters : wallet'[a] = wallet[a] + got[a]
      <3> DEFINE new == [a \in Voters |->
                           wallet[a] + Rewards(fee)[a] - (IF a = addr THEN amount ELSE 0)]
      <3>1. ASSUME NEW a \in Voters
            PROVE  new[a] \in Nat /\ new[a] = wallet[a] + got[a]
        <4>1. wallet[a] \in Nat /\ Rewards(fee)[a] \in Nat
          BY <1>4, <2>1
        <4>2. CASE a = addr
          BY <1>1, <4>1, <4>2
        <4>3. CASE a # addr
          BY <4>1, <4>3
        <4>4. QED
          BY <4>2, <4>3
      <3>2. wallet' = new
        BY <1>1
      <3> HIDE DEF got
      <3>3. new \in [Voters -> Nat] /\ new \in [Voters -> Int]
        BY <3>1
      <3> HIDE DEF new
      <3>4. QED
        BY <3>1, <3>2, <3>3
    <2> HIDE DEF got, cost
    <2>4. SumFunction(got) = SumFunction(Rewards(fee)) + SumFunction(cost)
      BY <2>2, VotersAssumption, LedgerPlus
    <2>5. SumFunction(wallet') = SumFunction(wallet) + SumFunction(got)
      BY <2>1, <2>2, <2>3, VotersAssumption, LedgerPlus
    <2>6. SumFunction(wallet) \in Nat /\ SumFunction(Rewards(fee)) \in Nat
      BY <1>4, <2>1, VotersAssumption, LedgerTotal
    <2>7. QED
      BY <2>3, <2>4, <2>5, <2>6
  <1> HIDE DEF got, cost
  <1>8. /\ subnet.circ_supply \in Nat /\ subnet.stake \in Nat
        /\ gateway_balance \in Nat /\ actor_balance \in Nat
        /\ gateway_balance = subnet.stake + subnet.circ_supply
    BY <1>2 DEF MoneyType, SubnetType, FundsConserved
  <1>9. MoneyType'
    <2>1. gateway_balance' \in Nat
      BY <1>1, <1>3, <1>8
    <2>2. actor_balance' \in Nat
      BY <1>1, <1>4, <1>8
    <2>3. QED
      BY <1>1, <1>2, <1>5, <1>7, <2>1, <2>2 DEF MoneyType
  <1>10. StakeLedger'
    BY <1>1, <1>2 DEF StakeLedger
  <1>11. CollateralMirrored'
    BY <1>1, <1>2, <1>5 DEF CollateralMirrored, Registered
  <1>12. FundsConserved'
    <2>1. gateway_balance' = subnet'.stake + subnet'.circ_supply
      BY <1>1, <1>3, <1>5, <1>8
    <2>2. SumFunction(wallet') + actor_balance' + gateway_balance'
            = SumFunction(wallet) + actor_balance + gateway_balance
      BY <1>1, <1>3, <1>4, <1>6, <1>7, <1>8
    <2>3. QED
      BY <1>2, <2>1, <2>2 DEF FundsConserved
  <1>13. KilledClean'
    <2>1. status' # Killed
      BY <1>1, <1>2 DEF CollateralMirrored, Active, Inactive, Killed
    <2>2. QED
      BY <2>1 DEF KilledClean
  <1>14. Registered'
    BY <1>5 DEF Registered
  <1>15. QED
    BY <1>9, <1>10, <1>11, <1>12, <1>13, <1>14 DEF MoneyInv

-----------------------------------------------------------------------------

(* Votes and the chain of checkpoints. *)

VotesType ==
  /\ bottomup_checkpoint_voting \in VotingType
  /\ previous_executed_checkpoint_cid \in {c.cid : c \in Checkpoints} \cup {GenesisCid}
  /\ committed_checkpoints \in [Epochs -> Checkpoints \cup {NoVote}]
  /\ child_checks \in Seq({c.cid : c \in Checkpoints})
  /\ commits \in Seq([stake : Nat, total : Nat])

\* The voting is the one the constructor made, as far as its epochs go.
VotingFixed ==
  /\ SoundVoting(voting)
  /\ voting.genesis_epoch = GenesisEpoch
  /\ voting.submission_period = BottomupCheckPeriod

\* What CommittedChained needs to be inductive: there is no hole in the chain, before
\* the first commit the cid to chain to is the genesis cid, and nothing is committed
\* before the gateway knows the subnet.
ChainEnd ==
  /\ \A i \in DOMAIN child_checks :
       /\ GenesisEpoch + i * BottomupCheckPeriod \in Epochs
       /\ committed_checkpoints[GenesisEpoch + i * BottomupCheckPeriod] # NoVote
  /\ voting.last_voting_executed_epoch = GenesisEpoch =>
       previous_executed_checkpoint_cid = GenesisCid
  /\ status = Instantiated => voting.last_voting_executed_epoch = GenesisEpoch

ChainInv == VotesType /\ VotingFixed /\ CommittedChained /\ ChainEnd /\ BottomUpInOrder

\* abort_epoch, field by field.
LEMMA AbortEpochFields ==
  ASSUME NEW vt \in VotingType, SoundVoting(vt), NEW e \in Epochs
  PROVE  LET n == AbortEpoch(vt, e)
         IN  /\ n \in VotingType
             /\ SoundVoting(n)
             /\ n.genesis_epoch = vt.genesis_epoch
             /\ n.submission_period = vt.submission_period
             /\ n.last_voting_executed_epoch = vt.last_voting_executed_epoch
  <1> DEFINE queue == vt.executable_epoch_queue \ {e}
             m == [vt EXCEPT !.executable_epoch_queue = queue]
             s == Abort(vt.epoch_vote_submissions[e])
             n == AbortEpoch(vt, e)
  <1>1. queue \in SUBSET Epochs
    BY DEF VotingType
  <1>2. n = StoreSubmission(m, e, s)
    BY DEF AbortEpoch
  <1> HIDE DEF queue
  <1>3. /\ m \in VotingType
        /\ m.genesis_epoch = vt.genesis_epoch
        /\ m.submission_period = vt.submission_period
        /\ m.last_voting_executed_epoch = vt.last_voting_executed_epoch
        /\ m.epoch_vote_submissions = vt.epoch_vote_submissions
    BY <1>1 DEF VotingType
  <1> HIDE DEF m
  <1>4. s \in Submission /\ SoundSubmission(s, e)
    <2>1. /\ vt.epoch_vote_submissions[e] \in Submission
          /\ SoundSubmission(vt.epoch_vote_submissions[e], e)
      BY DEF VotingType, SoundVoting
    <2>2. QED
      BY <2>1, AbortFields, AbortSound
  <1> HIDE DEF s, n
  <1>5. /\ n \in VotingType
        /\ n.genesis_epoch = m.genesis_epoch
        /\ n.submission_period = m.submission_period
        /\ n.last_voting_executed_epoch = m.last_voting_executed_epoch
        /\ n.epoch_vote_submissions = [m.epoch_vote_submissions EXCEPT ![e] = s]
    BY <1>2, <1>3, <1>4, StoreSubmissionFields
  <1>6. SoundVoting(n)
    <2>1. vt.epoch_vote_submissions \in [Epochs -> Submission]
      BY DEF VotingType
    <2>2. QED
      BY <1>3, <1>4, <1>5, <2>1 DEF SoundVoting
  <1>7. QED
    BY <1>3, <1>5, <1>6 DEF n

\* A ballot leaves the executed epochs alone, and what it leads to is a checkpoint.
LEMMA CastVoteSound ==
  ASSUME MoneyType, VotesType, VotingFixed, NEW addr \in Voters, NEW ch \in Checkpoints
  PROVE  LET r == CastVote(addr, ch)
         IN  /\ r.voting \in VotingType
             /\ SoundVoting(r.voting)
             /\ r.voting.genesis_epoch = voting.genesis_epoch
             /\ r.voting.submission_period = voting.submission_period
             /\ r.voting.last_voting_executed_epoch = voting.last_voting_executed_epoch
             /\ ~NothingDue(r) /\ Decided(r) # NoVote => Decided(r) \in Checkpoints
  <1> DEFINE r == CastVote(addr, ch)
             vt == r.voting
  <1>1. /\ r = SubmitVote(voting, ch, ch.epoch, addr, stake[addr], total_stake)
        /\ voting \in VotingType /\ SoundVoting(voting) /\ ch \in Votes
        /\ ch.epoch \in Epochs /\ stake[addr] \in Nat /\ total_stake \in Nat
    BY CheckpointFields
       DEF CastVote, MoneyType, VotesType, VotingFixed, voting, Checkpoints
  <1> HIDE DEF r
  <1>2. /\ vt \in VotingType
        /\ SoundVoting(vt)
        /\ vt.genesis_epoch = voting.genesis_epoch
        /\ vt.submission_period = voting.submission_period
        /\ vt.last_voting_executed_epoch = voting.last_voting_executed_epoch
        /\ r.to_execute \in Votes \cup {NoVote}
    BY <1>1, SubmitVoteSound
  <1>3. ASSUME ~NothingDue(r), Decided(r) # NoVote PROVE Decided(r) \in Checkpoints
    <2>1. CASE r.to_execute # NoVote
      BY <1>2, <2>1 DEF Decided, Checkpoints
    <2>2. CASE r.to_execute = NoVote
      <3> DEFINE q == vt.executable_epoch_queue
                 s == vt.epoch_vote_submissions[Min(q)]
      <3>1. q # {} /\ q \in SUBSET Epochs /\ q \in SUBSET Nat
        BY <1>2, <1>3, <2>2, EpochsAssumption DEF NothingDue, HasDueEpoch, VotingType
      <3>2. Min(q) \in Epochs
        BY <3>1, MinIsFirst
      <3>3. s \in Submission
        BY <1>2, <3>2 DEF VotingType
      <3>4. Decided(r) = LoadMostVotedSubmission(s)
        BY <2>2 DEF Decided, NextExecutableVote
      <3> HIDE DEF s
      <3>5. QED
        BY <1>3, <3>3, <3>4 DEF LoadMostVotedSubmission, Submission, Checkpoints
    <2>3. QED
      BY <2>1, <2>2
  <1>4. QED
    BY <1>2, <1>3 DEF r

\* What every step but a commit does: the chain stays as it is, whatever happens to the
\* votes, and a subnet that is registered is registered with nothing committed.
ChainStays ==
  /\ voting' \in VotingType /\ SoundVoting(voting')
  /\ voting'.genesis_epoch = voting.genesis_epoch
  /\ voting'.submission_period = voting.submission_period
  /\ voting'.last_voting_executed_epoch = voting.last_voting_executed_epoch
  /\ previous_executed_checkpoint_cid' = previous_executed_checkpoint_cid
  /\ committed_checkpoints' = committed_checkpoints
  /\ child_checks' = child_checks /\ commits' = commits
  /\ status' = Instantiated => status = Instantiated
  /\ Registered' =>
       \/ /\ Registered
          /\ subnet'.prev_checkpoint = subnet.prev_checkpoint
          /\ subnet'.applied_bottomup_nonce = subnet.applied_bottomup_nonce
       \/ /\ voting.last_voting_executed_epoch = GenesisEpoch
          /\ subnet'.applied_bottomup_nonce = 0

\* What a commit does: won is chained, marked as executed in the voting vt that the
\* ballot left, and taken by the gateway.
ChainGrows(won, vt) ==
  /\ SoundVoting(vt)
  /\ vt.genesis_epoch = voting.genesis_epoch
  /\ vt.submission_period = voting.submission_period
  /\ vt.last_voting_executed_epoch = voting.last_voting_executed_epoch
  /\ IsChained(won)
  /\ CommitCheckpoint(vt, won)
  /\ CommitChildCheck(won)
  /\ status' = status
  /\ commits' \in Seq([stake : Nat, total : Nat])

\* Every other step keeps the chain.
LEMMA ChainFrame ==
  ASSUME ChainInv, ChainStays
  PROVE  ChainInv'
  <1>1. VotesType /\ VotingFixed /\ CommittedChained /\ ChainEnd /\ BottomUpInOrder
    BY DEF ChainInv
  <1> USE DEF ChainStays
  <1>2. VotesType'
    BY <1>1 DEF VotesType, voting
  <1>3. VotingFixed'
    BY <1>1 DEF VotingFixed
  <1>4. CommittedChained'
    BY <1>1 DEF CommittedChained
  <1>5. ChainEnd'
    BY <1>1 DEF ChainEnd
  <1>6. BottomUpInOrder'
    <2>1. CommittedEpochs' = CommittedEpochs
      BY DEF CommittedEpochs
    <2>2. ASSUME voting.last_voting_executed_epoch = GenesisEpoch
          PROVE  MessagesAt(committed_checkpoints, CommittedEpochs) = 0
      <3>1. ASSUME NEW e \in Epochs, committed_checkpoints[e] # NoVote PROVE FALSE
        <4>1. e <= GenesisEpoch /\ e \in Nat /\ BottomupCheckPeriod \in Nat \ {0}
          BY <1>1, <2>2, <3>1, EpochsAssumption, PeriodAssumption DEF CommittedChained
        <4>2. \/ e - BottomupCheckPeriod = GenesisEpoch
              \/ e - BottomupCheckPeriod \in Epochs
          BY <1>1, <3>1 DEF CommittedChained
        <4>3. QED
          BY <4>1, <4>2, EpochsAssumption DEF GenesisEpoch
      <3>2. CommittedEpochs = {}
        BY <3>1 DEF CommittedEpochs
      <3>3. QED
        BY <3>2, FS_EmptySet, SumRecursion DEF MessagesAt
    <2>3. QED
      BY <1>1, <2>1, <2>2 DEF BottomUpInOrder
  <1>7. QED
    BY <1>2, <1>3, <1>4, <1>5, <1>6 DEF ChainInv

\* Counting messages looks only at the epochs counted.
LEMMA MessagesAtSame ==
  ASSUME NEW E, IsFiniteSet(E), NEW cc, NEW dd, \A e \in E : cc[e] = dd[e],
         \A e \in E : Len(cc[e].msgs) \in Nat
  PROVE  MessagesAt(cc, E) = MessagesAt(dd, E) /\ MessagesAt(cc, E) \in Nat
  <1> DEFINE f == [e \in E |-> Len(cc[e].msgs)]
             g == [e \in E |-> Len(dd[e].msgs)]
  <1>1. /\ \A e \in E : f[e] = g[e] /\ f[e] \in Nat
        /\ MessagesAt(cc, E) = SumFunctionOnSet(f, E)
        /\ MessagesAt(dd, E) = SumFunctionOnSet(g, E)
    BY DEF MessagesAt
  <1> HIDE DEF f, g
  <1>2. SumFunctionOnSet(f, E) = SumFunctionOnSet(g, E) /\ SumFunctionOnSet(f, E) \in Nat
    BY <1>1, SumSame, SumNat
  <1>3. QED
    BY <1>1, <1>2

\* Counting messages, one epoch more.
LEMMA MessagesAtMore ==
  ASSUME NEW E, IsFiniteSet(E), NEW dd, NEW e, e \notin E,
         \A x \in E \cup {e} : Len(dd[x].msgs) \in Nat
  PROVE  MessagesAt(dd, E \cup {e}) = Len(dd[e].msgs) + MessagesAt(dd, E)
  <1> DEFINE g == [x \in E |-> Len(dd[x].msgs)]
             h == [x \in E \cup {e} |-> Len(dd[x].msgs)]
  <1>1. /\ h[e] = Len(dd[e].msgs) /\ \A x \in E : h[x] = g[x]
        /\ MessagesAt(dd, E) = SumFunctionOnSet(g, E)
        /\ MessagesAt(dd, E \cup {e}) = SumFunctionOnSet(h, E \cup {e})
        /\ \A x \in E \cup {e} : h[x] \in Int
    BY DEF MessagesAt
  <1> HIDE DEF g, h
  <1>2. SumFunctionOnSet(h, E \cup {e}) = h[e] + SumFunctionOnSet(h, E)
    BY <1>1, SumAdd
  <1>3. SumFunctionOnSet(h, E) = SumFunctionOnSet(g, E)
    BY <1>1, SumSame
  <1>4. QED
    BY <1>1, <1>2, <1>3

\* The commit of the next checkpoint in line extends the chain by one.
LEMMA CommitChain ==
  ASSUME MoneyInv, ChainInv, NEW won \in Checkpoints, NEW vt \in VotingType,
         ChainGrows(won, vt)
  PROVE  ChainInv'
  <1> USE DEF ChainGrows
  <1> DEFINE last == voting.last_voting_executed_epoch
             B    == BottomupCheckPeriod
             e    == won.epoch
             cc   == committed_checkpoints
             n    == Len(child_checks)
  <1>1. VotesType /\ VotingFixed /\ CommittedChained /\ ChainEnd /\ BottomUpInOrder
    BY DEF ChainInv
  <1>2. /\ voting' = MarkEpochExecuted(vt, e)
        /\ previous_executed_checkpoint_cid' = won.cid
        /\ cc' = [cc EXCEPT ![e] = won]
        /\ IsNextExecutableEpoch(vt, e)
    BY DEF CommitCheckpoint, CanMarkEpochExecuted, voting
  <1>3. /\ Registered /\ subnet' = RecordCheckpoint(subnet, won)
        /\ status = Active
        /\ child_checks' = Append(child_checks, won.cid)
        /\ \A i \in DOMAIN won.msgs : won.msgs[i].nonce = subnet.applied_bottomup_nonce + i - 1
    BY DEF CommitChildCheck, CanCommitChildCheck, CanApplyMsgs, MoneyInv, CollateralMirrored
  <1>4. /\ e \in Epochs /\ e \in Nat /\ last \in Nat /\ B \in Nat \ {0}
        /\ e = last + B /\ e > last /\ e # GenesisEpoch
    BY <1>1, <1>2, CheckpointFields, PeriodAssumption
       DEF IsNextExecutableEpoch, VotesType, VotingType, VotingFixed, voting, GenesisEpoch
  <1>5. /\ voting' \in VotingType /\ SoundVoting(voting')
        /\ voting'.genesis_epoch = voting.genesis_epoch
        /\ voting'.submission_period = voting.submission_period
        /\ voting'.last_voting_executed_epoch = e
    BY <1>2, <1>4, MarkEpochExecutedFields, MarkSound
  <1>6. /\ cc \in [Epochs -> Checkpoints \cup {NoVote}]
        /\ cc' \in [Epochs -> Checkpoints \cup {NoVote}]
        /\ cc'[e] = won /\ \A f \in Epochs : f # e => cc'[f] = cc[f]
    BY <1>1, <1>2, <1>4 DEF VotesType
  <1>7. \A f \in Epochs : f \in Nat /\ (cc[f] # NoVote => f <= last)
    BY <1>1, EpochsAssumption DEF CommittedChained
  <1>8. /\ child_checks \in Seq({c.cid : c \in Checkpoints})
        /\ child_checks' \in Seq({c.cid : c \in Checkpoints})
        /\ n \in Nat /\ Len(child_checks') = n + 1
        /\ DOMAIN child_checks = 1..n /\ DOMAIN child_checks' = 1..(n + 1)
        /\ \A i \in 1..n : child_checks'[i] = child_checks[i]
        /\ child_checks'[n + 1] = won.cid
    <2> DEFINE Cids == {c.cid : c \in Checkpoints}
    <2>1. child_checks \in Seq(Cids) /\ won.cid \in Cids
      BY <1>1 DEF VotesType
    <2> HIDE DEF Cids
    <2>2. /\ child_checks' \in Seq(Cids)
          /\ n \in Nat /\ Len(child_checks') = n + 1
          /\ DOMAIN child_checks = 1..n /\ DOMAIN child_checks' = 1..(n + 1)
          /\ \A i \in 1..n : child_checks'[i] = child_checks[i]
          /\ child_checks'[n + 1] = won.cid
      BY <1>3, <2>1
    <2>3. QED
      BY <2>1, <2>2 DEF Cids
  <1>9. n * B = last
    BY <1>1, <1>4, <1>8 DEF CommittedChained, GenesisEpoch
  <1>10. (n + 1) * B = e /\ \A i \in 1..n : i * B \in Nat /\ i * B <= last /\ i * B # e
    <2> HIDE DEF B, n, last, e
    <2>1. (n + 1) * B = n * B + B
      BY <1>4, <1>8
    <2>2. \A i \in 1..n : i * B \in Nat /\ i * B <= n * B
      BY <1>4, <1>8
    <2>3. (n + 1) * B = e
      BY <1>4, <1>9, <2>1
    <2>4. ASSUME NEW i \in 1..n PROVE i * B \in Nat /\ i * B <= last /\ i * B # e
      <3> DEFINE p == i * B
      <3>1. p \in Nat /\ p <= last
        BY <1>9, <2>2
      <3> HIDE DEF p
      <3>2. p \in Nat /\ p <= last /\ p # e
        BY <1>4, <3>1
      <3>3. QED
        BY <3>2 DEF p
    <2>5. QED
      BY <2>3, <2>4
  <1>11. won.prev = previous_executed_checkpoint_cid
    BY DEF IsChained
  <1>12. /\ subnet \in SubnetType /\ TotalValue(won) + won.fee \in Nat
         /\ subnet.circ_supply >= TotalValue(won) + won.fee
    <2>1. subnet \in SubnetType
      BY DEF MoneyInv, MoneyType
    <2>2. won.fee \in Nat /\ TotalValue(won) \in Nat
      BY CheckpointFields, PaymentsAddUp
    <2>3. subnet.circ_supply >= TotalValue(won) + won.fee
      BY DEF CommitChildCheck, CanCommitChildCheck, CanReleaseSupply
    <2>4. QED
      BY <2>1, <2>2, <2>3
  <1>13. VotesType'
    <2>1. won.cid \in {c.cid : c \in Checkpoints} \cup {GenesisCid}
      OBVIOUS
    <2>2. QED
      BY <1>2, <1>5, <1>6, <1>8, <2>1 DEF VotesType, voting
  <1>14. VotingFixed'
    BY <1>1, <1>5 DEF VotingFixed
  <1>15. CommittedChained'
    <2>1. ASSUME NEW f \in Epochs, cc'[f] # NoVote
          PROVE  /\ cc'[f].epoch = f /\ f <= e
                 /\ IF f - B = GenesisEpoch THEN cc'[f].prev = GenesisCid
                    ELSE /\ f - B \in Epochs
                         /\ cc'[f - B] # NoVote
                         /\ cc'[f].prev = cc'[f - B].cid
      <3>1. CASE f # e
        <4>1. /\ cc[f] # NoVote /\ cc'[f] = cc[f] /\ f <= last /\ f \in Nat
              /\ f - B # e /\ f <= e
          BY <1>4, <1>6, <1>7, <2>1, <3>1
        <4>2. /\ cc[f].epoch = f
              /\ IF f - B = GenesisEpoch THEN cc[f].prev = GenesisCid
                 ELSE /\ f - B \in Epochs
                      /\ cc[f - B] # NoVote
                      /\ cc[f].prev = cc[f - B].cid
          BY <1>1, <4>1 DEF CommittedChained
        <4> HIDE DEF cc, B, e, last
        <4>3. QED
          BY <1>6, <4>1, <4>2
      <3>2. CASE f = e
        <4>1. cc'[f] = won /\ f - B = last /\ won # NoVote
          BY <1>4, <1>6, <3>2, CheckpointFields
        <4>2. CASE last = GenesisEpoch
          BY <1>1, <1>4, <1>11, <3>2, <4>1, <4>2 DEF ChainEnd
        <4>3. CASE last # GenesisEpoch
          <5>1. last \in Epochs /\ cc[last] # NoVote
            <6>1. n \in DOMAIN child_checks
              BY <1>4, <1>8, <1>9, <4>3 DEF GenesisEpoch
            <6>2. GenesisEpoch + n * B = last
              BY <1>4, <1>9 DEF GenesisEpoch
            <6>3. QED
              BY <1>1, <6>1, <6>2 DEF ChainEnd
          <5>2. previous_executed_checkpoint_cid = cc[last].cid
            BY <1>1, <4>3 DEF CommittedChained
          <5>3. cc'[last] = cc[last]
            BY <1>4, <1>6, <5>1
          <5>4. QED
            BY <1>4, <1>11, <3>2, <4>1, <4>3, <5>1, <5>2, <5>3
        <4>4. QED
          BY <4>2, <4>3
      <3>3. QED
        BY <3>1, <3>2
    <2>2. subnet'.prev_checkpoint = won
      BY <1>3, <1>12, RecordCheckpointFields
    <2>3. GenesisEpoch + Len(child_checks') * B = e
      BY <1>4, <1>8, <1>10 DEF GenesisEpoch
    <2>4. ASSUME NEW i \in DOMAIN child_checks'
          PROVE  child_checks'[i] = cc'[GenesisEpoch + i * B].cid
      <3>1. CASE i = n + 1
        <4>1. GenesisEpoch + i * B = e
          BY <1>4, <1>10, <3>1 DEF GenesisEpoch
        <4>2. QED
          BY <1>6, <1>8, <3>1, <4>1
      <3>2. CASE i \in 1..n
        <4> DEFINE p == GenesisEpoch + i * B
        <4>1. p # e
          BY <1>10, <3>2 DEF GenesisEpoch
        <4>2. p \in Epochs
          BY <1>1, <1>8, <3>2 DEF ChainEnd
        <4>3. child_checks[i] = cc[p].cid
          BY <1>1, <1>8, <3>2 DEF CommittedChained
        <4> HIDE DEF p, cc, e
        <4>4. child_checks'[i] = cc'[p].cid
          BY <1>6, <1>8, <3>2, <4>1, <4>2, <4>3
        <4>5. QED
          BY <4>4 DEF p, cc
      <3>3. QED
        BY <1>8, <3>1, <3>2
    <2>5. QED
      BY <1>2, <1>4, <1>5, <1>6, <2>1, <2>2, <2>3, <2>4 DEF CommittedChained
  <1>16. ChainEnd'
    <2>1. ASSUME NEW i \in DOMAIN child_checks'
          PROVE  GenesisEpoch + i * B \in Epochs /\ cc'[GenesisEpoch + i * B] # NoVote
      <3>1. CASE i = n + 1
        <4>1. GenesisEpoch + i * B = e
          BY <1>4, <1>10, <3>1 DEF GenesisEpoch
        <4>2. QED
          BY <1>4, <1>6, <4>1, CheckpointFields
      <3>2. CASE i \in 1..n
        <4> DEFINE p == GenesisEpoch + i * B
        <4>1. p # e
          BY <1>10, <3>2 DEF GenesisEpoch
        <4>2. p \in Epochs /\ cc[p] # NoVote
          BY <1>1, <1>8, <3>2 DEF ChainEnd
        <4> HIDE DEF p, cc, e
        <4>3. p \in Epochs /\ cc'[p] # NoVote
          BY <1>6, <4>1, <4>2
        <4>4. QED
          BY <4>3 DEF p, cc
      <3>3. QED
        BY <1>8, <3>1, <3>2
    <2>2. status' # Instantiated
      BY <1>3 DEF Active, Instantiated
    <2>3. QED
      BY <1>4, <1>5, <2>1, <2>2 DEF ChainEnd
  <1>17. BottomUpInOrder'
    <2> DEFINE C == CommittedEpochs
               M == MessagesAt(cc, C)
    <2>1. C \in SUBSET Epochs /\ IsFiniteSet(C) /\ e \notin C
      <3>1. C \in SUBSET Epochs /\ C \in SUBSET Nat /\ \A f \in C : f <= last
        BY <1>7 DEF CommittedEpochs
      <3>2. IsFiniteSet(C)
        BY <1>4, <3>1, FS_BoundedSetOfNaturals
      <3>3. QED
        BY <1>4, <3>1, <3>2
    <2>2. CommittedEpochs' = C \cup {e}
      BY <1>4, <1>6, CheckpointFields DEF CommittedEpochs
    <2>3. \A f \in C : /\ f < e /\ cc'[f] = cc[f] /\ cc[f] \in Checkpoints
                       /\ Len(cc[f].msgs) \in Nat
      <3>1. ASSUME NEW f \in C
            PROVE  f < e /\ cc'[f] = cc[f] /\ cc[f] \in Checkpoints
        BY <1>4, <1>6, <1>7 DEF CommittedEpochs
      <3>2. QED
        BY <3>1, CheckpointFields
    <2>4. subnet.applied_bottomup_nonce = M
      BY <1>1, <1>3 DEF BottomUpInOrder
    <2> HIDE DEF C
    <2>5. /\ MessagesAt(cc', C) = M
          /\ MessagesAt(cc', C \cup {e}) = Len(won.msgs) + M
      <3>1. Len(cc'[e].msgs) \in Nat /\ cc'[e] = won
        BY <1>6, CheckpointFields
      <3> DEFINE dd == cc'
      <3>2. \A f \in C : dd[f] = cc[f] /\ Len(cc[f].msgs) \in Nat
        BY <2>3
      <3>3. Len(dd[e].msgs) \in Nat /\ dd[e] = won
        BY <3>1
      <3> HIDE DEF cc, e, dd
      <3>4. MessagesAt(dd, C) = MessagesAt(cc, C)
        BY <2>1, <3>2, MessagesAtSame
      <3>5. MessagesAt(dd, C \cup {e}) = Len(dd[e].msgs) + MessagesAt(dd, C)
        <4>1. \A x \in C \cup {e} : Len(dd[x].msgs) \in Nat
          BY <3>2, <3>3
        <4>2. QED
          BY <2>1, <4>1, MessagesAtMore
      <3>6. QED
        BY <3>3, <3>4, <3>5 DEF dd
    <2>6. ASSUME NEW f \in C \cup {e}, NEW i \in DOMAIN cc'[f].msgs
          PROVE  cc'[f].msgs[i].nonce
                   = MessagesAt(cc', {g \in C \cup {e} : g < f}) + i - 1
      <3>1. CASE f = e
        <4>1. {g \in C \cup {e} : g < f} = C
          BY <1>4, <2>3, <3>1
        <4>2. cc'[f] = won
          BY <1>6, <3>1
        <4>3. QED
          BY <1>3, <2>4, <2>5, <2>6, <4>1, <4>2
      <3>2. CASE f \in C
        <4> DEFINE before == {g \in C : g < f}
        <4>1. {g \in C \cup {e} : g < f} = before
          BY <1>4, <1>7, <2>1, <2>3, <3>2
        <4>2. IsFiniteSet(before) /\ before \in SUBSET C
          BY <2>1, FS_Subset
        <4>3. cc[f].msgs[i].nonce = MessagesAt(cc, before) + i - 1
          BY <1>1, <2>3, <2>6, <3>2 DEF BottomUpInOrder, C
        <4> HIDE DEF before, cc
        <4>4. MessagesAt(cc', before) = MessagesAt(cc, before)
          BY <2>3, <4>2, MessagesAtSame
        <4>5. QED
          BY <2>3, <3>2, <4>1, <4>3, <4>4
      <3>3. QED
        BY <3>1, <3>2
    <2>7. subnet'.applied_bottomup_nonce = M + Len(won.msgs)
      BY <1>3, <1>12, <2>4, RecordCheckpointFields
    <2>8. M \in Nat /\ Len(won.msgs) \in Nat
      BY <2>4, CheckpointFields DEF MoneyInv, MoneyType, SubnetType
    <2> HIDE DEF M
    <2>9. QED
      BY <2>2, <2>5, <2>6, <2>7, <2>8 DEF BottomUpInOrder
  <1>18. QED
    BY <1>13, <1>14, <1>15, <1>16, <1>17 DEF ChainInv

-----------------------------------------------------------------------------

(* The inductive invariant. *)

\* The money and the chain together: a commit extends the chain because the gateway,
\* whose status copy agrees with the actor's, lets it, and it may only be refused or
\* applied as a whole.
IInv == MoneyInv /\ ChainInv

\* A new subnet: no stake, no vote, no checkpoint.
LEMMA InitGood ==
  ASSUME Init
  PROVE  IInv
  <1> DEFINE vt == NewVoting(GenesisEpoch, BottomupCheckPeriod)
  <1>1. /\ vt \in VotingType /\ SoundVoting(vt)
        /\ vt.genesis_epoch = GenesisEpoch
        /\ vt.submission_period = BottomupCheckPeriod
        /\ vt.last_voting_executed_epoch = GenesisEpoch
    BY PeriodAssumption, NewVotingSound DEF GenesisEpoch
  <1> HIDE DEF vt
  <1>2. voting = vt
    BY DEF Init, voting, vt
  <1>3. /\ status = Instantiated /\ total_stake = 0 /\ actor_balance = 0
        /\ stake = [a \in Voters |-> 0] /\ validator_set = [a \in Voters |-> 0]
        /\ subnet = NotRegistered /\ gateway_balance = 0 /\ wallet = InitialFunds
        /\ committed_checkpoints = [e \in Epochs |-> NoVote]
        /\ previous_executed_checkpoint_cid = GenesisCid
        /\ child_checks = <<>> /\ commits = <<>>
    BY DEF Init
  <1>4. /\ NotRegistered \in SubnetType /\ ~NotRegistered.registered
        /\ NotRegistered.stake = 0 /\ NotRegistered.circ_supply = 0
    BY FreshRecords
  <1>5. SumFunction(InitialFunds) \in Nat /\ InitialFunds \in [Voters -> Nat]
    BY AmountsAssumption, VotersAssumption, LedgerTotal
  <1>6. MoneyInv
    <2>1. MoneyType
      BY <1>3, <1>4, <1>5 DEF MoneyType
    <2>2. StakeLedger
      <3>1. SumFunction(stake) = 0
        BY <1>3, VotersAssumption, LedgerZero
      <3>2. \A a \in Voters : stake[a] = 0 /\ validator_set[a] = 0
        BY <1>3
      <3>3. QED
        BY <1>3, <3>1, <3>2 DEF StakeLedger
    <2>3. CollateralMirrored /\ KilledClean
      BY <1>3, <1>4
         DEF CollateralMirrored, KilledClean, Registered, Instantiated, Active, Inactive, Killed
    <2>4. FundsConserved
      BY <1>3, <1>4, <1>5 DEF FundsConserved
    <2>5. QED
      BY <1>3, <2>1, <2>2, <2>3, <2>4 DEF MoneyInv
  <1>7. ChainInv
    <2>1. /\ Len(child_checks) = 0 /\ DOMAIN child_checks = {}
          /\ ~Registered /\ \A e \in Epochs : committed_checkpoints[e] = NoVote
      BY <1>3, <1>4 DEF Registered
    <2>2. VotesType
      BY <1>1, <1>2, <1>3 DEF VotesType, voting
    <2>3. VotingFixed /\ ChainEnd
      BY <1>1, <1>2, <1>3, <2>1 DEF VotingFixed, ChainEnd
    <2>4. CommittedChained
      BY <1>1, <1>2, <2>1, PeriodAssumption DEF CommittedChained, GenesisEpoch
    <2>5. BottomUpInOrder
      BY <2>1 DEF BottomUpInOrder, CommittedEpochs
    <2>6. QED
      BY <2>2, <2>3, <2>4, <2>5 DEF ChainInv
  <1>8. QED
    BY <1>6, <1>7 DEF IInv

\* join, in its three forms.
LEMMA JoinStays ==
  ASSUME IInv, NEW addr \in Voters, NEW amount \in JoinAmounts, Join(addr, amount)
  PROVE  MoneyInv' /\ ChainStays
  <1>1. MoneyInv /\ ChainInv /\ amount \in Nat
    BY AmountsAssumption DEF IInv
  <1>2. /\ wallet[addr] >= amount
        /\ bottomup_checkpoint_voting' = bottomup_checkpoint_voting
        /\ previous_executed_checkpoint_cid' = previous_executed_checkpoint_cid
        /\ committed_checkpoints' = committed_checkpoints
        /\ child_checks' = child_checks /\ commits' = commits
    BY DEF Join
  <1>3. /\ voting' = voting /\ voting' \in VotingType /\ SoundVoting(voting')
    BY <1>1, <1>2 DEF ChainInv, VotesType, VotingFixed, voting
  <1>4. /\ MoneyType /\ CollateralMirrored
        /\ status = Instantiated => voting.last_voting_executed_epoch = GenesisEpoch
    BY <1>1 DEF MoneyInv, ChainInv, ChainEnd
  <1>5. MoneyInv'
    BY <1>1, <1>2, JoinUnregisteredMoney, JoinRegisterMoney, JoinAddStakeMoney DEF Join
  <1>6. ASSUME status' = Instantiated PROVE status = Instantiated
    <2>1. total_stake' \in Nat /\ status' = MutateState(status, total_stake')
      BY <1>5 DEF Join, JoinUnregistered, JoinRegister, JoinAddStake, MoneyInv, MoneyType
    <2>2. CASE JoinAddStake(addr, amount)
      <3>1. status \in {Active, Inactive}
        BY <1>4, <2>2 DEF JoinAddStake, GatewayAddStake, CollateralMirrored
      <3>2. status' \in {Active, Inactive}
        BY <2>1, <3>1, MutateStateCases
      <3>3. QED
        BY <1>6, <3>2 DEF Instantiated, Active, Inactive
    <2>3. CASE ~JoinAddStake(addr, amount)
      BY <2>3 DEF Join, JoinUnregistered, JoinRegister
    <2>4. QED
      BY <2>2, <2>3
  <1>7. \/ subnet' = subnet
        \/ /\ status = Instantiated
           /\ subnet' = RegisterSubnet(total_stake') /\ total_stake' \in Nat
        \/ Registered /\ subnet' = SubnetAddStake(subnet, amount)
    BY <1>5 DEF Join, JoinUnregistered, JoinRegister, JoinAddStake, GatewayRegister,
                GatewayAddStake, MoneyInv, MoneyType
  <1>8. Registered' =>
          \/ /\ Registered
             /\ subnet'.prev_checkpoint = subnet.prev_checkpoint
             /\ subnet'.applied_bottomup_nonce = subnet.applied_bottomup_nonce
          \/ /\ voting.last_voting_executed_epoch = GenesisEpoch
             /\ subnet'.applied_bottomup_nonce = 0
    <2>1. CASE subnet' = subnet
      BY <2>1 DEF Registered
    <2>2. CASE /\ status = Instantiated
               /\ subnet' = RegisterSubnet(total_stake') /\ total_stake' \in Nat
      BY <1>4, <2>2 DEF RegisterSubnet
    <2>3. CASE Registered /\ subnet' = SubnetAddStake(subnet, amount)
      BY <1>4, <2>3 DEF SubnetAddStake, MoneyType, SubnetType
    <2>4. QED
      BY <1>7, <2>1, <2>2, <2>3
  <1>9. QED
    BY <1>5, <1>1, <1>2, <1>3, <1>6, <1>8 DEF ChainStays

\* leave
LEMMA LeaveStays ==
  ASSUME IInv, NEW addr \in Voters, Leave(addr)
  PROVE  MoneyInv' /\ ChainStays
  <1>1. MoneyInv /\ ChainInv
    BY DEF IInv
  <1>2. MoneyInv'
    BY <1>1, LeaveMoney
  <1>3. /\ bottomup_checkpoint_voting' = bottomup_checkpoint_voting
        /\ previous_executed_checkpoint_cid' = previous_executed_checkpoint_cid
        /\ committed_checkpoints' = committed_checkpoints
        /\ child_checks' = child_checks /\ commits' = commits
        /\ Registered /\ subnet' = SubnetAddStake(subnet, -stake[addr])
        /\ status' = MutateState(status, total_stake')
    BY DEF Leave, GatewayReleaseStake
  <1>4. /\ voting' = voting /\ voting' \in VotingType /\ SoundVoting(voting')
    BY <1>1, <1>3 DEF ChainInv, VotesType, VotingFixed, voting
  <1>5. status' \in {Active, Inactive}
    BY <1>1, <1>2, <1>3, MutateStateCases DEF MoneyInv, CollateralMirrored, MoneyType
  <1>6. /\ subnet'.prev_checkpoint = subnet.prev_checkpoint
        /\ subnet'.applied_bottomup_nonce = subnet.applied_bottomup_nonce
    <2>1. subnet \in SubnetType
      BY <1>1 DEF MoneyInv, MoneyType
    <2>2. QED
      BY <1>3, <2>1 DEF SubnetAddStake, SubnetType
  <1>7. status' # Instantiated
    BY <1>5 DEF Instantiated, Active, Inactive
  <1>8. QED
    BY <1>2, <1>1, <1>3, <1>4, <1>6, <1>7 DEF ChainStays

\* kill
LEMMA KillStays ==
  ASSUME IInv, Kill
  PROVE  MoneyInv' /\ ChainStays
  <1>1. MoneyInv /\ ChainInv
    BY DEF IInv
  <1>2. MoneyInv'
    BY <1>1, KillMoney
  <1>3. /\ bottomup_checkpoint_voting' = bottomup_checkpoint_voting
        /\ previous_executed_checkpoint_cid' = previous_executed_checkpoint_cid
        /\ committed_checkpoints' = committed_checkpoints
        /\ child_checks' = child_checks /\ commits' = commits
        /\ subnet' = NotRegistered /\ total_stake = 0
        /\ status' = MutateState(Terminating, total_stake)
    BY DEF Kill, GatewayKill
  <1>4. /\ voting' = voting /\ voting' \in VotingType /\ SoundVoting(voting')
    BY <1>1, <1>3 DEF ChainInv, VotesType, VotingFixed, voting
  <1>5. status' # Instantiated
    BY <1>3, MutateStateCases DEF Killed, Instantiated
  <1>6. ~Registered'
    BY <1>3, FreshRecords DEF Registered
  <1>7. QED
    BY <1>2, <1>1, <1>3, <1>4, <1>5, <1>6 DEF ChainStays

\* Nothing moves but the votes.
LEMMA VotesOnly ==
  ASSUME IInv,
         voting' \in VotingType, SoundVoting(voting'),
         voting'.genesis_epoch = voting.genesis_epoch,
         voting'.submission_period = voting.submission_period,
         voting'.last_voting_executed_epoch = voting.last_voting_executed_epoch,
         UNCHANGED <<status, total_stake, stake, validator_set,
                     previous_executed_checkpoint_cid, committed_checkpoints, subnet,
                     actor_balance, gateway_balance, wallet, child_checks, commits>>
  PROVE  MoneyInv' /\ ChainStays
  <1>1. MoneyInv /\ ChainInv
    BY DEF IInv
  <1>2. MoneyInv'
    <2>1. MoneyType'
      BY <1>1 DEF MoneyInv, MoneyType
    <2>2. StakeLedger' /\ CollateralMirrored' /\ FundsConserved' /\ KilledClean'
      BY <1>1 DEF MoneyInv, StakeLedger, CollateralMirrored, FundsConserved, KilledClean,
                  Registered
    <2>3. (~Registered => subnet = NotRegistered)'
      BY <1>1 DEF MoneyInv, Registered
    <2>4. QED
      BY <2>1, <2>2, <2>3 DEF MoneyInv
  <1>3. QED
    BY <1>2 DEF ChainStays, Registered

\* submit_checkpoint, whether it commits, aborts or only counts the ballot.
LEMMA SubmitCheckpointMoves ==
  ASSUME IInv, NEW addr \in Voters, NEW ch \in Checkpoints, SubmitCheckpoint(addr, ch)
  PROVE  /\ MoneyInv'
         /\ \/ ChainStays
            \/ \E won \in Checkpoints, vt \in VotingType : ChainGrows(won, vt)
  <1> DEFINE r   == CastVote(addr, ch)
             won == Decided(r)
  <1>1. /\ MoneyInv /\ ChainInv /\ MoneyType /\ VotesType /\ VotingFixed
    BY DEF IInv, MoneyInv, ChainInv
  <1>2. /\ r.voting \in VotingType
        /\ SoundVoting(r.voting)
        /\ r.voting.genesis_epoch = voting.genesis_epoch
        /\ r.voting.submission_period = voting.submission_period
        /\ r.voting.last_voting_executed_epoch = voting.last_voting_executed_epoch
        /\ ~NothingDue(r) /\ Decided(r) # NoVote => Decided(r) \in Checkpoints
    BY <1>1, CastVoteSound
  <1> HIDE DEF r
  <1>3. CASE SubmitOnly(addr, ch)
    <2>1. voting' = r.voting
      BY <1>3 DEF SubmitOnly, voting, r
    <2>2. QED
      BY <1>2, <1>3, <2>1, VotesOnly DEF SubmitOnly
  <1>4. CASE SubmitUnchained(addr, ch)
    <2>1. /\ ~NothingDue(r) /\ won # NoVote
          /\ voting' = AbortEpoch(r.voting, won.epoch)
      BY <1>4 DEF SubmitUnchained, voting, r
    <2>2. won.epoch \in Epochs
      BY <1>2, <2>1, CheckpointFields
    <2>3. /\ voting' \in VotingType /\ SoundVoting(voting')
          /\ voting'.genesis_epoch = voting.genesis_epoch
          /\ voting'.submission_period = voting.submission_period
          /\ voting'.last_voting_executed_epoch = voting.last_voting_executed_epoch
      BY <1>2, <2>1, <2>2, AbortEpochFields
    <2>4. QED
      BY <1>4, <2>3, VotesOnly DEF SubmitUnchained
  <1>5. CASE SubmitAndCommit(addr, ch)
    <2>1. /\ ~NothingDue(r) /\ won # NoVote
          /\ IsChained(won)
          /\ CommitCheckpoint(r.voting, won)
          /\ CommitChildCheck(won)
          /\ CanReward(won.fee)
          /\ actor_balance' = actor_balance + Remainder(won.fee)
          /\ wallet' = [a \in Voters |->
                          wallet[a] + Rewards(won.fee)[a] + PaidTo(won, a)]
          /\ commits' = Append(commits, [stake |-> StakeOfVoters(addr, ch, won),
                                         total |-> total_stake])
          /\ UNCHANGED <<status, total_stake, stake, validator_set>>
      BY <1>5 DEF SubmitAndCommit, r
    <2>2. won \in Checkpoints
      BY <1>2, <2>1
    <2>3. StakeOfVoters(addr, ch, won) \in Nat
      <3> DEFINE cast == voting.epoch_vote_submissions[won.epoch].submitters
                 S == IF won.epoch = ch.epoch THEN cast \cup {addr} ELSE cast
      <3>1. cast \in SUBSET Voters
        <4>1. voting.epoch_vote_submissions[won.epoch] \in Submission
          BY <1>1, <2>2, CheckpointFields DEF VotesType, VotingType, voting
        <4>2. QED
          BY <4>1 DEF Submission
      <3>2. S \in SUBSET Voters /\ StakeOfVoters(addr, ch, won) = SumFunctionOnSet(stake, S)
        BY <3>1 DEF StakeOfVoters
      <3>3. \A a \in Voters : stake[a] \in Nat
        BY <1>1 DEF MoneyType
      <3> HIDE DEF S
      <3>4. QED
        BY <3>2, <3>3, SumNat, VotersAssumption
    <2> HIDE DEF won
    <2>4. commits' \in Seq([stake : Nat, total : Nat])
      <3> DEFINE c == [stake |-> StakeOfVoters(addr, ch, won), total |-> total_stake]
                 T == [stake : Nat, total : Nat]
      <3>1. c \in T /\ commits \in Seq(T) /\ commits' = Append(commits, c)
        BY <1>1, <2>1, <2>3 DEF VotesType, MoneyType
      <3> HIDE DEF c, T
      <3>2. commits' \in Seq(T)
        BY <3>1
      <3>3. QED
        BY <3>2 DEF T
    <2>5. MoneyInv'
      BY <1>1, <2>1, <2>2, CommitMoney
    <2>6. ChainGrows(won, r.voting)
      BY <1>2, <2>1, <2>4 DEF ChainGrows
    <2>7. QED
      BY <1>2, <2>2, <2>5, <2>6
  <1>6. QED
    BY <1>3, <1>4, <1>5 DEF SubmitCheckpoint

\* fund
LEMMA FundStays ==
  ASSUME IInv, NEW addr \in Voters, NEW amount \in FundAmounts, Fund(addr, amount)
  PROVE  MoneyInv' /\ ChainStays
  <1>1. MoneyInv /\ ChainInv /\ amount \in Nat
    BY AmountsAssumption DEF IInv
  <1>2. MoneyInv'
    BY <1>1, FundMoney
  <1>3. /\ bottomup_checkpoint_voting' = bottomup_checkpoint_voting
        /\ previous_executed_checkpoint_cid' = previous_executed_checkpoint_cid
        /\ committed_checkpoints' = committed_checkpoints /\ status' = status
        /\ child_checks' = child_checks /\ commits' = commits
        /\ Registered /\ subnet' = CommitTopdownMsg(subnet, CollectCrossFee(amount))
    BY DEF Fund, actor
  <1>4. /\ voting' = voting /\ voting' \in VotingType /\ SoundVoting(voting')
    BY <1>1, <1>3 DEF ChainInv, VotesType, VotingFixed, voting
  <1>5. /\ subnet'.prev_checkpoint = subnet.prev_checkpoint
        /\ subnet'.applied_bottomup_nonce = subnet.applied_bottomup_nonce
    <2>1. subnet \in SubnetType
      BY <1>1 DEF MoneyInv, MoneyType
    <2>2. QED
      BY <1>3, <2>1 DEF CommitTopdownMsg, SubnetType
  <1>6. QED
    BY <1>2, <1>1, <1>3, <1>4, <1>5 DEF ChainStays

\* Every step of the specification: the accounts stay in order, and the chain stays as it
\* is or grows by one.
LEMMA StepMoves ==
  ASSUME IInv, [Next]_vars
  PROVE  /\ MoneyInv'
         /\ \/ ChainStays
            \/ \E won \in Checkpoints, vt \in VotingType : ChainGrows(won, vt)
  <1>1. ASSUME NEW addr \in Voters, NEW amount \in JoinAmounts, Join(addr, amount)
        PROVE  MoneyInv' /\ ChainStays
    BY <1>1, JoinStays
  <1>2. ASSUME NEW addr \in Voters, Leave(addr) PROVE MoneyInv' /\ ChainStays
    BY <1>2, LeaveStays
  <1>3. CASE Kill
    BY <1>3, KillStays
  <1>4. ASSUME NEW addr \in Voters, NEW ch \in Checkpoints, SubmitCheckpoint(addr, ch)
        PROVE  /\ MoneyInv'
               /\ \/ ChainStays
                  \/ \E won \in Checkpoints, vt \in VotingType : ChainGrows(won, vt)
    BY <1>4, SubmitCheckpointMoves
  <1>5. ASSUME NEW addr \in Voters, NEW amount \in FundAmounts, Fund(addr, amount)
        PROVE  MoneyInv' /\ ChainStays
    BY <1>5, FundStays
  <1>6. CASE UNCHANGED vars
    <2>1. /\ voting' = voting /\ voting \in VotingType /\ SoundVoting(voting)
      BY <1>6 DEF vars, actor, voting, IInv, ChainInv, VotesType, VotingFixed
    <2>2. QED
      BY <1>6, <2>1, VotesOnly DEF vars, actor
  <1>7. QED
    BY <1>1, <1>2, <1>3, <1>4, <1>5, <1>6 DEF Next

\* Every step of the specification keeps the invariant.
LEMMA StepGood ==
  ASSUME IInv, [Next]_vars
  PROVE  IInv'
  BY StepMoves, ChainFrame, CommitChain DEF IInv

-----------------------------------------------------------------------------

(* The theorems. *)

\* The invariant holds in every behaviour.
LEMMA Invariance == Spec => []IInv
  <1>1. Init => IInv
    BY InitGood
  <1>2. IInv /\ [Next]_vars => IInv'
    BY StepGood
  <1>3. QED
    BY <1>1, <1>2, PTL DEF Spec

\* Types: in particular no stake, balance, supply or nonce ever goes negative, so none of
\* the subtractions of leave, kill, commit_child_check and reward underflows.
THEOREM TypeCorrect == Spec => []TypeOK
  <1>1. IInv => TypeOK
    BY DEF IInv, MoneyInv, ChainInv, MoneyType, VotesType, TypeOK
  <1>2. QED
    BY <1>1, Invariance, PTL

\* The subnet actor's total_stake, stake and validator_set agree, whoever joins, adds
\* stake and leaves.
THEOREM StakeAccounted == Spec => []StakeLedger
  <1>1. IInv => StakeLedger
    BY DEF IInv, MoneyInv
  <1>2. QED
    BY <1>1, Invariance, PTL

\* The gateway's copy of the collateral and of the status is the subnet actor's.
THEOREM CollateralAgrees == Spec => []CollateralMirrored
  <1>1. IInv => CollateralMirrored
    BY DEF IInv, MoneyInv
  <1>2. QED
    BY <1>1, Invariance, PTL

\* Joins, leaves, kills, funds, commits and rewards neither make nor lose a token, and
\* the gateway holds the collateral and the circulating supply.
THEOREM MoneyConserved == Spec => []FundsConserved
  <1>1. IInv => FundsConserved
    BY DEF IInv, MoneyInv
  <1>2. QED
    BY <1>1, Invariance, PTL

\* A killed subnet leaves no money behind.
THEOREM NothingStranded == Spec => []KilledClean
  <1>1. IInv => KilledClean
    BY DEF IInv, MoneyInv
  <1>2. QED
    BY <1>1, Invariance, PTL

\* The committed checkpoints, prev_checkpoint and the list the gateway passes up are one
\* chain over consecutive epochs.
THEOREM Chained == Spec => []CommittedChained
  <1>1. IInv => CommittedChained
    BY DEF IInv, ChainInv
  <1>2. QED
    BY <1>1, Invariance, PTL

\* The bottom-up messages are applied in the order of their nonces, with no gap and no
\* repeat, across all the checkpoints.
THEOREM BottomUpOrdered == Spec => []BottomUpInOrder
  <1>1. IInv => BottomUpInOrder
    BY DEF IInv, ChainInv
  <1>2. QED
    BY <1>1, Invariance, PTL

\* No handler of a killed subnet succeeds, and the gateway takes no fund for it: each
\* asks for a registered subnet, or for one that is not killed.
THEOREM KilledForGood == Spec => KilledIsFinal
  <1>1. ASSUME IInv, status = Killed, Next PROVE FALSE
    <2>1. ~Registered
      BY <1>1 DEF IInv, MoneyInv, KilledClean
    <2>2. ASSUME NEW addr \in Voters, NEW amount \in JoinAmounts, Join(addr, amount)
          PROVE  FALSE
      BY <1>1, <2>1, <2>2 DEF Join, JoinUnregistered, JoinRegister, JoinAddStake,
                              GatewayAddStake, Killed, Instantiated
    <2>3. ASSUME NEW addr \in Voters, Leave(addr) PROVE FALSE
      BY <2>1, <2>3 DEF Leave, GatewayReleaseStake
    <2>4. CASE Kill
      BY <2>1, <2>4 DEF Kill, GatewayKill
    <2>5. ASSUME NEW addr \in Voters, NEW ch \in Checkpoints, SubmitCheckpoint(addr, ch)
          PROVE  FALSE
      BY <1>1, <2>5 DEF SubmitCheckpoint, SubmitOnly, SubmitUnchained, SubmitAndCommit,
                        Accepted, VerifyCheckpoint, Killed, Active
    <2>6. ASSUME NEW addr \in Voters, NEW amount \in FundAmounts, Fund(addr, amount)
          PROVE  FALSE
      BY <2>1, <2>6 DEF Fund
    <2>7. QED
      BY <1>1, <2>2, <2>3, <2>4, <2>5, <2>6 DEF Next
  <1>2. IInv /\ [Next]_vars => [status # Killed]_vars
    BY <1>1
  <1>3. QED
    BY <1>2, Invariance, PTL DEF Spec, KilledIsFinal

-----------------------------------------------------------------------------

(* SubnetActor implements CheckpointLog *)

\* The log has as many entries as the gateway lists checkpoints, one per period.
LEMMA CommittedEntries ==
  ASSUME ChainInv
  PROVE  LET n == Len(child_checks)
         IN  /\ n \in Nat
             /\ voting.last_voting_executed_epoch = n * BottomupCheckPeriod
             /\ Committed = [i \in 1..n |-> committed_checkpoints[i * BottomupCheckPeriod]]
             /\ Committed \in Seq(Checkpoints) /\ Len(Committed) = n
             /\ \A i \in 1..n : /\ i * BottomupCheckPeriod \in CommittedEpochs
                                /\ committed_checkpoints[i * BottomupCheckPeriod] \in Checkpoints
  <1> DEFINE n == Len(child_checks)
             B == BottomupCheckPeriod
             cc == committed_checkpoints
             last == voting.last_voting_executed_epoch
  <1>1. VotesType /\ CommittedChained /\ ChainEnd
    BY DEF ChainInv
  <1>2. B \in Nat \ {0}
    BY PeriodAssumption
  <1>3. n \in Nat /\ DOMAIN child_checks = 1..n
    <2> DEFINE Cids == {c.cid : c \in Checkpoints}
    <2>1. child_checks \in Seq(Cids)
      BY <1>1 DEF VotesType
    <2> HIDE DEF Cids
    <2>2. QED
      BY <2>1
  <1>4. last = n * B
    BY <1>1, <1>2, <1>3 DEF CommittedChained, GenesisEpoch
  <1>5. (last - GenesisEpoch) \div B = n
    <2> HIDE DEF n, B, last
    <2>1. (n * B) \div B = n
      BY <1>2, <1>3
    <2>2. last - GenesisEpoch = n * B
      BY <1>2, <1>3, <1>4 DEF GenesisEpoch
    <2>3. QED
      BY <2>1, <2>2
  <1>6. \A i \in 1..n : GenesisEpoch + i * B = i * B
    BY <1>2, <1>3 DEF GenesisEpoch
  <1>7. Committed = [i \in 1..n |-> cc[i * B]]
    BY <1>5, <1>6 DEF Committed
  <1>8. ASSUME NEW i \in 1..n PROVE i * B \in CommittedEpochs /\ cc[i * B] \in Checkpoints
    <2> DEFINE x == i * B
    <2>1. x \in Epochs /\ cc[x] # NoVote
      BY <1>1, <1>3, <1>6 DEF ChainEnd
    <2> HIDE DEF x
    <2>2. x \in CommittedEpochs /\ cc[x] \in Checkpoints
      BY <1>1, <2>1 DEF VotesType, CommittedEpochs
    <2>3. QED
      BY <2>2 DEF x
  <1>9. Committed \in Seq(Checkpoints) /\ Len(Committed) = n
    <2> DEFINE l == [i \in 1..n |-> cc[i * B]]
    <2>1. l \in [1..n -> Checkpoints]
      BY <1>8
    <2> HIDE DEF l
    <2>2. l \in Seq(Checkpoints) /\ Len(l) = n
      BY <1>3, <2>1
    <2>3. QED
      BY <1>7, <2>2 DEF l
  <1>10. QED
    BY <1>3, <1>4, <1>7, <1>8, <1>9

\* Nothing is committed between two periods: every committed checkpoint is in the log.
LEMMA CommittedAtPeriods ==
  ASSUME ChainInv, NEW e \in CommittedEpochs
  PROVE  \E i \in 1..Len(child_checks) : e = i * BottomupCheckPeriod
  <1> DEFINE n == Len(child_checks)
             B == BottomupCheckPeriod
             cc == committed_checkpoints
             Stray == {f \in CommittedEpochs : \A i \in Nat \ {0} : f # i * B}
  <1>1. B \in Nat \ {0} /\ n \in Nat /\ voting.last_voting_executed_epoch = n * B
    BY PeriodAssumption, CommittedEntries
  <1>2. \A f \in CommittedEpochs :
          /\ f \in Nat /\ f <= n * B
          /\ f - B = 0 \/ f - B \in CommittedEpochs
    <2>1. CommittedChained
      BY DEF ChainInv
    <2>2. QED
      BY <1>1, <2>1, EpochsAssumption DEF CommittedChained, CommittedEpochs, GenesisEpoch
  <1>3. Stray = {}
    <2>1. SUFFICES ASSUME Stray # {} PROVE FALSE
      OBVIOUS
    <2>2. Stray \in SUBSET Nat
      BY <1>2
    <2>3. PICK f \in Stray : \A g \in Stray : f <= g
      BY <2>1, <2>2, LeastNatural
    <2>4. f \in CommittedEpochs /\ f \in Nat /\ \A i \in Nat \ {0} : f # i * B
      BY <1>2
    <2>5. CASE f - B = 0
      <3>1. f = 1 * B
        BY <1>1, <2>4, <2>5
      <3>2. QED
        BY <2>4, <3>1
    <2>6. CASE f - B \in CommittedEpochs
      <3>1. f - B \in Nat /\ f - B < f
        BY <1>1, <1>2, <2>4, <2>6
      <3>2. f - B \notin Stray
        BY <2>3, <2>4, <3>1
      <3>3. PICK i \in Nat \ {0} : f - B = i * B
        BY <2>6, <3>2
      <3>4. f = (i + 1) * B
        BY <1>1, <2>4, <3>3
      <3>5. QED
        BY <2>4, <3>4
    <2>7. QED
      BY <1>2, <2>4, <2>5, <2>6
  <1>4. PICK i \in Nat \ {0} : e = i * B
    BY <1>3
  <1>5. i <= n
    <2>1. i * B <= n * B
      BY <1>2, <1>4
    <2>2. CASE i > n
      <3>1. i * B >= (n + 1) * B /\ (n + 1) * B = n * B + B
        BY <1>1, <2>2
      <3>2. QED
        BY <1>1, <2>1, <3>1
    <2>3. QED
      BY <1>1, <2>2
  <1>6. QED
    BY <1>1, <1>4, <1>5

\* Whether counted by the gateway or along the log, the applied messages are the same.
LEMMA AppliedAlongLog ==
  ASSUME ChainInv
  PROVE  AppliedMessages = SumFunction([i \in DOMAIN Committed |-> Len(Committed[i].msgs)])
  <1> DEFINE n == Len(child_checks)
             B == BottomupCheckPeriod
             cc == committed_checkpoints
             C == CommittedEpochs
             f == [i \in 1..n |-> Len(Committed[i].msgs)]
             k == [i \in 1..n |-> i * B]
             file == [e \in C |-> {i \in 1..n : i * B = e}]
             h == [e \in C |-> Len(cc[e].msgs)]
  <1>1. /\ n \in Nat /\ DOMAIN Committed = 1..n
        /\ Committed = [i \in 1..n |-> cc[i * B]]
        /\ \A i \in 1..n : i * B \in C /\ cc[i * B] \in Checkpoints
        /\ voting.last_voting_executed_epoch = n * B
    BY CommittedEntries
  <1>2. /\ CommittedChained /\ BottomUpInOrder /\ B \in Nat \ {0}
    BY PeriodAssumption DEF ChainInv
  <1>3. CASE ~Registered
    BY <1>3 DEF AppliedMessages
  <1>4. CASE Registered
    <2>1. AppliedMessages = SumFunctionOnSet(h, C)
      BY <1>2, <1>4 DEF AppliedMessages, BottomUpInOrder, MessagesAt
    <2>2. \A i \in 1..n : f[i] = Len(cc[i * B].msgs) /\ f[i] \in Nat
      BY <1>1, CheckpointFields
    <2>3. IsFiniteSet(1..n) /\ IsFiniteSet(C)
      <3> DEFINE m == n * B
      <3>1. IsFiniteSet(1..n) /\ m \in Nat
        BY <1>1, <1>2, FS_Interval
      <3>2. \A e \in C : e \in Nat /\ e <= m
        BY <1>1, <1>2, EpochsAssumption DEF CommittedChained, CommittedEpochs
      <3> HIDE DEF m, C
      <3>3. IsFiniteSet(C)
        BY <3>1, <3>2, FS_BoundedSetOfNaturals
      <3>4. QED
        BY <3>1, <3>3
    <2>4. ASSUME NEW e \in C
          PROVE  h[e] = SumFunctionOnSet(f, file[e])
      <3>1. PICK i \in 1..n : e = i * B
        BY CommittedAtPeriods
      <3>2. file[e] = {} \cup {i}
        <4>1. \A j \in 1..n : j * B = i * B => j = i
          BY <1>1, <1>2
        <4>2. QED
          BY <3>1, <4>1
      <3>3. SumFunctionOnSet(f, {} \cup {i}) = f[i] + SumFunctionOnSet(f, {})
        <4> HIDE DEF f
        <4>1. \A x \in {} \cup {i} : f[x] \in Int
          BY <2>2
        <4>2. QED
          BY <4>1, FS_EmptySet, SumAdd
      <3>4. SumFunctionOnSet(f, {}) = 0
        BY FS_EmptySet, SumRecursion
      <3>5. h[e] = f[i]
        BY <2>2, <3>1
      <3> HIDE DEF f, h, file
      <3>6. QED
        BY <2>2, <3>2, <3>3, <3>4, <3>5
    <2>5. SumFunctionOnSet(h, C) = SumFunctionOnSet(f, 1..n)
      <3>1. /\ \A i \in 1..n : f[i] \in Int /\ k[i] \in C
            /\ \A e \in C : /\ file[e] \in SUBSET (1..n)
                            /\ \A i \in 1..n : i \in file[e] <=> k[i] = e
        BY <1>1, <2>2
      <3> HIDE DEF f, h, k, file, C
      <3>2. QED
        BY <2>3, <2>4, <3>1, SumByKey, SMTT(60)
    <2>6. SumFunction(f) = SumFunctionOnSet(f, 1..n)
      <3>1. f \in [1..n -> Nat]
        BY <2>2
      <3> HIDE DEF f
      <3>2. QED
        BY <2>3, <3>1, LedgerTotal
    <2>7. QED
      BY <1>1, <2>1, <2>5, <2>6
  <1>5. QED
    BY <1>3, <1>4

\* Before the first commit no message is applied.
LEMMA NothingApplied ==
  ASSUME ChainInv, voting.last_voting_executed_epoch = GenesisEpoch
  PROVE  Committed = <<>> /\ AppliedMessages = 0
  <1>1. Len(child_checks) = 0
    <2>1. /\ Len(child_checks) \in Nat /\ BottomupCheckPeriod \in Nat \ {0}
          /\ Len(child_checks) * BottomupCheckPeriod = 0
      BY CommittedEntries, PeriodAssumption DEF GenesisEpoch
    <2>2. QED
      BY <2>1
  <1>2. Committed = <<>>
    BY <1>1, CommittedEntries
  <1> DEFINE f == [i \in DOMAIN Committed |-> Len(Committed[i].msgs)]
  <1>3. f = [i \in {} |-> 0]
    BY <1>2
  <1>4. QED
    BY <1>2, <1>3, AppliedAlongLog, FS_EmptySet, LedgerZero

\* A step that leaves the chain alone leaves the log alone.
LEMMA StaysOnLog ==
  ASSUME ChainInv, ChainInv', ChainStays
  PROVE  UNCHANGED Log!vars
  <1>1. Committed' = Committed
    BY DEF ChainStays, Committed
  <1>2. AppliedMessages' = AppliedMessages
    <2> DEFINE total == SumFunction([i \in DOMAIN Committed |-> Len(Committed[i].msgs)])
    <2>1. AppliedMessages = total
      BY AppliedAlongLog
    <2>2. CASE ~Registered'
      BY <1>1, <2>1, <2>2 DEF AppliedMessages
    <2>3. CASE /\ Registered' /\ Registered
               /\ subnet'.applied_bottomup_nonce = subnet.applied_bottomup_nonce
      BY <2>3 DEF AppliedMessages
    <2>4. CASE /\ Registered' /\ voting.last_voting_executed_epoch = GenesisEpoch
               /\ subnet'.applied_bottomup_nonce = 0
      <3>1. AppliedMessages' = 0
        BY <2>4 DEF AppliedMessages
      <3>2. QED
        BY <2>4, <3>1, NothingApplied
    <2>5. QED
      BY <2>2, <2>3, <2>4 DEF ChainStays
  <1>3. QED
    BY <1>1, <1>2 DEF Log!vars

\* A commit appends to the log.
LEMMA GrowsLog ==
  ASSUME MoneyInv, ChainInv, ChainInv', NEW won \in Checkpoints, NEW vt \in VotingType,
         ChainGrows(won, vt)
  PROVE  Log!Decide(won)
  <1> DEFINE n == Len(child_checks)
             B == BottomupCheckPeriod
             cc == committed_checkpoints
             a == subnet.applied_bottomup_nonce
  <1>1. /\ n \in Nat /\ B \in Nat \ {0}
        /\ voting.last_voting_executed_epoch = n * B
        /\ Committed = [i \in 1..n |-> cc[i * B]]
        /\ Committed \in Seq(Checkpoints) /\ Len(Committed) = n
    BY CommittedEntries, PeriodAssumption
  <1>2. /\ child_checks' = Append(child_checks, won.cid)
        /\ cc' = [cc EXCEPT ![won.epoch] = won]
        /\ Registered /\ subnet' = RecordCheckpoint(subnet, won)
        /\ \A i \in DOMAIN won.msgs : won.msgs[i].nonce = a + i - 1
        /\ won.prev = previous_executed_checkpoint_cid
        /\ vt.last_voting_executed_epoch + vt.submission_period = won.epoch
    BY DEF ChainGrows, CommitCheckpoint, CommitChildCheck, CanCommitChildCheck, CanApplyMsgs,
           IsChained, CanMarkEpochExecuted, IsNextExecutableEpoch
  <1>3. won.epoch = (n + 1) * B
    <2>1. won.epoch = n * B + B
      BY <1>1, <1>2 DEF ChainGrows, ChainInv, VotingFixed
    <2>2. QED
      BY <1>1, <2>1
  <1>4. Committed' = [i \in 1..(n + 1) |-> cc'[i * B]]
    <2> DEFINE m == n + 1
    <2>1. voting'.last_voting_executed_epoch = won.epoch
      <3>1. bottomup_checkpoint_voting' = MarkEpochExecuted(vt, won.epoch)
        BY DEF ChainGrows, CommitCheckpoint
      <3>2. QED
        BY <3>1, CheckpointFields, MarkEpochExecutedFields DEF voting
    <2>2. (m * B - GenesisEpoch) \div B = m
      <3> HIDE DEF m, B
      <3>1. m \in Nat
        BY <1>1 DEF m
      <3>2. m * B - GenesisEpoch = m * B
        BY <1>1, <3>1 DEF GenesisEpoch
      <3>3. (m * B) \div B = m
        BY <1>1, <3>1
      <3>4. QED
        BY <3>2, <3>3
    <2>3. \A i \in 1..m : GenesisEpoch + i * B = i * B
      BY <1>1 DEF GenesisEpoch
    <2>4. Committed' = [i \in 1..m |-> cc'[GenesisEpoch + i * B]]
      BY <1>3, <2>1, <2>2 DEF Committed
    <2>5. QED
      BY <2>3, <2>4
  <1>5. Committed' = Append(Committed, won)
    <2>1. \A i \in 1..n : cc'[i * B] = cc[i * B]
      <3>1. \A i \in 1..n : i * B # (n + 1) * B
        BY <1>1
      <3>2. QED
        BY <1>2, <1>3, <3>1
    <2>2. cc'[(n + 1) * B] = won
      <3>1. won.epoch \in Epochs /\ cc \in [Epochs -> Checkpoints \cup {NoVote}]
        BY CheckpointFields DEF ChainInv, VotesType
      <3>2. QED
        BY <1>2, <1>3, <3>1
    <2>3. Append(Committed, won) = [i \in 1..(n + 1) |-> IF i = n + 1 THEN won ELSE Committed[i]]
      BY <1>1
    <2>4. \A i \in 1..(n + 1) : cc'[i * B] = IF i = n + 1 THEN won ELSE Committed[i]
      BY <1>1, <2>1, <2>2
    <2>5. QED
      BY <1>4, <2>3, <2>4
  <1>6. ChainedTo(Committed, won)
    <2>1. CASE n = 0
      <3>1. voting.last_voting_executed_epoch = GenesisEpoch /\ Committed = <<>>
        BY <1>1, <2>1 DEF GenesisEpoch
      <3>2. QED
        BY <1>2, <3>1 DEF ChainedTo, ChainInv, ChainEnd
    <2>2. CASE n # 0
      <3>1. n * B # GenesisEpoch /\ n \in 1..n
        BY <1>1, <2>2 DEF GenesisEpoch
      <3>2. previous_executed_checkpoint_cid = cc[n * B].cid
        BY <1>1, <3>1 DEF ChainInv, CommittedChained
      <3>3. Committed[Len(Committed)] = cc[n * B] /\ Committed # <<>>
        BY <1>1, <3>1
      <3>4. QED
        BY <1>2, <3>2, <3>3 DEF ChainedTo
    <2>3. QED
      BY <2>1, <2>2
  <1>7. /\ AppliedMessages = a /\ AppliedMessages' = a + Len(won.msgs)
    <2>1. /\ subnet \in SubnetType /\ won.fee \in Nat /\ TotalValue(won) \in Nat
          /\ subnet.circ_supply >= TotalValue(won) + won.fee
      <3>1. subnet \in SubnetType
        BY DEF MoneyInv, MoneyType
      <3>2. won.fee \in Nat /\ TotalValue(won) \in Nat
        BY CheckpointFields, PaymentsAddUp
      <3>3. subnet.circ_supply >= TotalValue(won) + won.fee
        BY DEF ChainGrows, CommitChildCheck, CanCommitChildCheck, CanReleaseSupply
      <3>4. QED
        BY <3>1, <3>2, <3>3
    <2>2. /\ subnet'.registered
          /\ subnet'.applied_bottomup_nonce = a + Len(won.msgs)
      BY <1>2, <2>1, RecordCheckpointFields DEF Registered
    <2>3. QED
      BY <1>2, <2>2 DEF AppliedMessages, Registered
  <1>8. /\ DOMAIN NoncesOfCheckpoint(won) = DOMAIN won.msgs
        /\ Len(NoncesOfCheckpoint(won)) = Len(won.msgs)
        /\ \A i \in DOMAIN won.msgs : NoncesOfCheckpoint(won)[i] = won.msgs[i].nonce
    <2>1. DOMAIN won.msgs = 1..Len(won.msgs) /\ Len(won.msgs) \in Nat
      BY CheckpointFields
    <2>2. QED
      BY <2>1 DEF NoncesOfCheckpoint
  <1>9. Log!Extends(Committed, won)
    <2>1. won.epoch = GenesisEpoch + (Len(Committed) + 1) * B
      BY <1>1, <1>3 DEF GenesisEpoch
    <2>2. QED
      BY <1>2, <1>6, <1>7, <1>8, <2>1 DEF Log!Extends, EpochOfCheckpoint
  <1>10. QED
    BY <1>5, <1>7, <1>8, <1>9 DEF Log!Decide

\* What a subnet actor commits, and the gateway applies, is one log of checkpoints: every
\* handler is a step of CheckpointLog or leaves the log alone, for any accounts, stakes,
\* ballots and order of decisions.
THEOREM Implementation == Spec => ImplementsLog
  <1>1. Init => Log!Init
    <2> SUFFICES ASSUME Init PROVE Log!Init
      OBVIOUS
    <2>1. ChainInv /\ voting.last_voting_executed_epoch = GenesisEpoch
      BY InitGood DEF IInv, Init, voting, NewVoting
    <2>2. Committed = <<>> /\ AppliedMessages = 0
      BY <2>1, NothingApplied
    <2>3. QED
      BY <2>2 DEF Log!Init, GenesisEpoch
  <1>2. IInv /\ [Next]_vars => [Log!Next]_(Log!vars)
    <2> SUFFICES ASSUME IInv, [Next]_vars PROVE [Log!Next]_(Log!vars)
      OBVIOUS
    <2>1. MoneyInv /\ ChainInv /\ ChainInv'
      BY StepGood DEF IInv
    <2>2. CASE ChainStays
      BY <2>1, <2>2, StaysOnLog
    <2>3. ASSUME NEW won \in Checkpoints, NEW vt \in VotingType, ChainGrows(won, vt)
          PROVE  Log!Next
      BY <2>1, <2>3, GrowsLog DEF Log!Next
    <2>4. QED
      BY <2>2, <2>3, StepMoves
  <1>3. QED
    BY <1>1, <1>2, Invariance, PTL DEF Spec, ImplementsLog, Log!Spec
=============================================================================
