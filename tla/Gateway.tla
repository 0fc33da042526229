------------------------------ MODULE Gateway ------------------------------
(***************************************************************************)
(* The gateways of a tree of subnets (gateway/src) and the cross-messages  *)
(* that travel between them.                                               *)
(*                                                                         *)
(* Down: the gateway of the parent keeps, for every child, a queue of      *)
(* top-down messages, numbered from 0; validators of the child put them    *)
(* into top-down checkpoints, which the child's gateway executes.          *)
(* Up: the gateway of the child collects bottom-up messages in the         *)
(* checkpoint of the current window; once the window is over the           *)
(* checkpoint is committed at the parent's gateway, which executes it.     *)
(* A message that has arrived is sent to its receiver; one in transit goes *)
(* to the postbox, until an owner pays for its propagation.                *)
(*                                                                         *)
(* How a checkpoint is agreed on is the subject of TopDownVoting and       *)
(* SubnetActor.  Here it is decided in one step, with the content honest   *)
(* validators give it: the next messages of the parent's queue, or the     *)
(* child's next window.  Each handler is one transaction: a failing call   *)
(* reverts all of it, so that a checkpoint with a message that cannot be   *)
(* applied is not executed at all.                                         *)
(*                                                                         *)
(* Token amounts are small numbers.  wallet[s] is all that is outside of   *)
(* the gateway on chain s: accounts, actors and the rewards paid out.  The *)
(* collateral of subnets is left to SubnetActor.                           *)
(***************************************************************************)
EXTENDS SubnetPath, Functions, SequencesExt

CONSTANTS
  Networks,         \* the subnets of the hierarchy, with the root
  Accounts,         \* addresses: senders, and owners of messages in transit
  Senders,          \* the accounts that send messages
  Payloads,         \* what else a message carries: method and parameters
  Aborting,         \* the payloads whose receiver fails
  FundRoutes, SendRoutes, \* where fund and send_cross are called, and with which destination
  Releasing,        \* where release is called
  Killable,         \* the subnets that may be killed
  Amounts,          \* the amounts a call may carry
  CrossMsgFee,      \* CROSS_MSG_FEE
  CheckPeriod,      \* bottomup_check_period
  Endowment,        \* what each subnet has received from its parent at first
  RootFunds,        \* what the accounts of the root own at first
  Reserve,          \* what the gateway of a subnet holds at first, to mint from
  ValidatorFunds,   \* what set_membership pays out in the first epoch of each subnet
  MaxMsgs           \* bound: the calls of fund, release and send_cross together

NonRoot == {s \in Networks : ~IsRoot(s)}
Children(s) == {c \in NonRoot : Parent(c) = s}
Total(f) == SumFunction(f)

\* What the children of s have received from it at first.
EndowedBelow(s) == Total([c \in Children(s) |-> Endowment[c]])

\* Where a message can be addressed to: not every destination exists.
Destinations == Networks \union {r[2] : r \in SendRoutes}

ASSUME NetworksAssumption ==
  /\ IsFiniteSet(Networks)
  /\ \E r \in Networks : IsRoot(r)
  /\ \A c \in NonRoot : Parent(c) \in Networks
ASSUME DestinationsAssumption ==
  /\ \A d \in Destinations :
       d = SubnetID(d.root, d.children) /\ d.children \in Seq(Range(d.children))
  /\ \A d, e \in Destinations : d.root = e.root
ASSUME AmountsAssumption ==
  /\ Amounts \subseteq Nat /\ CrossMsgFee \in Nat \ {0}
  /\ RootFunds \in Nat /\ Reserve \in Nat /\ MaxMsgs \in Nat
  /\ ValidatorFunds \in [NonRoot -> Nat] /\ Endowment \in [NonRoot -> Nat]
ASSUME EndowmentAssumption ==
  \A c \in NonRoot :
    EndowedBelow(c) <= Endowment[c] /\ Endowment[c] <= Reserve + EndowedBelow(c)
ASSUME RoutesAssumption ==
  /\ FundRoutes \subseteq Networks \X Networks
  /\ \A r \in SendRoutes : r[1] \in Networks
  /\ Releasing \subseteq NonRoot /\ Killable \subseteq NonRoot
  /\ Aborting \subseteq Payloads /\ Senders \subseteq Accounts /\ Accounts # {}
ASSUME PeriodAssumption == CheckPeriod \in Nat \ {0}

VARIABLES
  epoch,                  \* the current epoch of each chain
  bottomup_checkpoints,   \* State.bottomup_checkpoints: by epoch of their window
  bottomup_nonce,         \* State.bottomup_nonce
  applied_topdown_nonce,  \* State.applied_topdown_nonce
  postbox,                \* State.postbox: a set, as its key is the hash of the item
  subnets,                \* State.subnets of the parent, for every child
  gateway_balance,        \* balance of each gateway
  wallet,                 \* what circulates on each chain outside of the gateway
  burnt,                  \* what each gateway has sent to the burnt funds actor
  granted,                \* history: what set_membership has paid out
  carried,                \* external: how many of the queued messages top-down
                          \* checkpoints have carried to each subnet
  sent, delivered         \* history: the messages sent from and delivered at each chain

bottomUp == <<bottomup_checkpoints, bottomup_nonce>>
money == <<gateway_balance, wallet, burnt>>
vars == <<epoch, bottomUp, applied_topdown_nonce, postbox, subnets, money, granted,
          carried, sent, delivered>>

\* A cross-message, with the raw address of its sender.  Its nonce is set whenever it
\* is put into a queue or a checkpoint.
Msg(from, to, sender, value, payload) ==
  [from |-> from, to |-> to, sender |-> sender, value |-> value, payload |-> payload,
   nonce |-> 0]

\* A fund message names the parent of the subnet as its origin, wherever it is sent.
NewFundMsg(subnet, sender, value) == Msg(Parent(subnet), subnet, sender, value, "send")
NewReleaseMsg(s, sender, value) == Msg(s, Parent(s), sender, value, "send")

\* A message whatever its nonce.
Content(m) == [m EXCEPT !.nonce = 0]

PostBoxItem(m, owners) == [msg |-> m, owners |-> owners]

NotRegistered == [registered |-> FALSE]
Registered(c) == c \in NonRoot /\ subnets[c].registered

TotalValue(msgs) == Total([i \in DOMAIN msgs |-> msgs[i].value])

-----------------------------------------------------------------------------
(* Window checkpoints. *)

\* The epoch of the checkpoint that is being filled in epoch e.
WindowEpoch(e) == CheckPeriod * (e \div CheckPeriod + 1)

\* The latest checkpoint that is frozen, ready to be signed, in epoch e.
CheckpointEpoch(e) == CheckPeriod * (e \div CheckPeriod)

EmptyCheckpoint == [msgs |-> <<>>, fee |-> 0, children |-> <<>>]

CheckpointAt(s, k) ==
  IF k \in DOMAIN bottomup_checkpoints[s] THEN bottomup_checkpoints[s][k]
  ELSE EmptyCheckpoint

GetWindowCheckpoint(s) == CheckpointAt(s, WindowEpoch(epoch[s]))

FlushCheckpoint(s, ch) ==
  [bottomup_checkpoints EXCEPT ![s] =
     [k \in DOMAIN @ \union {WindowEpoch(epoch[s])} |->
        IF k = WindowEpoch(epoch[s]) THEN ch ELSE @[k]]]

\* A plausible slip: the fee is not added to the checkpoint's.
CommitBottomupMsgNoFee(s, m, fee) ==
  LET ch == GetWindowCheckpoint(s)
  IN /\ bottomup_checkpoints' =
          FlushCheckpoint(s, [ch EXCEPT !.msgs =
                                Append(@, [m EXCEPT !.nonce = bottomup_nonce[s]])])
     /\ bottomup_nonce' = [bottomup_nonce EXCEPT ![s] = @ + 1]

\* The message, with the next nonce, and its fee go into the current checkpoint.
CommitBottomupMsg(s, m, fee) ==
  LET ch == GetWindowCheckpoint(s)
  IN /\ bottomup_checkpoints' =
          FlushCheckpoint(s, [ch EXCEPT
            !.msgs = Append(@, [m EXCEPT !.nonce = bottomup_nonce[s]]),
            !.fee = @ + fee])
     /\ bottomup_nonce' = [bottomup_nonce EXCEPT ![s] = @ + 1]

-----------------------------------------------------------------------------
(* Sending and propagating a message. *)

\* A plausible slip: the nonce of the queue is not advanced.
CommitTopdownMsgSameNonce(s, m) ==
  LET c == Down(m.to, s)
      n == subnets[c].topdown_nonce
  IN /\ c # None /\ c \in Children(s) /\ Registered(c)
     /\ subnets' = [subnets EXCEPT
                      ![c].top_down_msgs = [k \in DOMAIN @ \union {n} |->
                                              IF k = n THEN [m EXCEPT !.nonce = n] ELSE @[k]],
                      ![c].circ_supply = @ + m.value]

\* The message is queued, with the next nonce, for the next subnet on its way down,
\* whose circulating supply grows by its value.
CommitTopdownMsg(s, m) ==
  LET c == Down(m.to, s)
      n == subnets[c].topdown_nonce
  IN /\ c # None /\ c \in Children(s) /\ Registered(c)
     /\ subnets' = [subnets EXCEPT
                      ![c].top_down_msgs = [k \in DOMAIN @ \union {n} |->
                                              IF k = n THEN [m EXCEPT !.nonce = n] ELSE @[k]],
                      ![c].topdown_nonce = n + 1,
                      ![c].circ_supply = @ + m.value]

\* commit_cross_message: up with the current checkpoint; round at the common parent; or
\* down, which counts as the application of a top-down message, wherever it started.
CommitUp(s, m, fee) ==
  /\ GoesUp(m.from, m.to, s)
  /\ CommitBottomupMsg(s, m, fee)
  /\ UNCHANGED <<applied_topdown_nonce, subnets>>

CommitTurn(s, m) ==
  /\ ApplyType(m.from, m.to, s) = BottomUp /\ ~GoesUp(m.from, m.to, s)
  /\ CommitTopdownMsg(s, m)
  /\ UNCHANGED <<applied_topdown_nonce, bottomUp>>

\* A plausible slip: passing a message on is not counted as applying it.
CommitDownNotCounted(s, m) ==
  /\ ApplyType(m.from, m.to, s) = TopDown
  /\ CommitTopdownMsg(s, m)
  /\ UNCHANGED <<applied_topdown_nonce, bottomUp>>

CommitDown(s, m) ==
  /\ ApplyType(m.from, m.to, s) = TopDown
  /\ CommitTopdownMsg(s, m)
  /\ applied_topdown_nonce' = [applied_topdown_nonce EXCEPT ![s] = @ + 1]
  /\ UNCHANGED bottomUp

CommitCrossMessage(s, m, fee) ==
  m.to # s /\ (CommitUp(s, m, fee) \/ CommitTurn(s, m) \/ CommitDown(s, m))

\* What is paid in, less what is burnt and what is handed on as a reward.
Settle(s, paid, burn, reward) ==
  /\ wallet[s] >= paid /\ gateway_balance[s] + paid >= burn + reward
  /\ gateway_balance' = [gateway_balance EXCEPT ![s] = @ + paid - burn - reward]
  /\ wallet' = [wallet EXCEPT ![s] = @ - paid + reward]
  /\ burnt' = [burnt EXCEPT ![s] = @ + burn]

\* A plausible slip: the value of a message that goes up is not burnt.
CrossMsgSideEffectsNoBurn(s, m, paid, fee) ==
  IF GoesUp(m.from, m.to, s) THEN Settle(s, paid, 0, 0) ELSE Settle(s, paid, 0, fee)

\* A message that leaves upwards takes its fee along in the checkpoint and its value is
\* burnt; the fee of one that goes down rewards the validators of the next subnet.
CrossMsgSideEffects(s, m, paid, fee) ==
  IF GoesUp(m.from, m.to, s) THEN Settle(s, paid, m.value, 0) ELSE Settle(s, paid, 0, fee)

NumSent == Total([s \in Networks |-> Len(sent[s])])

Sends(s, m) == /\ NumSent < MaxMsgs
               /\ sent' = [sent EXCEPT ![s] = Append(@, m)]
               /\ UNCHANGED <<epoch, postbox, granted, carried, delivered>>

CanPayCrossFee(amount) == amount >= CrossMsgFee
CollectCrossFee(amount) == amount - CrossMsgFee

\* Tokens for a subnet, sent from the gateway of s; the subnet's actor takes the fee.
Fund(s, dst, sender, amount) ==
  LET m == NewFundMsg(dst, sender, CollectCrossFee(amount))
  IN /\ amount > 0 /\ CanPayCrossFee(amount)
     /\ ~IsRoot(dst)
     /\ Registered(NewFromParent(s, SubnetActorOf(dst)))
     /\ CommitTopdownMsg(s, m)
     /\ Settle(s, amount, 0, CrossMsgFee)
     /\ Sends(s, m)
     /\ UNCHANGED <<bottomUp, applied_topdown_nonce>>

\* Tokens back to the parent of s.
Release(s, sender, amount) ==
  LET m == NewReleaseMsg(s, sender, CollectCrossFee(amount))
  IN /\ amount > 0 /\ CanPayCrossFee(amount)
     /\ CommitBottomupMsg(s, m, CrossMsgFee)
     /\ Settle(s, amount, m.value, 0)
     /\ Sends(s, m)
     /\ UNCHANGED <<applied_topdown_nonce, subnets>>

\* An actor sends any message anywhere else.
SendCross(s, dst, sender, amount, payload) ==
  LET m == Msg(s, dst, sender, CollectCrossFee(amount), payload)
  IN /\ dst # s /\ CanPayCrossFee(amount)
     /\ CommitCrossMessage(s, m, CrossMsgFee)
     /\ CrossMsgSideEffects(s, m, amount, CrossMsgFee)
     /\ Sends(s, m)

\* An owner pays for the next hop of a message in transit (what is paid above the fee
\* is returned).
Propagate(s, item, owner) ==
  /\ owner \in item.owners
  /\ CommitCrossMessage(s, item.msg, CrossMsgFee)
  /\ CrossMsgSideEffects(s, item.msg, CrossMsgFee, CrossMsgFee)
  /\ postbox' = [postbox EXCEPT ![s] = @ \ {item}]
  /\ UNCHANGED <<epoch, granted, carried, sent, delivered>>

\* A plausible slip: the item is stored under its new hash and kept under the old.
SwapPostboxItemKeepsOld(box, old, new) == box \union {new}

\* The owners are part of the item, and so of the hash it is stored under.
SwapPostboxItem(box, old, new) == (box \ {old}) \union {new}

WhitelistPropagator(s, item, owner, added) ==
  /\ owner \in item.owners
  /\ postbox' = [postbox EXCEPT ![s] =
       SwapPostboxItem(@, item, PostBoxItem(item.msg, item.owners \union {added}))]
  /\ UNCHANGED <<epoch, bottomUp, applied_topdown_nonce, subnets, money, granted,
                 carried, sent, delivered>>

-----------------------------------------------------------------------------
(* Applying the messages of a checkpoint, all of them or none. *)

\* The messages that are in S, in their order.
Only(msgs, S) ==
  LET only[n \in 0..Len(msgs)] ==
        IF n = 0 THEN <<>>
        ELSE IF msgs[n] \in S THEN Append(only[n - 1], msgs[n]) ELSE only[n - 1]
  IN only[Len(msgs)]

\* The messages that have arrived.
Own(s, msgs) == Only(msgs, {m \in Range(msgs) : m.to = s})

\* A plausible slip: a message that has arrived is kept in the postbox as well.
InTransitAll(s, msgs) == {PostBoxItem(m, {m.sender}) : m \in Range(msgs)}

\* What goes to the postbox, owned by the raw address of its sender.
InTransit(s, msgs) ==
  {PostBoxItem(m, {m.sender}) : m \in {x \in Range(msgs) : x.to # s}}

\* The messages for this network carry the nonces from next on, and their receivers
\* take them.  A message in transit is not looked at.
CanApplyOwn(s, msgs, next) ==
  /\ \A i \in DOMAIN Own(s, msgs) : Own(s, msgs)[i].nonce = next + i - 1
  /\ \A i \in DOMAIN Own(s, msgs) : Own(s, msgs)[i].payload \notin Aborting

\* Every top-down message, in transit or not, has to be covered by the balance left.
CanMint(s, msgs) ==
  \A i \in DOMAIN msgs :
    gateway_balance[s] >= TotalValue(Own(s, SubSeq(msgs, 1, i - 1))) + msgs[i].value

\* The messages that have arrived are paid out, the others wait in the postbox, and the
\* validators get the fee of the checkpoint.
Apply(s, msgs, fee) ==
  /\ Settle(s, 0, 0, TotalValue(Own(s, msgs)) + fee)
  /\ postbox' = [postbox EXCEPT ![s] = @ \union InTransit(s, msgs)]
  /\ delivered' = [delivered EXCEPT ![s] =
                     @ \o [i \in DOMAIN Own(s, msgs) |-> Content(Own(s, msgs)[i])]]
  /\ UNCHANGED <<granted, sent>>

\* A top-down checkpoint of c with the next n messages of the parent's queue.
ExecuteTopdown(c, n) ==
  LET msgs == [i \in 1..n |-> subnets[c].top_down_msgs[carried[c] + i - 1]]
  IN /\ Registered(c)
     /\ CanMint(c, msgs) /\ CanApplyOwn(c, msgs, applied_topdown_nonce[c])
     /\ Apply(c, msgs, 0)
     /\ applied_topdown_nonce' = [applied_topdown_nonce EXCEPT ![c] = @ + Len(Own(c, msgs))]
     /\ carried' = [carried EXCEPT ![c] = @ + n]
     /\ UNCHANGED <<epoch, bottomUp, subnets>>

\* What a checkpoint takes out of the circulating supply: the values of its messages
\* and their fees.
CheckpointValue(ch) == TotalValue(ch.msgs) + ch.fee

EnsureCrossMsgsSorted(ch) ==
  \A i \in 2..Len(ch.msgs) : ch.msgs[i - 1].nonce < ch.msgs[i].nonce

ReleaseSupply(c, ch) == subnets[c].circ_supply - CheckpointValue(ch)

\* The checkpoint of the parent lists that of the child.  (add_child_check refuses a
\* second one with the same cid: prev_epoch makes every k new.)
AddChildCheck(ch, c, k) == [ch EXCEPT !.children = Append(@, <<c, k>>)]

\* The next checkpoint of c, once its window is over, at the gateway of the parent.
CommitChildCheck(c) ==
  LET p == Parent(c)
      k == subnets[c].prev_epoch + CheckPeriod
      ch == CheckpointAt(c, k)
  IN /\ Registered(c) /\ k <= CheckpointEpoch(epoch[c])
     /\ EnsureCrossMsgsSorted(ch)
     /\ subnets[c].circ_supply >= CheckpointValue(ch)
     /\ CanApplyOwn(p, ch.msgs, subnets[c].applied_bottomup_nonce)
     /\ bottomup_checkpoints' =
          FlushCheckpoint(p, AddChildCheck(GetWindowCheckpoint(p), c, k))
     /\ subnets' = [subnets EXCEPT
                      ![c].circ_supply = ReleaseSupply(c, ch),
                      ![c].prev_epoch = k,
                      ![c].applied_bottomup_nonce = @ + Len(Own(p, ch.msgs))]
     /\ Apply(p, ch.msgs, ch.fee)
     /\ UNCHANGED <<epoch, bottomup_nonce, applied_topdown_nonce, carried>>

-----------------------------------------------------------------------------
(* The life of a subnet. *)

\* The initial validators of a subnet are paid out of the gateway's reserve, in its
\* first epoch (bound: once).
SetMembership(c) ==
  /\ epoch[c] = 1 /\ granted[c] = 0 /\ ValidatorFunds[c] > 0
  /\ Settle(c, 0, 0, ValidatorFunds[c])
  /\ granted' = [granted EXCEPT ![c] = ValidatorFunds[c]]
  /\ UNCHANGED <<epoch, bottomUp, applied_topdown_nonce, postbox, subnets, carried,
                 sent, delivered>>

\* A plausible slip: the circulating supply is not looked at.
KillAnySupply(c) ==
  /\ Registered(c)
  /\ subnets' = [subnets EXCEPT ![c] = NotRegistered]
  /\ UNCHANGED <<epoch, bottomUp, applied_topdown_nonce, postbox, money, granted,
                 carried, sent, delivered>>

\* The gateway forgets a subnet that has no circulating supply, its queue included.
Kill(c) ==
  /\ Registered(c) /\ subnets[c].circ_supply = 0
  /\ subnets' = [subnets EXCEPT ![c] = NotRegistered]
  /\ UNCHANGED <<epoch, bottomUp, applied_topdown_nonce, postbox, money, granted,
                 carried, sent, delivered>>

\* Time passes on one chain.  Bound: only while messages wait for the end of a window.
Tick(s) ==
  /\ GetWindowCheckpoint(s).msgs # <<>>
  /\ epoch' = [epoch EXCEPT ![s] = @ + 1]
  /\ UNCHANGED <<bottomUp, applied_topdown_nonce, postbox, subnets, money, granted,
                 carried, sent, delivered>>

\* Every subnet with an endowment has been funded once by its parent, and that message
\* has arrived; nothing else has happened yet.
Init ==
  LET Endowed(c) == Endowment[c] > 0
      First(c) == NewFundMsg(c, CHOOSE a \in Accounts : TRUE, Endowment[c])
  IN /\ epoch = [s \in Networks |-> 1]
     /\ bottomup_checkpoints = [s \in Networks |-> <<>>]
     /\ bottomup_nonce = [s \in Networks |-> 0]
     /\ applied_topdown_nonce = [s \in Networks |-> IF ~IsRoot(s) /\ Endowed(s) THEN 1 ELSE 0]
     /\ postbox = [s \in Networks |-> {}]
     /\ subnets = [c \in NonRoot |->
                     [registered |-> TRUE, circ_supply |-> Endowment[c],
                      top_down_msgs |-> [k \in IF Endowed(c) THEN {0} ELSE {} |-> First(c)],
                      topdown_nonce |-> IF Endowed(c) THEN 1 ELSE 0,
                      applied_bottomup_nonce |-> 0, prev_epoch |-> 0]]
     /\ wallet = [s \in Networks |-> IF IsRoot(s) THEN RootFunds
                                   ELSE Endowment[s] - EndowedBelow(s)]
     /\ gateway_balance = [s \in Networks |-> IF IsRoot(s) THEN EndowedBelow(s)
                                   ELSE Reserve - Endowment[s] + EndowedBelow(s)]
     /\ burnt = [s \in Networks |-> 0]
     /\ granted = [c \in NonRoot |-> 0]
     /\ carried = [c \in NonRoot |-> IF Endowed(c) THEN 1 ELSE 0]
     /\ sent = [s \in Networks |-> <<>>]
     /\ delivered = [s \in Networks |-> <<>>]

FundAny == \E r \in FundRoutes, a \in Senders, v \in Amounts : Fund(r[1], r[2], a, v)
ReleaseAny == \E s \in Releasing, a \in Senders, v \in Amounts : Release(s, a, v)
SendCrossAny == \E r \in SendRoutes, a \in Senders, v \in Amounts, p \in Payloads :
                  SendCross(r[1], r[2], a, v, p)
PropagateAny(s) == \E i \in postbox[s], o \in Accounts : Propagate(s, i, o)
WhitelistAny(s) == \E i \in postbox[s], o, added \in Accounts :
                     WhitelistPropagator(s, i, o, added)
ExecuteTopdownAny(c) ==
  \E n \in 1..MaxMsgs :
    /\ Registered(c) /\ carried[c] + n - 1 \in DOMAIN subnets[c].top_down_msgs
    /\ ExecuteTopdown(c, n)

Next ==
  \/ FundAny \/ ReleaseAny \/ SendCrossAny
  \/ \E s \in Networks : PropagateAny(s) \/ WhitelistAny(s) \/ Tick(s)
  \/ \E c \in NonRoot : ExecuteTopdownAny(c) \/ CommitChildCheck(c) \/ SetMembership(c)
  \/ \E c \in Killable : Kill(c)

Spec == Init /\ [][Next]_vars

\* Validators keep submitting checkpoints of both kinds and time goes on.  Owners
\* propagate their messages in the end: nothing in the code does it for them.
FairSpec ==
  /\ Spec
  /\ \A s \in Networks : WF_vars(PropagateAny(s)) /\ WF_vars(Tick(s))
  /\ \A c \in NonRoot : WF_vars(ExecuteTopdownAny(c)) /\ WF_vars(CommitChildCheck(c))

-----------------------------------------------------------------------------
(* Where a message can be. *)

Queued(c) == IF Registered(c)
             THEN {subnets[c].top_down_msgs[n] : n \in {k \in DOMAIN subnets[c].top_down_msgs :
                                                          k >= carried[c]}}
             ELSE {}
Boxed(s) == {i.msg : i \in postbox[s]}

\* The checkpoints of s that the gateway of its parent has not listed in its own.
Uncommitted(s) ==
  {k \in DOMAIN bottomup_checkpoints[s] :
     IsRoot(s) \/ \A ch \in Range(bottomup_checkpoints[Parent(s)]) :
                    <<s, k>> \notin Range(ch.children)}
Batched(s) == UNION {Range(bottomup_checkpoints[s][k].msgs) : k \in Uncommitted(s)}

NumDelivered == Total([s \in Networks |-> Len(delivered[s])])
ValueOf(msgs) == Total([m \in msgs |-> m.value])

Supply(c) == IF Registered(c) THEN subnets[c].circ_supply ELSE 0
SupplyBelow(s) == Total([c \in Children(s) |-> Supply(c)])

\* Balances, supplies and counters are natural numbers, a queue is numbered without gaps
\* (store_topdown_msg writes at the nonce), and every message in transit has an owner.
TypeOK ==
  /\ epoch \in [Networks -> Nat]
  /\ bottomup_nonce \in [Networks -> Nat] /\ applied_topdown_nonce \in [Networks -> Nat]
  /\ gateway_balance \in [Networks -> Nat] /\ wallet \in [Networks -> Nat]
  /\ burnt \in [Networks -> Nat]
  /\ carried \in [NonRoot -> Nat]
  /\ \A c \in NonRoot : Registered(c) =>
       /\ subnets[c].circ_supply \in Nat
       /\ DOMAIN subnets[c].top_down_msgs = 0..subnets[c].topdown_nonce - 1
       /\ carried[c] <= subnets[c].topdown_nonce
  /\ \A s \in Networks : \A i \in postbox[s] : i.owners # {} /\ i.owners \subseteq Accounts

\* The circulating supply the parent's gateway keeps for a subnet is exactly what there
\* is below: on the chain itself and the chains below it, on the way down to them and,
\* values and fees, on the way up.  What set_membership pays out comes on top.  (Only
\* while no subnet with such a payment is killed: with its tokens released instead of
\* those of the supply, the supply is 0 while messages are still queued for the subnet.)
SupplyAccounted ==
  \A c \in NonRoot :
    Supply(c) + granted[c] =
      ValueOf(Queued(c)) + wallet[c] + ValueOf(Boxed(c)) + SupplyBelow(c)
      + Total([k \in Uncommitted(c) |-> CheckpointValue(bottomup_checkpoints[c][k])])

\* The gateway of the root holds what its subnets may release, no more and no less,
\* together with what waits in its postbox.
RootBacked ==
  \A s \in Networks : IsRoot(s) => gateway_balance[s] = SupplyBelow(s) + ValueOf(Boxed(s))

\* A gateway has burnt exactly what the checkpoints of its chain release at the parent.
BurntIsReleased ==
  \A s \in Networks :
    burnt[s] = Total([k \in DOMAIN bottomup_checkpoints[s] |->
                        TotalValue(bottomup_checkpoints[s][k].msgs)])

\* The number of copies of a message on its way, and of those that have arrived.
Copies(m) ==
  Total([s \in Networks |-> Cardinality({x \in Batched(s) : Content(x) = m})
                            + Cardinality({i \in postbox[s] : Content(i.msg) = m})
                            + Cardinality({x \in Queued(s) : Content(x) = m})])
Count(seqs, m) == Total([s \in Networks |-> Len(Only(seqs[s], {m}))])

\* No subnet on the way of m was killed.
WayOpen(m) == \A c \in NonRoot : OnPath(c, m.from, m.to) => Registered(c)

\* Every message sent is in one place: a queue, a checkpoint, a postbox, or delivered.
\* Through all hops none is lost and none is doubled, not even two that are alike,
\* unless a subnet on its way is killed.
NothingLost ==
  \A s \in Networks : \A m \in Range(sent[s]) :
    WayOpen(m) => Count(sent, m) = Copies(m) + Count(delivered, m)

\* A message is only ever where the path between its ends leads, and each gateway it
\* passes sees it going the way it came.
OnRoute ==
  \A s \in Networks :
    /\ \A m \in Batched(s) : OnPath(s, m.from, m.to) /\ OnPath(Parent(s), m.from, m.to)
    /\ \A m \in Queued(s) :
         /\ OnPath(s, m.from, m.to) /\ OnPath(Parent(s), m.from, m.to)
         /\ ApplyType(m.from, m.to, s) = TopDown
    /\ \A m \in Boxed(s) : OnPath(s, m.from, m.to) /\ s # m.to

\* Between a network and its parent or child, what arrives is what was sent, in order.
NeighbourOrder ==
  \A s \in Networks : \A c \in Children(s) : \A ends \in {<<s, c>>, <<c, s>>} :
    LET in == delivered[ends[2]]
        out == sent[ends[1]]
    IN IsPrefix(Only(in, {m \in Range(in) : m.from = ends[1]}),
                Only(out, {m \in Range(out) : m.to = ends[2]}))

\* Whatever a subnet has put into checkpoints, the parent can release.
ReleaseCovered ==
  \A c \in NonRoot : Registered(c) =>
    Total([k \in Uncommitted(c) |-> CheckpointValue(bottomup_checkpoints[c][k])])
      <= subnets[c].circ_supply

\* What can keep messages from arriving: a subnet was killed or never existed; a
\* receiver fails, and with it the checkpoint; a gateway has counted messages of its own
\* as applied; or a message in transit was numbered before one for the parent, which does
\* not count it.
Obstructed ==
  \/ \E c \in NonRoot :
       \/ ~Registered(c)
       \/ applied_topdown_nonce[c] > carried[c]
       \/ \E k, l \in DOMAIN bottomup_checkpoints[c] :
            \E x \in Range(bottomup_checkpoints[c][k].msgs),
               y \in Range(bottomup_checkpoints[c][l].msgs) :
              x.to # Parent(c) /\ y.to = Parent(c) /\ x.nonce < y.nonce
  \/ \E s \in Networks : \E m \in Range(sent[s]) :
       m.to \notin Networks \/ m.payload \in Aborting

\* Every message sent arrives in the end, through queues, windows and postboxes, in
\* whatever order the checkpoints of the chains are executed, unless it is obstructed.
AllArrive == \A n \in 1..MaxMsgs : NumSent >= n ~> NumDelivered >= n \/ Obstructed

\* What release sends is paid out at the parent in the end.
ReleasesArrive ==
  \A s \in Releasing :
    (\E m \in Range(sent[s]) : m.to = Parent(s)) ~> delivered[Parent(s)] # <<>>

\* What fund sends reaches the subnet in the end.
FundsArrive ==
  \A r \in FundRoutes :
    (\E m \in Range(sent[r[1]]) : m.to = r[2]) ~> delivered[r[2]] # <<>>

\* A message names the chain it was sent from as its origin.
OriginHonest == \A s \in Networks : \A m \in Range(sent[s]) : m.from = s
=============================================================================
