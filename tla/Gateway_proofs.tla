--------------------------- MODULE Gateway_proofs ---------------------------
(***************************************************************************)
(* Proofs about Gateway, for every tree of subnets: the state keeps its    *)
(* types, the gateways burn exactly what they release further up, where    *)
(* fund is called for children only a message never leaves the path        *)
(* between its ends, the gateway of the root holds what its subnets may    *)
(* release, and the circulating supply of a subnet is what there is below. *)
(***************************************************************************)
EXTENDS Gateway, Lemmas

\* One step of the recursion in Only.
OnlyStep(only, S, msgs, n) ==
  IF n = 0 THEN <<>>
  ELSE IF msgs[n] \in S THEN Append(only[n - 1], msgs[n]) ELSE only[n - 1]

\* The recursive function in Only exists, and its values are sequences of messages.
LEMMA OnlySteps ==
  ASSUME NEW M, NEW msgs \in Seq(M), NEW S
  PROVE  \E only : /\ \A n \in 0..Len(msgs) : /\ only[n] = OnlyStep(only, S, msgs, n)
                                              /\ only[n] \in Seq(M)
                   /\ Only(msgs, S) = only[Len(msgs)]
  <1> DEFINE L == Len(msgs)
             Good(f, k) == f = [n \in 0..k |-> OnlyStep(f, S, msgs, n)]
             P == {k \in Nat : k <= L => \E f \in [0..k -> Seq(M)] : Good(f, k)}
  <1>1. L \in Nat
    BY LenProperties
  <1>2. 0 \in P
    <2> DEFINE f == [n \in 0..0 |-> <<>>]
    <2>1. f \in [0..0 -> Seq(M)]
      BY EmptySeq
    <2>2. \A n \in 0..0 : f[n] = OnlyStep(f, S, msgs, n)
      BY DEF OnlyStep
    <2>3. Good(f, 0)
      BY <2>2
    <2> HIDE DEF Good
    <2>4. QED
      BY <2>1, <2>3
  <1>3. ASSUME NEW k \in Nat, k \in P PROVE k + 1 \in P
    <2> SUFFICES ASSUME k + 1 <= L PROVE \E f \in [0..k + 1 -> Seq(M)] : Good(f, k + 1)
      OBVIOUS
    <2>1. PICK f \in [0..k -> Seq(M)] : Good(f, k)
      BY <1>1, <1>3
    <2> DEFINE g == [n \in 0..k + 1 |-> OnlyStep(f, S, msgs, n)]
    <2>2. \A n \in 0..k : g[n] = f[n]
      BY <2>1
    <2>3. \A n \in 0..k + 1 : g[n] = OnlyStep(f, S, msgs, n)
      OBVIOUS
    <2>4. ASSUME NEW n \in 0..k + 1
          PROVE  g[n] \in Seq(M) /\ OnlyStep(f, S, msgs, n) = OnlyStep(g, S, msgs, n)
      <3>1. CASE n = 0
        BY <3>1, <2>3, EmptySeq DEF OnlyStep
      <3>2. CASE n # 0
        <4>1. n - 1 \in 0..k /\ n \in 1..L
          BY <1>1, <3>2
        <4>2. f[n - 1] \in Seq(M) /\ g[n - 1] = f[n - 1]
          BY <4>1, <2>1, <2>2
        <4>3. msgs[n] \in M
          BY <4>1, ElementOfSeq
        <4>4. Append(f[n - 1], msgs[n]) \in Seq(M)
          BY <4>2, <4>3, AppendProperties
        <4>5. g[n] = OnlyStep(f, S, msgs, n)
          BY <2>3
        <4> HIDE DEF g
        <4>6. QED
          BY <3>2, <4>2, <4>4, <4>5 DEF OnlyStep
      <3>3. QED
        BY <3>1, <3>2
    <2>5. g \in [0..k + 1 -> Seq(M)]
      BY <2>4
    <2>6. Good(g, k + 1)
      BY <2>4
    <2> HIDE DEF g, Good
    <2>7. QED
      BY <2>5, <2>6
  <1>4. \E f \in [0..L -> Seq(M)] : Good(f, L)
    <2> HIDE DEF P, Good
    <2>1. L \in P
      BY <1>1, <1>2, <1>3, NatSetInduction
    <2>2. QED
      BY <1>1, <2>1 DEF P
  <1> DEFINE Step(f) == [n \in 0..L |-> OnlyStep(f, S, msgs, n)]
             only == CHOOSE f : f = Step(f)
  <1>5. PICK h \in [0..L -> Seq(M)] : h = Step(h)
    BY <1>4
  <1>6. only = Step(only)
    <2> HIDE DEF Step
    <2>1. QED
      BY <1>5
  <1>7. Only(msgs, S) = only[L]
    BY DEF Only, OnlyStep
  \* Whatever function is chosen, its values are sequences.
  <1> HIDE DEF only
  <1> DEFINE Q == {n \in Nat : n <= L => only[n] \in Seq(M)}
  <1>8. \A n \in 0..L : only[n] = OnlyStep(only, S, msgs, n)
    BY <1>6
  <1>9. 0 \in Q
    <2>1. only[0] = OnlyStep(only, S, msgs, 0)
      BY <1>1, <1>8
    <2>2. OnlyStep(only, S, msgs, 0) = <<>>
      BY DEF OnlyStep
    <2>3. <<>> \in Seq(M)
      BY EmptySeq
    <2>4. QED
      BY <2>1, <2>2, <2>3
  <1>10. ASSUME NEW n \in Nat, n \in Q PROVE n + 1 \in Q
    <2> SUFFICES ASSUME n + 1 <= L PROVE only[n + 1] \in Seq(M)
      OBVIOUS
    <2>1. only[n] \in Seq(M) /\ n + 1 \in 1..L /\ n + 1 - 1 = n /\ n + 1 # 0
      BY <1>1, <1>10
    <2>2. msgs[n + 1] \in M
      BY <2>1, ElementOfSeq
    <2>3. Append(only[n], msgs[n + 1]) \in Seq(M)
      BY <2>1, <2>2, AppendProperties
    <2>4. only[n + 1] = OnlyStep(only, S, msgs, n + 1)
      BY <1>1, <1>8, <2>1
    <2>5. QED
      BY <2>1, <2>3, <2>4 DEF OnlyStep
  <1>11. \A n \in Nat : n \in Q
    <2> HIDE DEF Q
    <2>1. QED
      BY <1>9, <1>10, NatSetInduction
  <1>12. \A n \in 0..L : only[n] \in Seq(M)
    BY <1>1, <1>11
  <1>13. QED
    BY <1>7, <1>8, <1>12

\* What Own does with one message more.
OwnStep(own, s, msgs, n) ==
  IF n = 0 THEN <<>>
  ELSE IF msgs[n].to = s THEN Append(own[n - 1], msgs[n]) ELSE own[n - 1]

\* Own is the last value of a function that goes through the messages.
LEMMA OwnSteps ==
  ASSUME NEW M, NEW msgs \in Seq(M), NEW s
  PROVE  \E own : /\ \A n \in 0..Len(msgs) : /\ own[n] = OwnStep(own, s, msgs, n)
                                             /\ own[n] \in Seq(M)
                  /\ Own(s, msgs) = own[Len(msgs)]
  <1> DEFINE S == {m \in Range(msgs) : m.to = s}
  <1>1. PICK own : /\ \A n \in 0..Len(msgs) : /\ own[n] = OnlyStep(own, S, msgs, n)
                                              /\ own[n] \in Seq(M)
                   /\ Only(msgs, S) = own[Len(msgs)]
    <2> HIDE DEF S
    <2>1. QED
      BY OnlySteps
  <1>2. ASSUME NEW n \in 0..Len(msgs)
        PROVE  OnlyStep(own, S, msgs, n) = OwnStep(own, s, msgs, n)
    <2>1. CASE n = 0
      BY <2>1 DEF OnlyStep, OwnStep
    <2>2. CASE n # 0
      <3>1. n \in 1..Len(msgs) /\ Len(msgs) \in Nat /\ DOMAIN msgs = 1..Len(msgs)
        BY <2>2, LenProperties
      <3>2. msgs[n] \in Range(msgs)
        BY <3>1 DEF Range
      <3>3. msgs[n] \in S <=> msgs[n].to = s
        BY <3>2
      <3> HIDE DEF S
      <3>4. QED
        BY <2>2, <3>3 DEF OnlyStep, OwnStep
    <2>3. QED
      BY <2>1, <2>2
  <1>3. Own(s, msgs) = own[Len(msgs)]
    BY <1>1 DEF Own
  <1> HIDE DEF S
  <1>4. QED
    BY <1>1, <1>2, <1>3

\* The messages that have arrived are a sequence of messages.
LEMMA OwnType ==
  ASSUME NEW M, NEW msgs \in Seq(M), NEW s
  PROVE  Own(s, msgs) \in Seq(M)
  <1>1. Len(msgs) \in 0..Len(msgs)
    BY LenProperties
  <1>2. QED
    BY <1>1, OwnSteps

\* The values of a sequence of messages add up to a natural number.
LEMMA ValueType ==
  ASSUME NEW M, \A m \in M : m.value \in Nat, NEW msgs \in Seq(M)
  PROVE  TotalValue(msgs) \in Nat
  <1> DEFINE f == [i \in DOMAIN msgs |-> msgs[i].value]
  <1>1. DOMAIN msgs = 1..Len(msgs) /\ Len(msgs) \in Nat
    BY LenProperties
  <1>2. IsFiniteSet(DOMAIN msgs)
    BY <1>1, FS_Interval
  <1>3. \A i \in DOMAIN msgs : msgs[i] \in M
    BY <1>1, ElementOfSeq
  <1>4. f \in [DOMAIN msgs -> Nat]
    BY <1>3
  <1>5. SumFunction(f) \in Nat
    <2> HIDE DEF f
    <2>1. QED
      BY <1>2, <1>4, LedgerTotal
  <1>6. QED
    BY <1>5 DEF TotalValue, Total

\* One more message adds its value.
LEMMA ValueAppend ==
  ASSUME NEW M, \A m \in M : m.value \in Nat, NEW msgs \in Seq(M), NEW x \in M
  PROVE  TotalValue(Append(msgs, x)) = TotalValue(msgs) + x.value
  <1> DEFINE n == Len(msgs)
             new == Append(msgs, x)
             f == [i \in 1..n |-> msgs[i].value]
             g == [i \in 1..n + 1 |-> new[i].value]
  <1>1. n \in Nat /\ DOMAIN msgs = 1..n
    BY LenProperties
  <1>2. new \in Seq(M) /\ Len(new) = n + 1 /\ new[n + 1] = x
        /\ \A i \in 1..n : new[i] = msgs[i]
    BY AppendProperties
  <1>3. DOMAIN new = 1..n + 1
    BY <1>2, LenProperties
  <1> HIDE DEF new, n
  <1>4. IsFiniteSet(1..n) /\ 1..n + 1 = (1..n) \cup {n + 1} /\ n + 1 \notin 1..n
    <2>1. IsFiniteSet(1..n)
      BY <1>1, FS_Interval
    <2>2. 1..n + 1 = (1..n) \cup {n + 1} /\ n + 1 \notin 1..n
      BY <1>1
    <2>3. QED
      BY <2>1, <2>2
  <1>5. \A i \in 1..n : msgs[i] \in M
    BY ElementOfSeq DEF n
  <1>6. \A i \in 1..n + 1 : new[i] \in M
    BY <1>2, <1>4, <1>5
  <1>7. f \in [1..n -> Nat] /\ g \in [1..n + 1 -> Nat]
    BY <1>5, <1>6
  <1>8. g[n + 1] = x.value /\ \A i \in 1..n : g[i] = f[i]
    BY <1>1, <1>2, <1>4
  <1>9. TotalValue(msgs) = SumFunction(f) /\ TotalValue(new) = SumFunction(g)
    BY <1>1, <1>3 DEF TotalValue, Total
  <1> HIDE DEF f, g
  <1>10. IsFiniteSet(1..n + 1)
    <2>1. 1 \in Int /\ n + 1 \in Int
      BY <1>1
    <2>2. QED
      BY <2>1, FS_Interval
  <1>11. /\ SumFunction(f) = SumFunctionOnSet(f, 1..n)
         /\ SumFunction(g) = SumFunctionOnSet(g, 1..n + 1)
    BY <1>4, <1>7, <1>10, LedgerTotal
  <1>12. \A i \in (1..n) \cup {n + 1} : g[i] \in Int
    BY <1>4, <1>7
  <1>13. SumFunctionOnSet(g, (1..n) \cup {n + 1}) = g[n + 1] + SumFunctionOnSet(g, 1..n)
    BY <1>4, <1>12, SumAdd
  <1>14. SumFunctionOnSet(g, 1..n) = SumFunctionOnSet(f, 1..n)
    BY <1>4, <1>8, SumSame
  <1>15. SumFunctionOnSet(f, 1..n) \in Nat /\ x.value \in Nat
    BY <1>4, <1>7, <1>11, LedgerTotal
  <1>16. SumFunction(g) = SumFunction(f) + x.value
    <2>1. SumFunctionOnSet(g, 1..n + 1) = x.value + SumFunctionOnSet(f, 1..n)
      BY <1>4, <1>8, <1>13, <1>14
    <2> DEFINE a == SumFunctionOnSet(f, 1..n)
               v == x.value
    <2>2. a \in Nat /\ v \in Nat
      BY <1>15
    <2>3. SumFunction(g) = v + a /\ SumFunction(f) = a
      BY <1>11, <2>1
    <2> HIDE DEF a, v
    <2>4. SumFunction(g) = SumFunction(f) + v
      BY <2>2, <2>3
    <2>5. QED
      BY <2>4 DEF v
  <1>17. QED
    BY <1>9, <1>16 DEF new

-----------------------------------------------------------------------------
(* The types of the state. *)

\* The chain id of the hierarchy, and all addresses of subnet actors in it.
RootId == (CHOOSE s \in Networks : TRUE).root
Addresses == UNION {Range(d.children) : d \in Destinations}
ID == IDs(RootId, Addresses)

Message == [from : ID, to : ID, sender : Accounts, value : Nat,
            payload : Payloads \union {"send"}, nonce : Nat]
Item == [msg : Message, owners : (SUBSET Accounts) \ {{}}]
Checkpoint == [msgs : Seq(Message), fee : Nat, children : Seq(NonRoot \X Nat)]
Subnet == [registered : {TRUE}, circ_supply : Nat,
           top_down_msgs : UNION {[0..n - 1 -> Message] : n \in Nat},
           topdown_nonce : Nat, applied_bottomup_nonce : Nat, prev_epoch : Nat]

\* A chain has filled finitely many checkpoints.
WindowLog(log) ==
  /\ log = [k \in DOMAIN log |-> log[k]]
  /\ IsFiniteSet(DOMAIN log) /\ \A k \in DOMAIN log : log[k] \in Checkpoint

CountersTyped ==
  /\ epoch \in [Networks -> Nat] /\ applied_topdown_nonce \in [Networks -> Nat]
  /\ granted \in [NonRoot -> Nat]
MoneyTyped ==
  /\ gateway_balance \in [Networks -> Nat] /\ wallet \in [Networks -> Nat]
  /\ burnt \in [Networks -> Nat]
BottomUpTyped ==
  /\ bottomup_nonce \in [Networks -> Nat]
  /\ bottomup_checkpoints = [s \in Networks |-> bottomup_checkpoints[s]]
  /\ \A s \in Networks : WindowLog(bottomup_checkpoints[s])
PostboxTyped == postbox \in [Networks -> SUBSET Item]
SubnetsTyped ==
  /\ subnets \in [NonRoot -> Subnet \union {NotRegistered}]
  /\ carried \in [NonRoot -> Nat]
  /\ \A c \in NonRoot : Registered(c) =>
       /\ DOMAIN subnets[c].top_down_msgs = 0..subnets[c].topdown_nonce - 1
       /\ carried[c] <= subnets[c].topdown_nonce

TypeInv == CountersTyped /\ MoneyTyped /\ BottomUpTyped /\ PostboxTyped /\ SubnetsTyped

\* Every network and every destination is an identifier of the hierarchy.
LEMMA NetworksAreIDs ==
  /\ Networks \subseteq ID /\ Destinations \subseteq ID
  /\ NonRoot \subseteq Networks
  /\ \A c \in NonRoot : Parent(c) \in Networks
  <1>1. \A d \in Destinations : d.root = RootId
    <2>1. (CHOOSE s \in Networks : TRUE) \in Networks
      BY NetworksAssumption
    <2> DEFINE r == CHOOSE s \in Networks : TRUE
    <2> HIDE DEF r
    <2>2. r \in Destinations /\ RootId = r.root
      BY <2>1 DEF Destinations, RootId, r
    <2>3. QED
      BY <2>2, DestinationsAssumption
  <1>2. ASSUME NEW d \in Destinations PROVE d \in ID
    <2>1. d = SubnetID(d.root, d.children) /\ d.children \in Seq(Range(d.children))
      BY DestinationsAssumption
    <2>2. Range(d.children) \subseteq Addresses
      BY DEF Addresses
    <2>3. d.children \in Seq(Addresses)
      BY <2>1, <2>2, SeqMonotonic
    <2>4. d.root = RootId
      BY <1>1
    <2> DEFINE p == d.root
               q == d.children
    <2> HIDE DEF p, q
    <2>5. SubnetID(p, q) \in ID
      BY <2>3, <2>4 DEF p, q, SubnetID, ID, IDs
    <2>6. QED
      BY <2>1, <2>5 DEF p, q
  <1>3. QED
    BY <1>2, NetworksAssumption DEF Destinations, NonRoot

\* Settling a payment keeps the accounts natural, and burns what it says.
LEMMA SettleTyped ==
  ASSUME MoneyTyped, NEW s \in Networks,
         NEW paid \in Nat, NEW burn \in Nat, NEW reward \in Nat,
         Settle(s, paid, burn, reward)
  PROVE  /\ MoneyTyped'
         /\ burnt'[s] = burnt[s] + burn
         /\ \A t \in Networks : t # s => burnt'[t] = burnt[t]
  <1>1. /\ gateway_balance[s] \in Nat /\ wallet[s] \in Nat /\ burnt[s] \in Nat
        /\ wallet[s] >= paid /\ gateway_balance[s] + paid >= burn + reward
    BY DEF MoneyTyped, Settle
  <1>2. /\ gateway_balance[s] + paid - burn - reward \in Nat
        /\ wallet[s] - paid + reward \in Nat /\ burnt[s] + burn \in Nat
    BY <1>1
  <1>3. QED
    BY <1>2 DEF MoneyTyped, Settle

\* The checkpoint of any epoch is one, filled or still empty.
LEMMA CheckpointTyped ==
  ASSUME BottomUpTyped, NEW s \in Networks, NEW k
  PROVE  CheckpointAt(s, k) \in Checkpoint
  <1>1. EmptyCheckpoint \in Checkpoint
    BY EmptySeq DEF EmptyCheckpoint, Checkpoint
  <1>2. QED
    BY <1>1 DEF CheckpointAt, BottomUpTyped, WindowLog

\* Writing a checkpoint changes the one of the current window of this chain.
LEMMA FlushIs ==
  ASSUME BottomUpTyped, NEW s \in Networks, NEW ch \in Checkpoint,
         NEW log, log = FlushCheckpoint(s, ch),
         NEW w, w = WindowEpoch(epoch[s])
  PROVE  /\ log = [t \in Networks |-> log[t]]
         /\ \A t \in Networks : WindowLog(log[t])
         /\ \A t \in Networks : t # s => log[t] = bottomup_checkpoints[t]
         /\ DOMAIN log[s] = DOMAIN bottomup_checkpoints[s] \union {w}
         /\ log[s][w] = ch
         /\ \A k \in DOMAIN bottomup_checkpoints[s] :
              k # w => log[s][k] = bottomup_checkpoints[s][k]
  <1> DEFINE old == bottomup_checkpoints[s]
             new == [k \in DOMAIN old \union {w} |-> IF k = w THEN ch ELSE old[k]]
  <1>1. WindowLog(old)
    BY DEF BottomUpTyped
  <1>2. IsFiniteSet(DOMAIN old \union {w})
    BY <1>1, FS_AddElement DEF WindowLog
  <1>3. WindowLog(new)
    BY <1>1, <1>2 DEF WindowLog
  <1>4. log = [bottomup_checkpoints EXCEPT ![s] = new]
    BY DEF FlushCheckpoint
  <1>5. log[s] = new /\ \A t \in Networks : t # s => log[t] = bottomup_checkpoints[t]
    BY <1>4 DEF BottomUpTyped
  <1>6. log = [t \in Networks |-> log[t]]
    BY <1>4 DEF BottomUpTyped
  <1>7. /\ DOMAIN new = DOMAIN old \union {w} /\ new[w] = ch
        /\ \A k \in DOMAIN old : k # w => new[k] = old[k]
    OBVIOUS
  <1> HIDE DEF new
  <1>8. \A t \in Networks : WindowLog(log[t])
    BY <1>3, <1>5 DEF BottomUpTyped
  <1>9. QED
    BY <1>5, <1>6, <1>7, <1>8

\* A message put into the current checkpoint comes last in it, with a nonce; no other
\* checkpoint changes.
LEMMA CommitBottomupIs ==
  ASSUME BottomUpTyped, NEW s \in Networks, NEW m \in Message, NEW fee \in Nat,
         CommitBottomupMsg(s, m, fee),
         NEW w, w = WindowEpoch(epoch[s]),
         NEW x, x = [m EXCEPT !.nonce = bottomup_nonce[s]]
  PROVE  /\ BottomUpTyped' /\ x \in Message
         /\ \A t \in Networks : t # s => bottomup_checkpoints'[t] = bottomup_checkpoints[t]
         /\ DOMAIN bottomup_checkpoints'[s] = DOMAIN bottomup_checkpoints[s] \union {w}
         /\ bottomup_checkpoints'[s][w].msgs = Append(CheckpointAt(s, w).msgs, x)
         /\ bottomup_checkpoints'[s][w].fee = CheckpointAt(s, w).fee + fee
         /\ bottomup_checkpoints'[s][w].children = CheckpointAt(s, w).children
         /\ \A k \in DOMAIN bottomup_checkpoints[s] :
              k # w => bottomup_checkpoints'[s][k] = bottomup_checkpoints[s][k]
  <1> DEFINE old == CheckpointAt(s, w)
             new == [old EXCEPT !.msgs = Append(@, x), !.fee = @ + fee]
  <1>1. old \in Checkpoint
    BY CheckpointTyped
  <1>2. bottomup_nonce[s] \in Nat
    BY DEF BottomUpTyped
  <1>3. x \in Message
    BY <1>2 DEF Message
  <1> HIDE DEF old
  <1>4. old.msgs \in Seq(Message) /\ old.fee + fee \in Nat
    BY <1>1 DEF Checkpoint
  <1>5. Append(old.msgs, x) \in Seq(Message)
    BY <1>3, <1>4, AppendProperties
  <1>6. /\ new \in Checkpoint /\ new.msgs = Append(old.msgs, x)
        /\ new.fee = old.fee + fee /\ new.children = old.children
    BY <1>1, <1>4, <1>5 DEF Checkpoint
  <1>7. /\ bottomup_checkpoints' = FlushCheckpoint(s, new)
        /\ bottomup_nonce' = [bottomup_nonce EXCEPT ![s] = @ + 1]
    BY DEF CommitBottomupMsg, GetWindowCheckpoint, old
  <1> HIDE DEF new
  <1>8. /\ bottomup_checkpoints' = [t \in Networks |-> bottomup_checkpoints'[t]]
        /\ \A t \in Networks : WindowLog(bottomup_checkpoints'[t])
        /\ \A t \in Networks : t # s => bottomup_checkpoints'[t] = bottomup_checkpoints[t]
        /\ DOMAIN bottomup_checkpoints'[s] = DOMAIN bottomup_checkpoints[s] \union {w}
        /\ bottomup_checkpoints'[s][w] = new
        /\ \A k \in DOMAIN bottomup_checkpoints[s] :
             k # w => bottomup_checkpoints'[s][k] = bottomup_checkpoints[s][k]
    BY <1>6, <1>7, FlushIs
  <1>9. bottomup_nonce' \in [Networks -> Nat]
    BY <1>2, <1>7 DEF BottomUpTyped
  <1>10. BottomUpTyped'
    BY <1>8, <1>9 DEF BottomUpTyped, WindowLog
  <1>11. QED
    BY <1>3, <1>6, <1>8, <1>10 DEF old

\* A message put into a queue comes last in it; no other queue changes.
LEMMA CommitTopdownIs ==
  ASSUME SubnetsTyped, NEW s \in Networks, NEW m \in Message, CommitTopdownMsg(s, m),
         UNCHANGED carried,
         NEW c, c = Down(m.to, s)
  PROVE  /\ SubnetsTyped' /\ c # None /\ c \in NonRoot /\ c \in Children(s) /\ Registered(c)
         /\ \A d \in NonRoot : d # c => subnets'[d] = subnets[d]
         /\ subnets'[c].registered
         /\ subnets'[c].circ_supply = subnets[c].circ_supply + m.value
         /\ subnets'[c].prev_epoch = subnets[c].prev_epoch
         /\ \A n \in DOMAIN subnets'[c].top_down_msgs :
              \/ /\ n \in DOMAIN subnets[c].top_down_msgs
                 /\ subnets'[c].top_down_msgs[n] = subnets[c].top_down_msgs[n]
              \/ n \in Nat /\ subnets'[c].top_down_msgs[n] = [m EXCEPT !.nonce = n]
  <1> DEFINE b == subnets[c]
             n == b.topdown_nonce
             q == b.top_down_msgs
             x == [m EXCEPT !.nonce = n]
             r == [k \in DOMAIN q \union {n} |-> IF k = n THEN x ELSE q[k]]
             new == [b EXCEPT !.top_down_msgs = r, !.topdown_nonce = n + 1,
                              !.circ_supply = @ + m.value]
  <1>1. /\ c # None /\ c \in NonRoot /\ c \in Children(s) /\ Registered(c) /\ b.registered
        /\ subnets' = [subnets EXCEPT ![c] = new]
    BY DEF CommitTopdownMsg, Registered
  <1>2. b \in Subnet
    BY <1>1 DEF SubnetsTyped, Registered, NotRegistered
  <1>3. n \in Nat /\ DOMAIN q = 0..n - 1 /\ q \in UNION {[0..i - 1 -> Message] : i \in Nat}
        /\ carried[c] \in Nat /\ carried[c] <= n
    BY <1>1, <1>2 DEF SubnetsTyped, Subnet
  <1>4. m.value \in Nat /\ x \in Message
    BY <1>3 DEF Message
  <1>5. \A k \in 0..n - 1 : q[k] \in Message
    BY <1>3
  <1>6. DOMAIN r = 0..(n + 1) - 1
    BY <1>3
  <1>7. r \in [0..(n + 1) - 1 -> Message]
    <2> HIDE DEF x, q, n
    <2>1. \A k \in DOMAIN q \union {n} : r[k] \in Message
      BY <1>3, <1>4, <1>5
    <2>2. QED
      BY <2>1, <1>6
  <1>8. \A k \in DOMAIN r : (k \in DOMAIN q /\ r[k] = q[k]) \/ (k = n /\ r[k] = x)
    OBVIOUS
  <1> HIDE DEF r
  <1>9. r \in UNION {[0..i - 1 -> Message] : i \in Nat}
    <2>1. n + 1 \in Nat
      BY <1>3
    <2>2. QED
      BY <1>7, <2>1
  <1>10. /\ new \in Subnet /\ new.top_down_msgs = r /\ new.topdown_nonce = n + 1
         /\ new.registered /\ new.prev_epoch = b.prev_epoch
         /\ new.circ_supply = b.circ_supply + m.value
    <2> DEFINE v == b.circ_supply + m.value
               R == UNION {[0..i - 1 -> Message] : i \in Nat}
    <2>1. v \in Nat /\ n + 1 \in Nat
      <3>1. b.circ_supply \in Nat
        BY <1>2 DEF Subnet
      <3> DEFINE p == b.circ_supply
                 z == m.value
      <3>2. p \in Nat /\ z \in Nat
        BY <1>4, <3>1
      <3> HIDE DEF p, z
      <3>3. p + z \in Nat
        BY <3>2
      <3>4. QED
        BY <1>3, <3>3 DEF p, z
    <2>2. new = [b EXCEPT !.top_down_msgs = r, !.topdown_nonce = n + 1, !.circ_supply = v]
      BY <1>2 DEF Subnet
    <2>3. b \in [registered : {TRUE}, circ_supply : Nat, top_down_msgs : R,
                 topdown_nonce : Nat, applied_bottomup_nonce : Nat, prev_epoch : Nat]
      BY <1>2 DEF Subnet
    <2> DEFINE n1 == n + 1
    <2>4. n1 \in Nat /\ r \in R
      BY <1>9, <2>1
    <2> HIDE DEF v, R, b, n1, new
    <2>5. [b EXCEPT !.top_down_msgs = r, !.topdown_nonce = n1, !.circ_supply = v]
            \in [registered : {TRUE}, circ_supply : Nat, top_down_msgs : R,
                 topdown_nonce : Nat, applied_bottomup_nonce : Nat, prev_epoch : Nat]
      BY <2>1, <2>3, <2>4
    <2>6. new = [b EXCEPT !.top_down_msgs = r, !.topdown_nonce = n1, !.circ_supply = v]
      BY <2>2 DEF n1, b
    <2>7. /\ new.top_down_msgs = r /\ new.topdown_nonce = n1 /\ new.registered
          /\ new.prev_epoch = b.prev_epoch /\ new.circ_supply = v
      BY <2>3, <2>6
    <2>8. QED
      BY <2>5, <2>6, <2>7 DEF Subnet, R, n1, v
  <1> HIDE DEF new
  <1>11. subnets'[c] = new /\ \A d \in NonRoot : d # c => subnets'[d] = subnets[d]
    BY <1>1 DEF SubnetsTyped
  <1>12. subnets' \in [NonRoot -> Subnet \union {NotRegistered}]
    BY <1>1, <1>10 DEF SubnetsTyped
  <1>13. carried[c] <= n + 1
    BY <1>3
  <1>14. ASSUME NEW d \in NonRoot, Registered(d)'
         PROVE  /\ DOMAIN subnets'[d].top_down_msgs = 0..subnets'[d].topdown_nonce - 1
                /\ carried'[d] <= subnets'[d].topdown_nonce
    <2>1. CASE d = c
      BY <2>1, <1>6, <1>10, <1>11, <1>13
    <2>2. CASE d # c
      BY <2>2, <1>11, <1>14 DEF SubnetsTyped, Registered
    <2>3. QED
      BY <2>1, <2>2
  <1>15. SubnetsTyped'
    BY <1>12, <1>14 DEF SubnetsTyped
  <1>16. \A k \in DOMAIN subnets'[c].top_down_msgs :
           \/ /\ k \in DOMAIN subnets[c].top_down_msgs
              /\ subnets'[c].top_down_msgs[k] = subnets[c].top_down_msgs[k]
           \/ k \in Nat /\ subnets'[c].top_down_msgs[k] = [m EXCEPT !.nonce = k]
    BY <1>3, <1>8, <1>10, <1>11
  <1>17. QED
    BY <1>1, <1>10, <1>11, <1>15, <1>16

\* Up, round or down: what commit_cross_message writes keeps its types.
LEMMA CommitCrossTyped ==
  ASSUME TypeInv, NEW s \in Networks, NEW m \in Message, NEW fee \in Nat,
         CommitCrossMessage(s, m, fee), UNCHANGED carried
  PROVE  /\ BottomUpTyped' /\ SubnetsTyped'
         /\ applied_topdown_nonce' \in [Networks -> Nat]
  <1>1. CASE CommitUp(s, m, fee)
    <2>1. BottomUpTyped'
      BY <1>1, CommitBottomupIs DEF TypeInv, CommitUp
    <2>2. QED
      BY <1>1, <2>1 DEF TypeInv, CommitUp, CountersTyped, SubnetsTyped, Registered
  <1>2. CASE CommitTurn(s, m)
    <2>1. SubnetsTyped'
      BY <1>2, CommitTopdownIs DEF TypeInv, CommitTurn
    <2>2. QED
      BY <1>2, <2>1
      DEF TypeInv, CommitTurn, CountersTyped, BottomUpTyped, WindowLog, bottomUp
  <1>3. CASE CommitDown(s, m)
    <2>1. SubnetsTyped'
      BY <1>3, CommitTopdownIs DEF TypeInv, CommitDown
    <2>2. applied_topdown_nonce' \in [Networks -> Nat]
      BY <1>3 DEF TypeInv, CommitDown, CountersTyped
    <2>3. QED
      BY <1>3, <2>1, <2>2 DEF TypeInv, CommitDown, BottomUpTyped, WindowLog, bottomUp
  <1>4. QED
    BY <1>1, <1>2, <1>3 DEF CommitCrossMessage

\* What is paid, burnt and handed on when a message leaves.
LEMMA SideEffectsTyped ==
  ASSUME MoneyTyped, NEW s \in Networks, NEW m \in Message, NEW paid \in Nat, NEW fee \in Nat,
         CrossMsgSideEffects(s, m, paid, fee),
         NEW out \in Nat, out = IF GoesUp(m.from, m.to, s) THEN m.value ELSE 0
  PROVE  /\ MoneyTyped' /\ burnt'[s] = burnt[s] + out
         /\ \A t \in Networks : t # s => burnt'[t] = burnt[t]
  <1>1. m.value \in Nat
    BY DEF Message
  <1>2. PICK reward \in Nat : Settle(s, paid, out, reward)
    BY DEF CrossMsgSideEffects
  <1>3. QED
    BY <1>1, <1>2, SettleTyped

\* Executing the messages of a checkpoint keeps the types of balances and postbox, and
\* burns nothing.
LEMMA ApplyTyped ==
  ASSUME MoneyTyped, PostboxTyped, NEW s \in Networks, NEW msgs \in Seq(Message),
         NEW fee \in Nat, Apply(s, msgs, fee)
  PROVE  /\ MoneyTyped' /\ PostboxTyped'
         /\ \A t \in Networks : burnt'[t] = burnt[t]
  <1>1. TotalValue(Own(s, msgs)) + fee \in Nat
    <2>1. TotalValue(Own(s, msgs)) \in Nat
      BY OwnType, ValueType DEF Message
    <2>2. QED
      BY <2>1
  <1>2. MoneyTyped' /\ burnt'[s] = burnt[s] + 0
        /\ \A t \in Networks : t # s => burnt'[t] = burnt[t]
    <2> DEFINE r == TotalValue(Own(s, msgs)) + fee
    <2>1. r \in Nat /\ Settle(s, 0, 0, r)
      BY <1>1 DEF Apply
    <2> HIDE DEF r
    <2>2. QED
      BY <2>1, SettleTyped
  <1>3. burnt[s] \in Nat
    BY DEF MoneyTyped
  <1>4. InTransit(s, msgs) \subseteq Item
    <2>1. Range(msgs) \subseteq Message
      BY LenProperties, ElementOfSeq DEF Range
    <2>2. ASSUME NEW m \in Message PROVE PostBoxItem(m, {m.sender}) \in Item
      <3>1. m.sender \in Accounts
        BY DEF Message
      <3>2. QED
        BY <3>1 DEF PostBoxItem, Item
    <2>3. QED
      BY <2>1, <2>2 DEF InTransit
  <1>5. PostboxTyped'
    BY <1>4 DEF Apply, PostboxTyped
  <1>6. QED
    BY <1>2, <1>3, <1>5

\* The message of a call of fund, release or send_cross.
LEMMA SentMessages ==
  ASSUME NEW sender \in Senders, NEW amount \in Amounts, CanPayCrossFee(amount)
  PROVE  /\ CollectCrossFee(amount) \in Nat /\ amount \in Nat /\ CrossMsgFee \in Nat
         /\ \A dst \in NonRoot : NewFundMsg(dst, sender, CollectCrossFee(amount)) \in Message
         /\ \A s \in NonRoot : NewReleaseMsg(s, sender, CollectCrossFee(amount)) \in Message
         /\ \A s \in Networks, dst \in Destinations, p \in Payloads :
              Msg(s, dst, sender, CollectCrossFee(amount), p) \in Message
  <1> DEFINE v == CollectCrossFee(amount)
  <1>1. amount \in Nat /\ CrossMsgFee \in Nat
    BY AmountsAssumption
  <1>2. v \in Nat
    BY <1>1 DEF CollectCrossFee, CanPayCrossFee
  <1>3. sender \in Accounts
    BY RoutesAssumption
  <1> HIDE DEF v
  <1>4. ASSUME NEW x \in ID, NEW y \in ID, NEW p \in Payloads \union {"send"}
        PROVE  Msg(x, y, sender, v, p) \in Message
    BY <1>2, <1>3 DEF Msg, Message
  <1>5. \A c \in NonRoot : Parent(c) \in ID /\ c \in ID
    BY NetworksAreIDs
  <1>6. \A dst \in NonRoot : NewFundMsg(dst, sender, v) \in Message
    BY <1>4, <1>5 DEF NewFundMsg
  <1>7. \A s \in NonRoot : NewReleaseMsg(s, sender, v) \in Message
    BY <1>4, <1>5 DEF NewReleaseMsg
  <1>8. \A s \in Networks, dst \in Destinations, p \in Payloads :
          Msg(s, dst, sender, v, p) \in Message
    BY <1>4, NetworksAreIDs
  <1>9. QED
    BY <1>1, <1>2, <1>6, <1>7, <1>8 DEF v

\* What a step leaves alone keeps its types.
LEMMA Untouched ==
  /\ MoneyTyped /\ UNCHANGED money => MoneyTyped'
  /\ BottomUpTyped /\ UNCHANGED bottomUp => BottomUpTyped'
  /\ PostboxTyped /\ UNCHANGED postbox => PostboxTyped'
  /\ SubnetsTyped /\ UNCHANGED <<subnets, carried>> => SubnetsTyped'
  <1>1. MoneyTyped /\ UNCHANGED money => MoneyTyped'
    BY DEF MoneyTyped, money
  <1>2. BottomUpTyped /\ UNCHANGED bottomUp => BottomUpTyped'
    BY DEF BottomUpTyped, bottomUp, WindowLog
  <1>3. PostboxTyped /\ UNCHANGED postbox => PostboxTyped'
    BY DEF PostboxTyped
  <1>4. SubnetsTyped /\ UNCHANGED <<subnets, carried>> => SubnetsTyped'
    BY DEF SubnetsTyped, Registered
  <1>5. QED
    BY <1>1, <1>2, <1>3, <1>4

\* fund keeps the types.
LEMMA FundTyped ==
  ASSUME TypeInv, FundAny
  PROVE  TypeInv'
  <1>1. PICK r \in FundRoutes, a \in Senders, v \in Amounts : Fund(r[1], r[2], a, v)
    BY DEF FundAny
  <1> DEFINE s == r[1]
             m == NewFundMsg(r[2], a, CollectCrossFee(v))
  <1>2. s \in Networks /\ r[2] \in NonRoot
    BY <1>1, RoutesAssumption DEF Fund, NonRoot
  <1>3. m \in Message /\ v \in Nat /\ CrossMsgFee \in Nat
    BY <1>1, <1>2, SentMessages DEF Fund
  <1>4. /\ CommitTopdownMsg(s, m) /\ Settle(s, v, 0, CrossMsgFee) /\ Sends(s, m)
        /\ UNCHANGED <<bottomUp, applied_topdown_nonce>>
    BY <1>1 DEF Fund
  <1> HIDE DEF m, s
  <1>5. UNCHANGED <<epoch, postbox, granted, carried>>
    BY <1>4 DEF Sends
  <1>6. SubnetsTyped'
    BY <1>2, <1>3, <1>4, <1>5, CommitTopdownIs DEF TypeInv
  <1>7. MoneyTyped'
    BY <1>2, <1>3, <1>4, SettleTyped DEF TypeInv
  <1>8. BottomUpTyped' /\ PostboxTyped'
    BY <1>4, <1>5, Untouched DEF TypeInv
  <1>9. CountersTyped'
    BY <1>4, <1>5 DEF TypeInv, CountersTyped
  <1>10. QED
    BY <1>6, <1>7, <1>8, <1>9 DEF TypeInv

\* release keeps the types.
LEMMA ReleaseTyped ==
  ASSUME TypeInv, ReleaseAny
  PROVE  TypeInv'
  <1>1. PICK s \in Releasing, a \in Senders, v \in Amounts : Release(s, a, v)
    BY DEF ReleaseAny
  <1> DEFINE m == NewReleaseMsg(s, a, CollectCrossFee(v))
  <1>2. s \in Networks /\ s \in NonRoot
    BY RoutesAssumption, NetworksAreIDs
  <1>3. m \in Message /\ v \in Nat /\ CrossMsgFee \in Nat
    BY <1>1, <1>2, SentMessages DEF Release
  <1>4. /\ CommitBottomupMsg(s, m, CrossMsgFee) /\ Settle(s, v, m.value, 0) /\ Sends(s, m)
        /\ UNCHANGED <<applied_topdown_nonce, subnets>>
    BY <1>1 DEF Release
  <1> HIDE DEF m
  <1>5. UNCHANGED <<epoch, postbox, granted, carried>>
    BY <1>4 DEF Sends
  <1>6. BottomUpTyped'
    BY <1>2, <1>3, <1>4, CommitBottomupIs DEF TypeInv
  <1>7. MoneyTyped'
    <2>1. m.value \in Nat
      BY <1>3 DEF Message
    <2>2. QED
      BY <1>2, <1>3, <1>4, <2>1, SettleTyped DEF TypeInv
  <1>8. SubnetsTyped' /\ PostboxTyped'
    BY <1>4, <1>5, Untouched DEF TypeInv
  <1>9. CountersTyped'
    BY <1>4, <1>5 DEF TypeInv, CountersTyped
  <1>10. QED
    BY <1>6, <1>7, <1>8, <1>9 DEF TypeInv

\* What leaves through commit_cross_message and cross_msg_side_effects keeps the types.
LEMMA LeavingTyped ==
  ASSUME TypeInv, NEW s \in Networks, NEW m \in Message, NEW paid \in Nat,
         CommitCrossMessage(s, m, CrossMsgFee), CrossMsgSideEffects(s, m, paid, CrossMsgFee),
         UNCHANGED <<epoch, granted, carried>>, PostboxTyped'
  PROVE  TypeInv'
  <1>1. CrossMsgFee \in Nat
    BY AmountsAssumption
  <1>2. BottomUpTyped' /\ SubnetsTyped' /\ applied_topdown_nonce' \in [Networks -> Nat]
    BY <1>1, CommitCrossTyped
  <1>3. MoneyTyped'
    <2> DEFINE out == IF GoesUp(m.from, m.to, s) THEN m.value ELSE 0
    <2>1. out \in Nat
      BY DEF Message
    <2> HIDE DEF out
    <2>2. out = IF GoesUp(m.from, m.to, s) THEN m.value ELSE 0
      BY DEF out
    <2>3. QED
      BY <1>1, <2>1, <2>2, SideEffectsTyped DEF TypeInv
  <1>4. QED
    BY <1>2, <1>3 DEF TypeInv, CountersTyped

\* send_cross keeps the types.
LEMMA SendCrossTyped ==
  ASSUME TypeInv, SendCrossAny
  PROVE  TypeInv'
  <1>1. PICK r \in SendRoutes, a \in Senders, v \in Amounts, p \in Payloads :
          SendCross(r[1], r[2], a, v, p)
    BY DEF SendCrossAny
  <1> DEFINE s == r[1]
             m == Msg(s, r[2], a, CollectCrossFee(v), p)
  <1>2. s \in Networks /\ r[2] \in Destinations
    BY RoutesAssumption DEF Destinations
  <1>3. m \in Message /\ v \in Nat
    BY <1>1, <1>2, SentMessages DEF SendCross
  <1>4. /\ CommitCrossMessage(s, m, CrossMsgFee) /\ CrossMsgSideEffects(s, m, v, CrossMsgFee)
        /\ Sends(s, m)
    BY <1>1 DEF SendCross
  <1> HIDE DEF m, s
  <1>5. UNCHANGED <<epoch, postbox, granted, carried>>
    BY <1>4 DEF Sends
  <1>6. PostboxTyped'
    BY <1>5, Untouched DEF TypeInv
  <1>7. QED
    BY <1>2, <1>3, <1>4, <1>5, <1>6, LeavingTyped

\* propagate and whitelist_propagator keep the types.
LEMMA PropagateTyped ==
  ASSUME TypeInv, NEW s \in Networks, PropagateAny(s) \/ WhitelistAny(s)
  PROVE  TypeInv'
  <1>1. CASE PropagateAny(s)
    <2>1. PICK i \in postbox[s], o \in Accounts : Propagate(s, i, o)
      BY <1>1 DEF PropagateAny
    <2>2. i.msg \in Message
      BY DEF TypeInv, PostboxTyped, Item
    <2>3. PostboxTyped'
      BY <2>1 DEF TypeInv, PostboxTyped, Propagate
    <2>4. CrossMsgFee \in Nat
      BY AmountsAssumption
    <2>5. QED
      BY <2>1, <2>2, <2>3, <2>4, LeavingTyped DEF Propagate
  <1>2. CASE WhitelistAny(s)
    <2>1. PICK i \in postbox[s], o \in Accounts, added \in Accounts :
            WhitelistPropagator(s, i, o, added)
      BY <1>2 DEF WhitelistAny
    <2>2. i \in Item
      BY DEF TypeInv, PostboxTyped
    <2>3. PostBoxItem(i.msg, i.owners \union {added}) \in Item
      BY <2>2 DEF PostBoxItem, Item
    <2>4. PostboxTyped'
      BY <2>1, <2>3 DEF TypeInv, PostboxTyped, WhitelistPropagator, SwapPostboxItem
    <2>5. MoneyTyped' /\ BottomUpTyped' /\ SubnetsTyped'
      BY <2>1, Untouched DEF TypeInv, WhitelistPropagator
    <2>6. QED
      BY <2>1, <2>4, <2>5 DEF TypeInv, WhitelistPropagator, CountersTyped
  <1>3. QED
    BY <1>1, <1>2

\* The messages of a top-down checkpoint come from the queue.
LEMMA TopdownMessages ==
  ASSUME SubnetsTyped, NEW c \in NonRoot, NEW n \in Nat, Registered(c),
         carried[c] + n - 1 \in DOMAIN subnets[c].top_down_msgs, n # 0,
         NEW msgs, msgs = [i \in 1..n |-> subnets[c].top_down_msgs[carried[c] + i - 1]]
  PROVE  /\ msgs \in Seq(Message)
         /\ \A m \in Range(msgs) :
              \E k \in DOMAIN subnets[c].top_down_msgs : m = subnets[c].top_down_msgs[k]
         /\ carried[c] + n <= subnets[c].topdown_nonce
  <1> DEFINE q == subnets[c].top_down_msgs
             t == subnets[c].topdown_nonce
             d == carried[c]
  <1>1. subnets[c] \in Subnet
    BY DEF SubnetsTyped, Registered, NotRegistered
  <1>2. /\ t \in Nat /\ DOMAIN q = 0..t - 1 /\ d \in Nat
        /\ q \in UNION {[0..i - 1 -> Message] : i \in Nat}
    BY <1>1 DEF SubnetsTyped, Subnet
  <1>3. \A k \in 0..t - 1 : q[k] \in Message
    BY <1>2
  <1> HIDE DEF q, t, d
  <1>4. d + n - 1 \in 0..t - 1
    BY <1>2 DEF q, d
  <1>5. \A i \in 1..n : d + i - 1 \in 0..t - 1
    BY <1>2, <1>4
  <1>6. msgs = [i \in 1..n |-> q[d + i - 1]]
    BY DEF q, d
  <1>7. \A i \in 1..n : msgs[i] = q[d + i - 1] /\ msgs[i] \in Message
    BY <1>3, <1>5, <1>6
  <1>8. msgs \in Seq(Message)
    <2>1. msgs \in [1..n -> Message]
      BY <1>6, <1>7
    <2>2. QED
      BY <2>1, SeqDef
  <1>9. ASSUME NEW m \in Range(msgs) PROVE \E k \in DOMAIN q : m = q[k]
    <2>1. DOMAIN msgs = 1..n
      BY <1>6
    <2>2. PICK i \in 1..n : m = msgs[i]
      BY <2>1 DEF Range
    <2>3. m = q[d + i - 1] /\ d + i - 1 \in DOMAIN q
      BY <1>2, <1>5, <1>7, <2>2
    <2>4. QED
      BY <2>3
  <1>10. d + n <= t
    BY <1>2, <1>4
  <1>11. QED
    BY <1>8, <1>9, <1>10 DEF q, t, d

\* Executing a top-down checkpoint keeps the types.
LEMMA ExecuteTopdownTyped ==
  ASSUME TypeInv, NEW c \in NonRoot, ExecuteTopdownAny(c)
  PROVE  TypeInv'
  <1>1. PICK n \in 1..MaxMsgs :
          /\ Registered(c) /\ carried[c] + n - 1 \in DOMAIN subnets[c].top_down_msgs
          /\ ExecuteTopdown(c, n)
    BY DEF ExecuteTopdownAny
  <1> DEFINE msgs == [i \in 1..n |-> subnets[c].top_down_msgs[carried[c] + i - 1]]
  <1>2. n \in Nat /\ n # 0
    BY AmountsAssumption
  <1>3. msgs \in Seq(Message) /\ carried[c] + n <= subnets[c].topdown_nonce
    BY <1>1, <1>2, TopdownMessages DEF TypeInv
  <1>4. /\ Apply(c, msgs, 0)
        /\ applied_topdown_nonce' =
             [applied_topdown_nonce EXCEPT ![c] = @ + Len(Own(c, msgs))]
        /\ carried' = [carried EXCEPT ![c] = @ + n]
        /\ UNCHANGED <<epoch, bottomUp, subnets>>
    BY <1>1 DEF ExecuteTopdown
  <1> HIDE DEF msgs
  <1>5. c \in Networks
    BY NetworksAreIDs
  <1>6. MoneyTyped' /\ PostboxTyped'
    BY <1>3, <1>4, <1>5, ApplyTyped DEF TypeInv
  <1>7. CountersTyped'
    <2>1. Len(Own(c, msgs)) \in Nat
      BY <1>3, OwnType, LenProperties
    <2>2. applied_topdown_nonce' \in [Networks -> Nat]
      BY <1>4, <1>5, <2>1 DEF TypeInv, CountersTyped
    <2>3. granted' = granted
      BY <1>4 DEF Apply
    <2>4. QED
      BY <1>4, <2>2, <2>3 DEF TypeInv, CountersTyped
  <1>8. BottomUpTyped'
    BY <1>4, Untouched DEF TypeInv
  <1>9. SubnetsTyped'
    <2>1. \A d \in NonRoot : carried[d] \in Nat
      BY DEF TypeInv, SubnetsTyped
    <2>2. carried' \in [NonRoot -> Nat]
      BY <1>2, <1>4, <2>1 DEF TypeInv, SubnetsTyped
    <2>3. /\ carried'[c] = carried[c] + n
          /\ \A d \in NonRoot : d # c => carried'[d] = carried[d]
      BY <1>4 DEF TypeInv, SubnetsTyped
    <2>4. ASSUME NEW d \in NonRoot, Registered(d)'
          PROVE  /\ DOMAIN subnets'[d].top_down_msgs = 0..subnets'[d].topdown_nonce - 1
                 /\ carried'[d] <= subnets'[d].topdown_nonce
      <3>1. Registered(d) /\ subnets' = subnets
        BY <1>4, <2>4 DEF Registered
      <3>2. QED
        BY <1>3, <2>3, <3>1 DEF TypeInv, SubnetsTyped
    <2>5. QED
      BY <1>4, <2>2, <2>4 DEF TypeInv, SubnetsTyped
  <1>10. QED
    BY <1>6, <1>7, <1>8, <1>9 DEF TypeInv

\* What committing a checkpoint of a child writes: the parent's checkpoint lists it, with
\* the messages it had, and its messages are executed at the parent.
LEMMA ChildCheckIs ==
  ASSUME TypeInv, NEW c \in NonRoot, CommitChildCheck(c),
         NEW p, p = Parent(c),
         NEW k, k = subnets[c].prev_epoch + CheckPeriod,
         NEW ch, ch = CheckpointAt(c, k),
         NEW new, new = AddChildCheck(GetWindowCheckpoint(p), c, k)
  PROVE  /\ p \in Networks /\ c \in Networks /\ Registered(c) /\ k \in Nat
         /\ ch \in Checkpoint /\ new \in Checkpoint
         /\ new.msgs = GetWindowCheckpoint(p).msgs
         /\ bottomup_checkpoints' = FlushCheckpoint(p, new)
         /\ Apply(p, ch.msgs, ch.fee)
         /\ UNCHANGED <<epoch, bottomup_nonce, applied_topdown_nonce, carried>>
  <1>1. p \in Networks /\ c \in Networks
    BY NetworksAreIDs
  <1>2. Registered(c)
    BY DEF CommitChildCheck
  <1>3. subnets[c] \in Subnet
    BY <1>2 DEF TypeInv, SubnetsTyped, Registered, NotRegistered
  <1>4. k \in Nat
    <2>1. subnets[c].prev_epoch \in Nat
      BY <1>3 DEF Subnet
    <2>2. QED
      BY <2>1, PeriodAssumption
  <1>5. ch \in Checkpoint
    BY <1>1, CheckpointTyped DEF TypeInv
  <1>6. new \in Checkpoint /\ new.msgs = GetWindowCheckpoint(p).msgs
    <2> DEFINE w == GetWindowCheckpoint(p)
               l == Append(w.children, <<c, k>>)
    <2>1. w \in Checkpoint
      BY <1>1, CheckpointTyped DEF TypeInv, GetWindowCheckpoint
    <2>2. new = [w EXCEPT !.children = Append(@, <<c, k>>)]
      BY DEF AddChildCheck
    <2> HIDE DEF w
    <2>3. <<c, k>> \in NonRoot \X Nat
      BY <1>4
    <2>4. l \in Seq(NonRoot \X Nat)
      BY <2>1, <2>3, AppendProperties DEF Checkpoint
    <2>5. new = [w EXCEPT !.children = l]
      BY <2>1, <2>2 DEF Checkpoint
    <2> HIDE DEF l
    <2>6. new \in Checkpoint /\ new.msgs = w.msgs
      BY <2>1, <2>4, <2>5 DEF Checkpoint
    <2>7. QED
      BY <2>6 DEF w
  <1>7. QED
    BY <1>1, <1>2, <1>4, <1>5, <1>6 DEF CommitChildCheck

\* Committing a child's checkpoint keeps the types.
LEMMA ChildCheckTyped ==
  ASSUME TypeInv, NEW c \in NonRoot, CommitChildCheck(c)
  PROVE  TypeInv'
  <1> DEFINE p == Parent(c)
             b == subnets[c]
             k == b.prev_epoch + CheckPeriod
             ch == CheckpointAt(c, k)
             new == AddChildCheck(GetWindowCheckpoint(p), c, k)
             own == Len(Own(p, ch.msgs))
             supply == ReleaseSupply(c, ch)
             applied == b.applied_bottomup_nonce + own
  <1>1. /\ p \in Networks /\ c \in Networks /\ Registered(c) /\ k \in Nat
        /\ ch \in Checkpoint /\ new \in Checkpoint
        /\ bottomup_checkpoints' = FlushCheckpoint(p, new)
        /\ Apply(p, ch.msgs, ch.fee)
        /\ UNCHANGED <<epoch, bottomup_nonce, applied_topdown_nonce, carried>>
    BY ChildCheckIs
  <1>2. subnets' = [subnets EXCEPT
                      ![c].circ_supply = supply,
                      ![c].prev_epoch = k,
                      ![c].applied_bottomup_nonce = @ + own]
        /\ b.circ_supply >= CheckpointValue(ch)
    BY DEF CommitChildCheck
  <1>3. ch.msgs \in Seq(Message) /\ ch.fee \in Nat
    BY <1>1 DEF Checkpoint
  <1>4. own \in Nat
    BY <1>3, OwnType, LenProperties
  <1>5. CheckpointValue(ch) \in Nat
    <2>1. TotalValue(ch.msgs) \in Nat
      BY <1>3, ValueType DEF Message
    <2>2. QED
      BY <1>3, <2>1 DEF CheckpointValue
  <1>6. b \in Subnet
    BY <1>1 DEF TypeInv, SubnetsTyped, Registered, NotRegistered
  <1>7. supply \in Nat
    <2> DEFINE z == b.circ_supply
               v == CheckpointValue(ch)
    <2>1. z \in Nat /\ v \in Nat /\ z >= v
      BY <1>2, <1>5, <1>6 DEF Subnet
    <2>2. supply = z - v
      BY DEF ReleaseSupply
    <2> HIDE DEF z, v, supply
    <2>3. QED
      BY <2>1, <2>2
  <1>8. applied \in Nat
    <2>1. b.applied_bottomup_nonce \in Nat
      BY <1>6 DEF Subnet
    <2> HIDE DEF own, b
    <2>2. QED
      BY <1>4, <2>1
  <1> HIDE DEF new, supply, k, own, ch
  <1>9. MoneyTyped' /\ PostboxTyped'
    BY <1>1, <1>3, ApplyTyped DEF TypeInv
  <1>10. BottomUpTyped'
    <2> DEFINE log == bottomup_checkpoints'
    <2>1. BottomUpTyped
      BY DEF TypeInv
    <2>2. log = [t \in Networks |-> log[t]] /\ \A t \in Networks : WindowLog(log[t])
      BY <1>1, <2>1, FlushIs
    <2>3. bottomup_nonce' = bottomup_nonce
      BY <1>1
    <2>4. QED
      BY <2>1, <2>2, <2>3 DEF BottomUpTyped, WindowLog
  <1>11. CountersTyped'
    BY <1>1 DEF TypeInv, CountersTyped, Apply
  <1>12. SubnetsTyped'
    <2> DEFINE d == [b EXCEPT !.circ_supply = supply, !.prev_epoch = k,
                              !.applied_bottomup_nonce = @ + own]
    <2>1. d \in Subnet /\ d.top_down_msgs = b.top_down_msgs
          /\ d.topdown_nonce = b.topdown_nonce
      <3>1. d = [b EXCEPT !.circ_supply = supply, !.prev_epoch = k,
                          !.applied_bottomup_nonce = applied]
        BY <1>6 DEF Subnet
      <3> HIDE DEF applied, b, d
      <3>2. QED
        BY <1>1, <1>6, <1>7, <1>8, <3>1 DEF Subnet
    <2>2. subnets' = [subnets EXCEPT ![c] = d]
      BY <1>2 DEF TypeInv, SubnetsTyped
    <2> HIDE DEF d
    <2>3. /\ subnets' \in [NonRoot -> Subnet \union {NotRegistered}]
          /\ subnets'[c] = d /\ \A e \in NonRoot : e # c => subnets'[e] = subnets[e]
      BY <2>1, <2>2 DEF TypeInv, SubnetsTyped
    <2>4. ASSUME NEW e \in NonRoot, Registered(e)'
          PROVE  /\ DOMAIN subnets'[e].top_down_msgs = 0..subnets'[e].topdown_nonce - 1
                 /\ carried'[e] <= subnets'[e].topdown_nonce
      <3>1. carried' = carried
        BY <1>1
      <3>2. CASE e = c
        BY <1>1, <2>1, <2>3, <3>1, <3>2 DEF TypeInv, SubnetsTyped
      <3>3. CASE e # c
        <4>1. Registered(e) /\ subnets'[e] = subnets[e]
          BY <2>3, <2>4, <3>3 DEF Registered
        <4>2. QED
          BY <3>1, <4>1 DEF TypeInv, SubnetsTyped
      <3>4. QED
        BY <3>2, <3>3
    <2>5. QED
      BY <1>1, <2>3, <2>4 DEF TypeInv, SubnetsTyped
  <1>13. QED
    BY <1>9, <1>10, <1>11, <1>12 DEF TypeInv

\* set_membership, kill and the passing of time keep the types.
LEMMA LifeTyped ==
  ASSUME TypeInv,
         \/ \E c \in NonRoot : SetMembership(c)
         \/ \E c \in Killable : Kill(c)
         \/ \E s \in Networks : Tick(s)
  PROVE  TypeInv'
  <1>1. CASE \E c \in NonRoot : SetMembership(c)
    <2>1. PICK c \in NonRoot : SetMembership(c)
      BY <1>1
    <2>2. c \in Networks /\ ValidatorFunds[c] \in Nat
      BY NetworksAreIDs, AmountsAssumption
    <2>3. MoneyTyped'
      BY <2>1, <2>2, SettleTyped DEF TypeInv, SetMembership
    <2>4. BottomUpTyped' /\ PostboxTyped' /\ SubnetsTyped'
      BY <2>1, Untouched DEF TypeInv, SetMembership
    <2>5. CountersTyped'
      BY <2>1, <2>2 DEF TypeInv, CountersTyped, SetMembership
    <2>6. QED
      BY <2>3, <2>4, <2>5 DEF TypeInv
  <1>2. CASE \E c \in Killable : Kill(c)
    <2>1. PICK c \in NonRoot : Kill(c)
      BY <1>2, RoutesAssumption
    <2>2. MoneyTyped' /\ BottomUpTyped' /\ PostboxTyped'
      BY <2>1, Untouched DEF TypeInv, Kill
    <2>3. CountersTyped'
      BY <2>1 DEF TypeInv, CountersTyped, Kill
    <2>4. /\ subnets' \in [NonRoot -> Subnet \union {NotRegistered}]
          /\ carried' = carried
          /\ \A d \in NonRoot : Registered(d)' => Registered(d) /\ subnets'[d] = subnets[d]
      BY <2>1 DEF TypeInv, SubnetsTyped, Kill, NotRegistered, Registered
    <2>5. SubnetsTyped'
      BY <2>4 DEF TypeInv, SubnetsTyped
    <2>6. QED
      BY <2>2, <2>3, <2>5 DEF TypeInv
  <1>3. CASE \E s \in Networks : Tick(s)
    <2>1. PICK s \in Networks : Tick(s)
      BY <1>3
    <2>2. MoneyTyped' /\ BottomUpTyped' /\ PostboxTyped' /\ SubnetsTyped'
      BY <2>1, Untouched DEF TypeInv, Tick
    <2>3. CountersTyped'
      BY <2>1 DEF TypeInv, CountersTyped, Tick
    <2>4. QED
      BY <2>2, <2>3 DEF TypeInv
  <1>4. QED
    BY <1>1, <1>2, <1>3

\* The first endowments are natural numbers that fit into what there is.
LEMMA EndowmentType ==
  ASSUME NEW s \in Networks
  PROVE  EndowedBelow(s) \in Nat
  <1> DEFINE f == [c \in Children(s) |-> Endowment[c]]
  <1>1. Children(s) \subseteq NonRoot /\ NonRoot \subseteq Networks
    BY NetworksAreIDs DEF Children
  <1>2. IsFiniteSet(Children(s))
    BY <1>1, NetworksAssumption, FS_Subset
  <1>3. f \in [Children(s) -> Nat]
    BY <1>1, AmountsAssumption
  <1> HIDE DEF f
  <1>4. SumFunction(f) \in Nat
    BY <1>2, <1>3, LedgerTotal
  <1>5. QED
    BY <1>4 DEF f, EndowedBelow, Total

\* The gateways start with the types.
LEMMA InitTyped ==
  ASSUME Init
  PROVE  TypeInv
  <1> DEFINE a == CHOOSE x \in Accounts : TRUE
             First(c) == NewFundMsg(c, a, Endowment[c])
             Endowed(c) == Endowment[c] > 0
  <1>1. a \in Accounts
    BY RoutesAssumption
  <1> HIDE DEF a
  <1>2. /\ NonRoot \subseteq Networks /\ \A s \in Networks : ~IsRoot(s) => s \in NonRoot
        /\ \A c \in NonRoot : ~IsRoot(c) /\ Endowment[c] \in Nat
    BY AmountsAssumption DEF NonRoot
  <1>3. CountersTyped
    <2>1. epoch = [s \in Networks |-> 1] /\ granted = [c \in NonRoot |-> 0]
          /\ applied_topdown_nonce =
               [s \in Networks |-> IF ~IsRoot(s) /\ Endowed(s) THEN 1 ELSE 0]
      BY DEF Init
    <2>2. QED
      BY <2>1 DEF CountersTyped
  <1>4. MoneyTyped
    <2>1. ASSUME NEW s \in Networks
          PROVE  /\ (IF IsRoot(s) THEN RootFunds ELSE Endowment[s] - EndowedBelow(s)) \in Nat
                 /\ (IF IsRoot(s) THEN EndowedBelow(s)
                     ELSE Reserve - Endowment[s] + EndowedBelow(s)) \in Nat
      <3>1. EndowedBelow(s) \in Nat /\ RootFunds \in Nat /\ Reserve \in Nat
        BY EndowmentType, AmountsAssumption
      <3>2. CASE IsRoot(s)
        BY <3>1, <3>2
      <3>3. CASE ~IsRoot(s)
        <4> DEFINE e == Endowment[s]
                   b == EndowedBelow(s)
        <4>1. e \in Nat /\ b \in Nat /\ b <= e /\ e <= Reserve + b
          BY <1>2, <3>1, <3>3, EndowmentAssumption
        <4> HIDE DEF e, b
        <4>2. e - b \in Nat /\ Reserve - e + b \in Nat
          BY <3>1, <4>1
        <4>3. QED
          BY <3>3, <4>2 DEF e, b
      <3>4. QED
        BY <3>2, <3>3
    <2>2. /\ wallet = [s \in Networks |-> IF IsRoot(s) THEN RootFunds
                                          ELSE Endowment[s] - EndowedBelow(s)]
          /\ gateway_balance = [s \in Networks |-> IF IsRoot(s) THEN EndowedBelow(s)
                                          ELSE Reserve - Endowment[s] + EndowedBelow(s)]
          /\ burnt = [s \in Networks |-> 0]
      BY DEF Init
    <2>3. QED
      BY <2>1, <2>2 DEF MoneyTyped
  <1>5. BottomUpTyped
    <2>1. bottomup_checkpoints = [s \in Networks |-> <<>>]
          /\ bottomup_nonce = [s \in Networks |-> 0]
      BY DEF Init
    <2>2. WindowLog(<<>>)
      <3>1. <<>> = [k \in DOMAIN <<>> |-> <<>>[k]] /\ DOMAIN <<>> = {}
        OBVIOUS
      <3>2. QED
        BY <3>1, FS_EmptySet DEF WindowLog
    <2>3. QED
      BY <2>1, <2>2 DEF BottomUpTyped
  <1>6. PostboxTyped
    BY DEF Init, PostboxTyped
  <1>7. SubnetsTyped
    <2> DEFINE q(c) == [k \in IF Endowed(c) THEN {0} ELSE {} |-> First(c)]
               t(c) == IF Endowed(c) THEN 1 ELSE 0
               b(c) == [registered |-> TRUE, circ_supply |-> Endowment[c],
                        top_down_msgs |-> q(c), topdown_nonce |-> t(c),
                        applied_bottomup_nonce |-> 0, prev_epoch |-> 0]
    <2>1. subnets = [c \in NonRoot |-> b(c)] /\ carried = [c \in NonRoot |-> t(c)]
      BY DEF Init, a
    <2>2. ASSUME NEW c \in NonRoot PROVE First(c) \in Message
      <3>1. Parent(c) \in ID /\ c \in ID /\ Endowment[c] \in Nat
        BY <1>2, NetworksAreIDs
      <3>2. QED
        BY <1>1, <3>1 DEF NewFundMsg, Msg, Message
    <2>3. ASSUME NEW c \in NonRoot
          PROVE  t(c) \in Nat /\ DOMAIN q(c) = 0..t(c) - 1 /\ q(c) \in [0..t(c) - 1 -> Message]
      <3>1. 0..1 - 1 = {0} /\ 0..0 - 1 = {}
        OBVIOUS
      <3>2. DOMAIN q(c) = 0..t(c) - 1
        BY <3>1
      <3>3. QED
        BY <2>2, <3>2
    <2> HIDE DEF q, t
    <2>4. ASSUME NEW c \in NonRoot PROVE b(c) \in Subnet
      BY <1>2, <2>3 DEF Subnet
    <2>5. ASSUME NEW c \in NonRoot
          PROVE  /\ subnets[c] \in Subnet
                 /\ subnets[c].top_down_msgs = q(c) /\ subnets[c].topdown_nonce = t(c)
                 /\ carried[c] = t(c) /\ t(c) \in Nat /\ DOMAIN q(c) = 0..t(c) - 1
      BY <2>1, <2>3, <2>4
    <2>6. subnets \in [NonRoot -> Subnet \union {NotRegistered}]
      BY <2>1, <2>4
    <2>7. carried \in [NonRoot -> Nat]
      BY <2>1, <2>3
    <2>8. QED
      BY <2>5, <2>6, <2>7 DEF SubnetsTyped
  <1>8. QED
    BY <1>3, <1>4, <1>5, <1>6, <1>7 DEF TypeInv

\* Every step keeps the types.
LEMMA NextTyped ==
  ASSUME TypeInv, [Next]_vars
  PROVE  TypeInv'
  <1>1. CASE Next
    <2>1. CASE FundAny
      BY <2>1, FundTyped
    <2>2. CASE ReleaseAny
      BY <2>2, ReleaseTyped
    <2>3. CASE SendCrossAny
      BY <2>3, SendCrossTyped
    <2>4. CASE \E s \in Networks : PropagateAny(s) \/ WhitelistAny(s)
      BY <2>4, PropagateTyped
    <2>5. CASE \E c \in NonRoot : ExecuteTopdownAny(c)
      BY <2>5, ExecuteTopdownTyped
    <2>6. CASE \E c \in NonRoot : CommitChildCheck(c)
      BY <2>6, ChildCheckTyped
    <2>7. CASE \/ \E c \in NonRoot : SetMembership(c)
               \/ \E c \in Killable : Kill(c)
               \/ \E s \in Networks : Tick(s)
      BY <2>7, LifeTyped
    <2>8. QED
      BY <1>1, <2>1, <2>2, <2>3, <2>4, <2>5, <2>6, <2>7 DEF Next
  <1>2. CASE UNCHANGED vars
    <2>1. MoneyTyped' /\ BottomUpTyped' /\ PostboxTyped' /\ SubnetsTyped'
      BY <1>2, Untouched DEF TypeInv, vars
    <2>2. CountersTyped'
      BY <1>2 DEF TypeInv, CountersTyped, vars
    <2>3. QED
      BY <2>1, <2>2 DEF TypeInv
  <1>3. QED
    BY <1>1, <1>2

\* Balances, supplies and counters stay natural numbers, queues have no gaps and every
\* message in transit has an owner, whatever the gateways execute and send.
THEOREM TypeCorrect == Spec => []TypeOK
  <1>1. TypeInv => TypeOK
    <2> SUFFICES ASSUME TypeInv PROVE TypeOK
      OBVIOUS
    <2>1. ASSUME NEW c \in NonRoot, Registered(c) PROVE subnets[c].circ_supply \in Nat
      <3>1. subnets[c] \in Subnet
        BY <2>1 DEF TypeInv, SubnetsTyped, Registered, NotRegistered
      <3>2. QED
        BY <3>1 DEF Subnet
    <2>2. \A s \in Networks : \A i \in postbox[s] : i.owners # {} /\ i.owners \subseteq Accounts
      BY DEF TypeInv, PostboxTyped, Item
    <2>3. QED
      BY <2>1, <2>2 DEF TypeOK, TypeInv, CountersTyped, MoneyTyped, BottomUpTyped, SubnetsTyped
  <1>2. QED
    BY InitTyped, NextTyped, <1>1, PTL DEF Spec

-----------------------------------------------------------------------------
(* What a gateway burns. *)

\* The values in all checkpoints of a chain.
LogValue(log) == Total([k \in DOMAIN log |-> TotalValue(log[k].msgs)])

\* An empty checkpoint has no value.
LEMMA NoValue == TotalValue(<<>>) = 0
  <1>1. [i \in DOMAIN <<>> |-> <<>>[i].value] = [i \in {} |-> 0]
    OBVIOUS
  <1>2. SumFunction([i \in {} |-> 0]) = 0
    BY LedgerZero, FS_EmptySet
  <1>3. QED
    BY <1>1, <1>2 DEF TotalValue, Total

\* A checkpoint that grows by a value, in a window that may be new, adds that value.
LEMMA LogGrows ==
  ASSUME NEW old, WindowLog(old), NEW new, WindowLog(new), NEW w, NEW v \in Nat,
         DOMAIN new = DOMAIN old \union {w},
         \A k \in DOMAIN old : k # w => new[k] = old[k],
         NEW was, was = IF w \in DOMAIN old THEN old[w] ELSE EmptyCheckpoint,
         TotalValue(new[w].msgs) = TotalValue(was.msgs) + v
  PROVE  LogValue(new) = LogValue(old) + v
  <1> DEFINE S == DOMAIN old
             T == DOMAIN new
             f == [k \in S |-> TotalValue(old[k].msgs)]
             g == [k \in T |-> TotalValue(new[k].msgs)]
  <1>1. IsFiniteSet(S) /\ IsFiniteSet(T) /\ T = S \union {w}
    BY DEF WindowLog
  <1>2. \A ch \in Checkpoint : TotalValue(ch.msgs) \in Nat
    BY ValueType DEF Checkpoint, Message
  <1>3. f \in [S -> Nat] /\ g \in [T -> Nat]
    BY <1>2 DEF WindowLog
  <1>4. (\A k \in S : k # w => g[k] = f[k]) /\ g[w] = TotalValue(new[w].msgs)
    BY <1>1
  <1>5. LogValue(old) = SumFunction(f) /\ LogValue(new) = SumFunction(g)
    BY DEF LogValue, Total
  <1>6. w \in S => f[w] = TotalValue(was.msgs)
    OBVIOUS
  <1> HIDE DEF f, g, S, T
  <1>7. g[w] = (IF w \in S THEN f[w] ELSE 0) + v
    <2>1. w \notin S => was.msgs = <<>>
      BY DEF S, EmptyCheckpoint
    <2>2. QED
      BY <1>4, <1>6, <2>1, NoValue
  <1>8. SumFunction(g) = SumFunction(f) + v
    <2>1. /\ SumFunction(f) \in Nat /\ SumFunction(g) \in Nat
          /\ SumFunction(g) = SumFunction(f) + v
      BY <1>1, <1>3, <1>4, <1>7, LedgerPut
    <2>2. QED
      BY <2>1
  <1>9. QED
    BY <1>5, <1>8

\* A message put into a checkpoint adds its value to those of the chain.
LEMMA CommitBottomupValue ==
  ASSUME BottomUpTyped, NEW s \in Networks, NEW m \in Message, NEW fee \in Nat,
         CommitBottomupMsg(s, m, fee)
  PROVE  /\ LogValue(bottomup_checkpoints'[s]) = LogValue(bottomup_checkpoints[s]) + m.value
         /\ \A t \in Networks : t # s => bottomup_checkpoints'[t] = bottomup_checkpoints[t]
  <1> DEFINE w == WindowEpoch(epoch[s])
             x == [m EXCEPT !.nonce = bottomup_nonce[s]]
             old == bottomup_checkpoints[s]
             new == bottomup_checkpoints'[s]
             was == CheckpointAt(s, w)
  <1> HIDE DEF w, x
  <1>1. /\ BottomUpTyped' /\ x \in Message
        /\ \A t \in Networks : t # s => bottomup_checkpoints'[t] = bottomup_checkpoints[t]
        /\ DOMAIN new = DOMAIN old \union {w}
        /\ new[w].msgs = Append(was.msgs, x)
        /\ \A k \in DOMAIN old : k # w => new[k] = old[k]
    BY CommitBottomupIs DEF w, x
  <1>2. WindowLog(old) /\ WindowLog(new)
    BY <1>1 DEF BottomUpTyped, WindowLog
  <1>3. was = IF w \in DOMAIN old THEN old[w] ELSE EmptyCheckpoint
    BY DEF CheckpointAt
  <1>4. was.msgs \in Seq(Message)
    BY CheckpointTyped DEF Checkpoint
  <1>5. x.value = m.value /\ m.value \in Nat
    BY DEF x, Message
  <1>6. TotalValue(Append(was.msgs, x)) = TotalValue(was.msgs) + x.value
    <2>1. \A y \in Message : y.value \in Nat
      BY DEF Message
    <2>2. QED
      BY <1>1, <1>4, <2>1, ValueAppend
  <1> HIDE DEF was, old, new
  <1>7. LogValue(new) = LogValue(old) + m.value
    <2>1. TotalValue(new[w].msgs) = TotalValue(was.msgs) + m.value
      BY <1>1, <1>5, <1>6
    <2>2. DOMAIN new = DOMAIN old \union {w}
      BY <1>1
    <2>3. \A k \in DOMAIN old : k # w => new[k] = old[k]
      BY <1>1
    <2>4. WindowLog(old) /\ WindowLog(new) /\ m.value \in Nat
      BY <1>2, <1>5
    <2>5. QED
      BY <1>3, <2>1, <2>2, <2>3, <2>4, LogGrows
  <1>8. QED
    BY <1>1, <1>7 DEF old, new

\* A gateway has burnt the values of its checkpoints.
Released == \A s \in Networks : burnt[s] = LogValue(bottomup_checkpoints[s])

\* What leaves through commit_cross_message burns its value if and only if it goes into a
\* checkpoint.
LEMMA LeavingReleased ==
  ASSUME TypeInv, Released, NEW s \in Networks, NEW m \in Message, NEW paid \in Nat,
         CommitCrossMessage(s, m, CrossMsgFee), CrossMsgSideEffects(s, m, paid, CrossMsgFee)
  PROVE  Released'
  <1> DEFINE out == IF GoesUp(m.from, m.to, s) THEN m.value ELSE 0
  <1>1. CrossMsgFee \in Nat /\ m.value \in Nat /\ out \in Nat
    BY AmountsAssumption DEF Message
  <1>2. burnt'[s] = burnt[s] + out /\ \A t \in Networks : t # s => burnt'[t] = burnt[t]
    <2>1. out = IF GoesUp(m.from, m.to, s) THEN m.value ELSE 0
      OBVIOUS
    <2> HIDE DEF out
    <2>2. QED
      BY <1>1, <2>1, SideEffectsTyped DEF TypeInv
  <1>3. CASE CommitUp(s, m, CrossMsgFee)
    <2>1. /\ LogValue(bottomup_checkpoints'[s]) = LogValue(bottomup_checkpoints[s]) + m.value
          /\ \A t \in Networks : t # s => bottomup_checkpoints'[t] = bottomup_checkpoints[t]
      BY <1>1, <1>3, CommitBottomupValue DEF TypeInv, CommitUp
    <2>2. out = m.value
      BY <1>3 DEF CommitUp
    <2>3. QED
      BY <1>2, <2>1, <2>2 DEF Released
  <1>4. CASE CommitTurn(s, m) \/ CommitDown(s, m)
    <2>1. bottomup_checkpoints' = bottomup_checkpoints
      BY <1>4 DEF CommitTurn, CommitDown, bottomUp
    <2>2. out = 0
      BY <1>4 DEF CommitTurn, CommitDown, GoesUp, TopDown, BottomUp
    <2>3. burnt[s] \in Nat
      BY DEF TypeInv, MoneyTyped
    <2>4. QED
      BY <1>2, <2>1, <2>2, <2>3 DEF Released
  <1>5. QED
    BY <1>3, <1>4 DEF CommitCrossMessage

\* Steps that move neither checkpoints nor burnt tokens.
LEMMA ReleasedKept ==
  ASSUME Released, bottomup_checkpoints' = bottomup_checkpoints,
         \A t \in Networks : burnt'[t] = burnt[t]
  PROVE  Released'
  BY DEF Released

\* Every step burns what it releases.
LEMMA NextReleased ==
  ASSUME TypeInv, Released, [Next]_vars
  PROVE  Released'
  <1>1. CASE FundAny
    <2>1. PICK r \in FundRoutes, a \in Senders, v \in Amounts : Fund(r[1], r[2], a, v)
      BY <1>1 DEF FundAny
    <2>2. r[1] \in Networks /\ v \in Nat /\ CrossMsgFee \in Nat
      BY RoutesAssumption, AmountsAssumption
    <2>3. Settle(r[1], v, 0, CrossMsgFee) /\ bottomup_checkpoints' = bottomup_checkpoints
      BY <2>1 DEF Fund, bottomUp
    <2>4. /\ burnt'[r[1]] = burnt[r[1]] + 0
          /\ \A t \in Networks : t # r[1] => burnt'[t] = burnt[t]
      BY <2>2, <2>3, SettleTyped DEF TypeInv
    <2>5. \A t \in Networks : burnt'[t] = burnt[t]
      BY <2>2, <2>4 DEF TypeInv, MoneyTyped
    <2>6. QED
      BY <2>3, <2>5, ReleasedKept
  <1>2. CASE ReleaseAny
    <2>1. PICK s \in Releasing, a \in Senders, v \in Amounts : Release(s, a, v)
      BY <1>2 DEF ReleaseAny
    <2> DEFINE m == NewReleaseMsg(s, a, CollectCrossFee(v))
    <2>2. s \in Networks /\ s \in NonRoot
      BY RoutesAssumption, NetworksAreIDs
    <2>3. m \in Message /\ v \in Nat /\ CrossMsgFee \in Nat
      BY <2>1, <2>2, SentMessages DEF Release
    <2>4. CommitBottomupMsg(s, m, CrossMsgFee) /\ Settle(s, v, m.value, 0)
      BY <2>1 DEF Release
    <2> HIDE DEF m
    <2>5. m.value \in Nat
      BY <2>3 DEF Message
    <2>6. /\ burnt'[s] = burnt[s] + m.value
          /\ \A t \in Networks : t # s => burnt'[t] = burnt[t]
      BY <2>2, <2>3, <2>4, <2>5, SettleTyped DEF TypeInv
    <2>7. /\ LogValue(bottomup_checkpoints'[s]) = LogValue(bottomup_checkpoints[s]) + m.value
          /\ \A t \in Networks : t # s => bottomup_checkpoints'[t] = bottomup_checkpoints[t]
      BY <2>2, <2>3, <2>4, CommitBottomupValue DEF TypeInv
    <2>8. QED
      BY <2>6, <2>7 DEF Released
  <1>3. CASE SendCrossAny
    <2>1. PICK r \in SendRoutes, a \in Senders, v \in Amounts, p \in Payloads :
            SendCross(r[1], r[2], a, v, p)
      BY <1>3 DEF SendCrossAny
    <2> DEFINE s == r[1]
               m == Msg(s, r[2], a, CollectCrossFee(v), p)
    <2>2. s \in Networks /\ r[2] \in Destinations
      BY RoutesAssumption DEF Destinations
    <2>3. m \in Message /\ v \in Nat
      BY <2>1, <2>2, SentMessages DEF SendCross
    <2>4. /\ CommitCrossMessage(s, m, CrossMsgFee)
          /\ CrossMsgSideEffects(s, m, v, CrossMsgFee)
      BY <2>1 DEF SendCross
    <2> HIDE DEF m, s
    <2>5. QED
      BY <2>2, <2>3, <2>4, LeavingReleased
  <1>4. CASE \E s \in Networks : PropagateAny(s)
    <2>0. PICK s \in Networks : PropagateAny(s)
      BY <1>4
    <2>1. PICK i \in postbox[s], o \in Accounts : Propagate(s, i, o)
      BY <2>0 DEF PropagateAny
    <2>2. i.msg \in Message /\ CrossMsgFee \in Nat
      BY AmountsAssumption DEF TypeInv, PostboxTyped, Item
    <2>3. QED
      BY <2>1, <2>2, LeavingReleased DEF Propagate
  <1>5. CASE \E c \in NonRoot : ExecuteTopdownAny(c)
    <2>1. PICK c \in NonRoot, n \in 1..MaxMsgs :
            /\ Registered(c) /\ carried[c] + n - 1 \in DOMAIN subnets[c].top_down_msgs
            /\ ExecuteTopdown(c, n)
      BY <1>5 DEF ExecuteTopdownAny
    <2> DEFINE msgs == [i \in 1..n |-> subnets[c].top_down_msgs[carried[c] + i - 1]]
    <2>2. n \in Nat /\ n # 0 /\ c \in Networks
      BY AmountsAssumption, NetworksAreIDs
    <2>3. msgs \in Seq(Message)
      BY <2>1, <2>2, TopdownMessages DEF TypeInv
    <2>4. Apply(c, msgs, 0) /\ bottomup_checkpoints' = bottomup_checkpoints
      BY <2>1 DEF ExecuteTopdown, bottomUp
    <2> HIDE DEF msgs
    <2>5. \A t \in Networks : burnt'[t] = burnt[t]
      BY <2>2, <2>3, <2>4, ApplyTyped DEF TypeInv
    <2>6. QED
      BY <2>4, <2>5, ReleasedKept
  <1>6. CASE \E c \in NonRoot : CommitChildCheck(c)
    <2>1. PICK c \in NonRoot : CommitChildCheck(c)
      BY <1>6
    <2> DEFINE p == Parent(c)
               k == subnets[c].prev_epoch + CheckPeriod
               ch == CheckpointAt(c, k)
               ck == AddChildCheck(GetWindowCheckpoint(p), c, k)
               w == WindowEpoch(epoch[p])
               log == bottomup_checkpoints'
               was == CheckpointAt(p, w)
    <2>2. /\ p \in Networks /\ ch \in Checkpoint /\ ck \in Checkpoint
          /\ ck.msgs = was.msgs
          /\ log = FlushCheckpoint(p, ck) /\ Apply(p, ch.msgs, ch.fee)
      BY <2>1, ChildCheckIs DEF GetWindowCheckpoint
    <2> HIDE DEF ck, k, ch
    <2>3. BottomUpTyped
      BY DEF TypeInv
    <2>4. /\ \A t \in Networks : WindowLog(log[t])
          /\ \A t \in Networks : t # p => log[t] = bottomup_checkpoints[t]
          /\ DOMAIN log[p] = DOMAIN bottomup_checkpoints[p] \union {w}
          /\ log[p][w] = ck
          /\ \A j \in DOMAIN bottomup_checkpoints[p] :
               j # w => log[p][j] = bottomup_checkpoints[p][j]
      BY <2>2, <2>3, FlushIs
    <2>5. was = IF w \in DOMAIN bottomup_checkpoints[p] THEN bottomup_checkpoints[p][w]
                ELSE EmptyCheckpoint
      BY DEF CheckpointAt
    <2>6. TotalValue(log[p][w].msgs) = TotalValue(was.msgs) + 0
      <3>1. TotalValue(was.msgs) \in Nat
        BY <2>2, <2>3, CheckpointTyped, ValueType DEF Checkpoint, Message
      <3>2. QED
        BY <2>2, <2>4, <3>1
    <2>7. WindowLog(bottomup_checkpoints[p])
      BY <2>2, <2>3 DEF BottomUpTyped
    <2> HIDE DEF was, w, log
    <2>8. LogValue(log[p]) = LogValue(bottomup_checkpoints[p]) + 0
      BY <2>2, <2>4, <2>5, <2>6, <2>7, LogGrows
    <2>9. \A t \in Networks : burnt'[t] = burnt[t] /\ burnt[t] \in Nat
      <3>1. ch.msgs \in Seq(Message) /\ ch.fee \in Nat
        BY <2>2 DEF Checkpoint
      <3>2. QED
        BY <2>2, <3>1, ApplyTyped DEF TypeInv, MoneyTyped
    <2>10. QED
      BY <2>2, <2>4, <2>8, <2>9 DEF Released, log
  <1>7. CASE \E c \in NonRoot : SetMembership(c)
    <2>1. PICK c \in NonRoot : SetMembership(c)
      BY <1>7
    <2>2. c \in Networks /\ ValidatorFunds[c] \in Nat
      BY NetworksAreIDs, AmountsAssumption
    <2>3. Settle(c, 0, 0, ValidatorFunds[c]) /\ bottomup_checkpoints' = bottomup_checkpoints
      BY <2>1 DEF SetMembership, bottomUp
    <2>4. burnt'[c] = burnt[c] + 0 /\ \A t \in Networks : t # c => burnt'[t] = burnt[t]
      BY <2>2, <2>3, SettleTyped DEF TypeInv
    <2>5. \A t \in Networks : burnt'[t] = burnt[t]
      BY <2>2, <2>4 DEF TypeInv, MoneyTyped
    <2>6. QED
      BY <2>3, <2>5, ReleasedKept
  <1>8. CASE \/ \E s \in Networks : WhitelistAny(s) \/ Tick(s)
             \/ \E c \in Killable : Kill(c)
             \/ UNCHANGED vars
    <2>1. UNCHANGED <<bottomUp, money>>
      BY <1>8 DEF WhitelistAny, WhitelistPropagator, Tick, Kill, vars
    <2>2. QED
      BY <2>1, ReleasedKept DEF bottomUp, money
  <1>9. QED
    BY <1>1, <1>2, <1>3, <1>4, <1>5, <1>6, <1>7, <1>8 DEF Next

\* A gateway has burnt exactly what the parent pays out when it executes the checkpoints
\* of its chain: cross_msg_side_effects and release burn when, and only when, a message is
\* put into a checkpoint.
THEOREM BurnsWhatIsReleased == Spec => []BurntIsReleased
  <1>1. Init => Released
    <2> SUFFICES ASSUME Init PROVE Released
      OBVIOUS
    <2>1. LogValue(<<>>) = 0
      <3>1. [k \in DOMAIN <<>> |-> TotalValue(<<>>[k].msgs)] = [k \in {} |-> 0]
        OBVIOUS
      <3>2. SumFunction([k \in {} |-> 0]) = 0
        BY LedgerZero, FS_EmptySet
      <3>3. QED
        BY <3>1, <3>2 DEF LogValue, Total
    <2>2. /\ burnt = [s \in Networks |-> 0]
          /\ bottomup_checkpoints = [s \in Networks |-> <<>>]
      BY DEF Init
    <2>3. QED
      BY <2>1, <2>2 DEF Released
  <1>2. Released => BurntIsReleased
    BY DEF Released, BurntIsReleased, LogValue
  <1>3. QED
    BY <1>1, <1>2, InitTyped, NextTyped, NextReleased, PTL DEF Spec

-----------------------------------------------------------------------------
(* Where messages are. *)

\* fund is called for a child of the gateway it is called at.  For a descendant further
\* down, the origin it writes into the message is not the chain it is called at, and
\* the message starts outside of the path between its ends.
FundsToChildren == \A r \in FundRoutes : r[2] \in Children(r[1])

\* Such a message never has to climb.
Misnamed(m) == ~FundsToChildren /\ ~IsBottomUp(m.from, m.to)

\* A message in a checkpoint, in a queue and in a postbox.
Climbing(s, m) ==
  /\ s \in NonRoot /\ GoesUp(m.from, m.to, s)
  /\ OnPath(s, m.from, m.to) /\ OnPath(Parent(s), m.from, m.to)
Descending(c, m) ==
  \/ Misnamed(m)
  \/ /\ OnPath(c, m.from, m.to) /\ OnPath(Parent(c), m.from, m.to)
     /\ ApplyType(m.from, m.to, c) = TopDown
Passing(s, m) == s # m.to /\ (Misnamed(m) \/ OnPath(s, m.from, m.to))

CheckpointsRouted ==
  \A s \in Networks : \A k \in DOMAIN bottomup_checkpoints[s] :
    \A m \in Range(bottomup_checkpoints[s][k].msgs) : Climbing(s, m)
QueuesRouted ==
  \A c \in NonRoot : Registered(c) =>
    \A n \in DOMAIN subnets[c].top_down_msgs : Descending(c, subnets[c].top_down_msgs[n])
PostboxRouted == \A s \in Networks : \A i \in postbox[s] : Passing(s, i.msg)

RouteInv == CheckpointsRouted /\ QueuesRouted /\ PostboxRouted

\* Where a message belongs does not depend on its nonce.
LEMMA NonceIrrelevant ==
  ASSUME NEW m \in Message, NEW n, NEW s
  PROVE  /\ Climbing(s, m) => Climbing(s, [m EXCEPT !.nonce = n])
         /\ Descending(s, m) => Descending(s, [m EXCEPT !.nonce = n])
  <1> DEFINE x == [m EXCEPT !.nonce = n]
  <1>1. x.from = m.from /\ x.to = m.to
    BY DEF Message
  <1> HIDE DEF x
  <1>2. (Climbing(s, m) => Climbing(s, x)) /\ (Descending(s, m) => Descending(s, x))
    BY <1>1 DEF Climbing, Descending, Misnamed
  <1>3. QED
    BY <1>2 DEF x

\* A message that may climb from a chain may be put into its checkpoint.
LEMMA CheckpointRoute ==
  ASSUME BottomUpTyped, CheckpointsRouted, NEW s \in Networks, NEW m \in Message,
         NEW fee \in Nat, CommitBottomupMsg(s, m, fee), Climbing(s, m)
  PROVE  CheckpointsRouted'
  <1> DEFINE w == WindowEpoch(epoch[s])
             x == [m EXCEPT !.nonce = bottomup_nonce[s]]
             old == bottomup_checkpoints[s]
             new == bottomup_checkpoints'[s]
             was == CheckpointAt(s, w).msgs
  <1>1. Climbing(s, x)
    BY NonceIrrelevant
  <1> HIDE DEF w, x
  <1>2. /\ \A t \in Networks : t # s => bottomup_checkpoints'[t] = bottomup_checkpoints[t]
        /\ DOMAIN new = DOMAIN old \union {w}
        /\ new[w].msgs = Append(was, x)
        /\ \A k \in DOMAIN old : k # w => new[k] = old[k]
    BY CommitBottomupIs DEF w, x
  <1>3. \A k \in DOMAIN old : \A y \in Range(old[k].msgs) : Climbing(s, y)
    BY DEF CheckpointsRouted
  <1>4. was \in Seq(Message)
    BY CheckpointTyped DEF Checkpoint
  <1>5. \A y \in Range(was) : Climbing(s, y)
    <2>1. CASE w \in DOMAIN old
      BY <1>3, <2>1 DEF CheckpointAt
    <2>2. CASE w \notin DOMAIN old
      <3>1. was = <<>>
        BY <2>2 DEF CheckpointAt, EmptyCheckpoint
      <3>2. QED
        BY <3>1 DEF Range
    <2>3. QED
      BY <2>1, <2>2
  <1> HIDE DEF was
  <1>6. ASSUME NEW y \in Range(Append(was, x)) PROVE Climbing(s, y)
    <2>1. Append(was, x) \in Seq(Message \union {x}) /\ Len(Append(was, x)) = Len(was) + 1
          /\ Append(was, x)[Len(was) + 1] = x /\ Len(was) \in Nat
          /\ \A i \in 1..Len(was) : Append(was, x)[i] = was[i]
      <3>1. was \in Seq(Message \union {x})
        BY <1>4, SeqMonotonic
      <3>2. QED
        BY <3>1, AppendProperties, LenProperties
    <2>2. PICK i \in 1..Len(was) + 1 : y = Append(was, x)[i]
      BY <1>6, <2>1, LenProperties DEF Range
    <2>3. CASE i = Len(was) + 1
      BY <1>1, <2>1, <2>2, <2>3
    <2>4. CASE i # Len(was) + 1
      <3>1. i \in 1..Len(was)
        BY <2>1, <2>4
      <3>2. y = was[i] /\ was[i] \in Range(was)
        BY <1>4, <2>1, <2>2, <3>1, LenProperties DEF Range
      <3>3. QED
        BY <1>5, <3>2
    <2>5. QED
      BY <2>3, <2>4
  <1>7. \A k \in DOMAIN new : \A y \in Range(new[k].msgs) : Climbing(s, y)
    BY <1>2, <1>3, <1>6
  <1> HIDE DEF new
  <1>8. \A t \in Networks : \A k \in DOMAIN bottomup_checkpoints'[t] :
          \A y \in Range(bottomup_checkpoints'[t][k].msgs) : Climbing(t, y)
    BY <1>2, <1>7 DEF CheckpointsRouted, new
  <1>9. QED
    BY <1>8 DEF CheckpointsRouted, Climbing

\* A message that may go down to a subnet may be put into its queue.
LEMMA QueueRoute ==
  ASSUME SubnetsTyped, QueuesRouted, NEW s \in Networks, NEW m \in Message,
         CommitTopdownMsg(s, m), UNCHANGED carried, Descending(Down(m.to, s), m)
  PROVE  QueuesRouted'
  <1> DEFINE c == Down(m.to, s)
  <1>0. c = Down(m.to, s)
    OBVIOUS
  <1> HIDE DEF c
  <1>1. /\ Registered(c) /\ \A d \in NonRoot : d # c => subnets'[d] = subnets[d]
        /\ \A n \in DOMAIN subnets'[c].top_down_msgs :
             \/ /\ n \in DOMAIN subnets[c].top_down_msgs
                /\ subnets'[c].top_down_msgs[n] = subnets[c].top_down_msgs[n]
             \/ subnets'[c].top_down_msgs[n] = [m EXCEPT !.nonce = n]
    <2>1. SubnetsTyped /\ UNCHANGED carried /\ CommitTopdownMsg(s, m)
      OBVIOUS
    <2> HIDE DEF SubnetsTyped, CommitTopdownMsg
    <2>2. QED
      BY ONLY <1>0, <2>1, CommitTopdownIs, s \in Networks, m \in Message
  <1>2. Descending(c, m) /\ c \in NonRoot
    BY <1>0, <1>1 DEF Registered
  <1>3. ASSUME NEW n \in DOMAIN subnets'[c].top_down_msgs
        PROVE  Descending(c, subnets'[c].top_down_msgs[n])
    <2> DEFINE y == subnets'[c].top_down_msgs[n]
    <2>1. \A k \in DOMAIN subnets[c].top_down_msgs : Descending(c, subnets[c].top_down_msgs[k])
      BY <1>1, <1>2 DEF QueuesRouted
    <2>2. \A nonce : Descending(c, [m EXCEPT !.nonce = nonce])
      BY <1>2, NonceIrrelevant
    <2>3. \/ \E k \in DOMAIN subnets[c].top_down_msgs : y = subnets[c].top_down_msgs[k]
          \/ \E nonce : y = [m EXCEPT !.nonce = nonce]
      BY <1>1
    <2> HIDE DEF y
    <2>4. Descending(c, y)
      BY <2>1, <2>2, <2>3
    <2>5. QED
      BY <2>4 DEF y
  <1>4. \A d \in NonRoot : subnets'[d].registered =>
          \A n \in DOMAIN subnets'[d].top_down_msgs : Descending(d, subnets'[d].top_down_msgs[n])
    BY <1>1, <1>3 DEF QueuesRouted, Registered
  <1>5. QED
    BY <1>4 DEF QueuesRouted, Registered, Descending, Misnamed

\* commit_cross_message keeps a message on its path, whichever way it sends it.
LEMMA CrossRoute ==
  ASSUME TypeInv, CheckpointsRouted, QueuesRouted, NEW s \in Networks, NEW m \in Message,
         NEW fee \in Nat, CommitCrossMessage(s, m, fee), UNCHANGED carried,
         Misnamed(m) \/ OnPath(s, m.from, m.to)
  PROVE  CheckpointsRouted' /\ QueuesRouted'
  <1>1. s \in ID /\ m.from \in ID /\ m.to \in ID
    BY NetworksAreIDs DEF Message
  <1>2. CASE CommitUp(s, m, fee)
    <2>1. GoesUp(m.from, m.to, s)
      BY <1>2 DEF CommitUp
    <2>0. OnPath(s, m.from, m.to)
      BY <2>1 DEF Misnamed, GoesUp, ApplyType, IpcType, BottomUp, TopDown
    <2>2. /\ Depth(s) # 0 /\ OnPath(Parent(s), m.from, m.to) /\ OnPath(s, m.from, m.to)
      BY <1>1, <2>0, <2>1, UpStaysOnPath DEF ID
    <2>3. s \in NonRoot
      BY <1>1, <2>2, ParentIs DEF ID, NonRoot
    <2>4. Climbing(s, m)
      BY <2>1, <2>2, <2>3 DEF Climbing
    <2>5. CheckpointsRouted'
      BY <1>2, <2>4, CheckpointRoute DEF TypeInv, CommitUp
    <2>6. QED
      BY <1>2, <2>5 DEF CommitUp, QueuesRouted, Registered
  <1>3. CASE CommitTurn(s, m) \/ CommitDown(s, m)
    <2>1. ~GoesUp(m.from, m.to, s) /\ CommitTopdownMsg(s, m)
      BY <1>3 DEF CommitTurn, CommitDown, GoesUp, BottomUp, TopDown
    <2>3. Down(m.to, s) # None
      BY <2>1 DEF CommitTopdownMsg
    <2>4. ASSUME OnPath(s, m.from, m.to) PROVE Descending(Down(m.to, s), m)
      <3>1. Above(s, m.to)
        BY <1>1, <2>1, <2>4, ClimbsBelowTurn DEF ID
      <3>2. /\ OnPath(Down(m.to, s), m.from, m.to)
            /\ ApplyType(m.from, m.to, Down(m.to, s)) = TopDown
        BY <1>1, <2>3, <2>4, <3>1, DownStaysOnPath DEF ID
      <3>3. Parent(Down(m.to, s)) = s
        BY <1>1, <2>3, <3>1, DownIs DEF ID
      <3>4. QED
        BY <2>4, <3>2, <3>3 DEF Descending
    <2>6. Descending(Down(m.to, s), m)
      BY <2>4 DEF Descending
    <2>7. QueuesRouted'
      BY <2>1, <2>6, QueueRoute DEF TypeInv
    <2>8. bottomup_checkpoints' = bottomup_checkpoints
      BY <1>3 DEF CommitTurn, CommitDown, bottomUp
    <2>9. QED
      BY <2>7, <2>8 DEF CheckpointsRouted
  <1>4. QED
    BY <1>2, <1>3 DEF CommitCrossMessage

\* Executing messages that are on their path leaves those in transit in the postbox.
LEMMA ApplyRoute ==
  ASSUME PostboxTyped, PostboxRouted, NEW s \in Networks, NEW msgs, NEW fee,
         Apply(s, msgs, fee),
         \A m \in Range(msgs) : Misnamed(m) \/ OnPath(s, m.from, m.to)
  PROVE  PostboxRouted'
  <1>1. \A i \in InTransit(s, msgs) : Passing(s, i.msg)
    BY DEF InTransit, PostBoxItem, Passing
  <1>2. postbox'[s] = postbox[s] \union InTransit(s, msgs)
        /\ \A t \in Networks : t # s => postbox'[t] = postbox[t]
    BY DEF Apply, PostboxTyped
  <1>3. \A t \in Networks : \A i \in postbox'[t] : Passing(t, i.msg)
    BY <1>1, <1>2 DEF PostboxRouted
  <1>4. QED
    BY <1>3 DEF PostboxRouted, Passing, Misnamed

\* Between a network and its parent, in either direction, the path is the two of them.
LEMMA NeighbourPath ==
  ASSUME NEW c \in NonRoot
  PROVE  /\ OnPath(c, c, Parent(c)) /\ OnPath(Parent(c), c, Parent(c))
         /\ OnPath(c, Parent(c), c) /\ OnPath(Parent(c), Parent(c), c)
         /\ ApplyType(Parent(c), c, c) = TopDown /\ ~IsBottomUp(Parent(c), c)
         /\ GoesUp(c, Parent(c), c)
  <1> DEFINE p == Parent(c)
  <1>1. c \in ID /\ p \in ID
    BY NetworksAreIDs
  <1>2. Depth(c) # 0
    BY <1>1, ParentIs DEF ID, NonRoot
  <1>3. Depth(p) = Depth(c) - 1 /\ Agree(p, c, Depth(c) - 1) /\ Depth(c) \in Nat
    BY <1>1, <1>2, ParentIs, IDParts DEF ID
  <1>4. Above(p, c) /\ Above(c, c) /\ Above(p, p)
    BY <1>1, <1>3, AboveIs, AboveSelf DEF ID
  <1>5. CommonChildren(p, c) = Depth(p) /\ CommonChildren(c, p) = Depth(p)
    BY <1>1, <1>4, AboveCommon, CommonSymmetric DEF ID
  <1>6. CommonChildren(c, p) <= Depth(c) /\ CommonChildren(c, p) <= Depth(p)
        /\ CommonChildren(p, c) <= Depth(c) /\ CommonChildren(p, c) <= Depth(p)
    BY <1>3, <1>5
  <1> HIDE DEF p
  <1>7. /\ OnPath(c, c, p) /\ OnPath(p, c, p) /\ OnPath(c, p, c) /\ OnPath(p, p, c)
    BY <1>1, <1>4, <1>6, PathIs DEF ID
  <1>8. ~IsBottomUp(p, c)
    BY <1>3, <1>5 DEF IsBottomUp, Depth, p
  <1>9. ApplyType(p, c, c) = TopDown
    BY <1>8 DEF ApplyType, IpcType, TopDown, BottomUp
  <1>10. GoesUp(c, p, c)
    <2>1. c.root = p.root /\ Depth(c) > CommonChildren(c, p)
      BY <1>1, <1>3, <1>5, IDParts DEF ID
    <2>2. IpcType(c, p) = BottomUp
      BY <2>1 DEF IpcType, IsBottomUp, Depth
    <2>3. Prefix(p, CommonChildren(p, c)) # c
      <3>1. Depth(p) \in 0..Depth(p)
        BY <1>1, IDParts DEF ID
      <3>2. Depth(Prefix(p, Depth(p))) = Depth(p)
        BY <1>1, <3>1, PrefixFields DEF ID
      <3>3. Depth(p) # Depth(c)
        BY <1>3
      <3>4. QED
        BY <1>5, <3>2, <3>3
    <2>4. CommonParent(p, c).id # c
      BY <2>1, <2>3 DEF CommonParent
    <2>5. QED
      BY <2>2, <2>4 DEF GoesUp, ApplyType
  <1>11. QED
    BY <1>7, <1>8, <1>9, <1>10 DEF p

\* The first step down from the parent of a network leads to the network.
LEMMA DownToChild ==
  ASSUME NEW c \in NonRoot, Down(c, Parent(c)) # None
  PROVE  Down(c, Parent(c)) = c
  <1> DEFINE p == Parent(c)
             d == Down(c, p)
  <1>1. c \in ID /\ p \in ID
    BY NetworksAreIDs
  <1>2. Depth(c) # 0
    BY <1>1, ParentIs DEF ID, NonRoot
  <1>3. Depth(p) = Depth(c) - 1 /\ Agree(p, c, Depth(c) - 1) /\ Depth(c) \in Nat
    BY <1>1, <1>2, ParentIs, IDParts DEF ID
  <1>4. Above(p, c)
    BY <1>1, <1>3, AboveIs DEF ID
  <1>5. d \in ID /\ Depth(d) = Depth(p) + 1 /\ Above(d, c)
    BY <1>1, <1>4, DownIs DEF ID
  <1> HIDE DEF d, p
  <1>6. Agree(d, c, Depth(d)) /\ Depth(d) = Depth(c)
    BY <1>1, <1>3, <1>5, AboveIs DEF ID
  <1>7. d = c
    BY <1>1, <1>5, <1>6, SameID DEF ID
  <1>8. QED
    BY <1>7 DEF d, p

\* What a step leaves alone stays where it belongs.
LEMMA RouteKept ==
  /\ CheckpointsRouted /\ UNCHANGED bottomup_checkpoints => CheckpointsRouted'
  /\ QueuesRouted /\ UNCHANGED subnets => QueuesRouted'
  /\ PostboxRouted /\ UNCHANGED postbox => PostboxRouted'
  BY DEF CheckpointsRouted, QueuesRouted, PostboxRouted, Registered

\* fund and release put their messages where they belong.
LEMMA FundRouted ==
  ASSUME TypeInv, RouteInv, FundAny \/ ReleaseAny
  PROVE  RouteInv'
  <1>1. CASE FundAny
    <2>1. PICK r \in FundRoutes, a \in Senders, v \in Amounts : Fund(r[1], r[2], a, v)
      BY <1>1 DEF FundAny
    <2> DEFINE s == r[1]
               c == r[2]
               m == NewFundMsg(c, a, CollectCrossFee(v))
    <2>2. c \in NonRoot /\ s \in Networks
      BY <2>1, RoutesAssumption DEF Fund, NonRoot
    <2>3. m \in Message
      BY <2>1, <2>2, SentMessages DEF Fund
    <2>4. m.from = Parent(c) /\ m.to = c
      BY DEF NewFundMsg, Msg
    <2>5. CommitTopdownMsg(s, m) /\ UNCHANGED <<bottomUp, postbox, carried>>
      BY <2>1, <2>2 DEF Fund, Sends
    <2>6. FundsToChildren => s = Parent(c)
      BY DEF FundsToChildren, Children
    <2> HIDE DEF m, c, s
    <2>7. Descending(Down(m.to, s), m)
      <3>1. CASE FundsToChildren
        <4>1. Down(c, s) = c
          BY <2>2, <2>4, <2>5, <2>6, <3>1, DownToChild DEF CommitTopdownMsg
        <4>2. QED
          BY <2>2, <2>4, <2>6, <3>1, <4>1, NeighbourPath DEF Descending
      <3>2. CASE ~FundsToChildren
        <4>1. ~IsBottomUp(m.from, m.to)
          BY <2>2, <2>4, NeighbourPath
        <4>2. QED
          BY <3>2, <4>1 DEF Descending, Misnamed
      <3>3. QED
        BY <3>1, <3>2
    <2>8. QueuesRouted'
      BY <2>2, <2>3, <2>5, <2>7, QueueRoute DEF TypeInv, RouteInv
    <2>9. QED
      BY <2>5, <2>8, RouteKept DEF RouteInv, bottomUp
  <1>2. CASE ReleaseAny
    <2>1. PICK s \in Releasing, a \in Senders, v \in Amounts : Release(s, a, v)
      BY <1>2 DEF ReleaseAny
    <2> DEFINE m == NewReleaseMsg(s, a, CollectCrossFee(v))
    <2>2. s \in Networks /\ s \in NonRoot
      BY RoutesAssumption, NetworksAreIDs
    <2>3. m \in Message /\ CrossMsgFee \in Nat
      BY <2>1, <2>2, SentMessages DEF Release
    <2>4. m.from = s /\ m.to = Parent(s)
      BY DEF NewReleaseMsg, Msg
    <2>5. CommitBottomupMsg(s, m, CrossMsgFee) /\ UNCHANGED <<subnets, postbox>>
      BY <2>1 DEF Release, Sends
    <2> HIDE DEF m
    <2>6. Climbing(s, m)
      BY <2>2, <2>4, NeighbourPath DEF Climbing
    <2>7. CheckpointsRouted'
      BY <2>2, <2>3, <2>5, <2>6, CheckpointRoute DEF TypeInv, RouteInv
    <2>8. QED
      BY <2>5, <2>7, RouteKept DEF RouteInv
  <1>3. QED
    BY <1>1, <1>2

\* send_cross and propagate pass messages on along their path.
LEMMA PassingRouted ==
  ASSUME TypeInv, RouteInv, SendCrossAny \/ \E s \in Networks : PropagateAny(s)
  PROVE  RouteInv'
  <1>0. CrossMsgFee \in Nat
    BY AmountsAssumption
  <1>1. CASE SendCrossAny
    <2>1. PICK r \in SendRoutes, a \in Senders, v \in Amounts, p \in Payloads :
            SendCross(r[1], r[2], a, v, p)
      BY <1>1 DEF SendCrossAny
    <2> DEFINE s == r[1]
               m == Msg(s, r[2], a, CollectCrossFee(v), p)
    <2>2. s \in Networks /\ r[2] \in Destinations
      BY RoutesAssumption DEF Destinations
    <2>3. m \in Message
      BY <2>1, <2>2, SentMessages DEF SendCross
    <2>4. m.from = s /\ m.to = r[2]
      BY DEF Msg
    <2>5. CommitCrossMessage(s, m, CrossMsgFee) /\ UNCHANGED <<postbox, carried>>
      BY <2>1 DEF SendCross, Sends
    <2> HIDE DEF m, s
    <2>6. OnPath(s, m.from, m.to)
      BY <2>2, <2>4, NetworksAreIDs, PathStarts DEF ID
    <2>7. CheckpointsRouted' /\ QueuesRouted'
      BY <1>0, <2>2, <2>3, <2>5, <2>6, CrossRoute DEF RouteInv
    <2>8. QED
      BY <2>5, <2>7, RouteKept DEF RouteInv
  <1>2. CASE \E s \in Networks : PropagateAny(s)
    <2>1. PICK s \in Networks : PropagateAny(s)
      BY <1>2
    <2>2. PICK i \in postbox[s], o \in Accounts : Propagate(s, i, o)
      BY <2>1 DEF PropagateAny
    <2>3. i.msg \in Message /\ (Misnamed(i.msg) \/ OnPath(s, i.msg.from, i.msg.to))
      BY DEF TypeInv, PostboxTyped, Item, RouteInv, PostboxRouted, Passing
    <2>4. CheckpointsRouted' /\ QueuesRouted'
      BY <1>0, <2>2, <2>3, CrossRoute DEF RouteInv, Propagate
    <2>5. \A t \in Networks : postbox'[t] \subseteq postbox[t]
      BY <2>2 DEF Propagate, TypeInv, PostboxTyped
    <2>6. PostboxRouted'
      BY <2>5 DEF RouteInv, PostboxRouted
    <2>7. QED
      BY <2>4, <2>6 DEF RouteInv
  <1>3. QED
    BY <1>1, <1>2

\* Executing checkpoints leaves messages in transit where they belong.
LEMMA ExecutionRouted ==
  ASSUME TypeInv, RouteInv,
         \E c \in NonRoot : ExecuteTopdownAny(c) \/ CommitChildCheck(c)
  PROVE  RouteInv'
  <1>1. ASSUME NEW c \in NonRoot, ExecuteTopdownAny(c) PROVE RouteInv'
    <2>1. PICK n \in 1..MaxMsgs :
            /\ Registered(c) /\ carried[c] + n - 1 \in DOMAIN subnets[c].top_down_msgs
            /\ ExecuteTopdown(c, n)
      BY <1>1 DEF ExecuteTopdownAny
    <2> DEFINE msgs == [i \in 1..n |-> subnets[c].top_down_msgs[carried[c] + i - 1]]
    <2>2. n \in Nat /\ n # 0 /\ c \in Networks
      BY AmountsAssumption, NetworksAreIDs
    <2>3. \A m \in Range(msgs) :
            \E k \in DOMAIN subnets[c].top_down_msgs : m = subnets[c].top_down_msgs[k]
      BY <2>1, <2>2, TopdownMessages DEF TypeInv
    <2>4. Apply(c, msgs, 0) /\ UNCHANGED <<bottomUp, subnets>>
      BY <2>1 DEF ExecuteTopdown
    <2> HIDE DEF msgs
    <2>5. \A m \in Range(msgs) : Misnamed(m) \/ OnPath(c, m.from, m.to)
      BY <2>1, <2>3 DEF RouteInv, QueuesRouted, Descending
    <2>6. PostboxRouted'
      BY <2>2, <2>4, <2>5, ApplyRoute DEF TypeInv, RouteInv
    <2>7. QED
      BY <2>4, <2>6, RouteKept DEF RouteInv, bottomUp
  <1>2. ASSUME NEW c \in NonRoot, CommitChildCheck(c) PROVE RouteInv'
    <2> DEFINE p == Parent(c)
               k == subnets[c].prev_epoch + CheckPeriod
               ch == CheckpointAt(c, k)
               ck == AddChildCheck(GetWindowCheckpoint(p), c, k)
               w == WindowEpoch(epoch[p])
               log == bottomup_checkpoints'
               was == CheckpointAt(p, w)
    <2>1. /\ p \in Networks /\ c \in Networks /\ Registered(c) /\ ck \in Checkpoint
          /\ ck.msgs = was.msgs
          /\ log = FlushCheckpoint(p, ck) /\ Apply(p, ch.msgs, ch.fee)
      BY <1>2, ChildCheckIs DEF GetWindowCheckpoint
    <2>2. \A t \in Networks : \A j : \A m \in Range(CheckpointAt(t, j).msgs) : Climbing(t, m)
      BY DEF RouteInv, CheckpointsRouted, CheckpointAt, EmptyCheckpoint, Range
    <2>3. \A m \in Range(ch.msgs) : OnPath(p, m.from, m.to)
      BY <2>1, <2>2 DEF Climbing
    <2>4. subnets' = [subnets EXCEPT
                        ![c].circ_supply = ReleaseSupply(c, ch),
                        ![c].prev_epoch = k,
                        ![c].applied_bottomup_nonce = @ + Len(Own(p, ch.msgs))]
      BY <1>2 DEF CommitChildCheck
    <2> HIDE DEF ck, k, ch
    <2>5. PostboxRouted'
      BY <2>1, <2>3, ApplyRoute DEF TypeInv, RouteInv
    <2>6. /\ \A t \in Networks : t # p => log[t] = bottomup_checkpoints[t]
          /\ DOMAIN log[p] = DOMAIN bottomup_checkpoints[p] \union {w}
          /\ log[p][w] = ck
          /\ \A j \in DOMAIN bottomup_checkpoints[p] :
               j # w => log[p][j] = bottomup_checkpoints[p][j]
      BY <2>1, FlushIs DEF TypeInv
    <2>7. \A m \in Range(log[p][w].msgs) : Climbing(p, m)
      BY <2>1, <2>2, <2>6
    <2> HIDE DEF was, w
    <2>8. \A t \in Networks : \A j \in DOMAIN log[t] :
            \A m \in Range(log[t][j].msgs) : Climbing(t, m)
      BY <2>1, <2>6, <2>7 DEF RouteInv, CheckpointsRouted
    <2>9. CheckpointsRouted'
      BY <2>8 DEF CheckpointsRouted, Climbing
    <2>10. QueuesRouted'
      <3>1. subnets[c] \in Subnet
        BY <2>1 DEF TypeInv, SubnetsTyped, Registered, NotRegistered
      <3>2. subnets'[c].top_down_msgs = subnets[c].top_down_msgs
            /\ \A d \in NonRoot : d # c => subnets'[d] = subnets[d]
        BY <2>4, <3>1 DEF TypeInv, SubnetsTyped, Subnet
      <3>3. \A d \in NonRoot : subnets'[d].registered =>
              \A n \in DOMAIN subnets'[d].top_down_msgs :
                Descending(d, subnets'[d].top_down_msgs[n])
        BY <2>1, <3>2 DEF RouteInv, QueuesRouted, Registered
      <3>4. QED
        BY <3>3 DEF QueuesRouted, Registered, Descending, Misnamed
    <2>11. QED
      BY <2>5, <2>9, <2>10 DEF RouteInv
  <1>3. QED
    BY <1>1, <1>2

\* The other steps move no message; killing a subnet forgets its queue.
LEMMA OthersRouted ==
  ASSUME TypeInv, RouteInv,
         \/ \E s \in Networks : WhitelistAny(s) \/ Tick(s)
         \/ \E c \in NonRoot : SetMembership(c)
         \/ \E c \in Killable : Kill(c)
         \/ UNCHANGED vars
  PROVE  RouteInv'
  <1>1. CASE \E s \in Networks : WhitelistAny(s)
    <2>1. PICK s \in Networks : WhitelistAny(s)
      BY <1>1
    <2>2. PICK i \in postbox[s], o \in Accounts, added \in Accounts :
            WhitelistPropagator(s, i, o, added)
      BY <2>1 DEF WhitelistAny
    <2> DEFINE new == PostBoxItem(i.msg, i.owners \union {added})
    <2>3. /\ postbox'[s] \subseteq postbox[s] \union {new}
          /\ \A t \in Networks : t # s => postbox'[t] = postbox[t]
          /\ UNCHANGED <<bottomUp, subnets>>
      BY <2>2 DEF WhitelistPropagator, SwapPostboxItem, TypeInv, PostboxTyped
    <2>4. Passing(s, i.msg) /\ new.msg = i.msg
      BY DEF RouteInv, PostboxRouted, PostBoxItem
    <2> HIDE DEF new
    <2>5. \A t \in Networks : \A j \in postbox'[t] : Passing(t, j.msg)
      BY <2>3, <2>4 DEF RouteInv, PostboxRouted
    <2>6. PostboxRouted'
      BY <2>5 DEF PostboxRouted, Passing, Misnamed
    <2>7. QED
      BY <2>3, <2>6, RouteKept DEF RouteInv, bottomUp
  <1>2. CASE \E s \in Networks : Tick(s)
    BY <1>2, RouteKept DEF RouteInv, Tick, bottomUp
  <1>3. CASE \E c \in NonRoot : SetMembership(c)
    BY <1>3, RouteKept DEF RouteInv, SetMembership, bottomUp
  <1>4. CASE \E c \in Killable : Kill(c)
    <2>1. PICK c \in Killable : Kill(c)
      BY <1>4
    <2>2. \A d \in NonRoot : subnets'[d].registered =>
            Registered(d) /\ subnets'[d] = subnets[d]
      BY <2>1 DEF Kill, TypeInv, SubnetsTyped, NotRegistered, Registered
    <2>3. QueuesRouted'
      BY <2>2 DEF RouteInv, QueuesRouted, Registered
    <2>4. QED
      BY <2>1, <2>3, RouteKept DEF RouteInv, Kill, bottomUp
  <1>5. CASE UNCHANGED vars
    BY <1>5, RouteKept DEF RouteInv, vars, bottomUp
  <1>6. QED
    BY <1>1, <1>2, <1>3, <1>4, <1>5

\* In every reachable state.
LEMMA RouteInvHolds == Spec => [](TypeInv /\ RouteInv)
  <1>1. Init => RouteInv
    <2> SUFFICES ASSUME Init PROVE RouteInv
      OBVIOUS
    <2>1. CheckpointsRouted /\ PostboxRouted
      BY DEF Init, CheckpointsRouted, PostboxRouted
    <2>2. QueuesRouted
      <3> DEFINE a == CHOOSE x \in Accounts : TRUE
                 First(c) == NewFundMsg(c, a, Endowment[c])
      <3>1. ASSUME NEW c \in NonRoot, NEW n \in DOMAIN subnets[c].top_down_msgs
            PROVE  subnets[c].top_down_msgs[n] = First(c)
        BY DEF Init
      <3> HIDE DEF a
      <3>2. \A c \in NonRoot : First(c).from = Parent(c) /\ First(c).to = c
        BY DEF NewFundMsg, Msg
      <3>3. \A c \in NonRoot : Descending(c, First(c))
        BY <3>2, NeighbourPath DEF Descending
      <3> HIDE DEF First
      <3>4. QED
        BY <3>1, <3>3 DEF QueuesRouted
    <2>3. QED
      BY <2>1, <2>2 DEF RouteInv
  <1>2. TypeInv /\ RouteInv /\ [Next]_vars => RouteInv'
    <2> SUFFICES ASSUME TypeInv, RouteInv, [Next]_vars PROVE RouteInv'
      OBVIOUS
    <2>1. CASE FundAny \/ ReleaseAny
      BY <2>1, FundRouted
    <2>2. CASE SendCrossAny \/ \E s \in Networks : PropagateAny(s)
      BY <2>2, PassingRouted
    <2>3. CASE \E c \in NonRoot : ExecuteTopdownAny(c) \/ CommitChildCheck(c)
      BY <2>3, ExecutionRouted
    <2>4. CASE \/ \E s \in Networks : WhitelistAny(s) \/ Tick(s)
               \/ \E c \in NonRoot : SetMembership(c)
               \/ \E c \in Killable : Kill(c)
               \/ UNCHANGED vars
      BY <2>4, OthersRouted
    <2>5. QED
      BY <2>1, <2>2, <2>3, <2>4 DEF Next
  <1>3. QED
    BY <1>1, <1>2, InitTyped, NextTyped, PTL DEF Spec

\* Through funds, releases, hops, executed checkpoints and killed subnets, a message in a
\* checkpoint, a queue or a postbox is on the path between its ends, between two networks
\* of that path where it is on its way, and every gateway it passes sees it going the
\* way it came.
THEOREM NeverOffRoute == FundsToChildren => (Spec => []OnRoute)
  <1> SUFFICES ASSUME FundsToChildren PROVE Spec => []OnRoute
    OBVIOUS
  <1>1. RouteInv => OnRoute
    <2> SUFFICES ASSUME RouteInv, NEW s \in Networks
                 PROVE  /\ \A m \in Batched(s) : Climbing(s, m)
                        /\ \A m \in Queued(s) : Descending(s, m)
                        /\ \A m \in Boxed(s) : Passing(s, m)
      BY DEF OnRoute, Climbing, Descending, Passing, Misnamed
    <2>1. \A m \in Batched(s) : Climbing(s, m)
      BY DEF Batched, Uncommitted, RouteInv, CheckpointsRouted
    <2>2. \A m \in Queued(s) : Descending(s, m)
      BY DEF Queued, RouteInv, QueuesRouted, Registered
    <2>3. \A m \in Boxed(s) : Passing(s, m)
      BY DEF Boxed, RouteInv, PostboxRouted
    <2>4. QED
      BY <2>1, <2>2, <2>3
  <1>2. QED
    BY <1>1, RouteInvHolds, PTL

-----------------------------------------------------------------------------
(* What the root holds. *)

\* The values of the messages of a checkpoint.
Values(msgs) == [i \in DOMAIN msgs |-> msgs[i].value]

\* Its own messages are worth the sum over their places.
LEMMA OwnValue ==
  ASSUME NEW M, \A m \in M : m.value \in Nat, NEW msgs \in Seq(M), NEW s
  PROVE  TotalValue(Own(s, msgs))
           = SumFunctionOnSet(Values(msgs), {i \in DOMAIN msgs : msgs[i].to = s})
  <1> DEFINE L == Len(msgs)
             v == Values(msgs)
             here(n) == {i \in 1..n : msgs[i].to = s}
  <1>1. L \in Nat /\ DOMAIN msgs = 1..L /\ \A i \in 1..L : msgs[i] \in M
    BY LenProperties, ElementOfSeq
  <1>2. \A i \in 1..L : v[i] = msgs[i].value /\ v[i] \in Nat
    BY <1>1 DEF Values
  <1>3. PICK own : /\ \A n \in 0..L : own[n] = OwnStep(own, s, msgs, n) /\ own[n] \in Seq(M)
                   /\ Own(s, msgs) = own[L]
    BY OwnSteps
  <1> DEFINE Q == {n \in Nat : n <= L => TotalValue(own[n]) = SumFunctionOnSet(v, here(n))}
  <1> HIDE DEF v
  <1>4. 0 \in Q
    <2>1. here(0) = {} /\ own[0] = <<>>
      BY <1>1, <1>3 DEF OwnStep
    <2>2. SumFunctionOnSet(v, {}) = 0
      BY SumRecursion, FS_EmptySet
    <2> HIDE DEF here
    <2>3. QED
      BY <2>1, <2>2, NoValue
  <1>5. ASSUME NEW n \in Nat, n \in Q PROVE n + 1 \in Q
    <2> SUFFICES ASSUME n + 1 <= L
                 PROVE  TotalValue(own[n + 1]) = SumFunctionOnSet(v, here(n + 1))
      OBVIOUS
    <2>1. /\ n \in 0..L /\ n + 1 \in 0..L /\ n + 1 \in 1..L /\ n + 1 - 1 = n /\ n + 1 # 0
          /\ TotalValue(own[n]) = SumFunctionOnSet(v, here(n))
      BY <1>1, <1>5
    <2>2. own[n + 1] = IF msgs[n + 1].to = s THEN Append(own[n], msgs[n + 1]) ELSE own[n]
      BY <1>3, <2>1 DEF OwnStep
    <2>3. CASE msgs[n + 1].to = s
      <3>1. here(n + 1) = here(n) \cup {n + 1} /\ n + 1 \notin here(n)
        BY <2>3
      <3>2. IsFiniteSet(here(n))
        <4>1. IsFiniteSet(1..n)
          BY FS_Interval
        <4>2. QED
          BY <4>1, FS_Subset
      <3>3. here(n) \subseteq 1..L /\ SumFunctionOnSet(v, here(n)) \in Nat
        <4>1. here(n) \subseteq 1..L
          BY <1>1, <2>1
        <4> HIDE DEF here
        <4>2. QED
          BY <1>2, <3>2, <4>1, SumNat
      <3> HIDE DEF here
      <3>4. SumFunctionOnSet(v, here(n) \cup {n + 1}) = v[n + 1] + SumFunctionOnSet(v, here(n))
        <4>1. \A x \in here(n) \cup {n + 1} : v[x] \in Int
          BY <1>2, <2>1, <3>3
        <4>2. QED
          BY <3>1, <3>2, <4>1, SumAdd
      <3>5. TotalValue(own[n + 1]) = TotalValue(own[n]) + msgs[n + 1].value
        BY <1>1, <1>3, <2>1, <2>2, <2>3, ValueAppend
      <3>6. v[n + 1] \in Nat /\ v[n + 1] = msgs[n + 1].value
        BY <1>2, <2>1
      <3> DEFINE a == SumFunctionOnSet(v, here(n))
                 b == SumFunctionOnSet(v, here(n + 1))
                 x == msgs[n + 1].value
      <3>7. a \in Nat /\ x \in Nat
        BY <3>3, <3>6
      <3>8. b = x + a
        BY <3>1, <3>4, <3>6
      <3>9. TotalValue(own[n + 1]) = a + x
        BY <2>1, <3>5
      <3> HIDE DEF a, b, x
      <3>10. TotalValue(own[n + 1]) = b
        BY <3>7, <3>8, <3>9
      <3>11. QED
        BY <3>10 DEF b
    <2>4. CASE msgs[n + 1].to # s
      <3>1. here(n + 1) = here(n)
        BY <2>4
      <3> HIDE DEF here
      <3>2. QED
        BY <2>1, <2>2, <2>4, <3>1
    <2>5. QED
      BY <2>3, <2>4
  <1>6. L \in Q
    <2> HIDE DEF Q
    <2>1. QED
      BY <1>1, <1>4, <1>5, NatSetInduction
  <1>7. TotalValue(own[L]) = SumFunctionOnSet(v, here(L))
    <2> HIDE DEF here, L
    <2>1. QED
      BY <1>1, <1>6
  <1>8. here(L) = {i \in DOMAIN msgs : msgs[i].to = s}
    BY <1>1
  <1> HIDE DEF here, L
  <1>9. QED
    BY <1>3, <1>7, <1>8 DEF v

\* The messages at some places of a checkpoint.
Picked(msgs, at) == {msgs[i] : i \in at}

\* Messages at places that all differ are worth the sum over these places.
LEMMA ValueDistinct ==
  ASSUME NEW M, \A m \in M : m.value \in Nat, NEW msgs \in Seq(M),
         \A i, j \in DOMAIN msgs : msgs[i] = msgs[j] => i = j,
         NEW at \in SUBSET DOMAIN msgs
  PROVE  /\ ValueOf(Picked(msgs, at)) \in Nat /\ IsFiniteSet(Picked(msgs, at))
         /\ ValueOf(Picked(msgs, at)) = SumFunctionOnSet(Values(msgs), at)
  <1> DEFINE D == DOMAIN msgs
             out == Picked(msgs, at)
             v == Values(msgs)
             w == [m \in out |-> m.value]
             place == [m \in out |-> {i \in at : msgs[i] = m}]
  <1>1. /\ IsFiniteSet(D) /\ \A i \in D : msgs[i] \in M
        /\ v = [i \in D |-> v[i]] /\ v \in [D -> Nat]
    <2>1. D = 1..Len(msgs) /\ Len(msgs) \in Nat /\ \A i \in 1..Len(msgs) : msgs[i] \in M
      BY LenProperties, ElementOfSeq
    <2>2. IsFiniteSet(1..Len(msgs))
      <3>1. 1 \in Int /\ Len(msgs) \in Int
        BY <2>1
      <3>2. QED
        BY <3>1, FS_Interval
    <2>3. QED
      BY <2>1, <2>2 DEF Values
  <1>2. IsFiniteSet(at)
    BY <1>1, FS_Subset
  <1>3. \A m \in out : m \in M /\ \E i \in at : msgs[i] = m
    BY <1>1 DEF Picked
  <1>4. \A i \in at : msgs[i] \in out
    BY DEF Picked
  <1> HIDE DEF out
  <1>5. IsFiniteSet(out)
    <2> DEFINE key == [i \in at |-> msgs[i]]
    <2>1. key \in Surjection(at, out)
      BY <1>3, <1>4 DEF Surjection
    <2> HIDE DEF key
    <2>2. QED
      BY <1>2, <2>1, FS_Surjection
  <1>6. w \in [out -> Nat] /\ \A m \in out : w[m] = m.value
    BY <1>3
  <1>7. \A m \in out : /\ place[m] \in SUBSET at
                       /\ \A i \in at : i \in place[m] <=> msgs[i] = m
    OBVIOUS
  <1>8. \A m \in out : w[m] = SumFunctionOnSet(v, place[m])
    <2> TAKE m \in out
    <2>1. PICK i \in at : msgs[i] = m
      BY <1>3
    <2>2. place[m] = {} \cup {i} /\ i \notin {}
      BY <2>1
    <2>3. v[i] = m.value /\ v[i] \in Nat
      BY <1>1, <2>1 DEF Values
    <2>4. SumFunctionOnSet(v, {}) = 0
      BY SumRecursion, FS_EmptySet
    <2>5. SumFunctionOnSet(v, {} \cup {i}) = v[i] + SumFunctionOnSet(v, {})
      <3>1. IsFiniteSet({}) /\ \A x \in {} \cup {i} : v[x] \in Int
        BY <2>3, FS_EmptySet
      <3>2. QED
        BY <2>2, <3>1, SumAdd
    <2> HIDE DEF v, w, place
    <2>6. QED
      BY <1>6, <2>2, <2>3, <2>4, <2>5
  <1>9. ValueOf(out) = SumFunction(w)
    BY DEF ValueOf, Total
  <1> HIDE DEF v, w, place, D
  <1>10. SumFunctionOnSet(w, out) = SumFunctionOnSet(v, at)
    <2> DEFINE key == [i \in at |-> msgs[i]]
    <2>1. \A i \in at : key[i] = msgs[i] /\ key[i] \in out /\ v[i] \in Int
      BY <1>1, <1>4 DEF D
    <2>2. \A m \in out : /\ place[m] \in SUBSET at
                         /\ \A i \in at : i \in place[m] <=> key[i] = m
      BY <1>7
    <2>3. /\ \A i \in at : key[i] \in out
          /\ \A i \in at : v[i] \in Int
      BY <2>1
    <2> HIDE DEF key
    <2>4. QED
      BY ONLY <1>2, <1>5, <1>8, <2>2, <2>3, SumByKey
  <1>11. SumFunction(w) = SumFunctionOnSet(w, out) /\ SumFunction(w) \in Nat
    BY <1>5, <1>6, LedgerTotal
  <1>12. QED
    BY <1>5, <1>9, <1>10, <1>11 DEF v, out

\* The messages of a checkpoint that are in transit.
Transit(s, msgs) == {x \in Range(msgs) : x.to # s}

\* Of messages that all differ, what has arrived and what is in transit make up the whole.
LEMMA ValueSplits ==
  ASSUME NEW M, \A m \in M : m.value \in Nat, NEW msgs \in Seq(M), NEW s,
         \A i, j \in DOMAIN msgs : msgs[i] = msgs[j] => i = j
  PROVE  /\ TotalValue(Own(s, msgs)) \in Nat /\ ValueOf(Transit(s, msgs)) \in Nat
         /\ IsFiniteSet(Transit(s, msgs))
         /\ TotalValue(msgs) = TotalValue(Own(s, msgs)) + ValueOf(Transit(s, msgs))
         /\ IsFiniteSet(Range(msgs)) /\ ValueOf(Range(msgs)) = TotalValue(msgs)
  <1> DEFINE D == DOMAIN msgs
             v == Values(msgs)
             here == {i \in D : msgs[i].to = s}
             away == D \ here
             out == Transit(s, msgs)
  <1>1. IsFiniteSet(D) /\ v \in [D -> Nat]
    <2>1. D = 1..Len(msgs) /\ Len(msgs) \in Nat /\ \A i \in 1..Len(msgs) : msgs[i] \in M
      BY LenProperties, ElementOfSeq
    <2>2. IsFiniteSet(1..Len(msgs))
      <3>1. 1 \in Int /\ Len(msgs) \in Int
        BY <2>1
      <3>2. QED
        BY <3>1, FS_Interval
    <2>3. QED
      BY <2>1, <2>2 DEF Values
  <1>2. here \in SUBSET D /\ away \in SUBSET D /\ D \in SUBSET D
    OBVIOUS
  <1>3. out = Picked(msgs, away) /\ Range(msgs) = Picked(msgs, D)
    BY DEF Range, Transit, Picked
  <1> HIDE DEF out
  <1>4. TotalValue(msgs) = SumFunction(v)
    BY DEF TotalValue, Total, Values
  <1>5. TotalValue(Own(s, msgs)) = SumFunctionOnSet(v, here)
    BY OwnValue
  <1>6. ValueOf(out) \in Nat /\ IsFiniteSet(out) /\ ValueOf(out) = SumFunctionOnSet(v, away)
    BY <1>2, <1>3, ValueDistinct
  <1>7. IsFiniteSet(Range(msgs)) /\ ValueOf(Range(msgs)) = SumFunctionOnSet(v, D)
    BY <1>2, <1>3, ValueDistinct
  <1> HIDE DEF v, D, here
  <1>8. /\ SumFunctionOnSet(v, here) \in Nat /\ SumFunctionOnSet(v, D) \in Nat
        /\ SumFunctionOnSet(v, D \ here) = SumFunctionOnSet(v, D) - SumFunctionOnSet(v, here)
    <2>1. \A i \in D : v[i] \in Nat
      BY <1>1
    <2>2. SumFunctionOnSet(v, here) \in Nat /\ SumFunctionOnSet(v, D) \in Nat
      BY <1>1, <1>2, <2>1, SumNat
    <2>3. QED
      BY <1>1, <1>2, <2>1, <2>2, SumPart
  <1>9. SumFunction(v) = SumFunctionOnSet(v, D)
    BY <1>1, LedgerTotal
  <1>10. QED
    BY <1>4, <1>5, <1>6, <1>7, <1>8, <1>9 DEF out

\* The values of two sets of messages that share none add up.
LEMMA ValueUnion ==
  ASSUME NEW S, IsFiniteSet(S), NEW T, IsFiniteSet(T), S \cap T = {},
         \A m \in S \union T : m.value \in Nat
  PROVE  /\ ValueOf(S) \in Nat /\ ValueOf(T) \in Nat
         /\ ValueOf(S \union T) = ValueOf(S) + ValueOf(T)
  <1> DEFINE U == S \union T
             f == [m \in U |-> m.value]
             g == [m \in S |-> m.value]
             h == [m \in T |-> m.value]
  <1>1. f \in [U -> Nat] /\ g \in [S -> Nat] /\ h \in [T -> Nat]
    OBVIOUS
  <1>2. (\A m \in S : f[m] = g[m]) /\ (\A m \in T : f[m] = h[m])
    OBVIOUS
  <1>3. ValueOf(U) = SumFunction(f) /\ ValueOf(S) = SumFunction(g) /\ ValueOf(T) = SumFunction(h)
    BY DEF ValueOf, Total
  <1> HIDE DEF f, g, h
  <1>4. IsFiniteSet(U)
    BY FS_Union
  <1>5. /\ SumFunction(f) = SumFunctionOnSet(f, U)
        /\ SumFunction(g) = SumFunctionOnSet(g, S) /\ SumFunction(g) \in Nat
        /\ SumFunction(h) = SumFunctionOnSet(h, T) /\ SumFunction(h) \in Nat
    BY <1>1, <1>4, LedgerTotal
  <1>6. SumFunctionOnSet(f, S) = SumFunctionOnSet(g, S)
    BY <1>2, SumSame
  <1>7. SumFunctionOnSet(f, T) = SumFunctionOnSet(h, T)
    BY <1>2, SumSame
  <1>8. \A m \in S \union T : f[m] \in Int
    BY <1>1
  <1>9. SumFunctionOnSet(f, S \union T) = SumFunctionOnSet(f, S) + SumFunctionOnSet(f, T)
    BY <1>8, SumUnion
  <1>10. QED
    BY <1>3, <1>5, <1>6, <1>7, <1>9

\* A message taken out of a set takes its value with it.
LEMMA ValueWithout ==
  ASSUME NEW S, IsFiniteSet(S), \A m \in S : m.value \in Nat, NEW x \in S
  PROVE  /\ ValueOf(S) \in Nat /\ ValueOf(S \ {x}) \in Nat
         /\ ValueOf(S) = ValueOf(S \ {x}) + x.value
  <1> DEFINE f == [m \in {x} |-> m.value]
  <1>1. ValueOf({x}) = SumFunction(f) /\ f \in [{x} -> Nat] /\ f[x] = x.value
    BY DEF ValueOf, Total
  <1>2. IsFiniteSet({x}) /\ IsFiniteSet({}) /\ x \notin {} /\ {} \cup {x} = {x}
    BY FS_EmptySet, FS_Singleton
  <1> HIDE DEF f
  <1>3. SumFunctionOnSet(f, {} \cup {x}) = f[x] + SumFunctionOnSet(f, {})
    <2>1. \A m \in {} \cup {x} : f[m] \in Int
      BY <1>1
    <2>2. QED
      BY <1>2, <2>1, SumAdd
  <1>4. SumFunctionOnSet(f, {}) = 0
    BY <1>2, SumRecursion
  <1>5. SumFunction(f) = SumFunctionOnSet(f, {x})
    BY <1>1, <1>2, LedgerTotal
  <1>6. x.value \in Nat
    OBVIOUS
  <1>7. ValueOf({x}) = x.value
    BY <1>1, <1>2, <1>3, <1>4, <1>5, <1>6
  <1>8. IsFiniteSet(S \ {x}) /\ (S \ {x}) \cap {x} = {} /\ (S \ {x}) \union {x} = S
    BY FS_Subset
  <1>9. /\ ValueOf(S \ {x}) \in Nat
        /\ ValueOf((S \ {x}) \union {x}) = ValueOf(S \ {x}) + ValueOf({x})
    BY <1>2, <1>8, ValueUnion
  <1>10. ValueOf(S) = ValueOf(S \ {x}) + ValueOf({x})
    BY <1>8, <1>9
  <1> DEFINE a == ValueOf(S)
             b == ValueOf(S \ {x})
             v == x.value
  <1>11. a = b + v /\ b \in Nat /\ v \in Nat
    BY <1>6, <1>7, <1>9, <1>10
  <1> HIDE DEF a, b, v
  <1>12. a \in Nat
    BY <1>11
  <1>13. QED
    BY <1>11, <1>12 DEF a, b, v

\* The children of a network are finitely many, and their supplies natural numbers.
LEMMA SupplyTyped ==
  ASSUME SubnetsTyped, NEW s \in Networks
  PROVE  /\ IsFiniteSet(Children(s)) /\ \A c \in Children(s) : c \in NonRoot
         /\ \A c \in NonRoot : Supply(c) \in Nat
         /\ SupplyBelow(s) \in Nat
  <1> DEFINE f == [c \in Children(s) |-> Supply(c)]
  <1>1. IsFiniteSet(Children(s)) /\ \A c \in Children(s) : c \in NonRoot
    BY NetworksAssumption, FS_Subset DEF Children, NonRoot
  <1>2. \A c \in NonRoot : Supply(c) \in Nat
    <2>1. ASSUME NEW c \in NonRoot, Registered(c) PROVE subnets[c].circ_supply \in Nat
      <3>1. subnets[c] \in Subnet
        BY <2>1 DEF SubnetsTyped, Registered, NotRegistered
      <3>2. QED
        BY <3>1 DEF Subnet
    <2>2. QED
      BY <2>1 DEF Supply
  <1>3. f \in [Children(s) -> Nat] /\ SupplyBelow(s) = SumFunction(f)
    BY <1>1, <1>2 DEF SupplyBelow, Total
  <1> HIDE DEF f
  <1>4. SupplyBelow(s) \in Nat
    BY <1>1, <1>3, LedgerTotal
  <1>5. QED
    BY <1>1, <1>2, <1>4

\* When the supply of one child changes, the supply below its parent changes by as much.
LEMMA SupplyMoves ==
  ASSUME SubnetsTyped, SubnetsTyped', NEW s \in Networks, NEW c \in Children(s),
         \A d \in Children(s) : d # c => Supply(d)' = Supply(d)
  PROVE  SupplyBelow(s)' = SupplyBelow(s) - Supply(c) + Supply(c)'
  <1> DEFINE f == [d \in Children(s) |-> Supply(d)]
             g == [d \in Children(s) |-> Supply(d)']
  <1>1. IsFiniteSet(Children(s)) /\ \A d \in Children(s) : Supply(d) \in Int
    BY SupplyTyped
  <1>2. \A d \in Children(s) : Supply(d)' \in Int
    <2>1. ASSUME NEW d \in NonRoot, Registered(d)' PROVE subnets'[d].circ_supply \in Nat
      <3>1. subnets'[d] \in Subnet
        BY <2>1 DEF SubnetsTyped, Registered, NotRegistered
      <3>2. QED
        BY <3>1 DEF Subnet
    <2>2. QED
      BY <2>1 DEF Supply, Children
  <1>3. /\ f \in [Children(s) -> Int] /\ g \in [Children(s) -> Int]
        /\ f[c] = Supply(c) /\ g[c] = Supply(c)'
        /\ \A d \in Children(s) : d # c => g[d] = f[d]
    BY <1>1, <1>2
  <1>4. SupplyBelow(s) = SumFunction(f) /\ SupplyBelow(s)' = SumFunction(g)
    BY DEF SupplyBelow, Total, Children
  <1> HIDE DEF f, g
  <1>5. SumFunction(g) = SumFunction(f) - f[c] + g[c]
    BY <1>1, <1>3, LedgerUpdate
  <1>6. QED
    BY <1>3, <1>4, <1>5

\* When none changes, it stays.
LEMMA SupplyStays ==
  ASSUME NEW s, \A d \in Children(s) : Supply(d)' = Supply(d)
  PROVE  SupplyBelow(s)' = SupplyBelow(s)
  BY DEF SupplyBelow, Total, Children

\* The messages a chain has put into its checkpoint of epoch k.
Within(s, k) == Range(bottomup_checkpoints[s][k].msgs)

\* A chain gives out each nonce once.
Numbered ==
  \A s \in Networks : \A k \in DOMAIN bottomup_checkpoints[s] :
    /\ k \in Int /\ \A x \in Within(s, k) : x.nonce < bottomup_nonce[s]
    /\ \A l \in DOMAIN bottomup_checkpoints[s] :
         \A x \in Within(s, k), y \in Within(s, l) : x.nonce = y.nonce => k = l

\* No checkpoint that c still has to commit carries a message with the nonce of m, and
\* none will.
Fresh(c, m) ==
  /\ m.nonce < bottomup_nonce[c]
  /\ \A k \in DOMAIN bottomup_checkpoints[c] :
       k > subnets[c].prev_epoch => \A x \in Within(c, k) : x.nonce # m.nonce

\* Whether a message came to the parent of c from c, or from above.
CameFrom(c, m) == Above(c, m.from) /\ GoesUp(m.from, m.to, c)
CameDown(s, m) == \A c \in Children(s) : ~CameFrom(c, m)

\* A postbox keeps each message once, a child that sent one does not send it again, and
\* the parent's queue does not carry it again.
BoxAt(s) ==
  /\ IsFiniteSet(postbox[s])
  /\ \A i, j \in postbox[s] : i.msg = j.msg => i = j
  /\ \A i \in postbox[s], c \in Children(s) :
       Registered(c) /\ CameFrom(c, i.msg) => Fresh(c, i.msg)
  /\ \A i \in postbox[s] :
       Registered(s) /\ CameDown(s, i.msg) => i.msg.nonce < carried[s]
BoxInv == \A s \in Networks : BoxAt(s)

\* A queued message is numbered by its place.
QueueNumbered ==
  \A c \in NonRoot : Registered(c) =>
    \A n \in DOMAIN subnets[c].top_down_msgs : subnets[c].top_down_msgs[n].nonce = n

\* What a step may add to checkpoints: messages with a new nonce.
OnlyNewNonces ==
  \A s \in Networks :
    /\ bottomup_nonce'[s] >= bottomup_nonce[s]
    /\ \A k \in DOMAIN bottomup_checkpoints'[s] : \A x \in Range(bottomup_checkpoints'[s][k].msgs) :
         \/ k \in DOMAIN bottomup_checkpoints[s] /\ x \in Within(s, k)
         \/ x.nonce = bottomup_nonce[s]

\* A message arriving at the root turns round there.
LEMMA RootTurns ==
  ASSUME NEW s \in ID, IsRoot(s), NEW x \in ID, NEW y \in ID
  PROVE  ~GoesUp(x, y, s)
  <1> SUFFICES ASSUME GoesUp(x, y, s) PROVE FALSE
    OBVIOUS
  <1>1. Depth(s) = 0
    BY ParentIs DEF ID
  <1>2. s.root = RootId /\ x.root = RootId /\ y.root = RootId
    BY IDParts DEF ID
  <1>3. CommonParent(s, y) = CommonParent(x, y)
    BY DEF GoesUp, ApplyType, TopDown, BottomUp
  <1>4. CommonParent(s, y).index = CommonChildren(s, y)
        /\ CommonParent(x, y).index = CommonChildren(x, y)
    BY <1>2 DEF CommonParent
  <1>5. CommonChildren(s, y) \in Nat /\ CommonChildren(s, y) <= Depth(s)
    BY CommonLevels DEF ID
  <1>6. CommonChildren(y, x) = 0
    BY <1>1, <1>3, <1>4, <1>5, CommonSymmetric DEF ID
  <1>7. CommonParent(y, x).id = Prefix(y, 0)
    BY <1>2, <1>6 DEF CommonParent
  <1>8. Prefix(y, 0) \in ID /\ Depth(Prefix(y, 0)) = 0
    <2>1. 0 \in 0..Depth(y)
      BY IDParts DEF ID
    <2>2. QED
      BY <2>1, PrefixFields DEF ID
  <1>9. Agree(Prefix(y, 0), s, 0)
    BY DEF Agree
  <1>10. Prefix(y, 0) = s
    BY <1>1, <1>8, <1>9, SameID DEF ID
  <1>11. QED
    BY <1>7, <1>10 DEF GoesUp

\* There is one root.
LEMMA OneRoot ==
  ASSUME NEW s \in Networks, IsRoot(s), NEW p \in Networks, IsRoot(p)
  PROVE  s = p
  <1>1. s \in ID /\ p \in ID
    BY NetworksAreIDs
  <1>2. Depth(s) = 0 /\ Depth(p) = 0
    BY <1>1, ParentIs DEF ID
  <1>3. Agree(s, p, 0)
    BY DEF Agree
  <1>4. QED
    BY <1>1, <1>2, <1>3, SameID DEF ID

\* Only one child of a network can be above a network.
LEMMA OneChildAbove ==
  ASSUME NEW s \in Networks, NEW c \in Children(s), NEW d \in Children(s), NEW x \in ID,
         Above(c, x), Above(d, x)
  PROVE  c = d
  <1>1. c \in ID /\ d \in ID /\ c \in NonRoot /\ d \in NonRoot /\ Parent(c) = Parent(d)
    BY NetworksAreIDs DEF Children
  <1>2. /\ Depth(c) \in Nat /\ Depth(d) \in Nat /\ Depth(c) # 0 /\ Depth(d) # 0
        /\ Depth(Parent(c)) = Depth(c) - 1 /\ Depth(Parent(d)) = Depth(d) - 1
    BY <1>1, IDParts, ParentIs DEF ID, NonRoot
  <1>3. Depth(c) = Depth(d)
    BY <1>1, <1>2
  <1>4. Agree(c, x, Depth(c)) /\ Agree(d, x, Depth(c))
    BY <1>1, <1>3, AboveIs DEF ID
  <1>5. Agree(c, d, Depth(c))
    BY <1>4 DEF Agree
  <1>6. QED
    BY <1>1, <1>3, <1>5, SameID DEF ID

\* The epoch of a checkpoint is a number.
LEMMA WindowType ==
  ASSUME NEW e \in Nat
  PROVE  WindowEpoch(e) \in Int
  <1> DEFINE q == e \div CheckPeriod + 1
  <1>1. CheckPeriod \in Nat /\ CheckPeriod > 0
    BY PeriodAssumption
  <1>2. q \in Int
    BY <1>1
  <1> HIDE DEF q
  <1>3. CheckPeriod * q \in Int
    BY <1>1, <1>2
  <1>4. QED
    BY <1>3 DEF q, WindowEpoch

\* What is in a sequence with one more element.
LEMMA AppendRange ==
  ASSUME NEW M, NEW msgs \in Seq(M), NEW x \in M
  PROVE  Range(Append(msgs, x)) = Range(msgs) \union {x}
  <1> DEFINE n == Len(msgs)
             new == Append(msgs, x)
  <1>1. n \in Nat /\ DOMAIN msgs = 1..n
    BY LenProperties
  <1>2. new \in Seq(M) /\ Len(new) = n + 1 /\ new[n + 1] = x
        /\ \A i \in 1..n : new[i] = msgs[i]
    BY AppendProperties
  <1>3. DOMAIN new = 1..n + 1
    BY <1>2, LenProperties
  <1> HIDE DEF new, n
  <1>4. 1..n + 1 = (1..n) \union {n + 1}
    BY <1>1
  <1>5. Range(new) = Range(msgs) \union {x}
    BY <1>1, <1>2, <1>3, <1>4 DEF Range
  <1>6. QED
    BY <1>5 DEF new

\* A message put into the current checkpoint takes the next nonce.
LEMMA AppendNumbered ==
  ASSUME CountersTyped, BottomUpTyped, Numbered, NEW s \in Networks, NEW m \in Message,
         NEW fee \in Nat, CommitBottomupMsg(s, m, fee)
  PROVE  Numbered' /\ OnlyNewNonces
  <1> DEFINE w == WindowEpoch(epoch[s])
             n == bottomup_nonce[s]
             x == [m EXCEPT !.nonce = n]
             log == bottomup_checkpoints[s]
             new == bottomup_checkpoints'[s]
  <1>1. /\ x \in Message
        /\ \A t \in Networks : t # s => bottomup_checkpoints'[t] = bottomup_checkpoints[t]
        /\ DOMAIN new = DOMAIN log \union {w}
        /\ new[w].msgs = Append(CheckpointAt(s, w).msgs, x)
        /\ \A k \in DOMAIN log : k # w => new[k] = log[k]
    BY CommitBottomupIs
  <1>2. x.nonce = n
    BY DEF Message
  <1>3. /\ \A t \in Networks : bottomup_nonce[t] \in Nat
        /\ bottomup_nonce'[s] = n + 1
        /\ \A t \in Networks : t # s => bottomup_nonce'[t] = bottomup_nonce[t]
    BY DEF CommitBottomupMsg, BottomUpTyped
  <1>4. w \in Int
    BY WindowType DEF CountersTyped
  <1> HIDE DEF x
  <1>5. Range(new[w].msgs) = Range(CheckpointAt(s, w).msgs) \union {x}
    <2>1. CheckpointAt(s, w).msgs \in Seq(Message)
      BY CheckpointTyped DEF Checkpoint
    <2>2. QED
      BY <1>1, <2>1, AppendRange
  <1> HIDE DEF w
  <1>6. \A y \in Range(CheckpointAt(s, w).msgs) : w \in DOMAIN log /\ y \in Within(s, w)
    BY DEF CheckpointAt, EmptyCheckpoint, Range, Within
  <1>7. \A k \in DOMAIN new : \A y \in Range(new[k].msgs) :
          (k \in DOMAIN log /\ y \in Within(s, k)) \/ (k = w /\ y = x)
    BY <1>1, <1>5, <1>6 DEF Within
  <1> HIDE DEF log, new, n
  <1>8. OnlyNewNonces
    <2>1. ASSUME NEW t \in Networks, t # s
          PROVE  /\ bottomup_nonce'[t] >= bottomup_nonce[t]
                 /\ \A k \in DOMAIN bottomup_checkpoints'[t] :
                      \A y \in Range(bottomup_checkpoints'[t][k].msgs) :
                        k \in DOMAIN bottomup_checkpoints[t] /\ y \in Within(t, k)
      BY <1>1, <1>3, <2>1 DEF Within
    <2>2. bottomup_nonce'[s] >= bottomup_nonce[s]
      BY <1>3 DEF n
    <2>3. \A k \in DOMAIN new : \A y \in Range(new[k].msgs) :
            (k \in DOMAIN log /\ y \in Within(s, k)) \/ y.nonce = n
      BY <1>2, <1>7
    <2>4. QED
      BY <2>1, <2>2, <2>3 DEF OnlyNewNonces, new, log, n
  <1>9. Numbered'
    <2> SUFFICES ASSUME NEW t \in Networks, NEW k \in DOMAIN bottomup_checkpoints'[t],
                        NEW y \in Within(t, k)',
                        NEW l \in DOMAIN bottomup_checkpoints'[t], NEW z \in Within(t, l)'
                 PROVE  /\ y.nonce < bottomup_nonce'[t]
                        /\ y.nonce = z.nonce => k = l
      <3>1. \A t \in Networks : \A k \in DOMAIN bottomup_checkpoints'[t] : k \in Int
        BY <1>1, <1>4 DEF Numbered, log, new
      <3>2. QED
        BY <3>1 DEF Numbered
    <2>1. CASE t # s
      <3>1. /\ bottomup_checkpoints'[t] = bottomup_checkpoints[t]
            /\ bottomup_nonce'[t] = bottomup_nonce[t]
        BY <1>1, <1>3, <2>1
      <3>2. /\ k \in DOMAIN bottomup_checkpoints[t] /\ y \in Within(t, k)
            /\ l \in DOMAIN bottomup_checkpoints[t] /\ z \in Within(t, l)
        BY <3>1 DEF Within
      <3>3. y.nonce < bottomup_nonce[t] /\ (y.nonce = z.nonce => k = l)
        BY <1>1, <3>2 DEF Numbered
      <3>4. QED
        BY <3>1, <3>3
    <2>2. CASE t = s
      <3>1. /\ (k \in DOMAIN log /\ y \in Within(s, k)) \/ (k = w /\ y = x)
            /\ (l \in DOMAIN log /\ z \in Within(s, l)) \/ (l = w /\ z = x)
        BY <1>7, <2>2 DEF Within, new
      <3>2. /\ k \in DOMAIN log /\ y \in Within(s, k) => y.nonce < n
            /\ l \in DOMAIN log /\ z \in Within(s, l) => z.nonce < n
        BY DEF Numbered, log, n
      <3>3. /\ k \in DOMAIN log /\ y \in Within(s, k) => y.nonce \in Nat
            /\ n \in Nat /\ bottomup_nonce'[t] = n + 1
        <4>1. \A j \in DOMAIN log : \A u \in Within(s, j) : u \in Message
          <5>1. \A j \in DOMAIN log : log[j].msgs \in Seq(Message)
            BY DEF BottomUpTyped, WindowLog, Checkpoint, log
          <5>2. QED
            BY <5>1, ElementOfSeq, LenProperties DEF Within, Range, log
        <4>2. QED
          BY <1>3, <2>2, <4>1 DEF n, Message
      <3>4. /\ k \in DOMAIN log /\ y \in Within(s, k) /\ l \in DOMAIN log /\ z \in Within(s, l)
               => (y.nonce = z.nonce => k = l)
        BY DEF Numbered, log
      <3>5. y.nonce < n + 1
        BY <1>2, <3>1, <3>2, <3>3
      <3>6. y.nonce = z.nonce => k = l
        BY <1>2, <3>1, <3>2, <3>3, <3>4
      <3>7. QED
        BY <3>3, <3>5, <3>6
    <2>3. QED
      BY <2>1, <2>2
  <1>10. QED
    BY <1>8, <1>9

\* A checkpoint of a child that is listed in one of the parent's adds no message.
LEMMA ListedNumbered ==
  ASSUME TypeInv, Numbered, NEW c \in NonRoot, CommitChildCheck(c)
  PROVE  Numbered' /\ OnlyNewNonces
  <1> DEFINE p == Parent(c)
             k == subnets[c].prev_epoch + CheckPeriod
             ch == CheckpointAt(c, k)
             ck == AddChildCheck(GetWindowCheckpoint(p), c, k)
             w == WindowEpoch(epoch[p])
             log == bottomup_checkpoints'
             was == CheckpointAt(p, w)
  <1>1. /\ p \in Networks /\ ck \in Checkpoint /\ ck.msgs = was.msgs
        /\ log = FlushCheckpoint(p, ck) /\ UNCHANGED bottomup_nonce
    BY ChildCheckIs DEF GetWindowCheckpoint
  <1>2. w \in Int
    BY <1>1, WindowType DEF TypeInv, CountersTyped
  <1> HIDE DEF ck
  <1>3. /\ \A t \in Networks : t # p => log[t] = bottomup_checkpoints[t]
        /\ DOMAIN log[p] = DOMAIN bottomup_checkpoints[p] \union {w}
        /\ log[p][w] = ck
        /\ \A j \in DOMAIN bottomup_checkpoints[p] : j # w => log[p][j] = bottomup_checkpoints[p][j]
    BY <1>1, FlushIs DEF TypeInv
  <1> HIDE DEF w
  <1>4. \A y \in Range(was.msgs) : w \in DOMAIN bottomup_checkpoints[p] /\ y \in Within(p, w)
    BY DEF CheckpointAt, EmptyCheckpoint, Range, Within
  <1>5. \A t \in Networks : \A j \in DOMAIN log[t] : \A y \in Range(log[t][j].msgs) :
          j \in DOMAIN bottomup_checkpoints[t] /\ y \in Within(t, j)
    BY <1>1, <1>3, <1>4 DEF Within
  <1>6. \A t \in Networks : \A j \in DOMAIN log[t] : j \in Int
    BY <1>2, <1>3 DEF Numbered
  <1>7. \A t \in Networks : bottomup_nonce'[t] >= bottomup_nonce[t]
    BY <1>1 DEF TypeInv, BottomUpTyped
  <1> HIDE DEF log
  <1>8. OnlyNewNonces
    BY <1>5, <1>7 DEF OnlyNewNonces, log
  <1>9. ASSUME NEW t \in Networks, NEW i \in DOMAIN log[t], NEW y \in Range(log[t][i].msgs),
               NEW j \in DOMAIN log[t], NEW z \in Range(log[t][j].msgs)
        PROVE  y.nonce < bottomup_nonce[t] /\ (y.nonce = z.nonce => i = j)
    BY <1>5 DEF Numbered
  <1>10. Numbered'
    BY <1>1, <1>6, <1>9 DEF Numbered, Within, log
  <1>11. QED
    BY <1>8, <1>10

\* A step that writes no checkpoint.
LEMMA NumberedKept ==
  ASSUME BottomUpTyped, Numbered, UNCHANGED bottomUp
  PROVE  Numbered' /\ OnlyNewNonces
  BY DEF bottomUp, BottomUpTyped, Numbered, Within, OnlyNewNonces

\* What leaves through commit_cross_message takes the next nonce.
LEMMA LeavingNumbered ==
  ASSUME TypeInv, Numbered, NEW s \in Networks, NEW m \in Message, NEW fee \in Nat,
         CommitCrossMessage(s, m, fee)
  PROVE  Numbered' /\ OnlyNewNonces
  <1>1. CASE CommitUp(s, m, fee)
    BY <1>1, AppendNumbered DEF CommitUp, TypeInv
  <1>2. CASE CommitTurn(s, m) \/ CommitDown(s, m)
    BY <1>2, NumberedKept DEF CommitTurn, CommitDown, TypeInv
  <1>3. QED
    BY <1>1, <1>2 DEF CommitCrossMessage

\* In every step.
LEMMA NextNumbered ==
  ASSUME TypeInv, Numbered, [Next]_vars
  PROVE  Numbered' /\ OnlyNewNonces
  <1>0. CrossMsgFee \in Nat
    BY AmountsAssumption
  <1>1. CASE FundAny
    BY <1>1, NumberedKept DEF FundAny, Fund, TypeInv
  <1>2. CASE ReleaseAny
    <2>1. PICK s \in Releasing, a \in Senders, v \in Amounts : Release(s, a, v)
      BY <1>2 DEF ReleaseAny
    <2> DEFINE m == NewReleaseMsg(s, a, CollectCrossFee(v))
    <2>2. s \in NonRoot /\ s \in Networks
      BY RoutesAssumption, NetworksAreIDs
    <2>3. m \in Message /\ CommitBottomupMsg(s, m, CrossMsgFee)
      BY <2>1, <2>2, SentMessages DEF Release
    <2> HIDE DEF m
    <2>4. QED
      BY <1>0, <2>2, <2>3, AppendNumbered DEF TypeInv
  <1>3. CASE SendCrossAny
    <2>1. PICK r \in SendRoutes, a \in Senders, v \in Amounts, p \in Payloads :
            SendCross(r[1], r[2], a, v, p)
      BY <1>3 DEF SendCrossAny
    <2> DEFINE s == r[1]
               m == Msg(s, r[2], a, CollectCrossFee(v), p)
    <2>2. s \in Networks /\ r[2] \in Destinations
      BY RoutesAssumption DEF Destinations
    <2>3. m \in Message
      BY <2>1, <2>2, SentMessages DEF SendCross
    <2>4. CommitCrossMessage(s, m, CrossMsgFee)
      BY <2>1 DEF SendCross
    <2> HIDE DEF m, s
    <2>5. QED
      BY <1>0, <2>2, <2>3, <2>4, LeavingNumbered
  <1>4. CASE \E s \in Networks : PropagateAny(s)
    <2>1. PICK s \in Networks : PropagateAny(s)
      BY <1>4
    <2>2. PICK i \in postbox[s], o \in Accounts : Propagate(s, i, o)
      BY <2>1 DEF PropagateAny
    <2>3. i.msg \in Message
      BY DEF TypeInv, PostboxTyped, Item
    <2>4. QED
      BY <1>0, <2>2, <2>3, LeavingNumbered DEF Propagate
  <1>5. CASE \E c \in NonRoot : CommitChildCheck(c)
    BY <1>5, ListedNumbered
  <1>6. CASE \/ \E s \in Networks : WhitelistAny(s) \/ Tick(s)
             \/ \E c \in NonRoot : ExecuteTopdownAny(c) \/ SetMembership(c)
             \/ \E c \in Killable : Kill(c)
             \/ UNCHANGED vars
    <2>1. UNCHANGED bottomUp
      BY <1>6 DEF WhitelistAny, WhitelistPropagator, Tick, ExecuteTopdownAny, ExecuteTopdown,
                  SetMembership, Kill, vars
    <2>2. QED
      BY <2>1, NumberedKept DEF TypeInv
  <1>7. QED
    BY <1>1, <1>2, <1>3, <1>4, <1>5, <1>6 DEF Next

\* What is new to a child stays new to it.
LEMMA FreshKept ==
  ASSUME BottomUpTyped, BottomUpTyped', OnlyNewNonces, NEW c \in Networks, NEW m \in Message,
         Fresh(c, m), subnets'[c].prev_epoch = subnets[c].prev_epoch
  PROVE  Fresh(c, m)'
  <1>1. /\ bottomup_nonce[c] \in Nat /\ bottomup_nonce'[c] \in Nat /\ m.nonce \in Nat
        /\ bottomup_nonce'[c] >= bottomup_nonce[c] /\ m.nonce < bottomup_nonce[c]
    BY DEF BottomUpTyped, Message, OnlyNewNonces, Fresh
  <1>2. m.nonce < bottomup_nonce'[c] /\ m.nonce # bottomup_nonce[c]
    BY <1>1
  <1>3. ASSUME NEW k \in DOMAIN bottomup_checkpoints'[c], k > subnets'[c].prev_epoch,
               NEW x \in Range(bottomup_checkpoints'[c][k].msgs)
        PROVE  x.nonce # m.nonce
    BY <1>2, <1>3 DEF OnlyNewNonces, Fresh
  <1>4. QED
    BY <1>2, <1>3 DEF Fresh, Within

\* A postbox that gets no message, in a step that executes no checkpoint of a child.
LEMMA BoxKept ==
  ASSUME TypeInv, TypeInv', OnlyNewNonces, NEW s \in Networks, BoxAt(s),
         IsFiniteSet(postbox'[s]),
         \A i, j \in postbox'[s] : i.msg = j.msg => i = j,
         \A i \in postbox'[s] : \E j \in postbox[s] : i.msg = j.msg,
         \A c \in Children(s) :
           Registered(c)' => Registered(c) /\ subnets'[c].prev_epoch = subnets[c].prev_epoch,
         Registered(s)' => Registered(s) /\ carried'[s] >= carried[s]
  PROVE  BoxAt(s)'
  <1>1. ASSUME NEW i \in postbox'[s], NEW c \in Children(s), Registered(c)', CameFrom(c, i.msg)
        PROVE  Fresh(c, i.msg)'
    <2>1. PICK j \in postbox[s] : i.msg = j.msg
      OBVIOUS
    <2>2. Registered(c) /\ subnets'[c].prev_epoch = subnets[c].prev_epoch
      BY <1>1
    <2>3. c \in Networks /\ j.msg \in Message
      BY NetworksAreIDs DEF TypeInv, PostboxTyped, Item, Children
    <2>4. Fresh(c, j.msg)
      BY <1>1, <2>1, <2>2 DEF BoxAt
    <2> DEFINE m == j.msg
    <2>5. m \in Message /\ Fresh(c, m)
      BY <2>3, <2>4
    <2> HIDE DEF m
    <2>6. Fresh(c, m)'
      BY <2>2, <2>3, <2>5, FreshKept DEF TypeInv
    <2>7. QED
      BY <2>1, <2>6 DEF m, Fresh
  <1>2. ASSUME NEW i \in postbox'[s], Registered(s)', CameDown(s, i.msg)
        PROVE  i.msg.nonce < carried'[s]
    <2>1. PICK j \in postbox[s] : i.msg = j.msg
      OBVIOUS
    <2>2. Registered(s) /\ s \in NonRoot
      BY <1>2 DEF Registered
    <2>3. j.msg.nonce < carried[s]
      BY <1>2, <2>1, <2>2 DEF BoxAt
    <2>4. j.msg.nonce \in Nat /\ carried[s] \in Nat /\ carried'[s] \in Nat
          /\ carried'[s] >= carried[s]
      BY <1>2, <2>2 DEF TypeInv, PostboxTyped, SubnetsTyped, Item, Message
    <2> DEFINE n == j.msg.nonce
    <2>5. n < carried'[s]
      <3> HIDE DEF n
      <3>1. QED
        BY <2>3, <2>4 DEF n
    <2>6. QED
      BY <2>1, <2>5
  <1>3. QED
    BY <1>1, <1>2 DEF BoxAt, Children, CameFrom, CameDown

\* In a checkpoint whose nonces grow, no two messages are the same.
LEMMA SortedDistinct ==
  ASSUME NEW ch \in Checkpoint, EnsureCrossMsgsSorted(ch)
  PROVE  \A i, j \in DOMAIN ch.msgs : ch.msgs[i] = ch.msgs[j] => i = j
  <1> DEFINE L == Len(ch.msgs)
             x(i) == ch.msgs[i].nonce
  <1>1. ch.msgs \in Seq(Message)
    BY DEF Checkpoint
  <1>2. L \in Nat /\ DOMAIN ch.msgs = 1..L
    BY <1>1, LenProperties
  <1>3. \A i \in 1..L : x(i) \in Nat
    <2>1. \A i \in 1..L : ch.msgs[i] \in Message
      BY <1>1, ElementOfSeq
    <2>2. QED
      BY <2>1 DEF Message
  <1>4. \A i \in 2..L : x(i - 1) < x(i)
    BY DEF EnsureCrossMsgsSorted
  <1> HIDE DEF x, L
  <1> DEFINE Q == {n \in Nat : n <= L => \A i \in 1..n : i < n => x(i) < x(n)}
  <1>5. 0 \in Q
    OBVIOUS
  <1>6. ASSUME NEW n \in Nat, n \in Q PROVE n + 1 \in Q
    <2> SUFFICES ASSUME n + 1 <= L, NEW i \in 1..n + 1, i < n + 1 PROVE x(i) < x(n + 1)
      OBVIOUS
    <2>1. i \in 1..n /\ n + 1 \in 2..L /\ n + 1 - 1 = n /\ n \in 1..L /\ i \in 1..L
      BY <1>2
    <2>2. x(n) < x(n + 1)
      BY <1>4, <2>1
    <2>3. i < n => x(i) < x(n)
      BY <1>6, <2>1
    <2>4. x(i) \in Nat /\ x(n) \in Nat /\ x(n + 1) \in Nat
      BY <1>3, <2>1
    <2>5. CASE i = n
      BY <2>2, <2>5
    <2>6. CASE i < n
      BY <2>2, <2>3, <2>4, <2>6
    <2>7. QED
      BY <2>1, <2>5, <2>6
  <1>7. \A n \in Nat : n \in Q
    <2> HIDE DEF Q
    <2>1. QED
      BY <1>5, <1>6, NatSetInduction
  <1>8. \A i, j \in 1..L : i < j => x(i) < x(j)
    BY <1>2, <1>7
  <1>9. \A i, j \in 1..L : i # j => x(i) # x(j)
    <2> SUFFICES ASSUME NEW i \in 1..L, NEW j \in 1..L, i # j PROVE x(i) # x(j)
      OBVIOUS
    <2>1. i < j \/ j < i
      BY <1>2
    <2>2. QED
      BY <1>3, <1>8, <2>1
  <1>10. \A i, j \in DOMAIN ch.msgs : ch.msgs[i] = ch.msgs[j] => x(i) = x(j)
    BY DEF x
  <1>11. QED
    BY <1>2, <1>9, <1>10

\* The set of messages in a finite postbox.
LEMMA BoxedFinite ==
  ASSUME NEW s \in Networks, IsFiniteSet(postbox[s]), TypeInv
  PROVE  IsFiniteSet(Boxed(s)) /\ \A m \in Boxed(s) : m \in Message /\ m.value \in Nat
  <1> DEFINE key == [i \in postbox[s] |-> i.msg]
  <1>1. key \in Surjection(postbox[s], Boxed(s))
    BY DEF Surjection, Boxed
  <1>2. \A m \in Boxed(s) : m \in Message
    BY DEF Boxed, TypeInv, PostboxTyped, Item
  <1> HIDE DEF key
  <1>3. IsFiniteSet(Boxed(s))
    BY <1>1, FS_Surjection
  <1>4. QED
    BY <1>2, <1>3 DEF Message

\* What a gateway does with a child's checkpoint: the messages for its own network are
\* paid out and the others, none of which has been there before, go to the postbox.
LEMMA ChildTaken ==
  ASSUME TypeInv, RouteInv, BoxInv, NEW c \in NonRoot, CommitChildCheck(c),
         NEW p, p = Parent(c),
         NEW k, k = subnets[c].prev_epoch + CheckPeriod,
         NEW ch, ch = CheckpointAt(c, k),
         NEW out, out = Transit(p, ch.msgs)
  PROVE  /\ p \in Networks /\ c \in Children(p)
         /\ postbox' = [postbox EXCEPT ![p] = @ \union InTransit(p, ch.msgs)]
         /\ IsFiniteSet(out) /\ Boxed(p) \cap out = {}
         /\ \A x \in out : /\ x \in Message /\ CameFrom(c, x)
                           /\ k \in DOMAIN bottomup_checkpoints[c] /\ x \in Within(c, k)
         /\ TotalValue(Own(p, ch.msgs)) \in Nat /\ ValueOf(out) \in Nat
         /\ TotalValue(ch.msgs) = TotalValue(Own(p, ch.msgs)) + ValueOf(out)
         /\ k > subnets[c].prev_epoch
  <1>1. /\ p \in Networks /\ c \in Networks /\ Registered(c) /\ ch \in Checkpoint
        /\ Apply(p, ch.msgs, ch.fee)
    BY ChildCheckIs
  <1>2. c \in Children(p)
    BY DEF Children
  <1>3. postbox' = [postbox EXCEPT ![p] = @ \union InTransit(p, ch.msgs)]
    BY <1>1 DEF Apply
  <1>4. ch.msgs \in Seq(Message) /\ \A m \in Message : m.value \in Nat
    BY <1>1 DEF Checkpoint, Message
  <1>5. EnsureCrossMsgsSorted(ch)
    BY DEF CommitChildCheck
  <1>6. \A i, j \in DOMAIN ch.msgs : ch.msgs[i] = ch.msgs[j] => i = j
    BY <1>1, <1>5, SortedDistinct
  <1>7. /\ TotalValue(Own(p, ch.msgs)) \in Nat /\ ValueOf(out) \in Nat /\ IsFiniteSet(out)
        /\ TotalValue(ch.msgs) = TotalValue(Own(p, ch.msgs)) + ValueOf(out)
    BY <1>4, <1>6, ValueSplits
  <1>8. \A x \in out : k \in DOMAIN bottomup_checkpoints[c] /\ x \in Within(c, k)
    BY DEF CheckpointAt, EmptyCheckpoint, Range, Within, Transit
  <1>9. \A x \in out : x \in Message
    BY <1>4, LenProperties, ElementOfSeq DEF Range, Transit
  <1>10. \A x \in out : CameFrom(c, x)
    <2> TAKE x \in out
    <2>1. Climbing(c, x)
      BY <1>1, <1>8 DEF RouteInv, CheckpointsRouted, Within
    <2>2. c \in ID /\ x.from \in ID /\ x.to \in ID
      BY <1>1, <1>9, NetworksAreIDs DEF Message
    <2>3. QED
      BY <2>1, <2>2, ClimbsBelowTurn DEF CameFrom, Climbing, ID
  <1>11. k > subnets[c].prev_epoch
    <2>1. subnets[c] \in Subnet
      BY <1>1 DEF TypeInv, SubnetsTyped, Registered, NotRegistered
    <2>2. subnets[c].prev_epoch \in Nat
      BY <2>1 DEF Subnet
    <2>3. CheckPeriod \in Nat /\ CheckPeriod > 0
      BY PeriodAssumption
    <2>4. QED
      BY <2>2, <2>3
  <1>12. Boxed(p) \cap out = {}
    <2> SUFFICES ASSUME NEW i \in postbox[p], i.msg \in out PROVE FALSE
      BY DEF Boxed
    <2>1. Fresh(c, i.msg)
      BY <1>1, <1>2, <1>10 DEF BoxInv, BoxAt
    <2>2. QED
      BY <1>8, <1>11, <2>1 DEF Fresh
  <1>13. QED
    BY <1>1, <1>2, <1>3, <1>7, <1>8, <1>9, <1>10, <1>11, <1>12

\* The postbox of a gateway that executes a child's checkpoint.
LEMMA BoxTakesChild ==
  ASSUME TypeInv, TypeInv', RouteInv, Numbered, OnlyNewNonces, BoxInv,
         NEW c \in NonRoot, CommitChildCheck(c),
         NEW p, p = Parent(c),
         NEW k, k = subnets[c].prev_epoch + CheckPeriod,
         NEW ch, ch = CheckpointAt(c, k),
         NEW out, out = Transit(p, ch.msgs)
  PROVE  BoxAt(p)'
  <1> DEFINE new == InTransit(p, ch.msgs)
  <1>1. /\ p \in Networks /\ c \in Children(p)
        /\ postbox' = [postbox EXCEPT ![p] = @ \union new]
        /\ IsFiniteSet(out) /\ Boxed(p) \cap out = {}
        /\ \A x \in out : /\ x \in Message /\ CameFrom(c, x)
                          /\ k \in DOMAIN bottomup_checkpoints[c] /\ x \in Within(c, k)
        /\ k > subnets[c].prev_epoch
    BY ChildTaken
  <1>2. new = {PostBoxItem(m, {m.sender}) : m \in out}
    BY DEF InTransit, Transit
  <1>3. /\ subnets'[c].prev_epoch = k /\ Registered(c)
        /\ \A d \in NonRoot : d # c => subnets'[d] = subnets[d]
    <2>1. Registered(c) /\ subnets[c] \in Subnet
      BY DEF CommitChildCheck, TypeInv, SubnetsTyped, Registered, NotRegistered
    <2>2. subnets' = [subnets EXCEPT ![c] =
                        [subnets[c] EXCEPT !.circ_supply = ReleaseSupply(c, ch),
                                           !.prev_epoch = k,
                                           !.applied_bottomup_nonce = @ + Len(Own(p, ch.msgs))]]
      BY <2>1 DEF CommitChildCheck, TypeInv, SubnetsTyped
    <2>3. QED
      BY <2>1, <2>2 DEF TypeInv, SubnetsTyped, Subnet
  <1> HIDE DEF new
  <1>4. IsFiniteSet(new)
    <2> DEFINE key == [m \in out |-> PostBoxItem(m, {m.sender})]
    <2>1. key \in Surjection(out, new)
      BY <1>2 DEF Surjection
    <2> HIDE DEF key
    <2>2. QED
      BY <1>1, <2>1, FS_Surjection
  <1>5. \A i \in new : i.msg \in out /\ i = PostBoxItem(i.msg, {i.msg.sender})
    BY <1>2 DEF PostBoxItem
  <1>6. postbox'[p] = postbox[p] \union new /\ \A s \in Networks : s # p => postbox'[s] = postbox[s]
    BY <1>1 DEF TypeInv, PostboxTyped
  <1>7. /\ IsFiniteSet(postbox[p])
        /\ \A i, j \in postbox[p] : i.msg = j.msg => i = j
    BY <1>1 DEF BoxInv, BoxAt
  <1>8. IsFiniteSet(postbox'[p])
    <2>1. IsFiniteSet(postbox[p] \union new)
      BY <1>4, <1>7, FS_Union
    <2>2. QED
      BY <1>6, <2>1
  <1>9. \A i, j \in postbox'[p] : i.msg = j.msg => i = j
    <2>1. ASSUME NEW i \in postbox[p], NEW j \in new
          PROVE  i.msg # j.msg
      <3>1. i.msg \in Boxed(p)
        BY DEF Boxed
      <3>2. j.msg \in out
        BY <1>5
      <3>3. QED
        BY <1>1, <3>1, <3>2
    <2>2. \A i, j \in new : i.msg = j.msg => i = j
      <3> TAKE i, j \in new
      <3> HAVE i.msg = j.msg
      <3>1. i = PostBoxItem(i.msg, {i.msg.sender})
        BY <1>5
      <3>2. j = PostBoxItem(j.msg, {j.msg.sender})
        BY <1>5
      <3>3. QED
        BY <3>1, <3>2 DEF PostBoxItem
    <2>3. QED
      BY <1>6, <1>7, <2>1, <2>2
  \* A child's older messages, those it has just sent, and those of its siblings.
  <1>10. ASSUME NEW i \in postbox'[p], NEW d \in Children(p), Registered(d)', CameFrom(d, i.msg)
         PROVE  Fresh(d, i.msg)'
    <2> DEFINE m == i.msg
    <2>1. d \in NonRoot /\ d \in Networks
      BY NetworksAreIDs DEF Children
    <2>2. /\ \A t \in Networks : bottomup_nonce[t] \in Nat /\ bottomup_nonce'[t] \in Nat
          /\ bottomup_nonce'[d] >= bottomup_nonce[d]
      BY <2>1 DEF TypeInv, BottomUpTyped, OnlyNewNonces
    <2>3. m \in Message /\ m.nonce \in Nat /\ m.from \in ID
      BY <1>1 DEF TypeInv, PostboxTyped, Item, Message
    <2>4. m.nonce < bottomup_nonce[d]
          /\ \A l \in DOMAIN bottomup_checkpoints[d] :
               l > subnets'[d].prev_epoch => \A x \in Within(d, l) : x.nonce # m.nonce
      <3>1. CASE i \in postbox[p]
        <4>1. Registered(d)
          BY <1>3, <1>10, <2>1 DEF Registered
        <4>2. Fresh(d, m)
          BY <1>1, <1>10, <3>1, <4>1 DEF BoxInv, BoxAt
        <4>3. \A l \in DOMAIN bottomup_checkpoints[d] :
                l > subnets'[d].prev_epoch => l > subnets[d].prev_epoch
          <5>1. CASE d = c
            <6>1. subnets[c].prev_epoch \in Nat
              <7>1. subnets[c] \in Subnet
                BY <1>3 DEF TypeInv, SubnetsTyped, Registered, NotRegistered
              <7>2. QED
                BY <7>1 DEF Subnet
            <6>2. CheckPeriod \in Nat
              BY PeriodAssumption
            <6>3. \A l \in DOMAIN bottomup_checkpoints[d] : l \in Int
              BY <2>1 DEF Numbered
            <6>4. QED
              BY <1>1, <1>3, <5>1, <6>1, <6>2, <6>3
          <5>2. CASE d # c
            BY <1>3, <2>1, <5>2
          <5>3. QED
            BY <5>1, <5>2
        <4>4. QED
          BY <4>2, <4>3 DEF Fresh
      <3>2. CASE i \in new
        <4>1. m \in out /\ CameFrom(c, m)
          BY <1>1, <1>5, <3>2
        <4>2. d = c
          BY <1>1, <1>10, <2>3, <4>1, OneChildAbove DEF CameFrom
        <4>3. k \in DOMAIN bottomup_checkpoints[d] /\ m \in Within(d, k)
          BY <1>1, <4>1, <4>2
        <4>4. m.nonce < bottomup_nonce[d]
          BY <2>1, <4>3 DEF Numbered
        <4>5. ASSUME NEW l \in DOMAIN bottomup_checkpoints[d], l > subnets'[d].prev_epoch,
                     NEW x \in Within(d, l), x.nonce = m.nonce
              PROVE  FALSE
          <5>1. l = k /\ l \in Int
            BY <2>1, <4>3, <4>5 DEF Numbered
          <5>2. QED
            BY <1>3, <4>2, <4>5, <5>1
        <4>6. QED
          BY <4>4, <4>5
      <3>3. QED
        BY <1>6, <3>1, <3>2
    <2> HIDE DEF m
    <2>5. m.nonce < bottomup_nonce'[d] /\ m.nonce # bottomup_nonce[d]
      BY <2>1, <2>2, <2>3, <2>4
    <2>6. ASSUME NEW l \in DOMAIN bottomup_checkpoints'[d], l > subnets'[d].prev_epoch,
                 NEW x \in Range(bottomup_checkpoints'[d][l].msgs)
          PROVE  x.nonce # m.nonce
      BY <2>1, <2>4, <2>5, <2>6 DEF OnlyNewNonces
    <2>7. Fresh(d, m)'
      BY <2>5, <2>6 DEF Fresh, Within
    <2>8. QED
      BY <2>7 DEF m, Fresh
  <1>11. ASSUME NEW i \in postbox'[p], Registered(p)', CameDown(p, i.msg)
         PROVE  i.msg.nonce < carried'[p]
    <2>1. i \in postbox[p]
      BY <1>1, <1>5, <1>6, <1>11 DEF CameDown
    <2>2. Registered(p) /\ carried'[p] = carried[p]
      <3>1. p # c
        <4>1. c \in ID /\ Depth(c) # 0 /\ Depth(c) \in Nat
          BY NetworksAreIDs, IDParts, ParentIs DEF ID, NonRoot
        <4>2. Depth(p) = Depth(c) - 1
          BY <4>1, ParentIs DEF ID
        <4>3. QED
          BY <4>1, <4>2
      <3>2. UNCHANGED carried
        BY DEF CommitChildCheck
      <3>3. QED
        BY <1>3, <1>11, <3>1, <3>2 DEF Registered
    <2>3. QED
      BY <1>1, <1>11, <2>1, <2>2 DEF BoxInv, BoxAt
  <1>12. QED
    BY <1>8, <1>9, <1>10, <1>11 DEF BoxAt, Children, CameFrom, CameDown

\* A message with its number, and a queue of n messages numbered by their places.
Placed(m, n) == [m EXCEPT !.nonce = n]
IsQueue(q, n) == /\ n \in Nat /\ DOMAIN q = 0..n - 1
                 /\ \A k \in DOMAIN q : q[k] \in Message /\ q[k].nonce = k
PutLast(q, n, x, r) ==
  DOMAIN r = DOMAIN q \union {n} /\ r[n] = x /\ \A k \in DOMAIN q : r[k] = q[k]

\* What commit_topdown_msg writes to the queue: the message goes to the end, numbered by
\* its place.
LEMMA QueueWrites ==
  ASSUME SubnetsTyped, QueueNumbered, NEW s \in Networks, NEW m \in Message,
         CommitTopdownMsg(s, m), UNCHANGED carried,
         NEW c, c = Down(m.to, s), NEW n, n = subnets[c].topdown_nonce,
         NEW x, x = Placed(m, n)
  PROVE  /\ c \in NonRoot /\ Registered(c) /\ Registered(c)'
         /\ IsQueue(subnets[c].top_down_msgs, n)
         /\ x \in Message /\ x.nonce = n /\ x.value = m.value
         /\ PutLast(subnets[c].top_down_msgs, n, x, subnets'[c].top_down_msgs)
         /\ QueueNumbered'
  <1> DEFINE b == subnets[c]
             q == b.top_down_msgs
             r == [k \in DOMAIN q \union {n} |-> IF k = n THEN Placed(m, n) ELSE q[k]]
             new == [b EXCEPT !.top_down_msgs = r, !.topdown_nonce = n + 1,
                              !.circ_supply = @ + m.value]
  <1>1. c \in NonRoot /\ Registered(c) /\ subnets' = [subnets EXCEPT ![c] = new]
    BY DEF CommitTopdownMsg, Registered, Placed
  <1>2. b \in Subnet
    BY <1>1 DEF SubnetsTyped, Registered, NotRegistered
  <1>3. n \in Nat /\ DOMAIN q = 0..n - 1 /\ \A k \in DOMAIN q : q[k] \in Message
    BY <1>1, <1>2 DEF SubnetsTyped, Subnet
  <1>4. x.nonce = n /\ x.value = m.value /\ x \in Message
    BY <1>3 DEF Message, Placed
  <1>5. DOMAIN r = DOMAIN q \union {n} /\ r[n] = x /\ \A k \in DOMAIN q : r[k] = q[k]
    BY <1>3
  <1> HIDE DEF r
  <1>6. new.top_down_msgs = r /\ new.registered
    BY <1>2 DEF Subnet
  <1>7. subnets'[c] = new /\ \A d \in NonRoot : d # c => subnets'[d] = subnets[d]
    BY <1>1 DEF SubnetsTyped
  <1> HIDE DEF new
  <1>8. \A k \in DOMAIN q : q[k].nonce = k
    BY <1>1 DEF QueueNumbered
  <1>9. \A k \in DOMAIN subnets'[c].top_down_msgs : subnets'[c].top_down_msgs[k].nonce = k
    <2>1. subnets'[c].top_down_msgs = r
      BY <1>6, <1>7
    <2> HIDE DEF q
    <2>2. r[n].nonce = n /\ \A k \in DOMAIN q : r[k].nonce = k
      BY <1>4, <1>5, <1>8
    <2>3. \A k \in DOMAIN r : r[k].nonce = k
      BY <1>5, <2>2
    <2>4. QED
      BY <2>1, <2>3
  <1>10. QueueNumbered'
    BY <1>7, <1>9 DEF QueueNumbered, Registered
  <1>11. IsQueue(q, n)
    BY <1>3, <1>8 DEF IsQueue
  <1>12. PutLast(q, n, x, subnets'[c].top_down_msgs)
    BY <1>5, <1>6, <1>7 DEF PutLast
  <1>13. QED
    BY <1>1, <1>4, <1>6, <1>7, <1>10, <1>11, <1>12 DEF Registered

\* A step that adds to no queue.
LEMMA QueuesKept ==
  ASSUME QueueNumbered,
         \A c \in NonRoot : Registered(c)' =>
           Registered(c) /\ subnets'[c].top_down_msgs = subnets[c].top_down_msgs
  PROVE  QueueNumbered'
  BY DEF QueueNumbered

\* What executing a checkpoint of c changes of what the parent keeps about its children.
LEMMA ChildCheckWrites ==
  ASSUME TypeInv, NEW c \in NonRoot, CommitChildCheck(c),
         NEW k, k = subnets[c].prev_epoch + CheckPeriod,
         NEW ch, ch = CheckpointAt(c, k)
  PROVE  /\ Registered(c) /\ subnets'[c].registered /\ subnets'[c].prev_epoch = k
         /\ subnets'[c].circ_supply = ReleaseSupply(c, ch)
         /\ subnets'[c].top_down_msgs = subnets[c].top_down_msgs
         /\ \A d \in NonRoot : d # c => subnets'[d] = subnets[d]
  <1>1. Registered(c) /\ subnets[c] \in Subnet
    BY DEF CommitChildCheck, TypeInv, SubnetsTyped, Registered, NotRegistered
  <1>2. subnets' = [subnets EXCEPT ![c] =
                      [subnets[c] EXCEPT !.circ_supply = ReleaseSupply(c, ch),
                                         !.prev_epoch = k,
                                         !.applied_bottomup_nonce
                                            = @ + Len(Own(Parent(c), ch.msgs))]]
    BY <1>1 DEF CommitChildCheck, TypeInv, SubnetsTyped
  <1>3. QED
    BY <1>1, <1>2 DEF TypeInv, SubnetsTyped, Subnet

\* In every step, a queue is numbered by its places.
LEMMA NextQueueNumbered ==
  ASSUME TypeInv, QueueNumbered, [Next]_vars
  PROVE  QueueNumbered'
  <1> DEFINE Kept == \A c \in NonRoot : Registered(c)' =>
                       Registered(c) /\ subnets'[c].top_down_msgs = subnets[c].top_down_msgs
  <1>1. Kept => QueueNumbered'
    BY QueuesKept
  <1>2. UNCHANGED subnets => Kept
    BY DEF Registered
  <1> HIDE DEF Kept
  <1>3. ASSUME NEW s \in Networks, NEW m \in Message, UNCHANGED carried,
               CommitTopdownMsg(s, m) \/ UNCHANGED subnets
        PROVE  QueueNumbered'
    <2>1. CASE CommitTopdownMsg(s, m)
      BY <1>3, <2>1, QueueWrites DEF TypeInv
    <2>2. QED
      BY <1>1, <1>2, <1>3, <2>1
  <1>4. CASE FundAny
    <2>1. PICK r \in FundRoutes, a \in Senders, v \in Amounts : Fund(r[1], r[2], a, v)
      BY <1>4 DEF FundAny
    <2> DEFINE s == r[1]
               m == NewFundMsg(r[2], a, CollectCrossFee(v))
    <2>2. s \in Networks /\ r[2] \in NonRoot
      BY <2>1, RoutesAssumption DEF Fund, NonRoot
    <2>3. m \in Message
      BY <2>1, <2>2, SentMessages DEF Fund
    <2>4. CommitTopdownMsg(s, m) /\ UNCHANGED carried
      BY <2>1 DEF Fund, Sends
    <2> HIDE DEF m, s
    <2>5. QED
      BY <1>3, <2>2, <2>3, <2>4
  <1>5. CASE SendCrossAny
    <2>1. PICK r \in SendRoutes, a \in Senders, v \in Amounts, p \in Payloads :
            SendCross(r[1], r[2], a, v, p)
      BY <1>5 DEF SendCrossAny
    <2> DEFINE s == r[1]
               m == Msg(s, r[2], a, CollectCrossFee(v), p)
    <2>2. s \in Networks /\ r[2] \in Destinations
      BY RoutesAssumption DEF Destinations
    <2>3. m \in Message
      BY <2>1, <2>2, SentMessages DEF SendCross
    <2>4. CommitCrossMessage(s, m, CrossMsgFee) /\ UNCHANGED carried
      BY <2>1 DEF SendCross, Sends
    <2> HIDE DEF m, s
    <2>5. CommitTopdownMsg(s, m) \/ UNCHANGED subnets
      BY <2>4 DEF CommitCrossMessage, CommitUp, CommitTurn, CommitDown
    <2>6. QED
      BY <1>3, <2>2, <2>3, <2>4, <2>5
  <1>6. CASE \E s \in Networks : PropagateAny(s)
    <2>1. PICK s \in Networks : PropagateAny(s)
      BY <1>6
    <2>2. PICK i \in postbox[s], o \in Accounts : Propagate(s, i, o)
      BY <2>1 DEF PropagateAny
    <2>3. i.msg \in Message /\ UNCHANGED carried
      BY <2>2 DEF TypeInv, PostboxTyped, Item, Propagate
    <2>4. CommitTopdownMsg(s, i.msg) \/ UNCHANGED subnets
      BY <2>2 DEF Propagate, CommitCrossMessage, CommitUp, CommitTurn, CommitDown
    <2>5. QED
      BY <1>3, <2>3, <2>4
  <1>7. CASE \E c \in NonRoot : CommitChildCheck(c)
    <2>1. PICK c \in NonRoot : CommitChildCheck(c)
      BY <1>7
    <2>2. /\ Registered(c) /\ subnets'[c].top_down_msgs = subnets[c].top_down_msgs
          /\ \A d \in NonRoot : d # c => subnets'[d] = subnets[d]
      BY <2>1, ChildCheckWrites
    <2>3. Kept
      BY <2>2 DEF Kept, Registered
    <2>4. QED
      BY <1>1, <2>3
  <1>8. CASE \E c \in Killable : Kill(c)
    <2>1. PICK c \in Killable : Kill(c)
      BY <1>8
    <2>2. Kept
      BY <2>1 DEF Kill, Kept, TypeInv, SubnetsTyped, NotRegistered, Registered
    <2>3. QED
      BY <1>1, <2>2
  <1>9. CASE \/ ReleaseAny
             \/ \E s \in Networks : WhitelistAny(s) \/ Tick(s)
             \/ \E c \in NonRoot : ExecuteTopdownAny(c) \/ SetMembership(c)
             \/ UNCHANGED vars
    <2>1. UNCHANGED subnets
      BY <1>9 DEF ReleaseAny, Release, WhitelistAny, WhitelistPropagator, Tick,
                  ExecuteTopdownAny, ExecuteTopdown, SetMembership, vars
    <2>2. QED
      BY <1>1, <1>2, <2>1
  <1>10. QED
    BY <1>4, <1>5, <1>6, <1>7, <1>8, <1>9 DEF Next

\* A message that arrives from above has not come from a child, nor is it going to one's
\* checkpoints.
LEMMA ArrivesDown ==
  ASSUME NEW c \in NonRoot, NEW m \in Message, Descending(c, m)
  PROVE  CameDown(c, m)
  <1> SUFFICES ASSUME NEW d \in Children(c), Above(d, m.from), GoesUp(m.from, m.to, d)
               PROVE  FALSE
    BY DEF CameDown, CameFrom
  <1>1. ~Misnamed(m)
    BY DEF Misnamed, GoesUp, ApplyType, IpcType, TopDown, BottomUp
  <1>2. /\ OnPath(c, m.from, m.to) /\ OnPath(Parent(c), m.from, m.to)
        /\ ~GoesUp(m.from, m.to, c)
    BY <1>1 DEF Descending, GoesUp, TopDown, BottomUp
  <1>3. c \in ID /\ d \in ID /\ Parent(c) \in ID /\ m.from \in ID /\ m.to \in ID
        /\ Parent(d) = c /\ d \in NonRoot
    BY NetworksAreIDs DEF Message, Children
  <1>4. /\ Depth(c) \in Nat /\ Depth(d) \in Nat /\ Depth(m.from) \in Nat /\ Depth(m.to) \in Nat
        /\ Depth(c) # 0 /\ Depth(Parent(c)) = Depth(c) - 1
        /\ Depth(d) # 0 /\ Depth(c) = Depth(d) - 1 /\ Agree(c, d, Depth(c))
    BY <1>3, IDParts, ParentIs DEF ID, NonRoot
  <1>5. Depth(c) <= Depth(m.to) /\ Agree(c, m.to, Depth(c))
    <2>1. Above(c, m.to)
      BY <1>2, <1>3, ClimbsBelowTurn DEF ID
    <2>2. QED
      BY <1>3, <2>1, AboveIs DEF ID
  <1>6. Depth(d) <= Depth(m.from) /\ Agree(d, m.from, Depth(d))
    BY <1>3, AboveIs DEF ID
  <1>7. CommonChildren(m.from, m.to) <= Depth(c) - 1
    BY <1>2, <1>3, <1>4, PathIs DEF ID
  <1> DEFINE j == CommonChildren(m.from, m.to)
  <1>8. /\ j \in Nat
        /\ j < Depth(m.from) /\ j < Depth(m.to)
             => m.from.children[j + 1] # m.to.children[j + 1]
    BY <1>3, CommonLevels DEF ID
  <1> HIDE DEF j
  <1>9. j + 1 \in 1..Depth(c) /\ j + 1 \in 1..Depth(d) /\ j < Depth(m.from) /\ j < Depth(m.to)
    BY <1>4, <1>5, <1>6, <1>7, <1>8 DEF j
  <1>10. m.from.children[j + 1] = m.to.children[j + 1]
    BY <1>4, <1>5, <1>6, <1>9 DEF Agree
  <1>11. QED
    BY <1>8, <1>9, <1>10

\* The next n messages of the queue of c.
NextMsgs(c, n) == [i \in 1..n |-> subnets[c].top_down_msgs[carried[c] + i - 1]]

TakesNext(c, n) ==
  /\ n \in 1..MaxMsgs /\ Registered(c) /\ carried[c] + n - 1 \in DOMAIN subnets[c].top_down_msgs
  /\ ExecuteTopdown(c, n)

\* What a gateway does with a top-down checkpoint: the messages for its own network are
\* paid out and the others, none of which has been there before, go to the postbox.
LEMMA QueueTaken ==
  ASSUME TypeInv, RouteInv, BoxInv, QueueNumbered, NEW c \in NonRoot, NEW n,
         TakesNext(c, n), NEW msgs, msgs = NextMsgs(c, n), NEW out, out = Transit(c, msgs)
  PROVE  /\ c \in Networks /\ Apply(c, msgs, 0) /\ msgs \in Seq(Message)
         /\ postbox' = [postbox EXCEPT ![c] = @ \union InTransit(c, msgs)]
         /\ carried'[c] = carried[c] + n
         /\ \A d \in NonRoot : d # c => carried'[d] = carried[d]
         /\ IsFiniteSet(out) /\ Boxed(c) \cap out = {}
         /\ \A x \in out : x \in Message /\ CameDown(c, x) /\ x.nonce < carried'[c]
         /\ TotalValue(Own(c, msgs)) \in Nat /\ ValueOf(out) \in Nat
         /\ TotalValue(msgs) = TotalValue(Own(c, msgs)) + ValueOf(out)
         /\ IsFiniteSet(Range(msgs)) /\ ValueOf(Range(msgs)) = TotalValue(msgs)
         /\ \A i \in 1..n : msgs[i].nonce = carried[c] + i - 1
  <1> DEFINE q == subnets[c].top_down_msgs
             d == carried[c]
  <1>0. /\ Registered(c) /\ carried[c] + n - 1 \in DOMAIN subnets[c].top_down_msgs
        /\ ExecuteTopdown(c, n)
    BY DEF TakesNext
  <1>1. n \in Nat /\ n # 0 /\ c \in Networks
    BY AmountsAssumption, NetworksAreIDs DEF TakesNext
  <1>2. /\ msgs \in Seq(Message)
        /\ \A m \in Range(msgs) : \E k \in DOMAIN q : m = q[k]
        /\ d + n <= subnets[c].topdown_nonce
    <2> DEFINE next == [i \in 1..n |-> subnets[c].top_down_msgs[carried[c] + i - 1]]
    <2>1. /\ next \in Seq(Message)
          /\ \A m \in Range(next) :
               \E k \in DOMAIN subnets[c].top_down_msgs : m = subnets[c].top_down_msgs[k]
          /\ carried[c] + n <= subnets[c].topdown_nonce
      BY <1>0, <1>1, TopdownMessages DEF TypeInv
    <2>2. msgs = next
      BY DEF NextMsgs
    <2> HIDE DEF next
    <2>3. QED
      BY <2>1, <2>2
  <1>3. /\ Apply(c, msgs, 0) /\ UNCHANGED subnets
        /\ carried' = [carried EXCEPT ![c] = @ + n]
    BY <1>0 DEF ExecuteTopdown, NextMsgs
  <1>4. /\ postbox' = [postbox EXCEPT ![c] = @ \union InTransit(c, msgs)]
        /\ carried'[c] = d + n /\ d \in Nat
        /\ \A e \in NonRoot : e # c => carried'[e] = carried[e]
    BY <1>3 DEF Apply, TypeInv, SubnetsTyped
  <1>5. \A i \in 1..n : /\ msgs[i] = q[d + i - 1] /\ d + i - 1 \in DOMAIN q
                        /\ msgs[i].nonce = d + i - 1
    <2> TAKE i \in 1..n
    <2>1. msgs[i] = q[d + i - 1]
      BY DEF NextMsgs
    <2>2. d + i - 1 \in DOMAIN q
      <3>1. DOMAIN q = 0..subnets[c].topdown_nonce - 1 /\ subnets[c].topdown_nonce \in Nat
        <4>1. subnets[c] \in Subnet
          BY <1>0 DEF TypeInv, SubnetsTyped, Registered, NotRegistered
        <4>2. QED
          BY <1>0, <4>1 DEF TypeInv, SubnetsTyped, Subnet
      <3> DEFINE t == subnets[c].topdown_nonce
      <3> HIDE DEF t, d, q
      <3>2. d + i - 1 \in 0..t - 1
        BY <1>1, <1>2, <1>4, <3>1 DEF t
      <3>3. QED
        BY <3>1, <3>2 DEF t
    <2>3. \A k \in DOMAIN q : q[k].nonce = k
      BY <1>0 DEF QueueNumbered
    <2> HIDE DEF q
    <2>4. q[d + i - 1].nonce = d + i - 1
      BY <2>2, <2>3
    <2>5. QED
      BY <2>1, <2>2, <2>4
  <1>6. DOMAIN msgs = 1..n
    BY DEF NextMsgs
  <1> HIDE DEF q, d
  <1>7. \A i, j \in DOMAIN msgs : msgs[i] = msgs[j] => i = j
    <2> TAKE i, j \in DOMAIN msgs
    <2> HAVE msgs[i] = msgs[j]
    <2>1. d + i - 1 = d + j - 1
      BY <1>5, <1>6
    <2>2. QED
      BY <1>1, <1>4, <1>6, <2>1
  <1>8. /\ TotalValue(Own(c, msgs)) \in Nat /\ ValueOf(out) \in Nat /\ IsFiniteSet(out)
        /\ TotalValue(msgs) = TotalValue(Own(c, msgs)) + ValueOf(out)
        /\ IsFiniteSet(Range(msgs)) /\ ValueOf(Range(msgs)) = TotalValue(msgs)
    <2>1. \A m \in Message : m.value \in Nat
      BY DEF Message
    <2>2. QED
      BY <1>2, <1>7, <2>1, ValueSplits
  <1>9. ASSUME NEW x \in Range(msgs)
        PROVE  x \in Message /\ CameDown(c, x) /\ d <= x.nonce /\ x.nonce < d + n
    <2>1. PICK i \in 1..n : x = msgs[i]
      BY <1>6 DEF Range
    <2>2. x.nonce = d + i - 1
      BY <1>5, <2>1
    <2>3. d <= d + i - 1 /\ d + i - 1 < d + n
      BY <1>1, <1>4
    <2>4. x \in Message
      BY <1>2, <1>6, <2>1, ElementOfSeq, LenProperties
    <2>5. Descending(c, x)
      BY <1>0, <1>2 DEF RouteInv, QueuesRouted, q
    <2>6. QED
      BY <2>2, <2>3, <2>4, <2>5, ArrivesDown
  <1>10. \A x \in out : x \in Range(msgs)
    BY DEF Transit
  <1>11. Boxed(c) \cap out = {}
    <2> SUFFICES ASSUME NEW i \in postbox[c], i.msg \in out PROVE FALSE
      BY DEF Boxed
    <2>1. CameDown(c, i.msg) /\ d <= i.msg.nonce /\ i.msg \in Message
      BY <1>9, <1>10
    <2>2. i.msg.nonce < d
      BY <1>0, <1>1, <2>1 DEF BoxInv, BoxAt, d
    <2> DEFINE e == i.msg.nonce
    <2>3. e \in Nat /\ d <= e /\ e < d
      BY <2>1, <2>2 DEF Message
    <2> HIDE DEF e
    <2>4. QED
      BY <1>4, <2>3
  <1>12. QED
    BY <1>1, <1>2, <1>3, <1>4, <1>5, <1>8, <1>9, <1>10, <1>11 DEF d

\* The postbox of a gateway that executes a top-down checkpoint.
LEMMA BoxTakesQueue ==
  ASSUME TypeInv, TypeInv', RouteInv, OnlyNewNonces, BoxInv, QueueNumbered,
         NEW c \in NonRoot, NEW n,
         TakesNext(c, n), NEW msgs, msgs = NextMsgs(c, n), NEW out, out = Transit(c, msgs)
  PROVE  BoxAt(c)'
  <1> DEFINE new == InTransit(c, msgs)
  <1> HIDE DEF new
  <1>1. /\ c \in Networks
        /\ postbox' = [postbox EXCEPT ![c] = @ \union InTransit(c, msgs)]
        /\ IsFiniteSet(out) /\ Boxed(c) \cap out = {}
        /\ \A x \in out : x \in Message /\ CameDown(c, x) /\ x.nonce < carried'[c]
    BY QueueTaken
  <1>0. carried'[c] = carried[c] + n
    BY QueueTaken
  <1>2. new = {PostBoxItem(m, {m.sender}) : m \in out}
    BY DEF InTransit, Transit, new
  <1>3. UNCHANGED subnets
    BY DEF TakesNext, ExecuteTopdown
  <1>4. IsFiniteSet(new)
    <2> DEFINE key == [m \in out |-> PostBoxItem(m, {m.sender})]
    <2>1. key \in Surjection(out, new)
      BY <1>2 DEF Surjection
    <2> HIDE DEF key
    <2>2. QED
      BY <1>1, <2>1, FS_Surjection
  <1>5. \A i \in new : i.msg \in out /\ i = PostBoxItem(i.msg, {i.msg.sender})
    BY <1>2 DEF PostBoxItem
  <1>6. postbox'[c] = postbox[c] \union new
    BY <1>1 DEF TypeInv, PostboxTyped, new
  <1>7. /\ IsFiniteSet(postbox[c])
        /\ \A i, j \in postbox[c] : i.msg = j.msg => i = j
    BY <1>1 DEF BoxInv, BoxAt
  <1>8. IsFiniteSet(postbox'[c])
    <2>1. IsFiniteSet(postbox[c] \union new)
      BY <1>4, <1>7, FS_Union
    <2>2. QED
      BY <1>6, <2>1
  <1>9. \A i, j \in postbox'[c] : i.msg = j.msg => i = j
    <2>1. \A i \in postbox[c], j \in new : i.msg # j.msg
      <3>1. \A i \in postbox[c] : i.msg \in Boxed(c)
        BY DEF Boxed
      <3>2. \A j \in new : j.msg \in out /\ j.msg \notin Boxed(c)
        BY <1>1, <1>5
      <3>3. QED
        BY <3>1, <3>2
    <2>2. \A i, j \in new : i.msg = j.msg => i = j
      <3> TAKE i, j \in new
      <3> HAVE i.msg = j.msg
      <3>1. i = PostBoxItem(i.msg, {i.msg.sender})
        BY <1>5
      <3>2. j = PostBoxItem(j.msg, {j.msg.sender})
        BY <1>5
      <3>3. QED
        BY <3>1, <3>2 DEF PostBoxItem
    <2>3. QED
      BY <1>6, <1>7, <2>1, <2>2
  <1>10. ASSUME NEW i \in postbox'[c], NEW d \in Children(c), Registered(d)', CameFrom(d, i.msg)
         PROVE  Fresh(d, i.msg)'
    <2>1. i \in postbox[c]
      BY <1>1, <1>5, <1>6, <1>10 DEF CameDown
    <2>2. Registered(d) /\ subnets'[d].prev_epoch = subnets[d].prev_epoch
      BY <1>3, <1>10 DEF Registered
    <2>3. d \in Networks /\ i.msg \in Message
      BY <1>1, <2>1, NetworksAreIDs DEF TypeInv, PostboxTyped, Item, Children
    <2>4. Fresh(d, i.msg)
      BY <1>1, <1>10, <2>1, <2>2 DEF BoxInv, BoxAt
    <2> DEFINE m == i.msg
    <2>5. m \in Message /\ Fresh(d, m)
      BY <2>3, <2>4
    <2> HIDE DEF m
    <2>6. Fresh(d, m)'
      BY <2>2, <2>3, <2>5, FreshKept DEF TypeInv
    <2>7. QED
      BY <2>6 DEF m, Fresh
  <1>11. ASSUME NEW i \in postbox'[c], CameDown(c, i.msg)
         PROVE  i.msg.nonce < carried'[c]
    <2>1. CASE i \in postbox[c]
      <3>1. i.msg.nonce < carried[c] /\ i.msg \in Message
        BY <1>1, <1>11, <2>1 DEF TakesNext, BoxInv, BoxAt, TypeInv, PostboxTyped, Item
      <3> DEFINE e == i.msg.nonce
                 d == carried[c]
      <3>2. e \in Nat /\ d \in Nat /\ n \in Nat /\ e < d /\ carried'[c] = d + n
        BY <1>0, <1>1, <3>1, AmountsAssumption DEF TakesNext, Message, TypeInv, SubnetsTyped
      <3> HIDE DEF e, d
      <3>3. e < carried'[c]
        BY <3>2
      <3>4. QED
        BY <3>3 DEF e
    <2>2. CASE i \in new
      BY <1>1, <1>5, <2>2
    <2>3. QED
      BY <1>6, <2>1, <2>2
  <1>12. QED
    BY <1>8, <1>9, <1>10, <1>11 DEF BoxAt, Children, CameFrom, CameDown

\* What a message that goes into a queue leaves of the checkpoints to come.
LEMMA PrevKept ==
  ASSUME SubnetsTyped, NEW s \in Networks, NEW m \in Message, UNCHANGED carried,
         CommitTopdownMsg(s, m) \/ UNCHANGED subnets
  PROVE  \A c \in NonRoot :
           Registered(c)' => Registered(c) /\ subnets'[c].prev_epoch = subnets[c].prev_epoch
  <1>1. CASE CommitTopdownMsg(s, m)
    <2> DEFINE d == Down(m.to, s)
    <2>1. /\ Registered(d) /\ subnets'[d].prev_epoch = subnets[d].prev_epoch
          /\ \A c \in NonRoot : c # d => subnets'[c] = subnets[c]
      BY <1>1, CommitTopdownIs
    <2> HIDE DEF d
    <2>2. QED
      BY <2>1 DEF Registered
  <1>2. CASE UNCHANGED subnets
    BY <1>2 DEF Registered
  <1>3. QED
    BY <1>1, <1>2

\* In every step, a postbox keeps each message once.
LEMMA NextBox ==
  ASSUME TypeInv, TypeInv', RouteInv, Numbered, QueueNumbered, BoxInv, OnlyNewNonces,
         [Next]_vars
  PROVE  BoxInv'
  <1> DEFINE Kept(c) == Registered(c)' => /\ Registered(c)
                                          /\ subnets'[c].prev_epoch = subnets[c].prev_epoch
             Executed(c) == Registered(c)' => Registered(c) /\ carried'[c] >= carried[c]
             Box(s) == /\ IsFiniteSet(postbox'[s])
                       /\ \A i, j \in postbox'[s] : i.msg = j.msg => i = j
                       /\ \A i \in postbox'[s] : \E j \in postbox[s] : i.msg = j.msg
             AllKept == \A c \in NonRoot : Kept(c)
             AllExecuted == \A c \in NonRoot : Executed(c)
             AllBoxes == \A s \in Networks : Box(s)
  <1>1. ASSUME NEW s \in Networks, \A c \in Children(s) : Kept(c), Executed(s), Box(s)
        PROVE  BoxAt(s)'
    <2>1. BoxAt(s)
      BY DEF BoxInv
    <2>2. QED
      BY <1>1, <2>1, BoxKept
  <1>2. ASSUME NEW s \in Networks, postbox'[s] \subseteq postbox[s]
        PROVE  Box(s)
    <2>1. IsFiniteSet(postbox[s]) /\ \A i, j \in postbox[s] : i.msg = j.msg => i = j
      BY DEF BoxInv, BoxAt
    <2>2. IsFiniteSet(postbox'[s])
      BY <1>2, <2>1, FS_Subset
    <2>3. QED
      BY <1>2, <2>1, <2>2
  <1>3. UNCHANGED subnets => AllKept
    BY DEF Registered
  <1>4. UNCHANGED carried /\ AllKept => AllExecuted
    <2>1. \A c \in NonRoot : carried[c] >= carried[c]
      BY DEF TypeInv, SubnetsTyped
    <2>2. QED
      BY <2>1
  <1>5. \A s \in Networks : ~(s \in NonRoot) => Executed(s)
    BY DEF Registered
  <1>6. UNCHANGED postbox => AllBoxes
    BY <1>2
  <1> HIDE DEF Kept, Executed, Box
  <1>7. AllKept /\ AllExecuted /\ AllBoxes => BoxInv'
    <2>1. \A s \in Networks : Children(s) \subseteq NonRoot
      BY DEF Children
    <2>2. AllKept /\ AllExecuted /\ AllBoxes => \A s \in Networks : BoxAt(s)'
      BY <1>1, <1>5, <2>1
    <2>3. QED
      BY <2>2 DEF BoxInv
  <1>8. ASSUME NEW s \in Networks, NEW m \in Message, UNCHANGED carried,
               CommitTopdownMsg(s, m) \/ UNCHANGED subnets, AllBoxes
        PROVE  BoxInv'
    <2>1. AllKept
      <3>1. \A c \in NonRoot :
              Registered(c)' => Registered(c) /\ subnets'[c].prev_epoch = subnets[c].prev_epoch
        BY <1>8, PrevKept DEF TypeInv
      <3>2. QED
        BY <3>1 DEF Kept
    <2>2. QED
      BY <1>4, <1>7, <1>8, <2>1
  <1>9. CASE FundAny
    <2>1. PICK r \in FundRoutes, a \in Senders, v \in Amounts : Fund(r[1], r[2], a, v)
      BY <1>9 DEF FundAny
    <2> DEFINE s == r[1]
               m == NewFundMsg(r[2], a, CollectCrossFee(v))
    <2>2. s \in Networks /\ r[2] \in NonRoot
      BY <2>1, RoutesAssumption DEF Fund, NonRoot
    <2>3. m \in Message
      BY <2>1, <2>2, SentMessages DEF Fund
    <2>4. CommitTopdownMsg(s, m) /\ UNCHANGED <<postbox, carried>>
      BY <2>1 DEF Fund, Sends
    <2> HIDE DEF m, s
    <2>5. QED
      BY <1>6, <1>8, <2>2, <2>3, <2>4
  <1>10. CASE SendCrossAny
    <2>1. PICK r \in SendRoutes, a \in Senders, v \in Amounts, p \in Payloads :
            SendCross(r[1], r[2], a, v, p)
      BY <1>10 DEF SendCrossAny
    <2> DEFINE s == r[1]
               m == Msg(s, r[2], a, CollectCrossFee(v), p)
    <2>2. s \in Networks /\ r[2] \in Destinations
      BY RoutesAssumption DEF Destinations
    <2>3. m \in Message
      BY <2>1, <2>2, SentMessages DEF SendCross
    <2>4. CommitCrossMessage(s, m, CrossMsgFee) /\ UNCHANGED <<postbox, carried>>
      BY <2>1 DEF SendCross, Sends
    <2> HIDE DEF m, s
    <2>5. CommitTopdownMsg(s, m) \/ UNCHANGED subnets
      BY <2>4 DEF CommitCrossMessage, CommitUp, CommitTurn, CommitDown
    <2>6. QED
      BY <1>6, <1>8, <2>2, <2>3, <2>4, <2>5
  <1>11. CASE \E s \in Networks : PropagateAny(s)
    <2>1. PICK s \in Networks : PropagateAny(s)
      BY <1>11
    <2>2. PICK i \in postbox[s], o \in Accounts : Propagate(s, i, o)
      BY <2>1 DEF PropagateAny
    <2>3. i.msg \in Message /\ UNCHANGED carried
      BY <2>2 DEF TypeInv, PostboxTyped, Item, Propagate
    <2>4. \A t \in Networks : postbox'[t] \subseteq postbox[t]
      BY <2>2 DEF Propagate, TypeInv, PostboxTyped
    <2>5. CommitTopdownMsg(s, i.msg) \/ UNCHANGED subnets
      BY <2>2 DEF Propagate, CommitCrossMessage, CommitUp, CommitTurn, CommitDown
    <2>6. QED
      BY <1>2, <1>8, <2>3, <2>4, <2>5
  <1>12. CASE \E s \in Networks : WhitelistAny(s)
    <2>1. PICK s \in Networks : WhitelistAny(s)
      BY <1>12
    <2>2. PICK i \in postbox[s], o \in Accounts, added \in Accounts :
            WhitelistPropagator(s, i, o, added)
      BY <2>1 DEF WhitelistAny
    <2> DEFINE new == PostBoxItem(i.msg, i.owners \union {added})
    <2>3. /\ postbox'[s] = (postbox[s] \ {i}) \union {new} /\ new.msg = i.msg
          /\ \A t \in Networks : t # s => postbox'[t] = postbox[t]
          /\ UNCHANGED <<subnets, carried>>
      BY <2>2 DEF WhitelistPropagator, SwapPostboxItem, TypeInv, PostboxTyped, PostBoxItem
    <2> HIDE DEF new
    <2>4. Box(s)
      <3>1. IsFiniteSet(postbox[s]) /\ \A x, y \in postbox[s] : x.msg = y.msg => x = y
        BY DEF BoxInv, BoxAt
      <3>2. IsFiniteSet((postbox[s] \ {i}) \union {new})
        <4>1. IsFiniteSet(postbox[s] \ {i})
          BY <3>1, FS_Subset
        <4>2. QED
          BY <4>1, FS_AddElement
      <3>3. \A x \in postbox[s] \ {i} : x.msg # new.msg
        BY <2>3, <3>1
      <3>4. QED
        BY <2>3, <3>1, <3>2, <3>3 DEF Box
    <2>5. AllBoxes
      BY <1>2, <2>3, <2>4
    <2>6. QED
      BY <1>3, <1>4, <1>7, <2>3, <2>5
  <1>13. CASE \E c \in NonRoot : ExecuteTopdownAny(c)
    <2>1. PICK c \in NonRoot : ExecuteTopdownAny(c)
      BY <1>13
    <2>2. PICK n \in 1..MaxMsgs : TakesNext(c, n)
      BY <2>1 DEF ExecuteTopdownAny, TakesNext
    <2>3. /\ \A s \in Networks : s # c => postbox'[s] = postbox[s]
          /\ UNCHANGED subnets /\ n \in Nat
          /\ carried' = [carried EXCEPT ![c] = @ + n]
      <3>1. ExecuteTopdown(c, n) /\ n \in Nat
        BY <2>2, AmountsAssumption DEF TakesNext
      <3>2. UNCHANGED subnets /\ carried' = [carried EXCEPT ![c] = @ + n]
        BY <3>1 DEF ExecuteTopdown
      <3>3. \A s \in Networks : s # c => postbox'[s] = postbox[s]
        BY <3>1 DEF ExecuteTopdown, Apply, TypeInv, PostboxTyped
      <3>4. QED
        BY <3>1, <3>2, <3>3
    <2>4. AllExecuted
      <3>1. \A d \in NonRoot : carried[d] \in Nat /\ (d # c => carried'[d] = carried[d])
        BY <2>3 DEF TypeInv, SubnetsTyped
      <3>2. carried'[c] = carried[c] + n
        BY <2>3 DEF TypeInv, SubnetsTyped
      <3>3. \A d \in NonRoot : carried'[d] >= carried[d]
        BY <2>3, <3>1, <3>2
      <3>4. QED
        BY <2>3, <3>3 DEF Executed, Registered
    <2>5. BoxAt(c)'
      <3> DEFINE msgs == NextMsgs(c, n)
                 out == Transit(c, msgs)
      <3>1. msgs = NextMsgs(c, n) /\ out = Transit(c, msgs)
        OBVIOUS
      <3> HIDE DEF msgs, out
      <3>2. QED
        BY <2>2, <3>1, BoxTakesQueue
    <2>6. \A s \in Networks : s # c => BoxAt(s)'
      BY <1>1, <1>2, <1>3, <1>5, <2>3, <2>4 DEF Children
    <2>7. QED
      BY <2>5, <2>6 DEF BoxInv
  <1>14. CASE \E c \in NonRoot : CommitChildCheck(c)
    <2>1. PICK c \in NonRoot : CommitChildCheck(c)
      BY <1>14
    <2> DEFINE p == Parent(c)
    <2>2. BoxAt(p)'
      <3> DEFINE k == subnets[c].prev_epoch + CheckPeriod
                 ch == CheckpointAt(c, k)
                 out == Transit(p, ch.msgs)
      <3>1. /\ p = Parent(c) /\ k = subnets[c].prev_epoch + CheckPeriod
            /\ ch = CheckpointAt(c, k) /\ out = Transit(p, ch.msgs)
        OBVIOUS
      <3> HIDE DEF p, k, ch, out
      <3>2. QED
        BY <2>1, <3>1, BoxTakesChild
    <2>3. /\ \A s \in Networks : s # p => postbox'[s] = postbox[s]
          /\ UNCHANGED carried
      BY <2>1 DEF CommitChildCheck, Apply, TypeInv, PostboxTyped
    <2>4. /\ Registered(c) /\ \A d \in NonRoot : d # c => subnets'[d] = subnets[d]
      BY <2>1, ChildCheckWrites
    <2>5. \A d \in NonRoot : d # c => Kept(d)
      BY <2>4 DEF Kept, Registered
    <2>6. AllExecuted
      <3>1. \A d \in NonRoot : Registered(d)' => Registered(d)
        BY <2>4 DEF Registered
      <3>2. \A d \in NonRoot : carried'[d] >= carried[d]
        BY <2>3 DEF TypeInv, SubnetsTyped
      <3>3. QED
        BY <3>1, <3>2 DEF Executed
    <2>7. ASSUME NEW s \in Networks, s # p
          PROVE  BoxAt(s)'
      <3>1. \A d \in Children(s) : Kept(d)
        BY <2>5, <2>7 DEF Children
      <3>2. Executed(s) /\ Box(s)
        BY <1>2, <1>5, <2>3, <2>6, <2>7
      <3>3. QED
        BY <1>1, <3>1, <3>2
    <2>8. QED
      BY <2>2, <2>7 DEF BoxInv
  <1>15. CASE \E c \in Killable : Kill(c)
    <2>1. PICK c \in Killable : Kill(c)
      BY <1>15
    <2>2. AllKept /\ UNCHANGED <<postbox, carried>>
      BY <2>1 DEF Kill, Kept, TypeInv, SubnetsTyped, NotRegistered, Registered
    <2>3. QED
      BY <1>4, <1>6, <1>7, <2>2
  <1>16. CASE \/ ReleaseAny \/ \E s \in Networks : Tick(s)
              \/ \E c \in NonRoot : SetMembership(c)
              \/ UNCHANGED vars
    <2>1. UNCHANGED <<subnets, postbox, carried>>
      BY <1>16 DEF ReleaseAny, Release, Sends, Tick, SetMembership, vars
    <2>2. QED
      BY <1>3, <1>4, <1>6, <1>7, <2>1
  <1>17. QED
    BY <1>9, <1>10, <1>11, <1>12, <1>13, <1>14, <1>15, <1>16 DEF Next

\* A message that goes into a queue adds its value to the supply below its gateway only.
LEMMA QueueSupply ==
  ASSUME TypeInv, TypeInv', NEW t \in Networks, NEW m \in Message, CommitTopdownMsg(t, m),
         UNCHANGED carried, NEW s \in Networks
  PROVE  /\ t = s => SupplyBelow(s)' = SupplyBelow(s) + m.value
         /\ t # s => SupplyBelow(s)' = SupplyBelow(s)
  <1> DEFINE c == Down(m.to, t)
  <1>1. /\ c \in NonRoot /\ c \in Children(t) /\ Registered(c)
        /\ \A d \in NonRoot : d # c => subnets'[d] = subnets[d]
        /\ subnets'[c].registered
        /\ subnets'[c].circ_supply = subnets[c].circ_supply + m.value
    BY CommitTopdownIs DEF TypeInv
  <1> HIDE DEF c
  <1>2. \A d \in NonRoot : d # c => Supply(d)' = Supply(d)
    BY <1>1 DEF Supply, Registered
  <1>3. Supply(c)' = Supply(c) + m.value
    BY <1>1 DEF Supply, Registered
  <1>4. CASE t = s
    <2>1. SupplyBelow(s)' = SupplyBelow(s) - Supply(c) + Supply(c)'
      <3>1. c \in Children(s) /\ \A d \in Children(s) : d # c => Supply(d)' = Supply(d)
        BY <1>1, <1>2, <1>4 DEF Children
      <3>2. QED
        BY <3>1, SupplyMoves DEF TypeInv
    <2> DEFINE a == Supply(c)
               b == SupplyBelow(s)
               v == m.value
               n == SupplyBelow(s)'
    <2>2. a \in Nat /\ b \in Nat /\ v \in Nat
      BY <1>1, SupplyTyped DEF TypeInv, Message
    <2>3. n = b - a + (a + v)
      BY <1>3, <2>1
    <2> HIDE DEF a, b, v, n
    <2>4. n = b + v
      BY <2>2, <2>3
    <2>5. QED
      BY <1>4, <2>4 DEF b, v, n
  <1>5. CASE t # s
    <2>1. \A d \in Children(s) : Supply(d)' = Supply(d)
      BY <1>1, <1>2, <1>5 DEF Children
    <2>2. QED
      BY <1>5, <2>1, SupplyStays
  <1>6. QED
    BY <1>4, <1>5

\* What leaves through commit_cross_message and cross_msg_side_effects: at the root, the
\* supply below grows by its value, and the gateway keeps what is paid above the fee.
LEMMA LeavingBacked ==
  ASSUME TypeInv, TypeInv', NEW t \in Networks, NEW m \in Message, NEW paid \in Nat,
         CommitCrossMessage(t, m, CrossMsgFee), CrossMsgSideEffects(t, m, paid, CrossMsgFee),
         UNCHANGED carried, NEW s \in Networks, IsRoot(s)
  PROVE  /\ t = s => /\ SupplyBelow(s)' = SupplyBelow(s) + m.value
                     /\ gateway_balance'[s] = gateway_balance[s] + paid - CrossMsgFee
         /\ t # s => /\ SupplyBelow(s)' = SupplyBelow(s)
                     /\ gateway_balance'[s] = gateway_balance[s]
  <1>1. CASE t = s
    <2>1. ~GoesUp(m.from, m.to, t)
      BY <1>1, RootTurns, NetworksAreIDs DEF Message
    <2>2. CommitTopdownMsg(t, m)
      BY <2>1 DEF CommitCrossMessage, CommitUp, CommitTurn, CommitDown
    <2>3. SupplyBelow(s)' = SupplyBelow(s) + m.value
      BY <1>1, <2>2, QueueSupply
    <2>4. gateway_balance'[t] = gateway_balance[t] + paid - CrossMsgFee
      <3>1. Settle(t, paid, 0, CrossMsgFee)
        BY <2>1 DEF CrossMsgSideEffects
      <3>2. gateway_balance'[t] = gateway_balance[t] + paid - 0 - CrossMsgFee
        BY <3>1 DEF Settle, TypeInv, MoneyTyped
      <3>3. gateway_balance[t] + paid \in Int
        BY DEF TypeInv, MoneyTyped
      <3>4. QED
        BY <3>2, <3>3
    <2>5. QED
      BY <1>1, <2>3, <2>4
  <1>2. CASE t # s
    <2>1. gateway_balance'[s] = gateway_balance[s]
      BY <1>2 DEF CrossMsgSideEffects, Settle, TypeInv, MoneyTyped
    <2>2. CASE CommitTopdownMsg(t, m)
      BY <1>2, <2>1, <2>2, QueueSupply
    <2>3. CASE UNCHANGED subnets
      <3>1. \A d \in Children(s) : Supply(d)' = Supply(d)
        BY <2>3 DEF Supply, Registered
      <3>2. QED
        BY <1>2, <2>1, <3>1, SupplyStays
    <2>4. QED
      BY <2>2, <2>3 DEF CommitCrossMessage, CommitUp, CommitTurn, CommitDown
  <1>3. QED
    BY <1>1, <1>2

\* The value of a finite postbox.
LEMMA BoxedValue ==
  ASSUME TypeInv, NEW s \in Networks, IsFiniteSet(postbox[s])
  PROVE  ValueOf(Boxed(s)) \in Nat
  <1>1. IsFiniteSet(Boxed(s)) /\ \A m \in Boxed(s) : m.value \in Nat
    BY BoxedFinite
  <1>2. IsFiniteSet({}) /\ Boxed(s) \cap {} = {} /\ \A m \in Boxed(s) \union {} : m.value \in Nat
    BY <1>1, FS_EmptySet
  <1>3. QED
    BY <1>1, <1>2, ValueUnion

\* Messages that were not in a postbox add their value to it,
LEMMA BoxGrows ==
  ASSUME TypeInv, NEW s \in Networks, IsFiniteSet(postbox[s]), NEW msgs,
         postbox' = [postbox EXCEPT ![s] = @ \union InTransit(s, msgs)],
         NEW out, out = Transit(s, msgs), IsFiniteSet(out), Boxed(s) \cap out = {},
         \A x \in out : x \in Message
  PROVE  /\ Boxed(s)' = Boxed(s) \union out /\ ValueOf(Boxed(s)) \in Nat /\ ValueOf(out) \in Nat
         /\ ValueOf(Boxed(s) \union out) = ValueOf(Boxed(s)) + ValueOf(out)
         /\ \A d \in Networks : d # s => Boxed(d)' = Boxed(d)
  <1>1. postbox'[s] = postbox[s] \union InTransit(s, msgs)
    BY DEF TypeInv, PostboxTyped
  <1>2. {i.msg : i \in InTransit(s, msgs)} = out
    <2>1. InTransit(s, msgs) = {PostBoxItem(x, {x.sender}) : x \in out}
      BY DEF InTransit, Transit
    <2>2. \A x \in out : PostBoxItem(x, {x.sender}).msg = x
      BY DEF PostBoxItem
    <2>3. \A i \in InTransit(s, msgs) : i.msg \in out
      BY <2>1, <2>2
    <2>4. \A x \in out : \E i \in InTransit(s, msgs) : i.msg = x
      BY <2>1, <2>2
    <2>5. QED
      BY <2>3, <2>4
  <1>3. Boxed(s)' = Boxed(s) \union out
    BY <1>1, <1>2 DEF Boxed
  <1>4. IsFiniteSet(Boxed(s)) /\ \A x \in Boxed(s) : x.value \in Nat
    BY BoxedFinite
  <1>5. \A x \in Boxed(s) \union out : x.value \in Nat
    BY <1>4 DEF Message
  <1>6. \A d \in Networks : d # s => Boxed(d)' = Boxed(d)
    BY DEF Boxed, TypeInv, PostboxTyped
  <1>7. QED
    BY <1>3, <1>4, <1>5, <1>6, ValueUnion

\* and one that leaves takes its own along.
LEMMA BoxLoses ==
  ASSUME TypeInv, BoxInv, NEW s \in Networks, NEW i \in postbox[s],
         postbox' = [postbox EXCEPT ![s] = @ \ {i}]
  PROVE  /\ Boxed(s)' = Boxed(s) \ {i.msg} /\ ValueOf(Boxed(s) \ {i.msg}) \in Nat
         /\ ValueOf(Boxed(s)) = ValueOf(Boxed(s) \ {i.msg}) + i.msg.value
         /\ \A d \in Networks : d # s => Boxed(d)' = Boxed(d)
  <1>1. IsFiniteSet(postbox[s]) /\ \A x, y \in postbox[s] : x.msg = y.msg => x = y
    BY DEF BoxInv, BoxAt
  <1>2. postbox'[s] = postbox[s] \ {i}
    BY DEF TypeInv, PostboxTyped
  <1>3. i.msg \in Boxed(s) /\ Boxed(s)' = Boxed(s) \ {i.msg}
    BY <1>1, <1>2 DEF Boxed
  <1>4. IsFiniteSet(Boxed(s)) /\ \A x \in Boxed(s) : x.value \in Nat
    BY <1>1, BoxedFinite
  <1>5. \A d \in Networks : d # s => Boxed(d)' = Boxed(d)
    BY DEF Boxed, TypeInv, PostboxTyped
  <1>6. QED
    BY <1>3, <1>4, <1>5, ValueWithout

\* What a parent takes out of the supply of a child whose checkpoint it executes.
LEMMA ChildSupply ==
  ASSUME TypeInv, TypeInv', NEW c \in NonRoot, CommitChildCheck(c),
         NEW p, p = Parent(c),
         NEW k, k = subnets[c].prev_epoch + CheckPeriod,
         NEW ch, ch = CheckpointAt(c, k)
  PROVE  /\ p \in Networks /\ c \in Children(p) /\ Registered(c) /\ ch \in Checkpoint
         /\ Supply(c) \in Nat /\ SupplyBelow(p) \in Nat
         /\ Supply(c)' = Supply(c) - CheckpointValue(ch)
         /\ \A d \in NonRoot : d # c => Supply(d)' = Supply(d)
         /\ SupplyBelow(p)' = SupplyBelow(p) - Supply(c) + Supply(c)'
         /\ \A s \in Networks : s # p => SupplyBelow(s)' = SupplyBelow(s)
  <1>1. /\ p \in Networks /\ Registered(c) /\ ch \in Checkpoint /\ c \in Children(p)
    BY ChildCheckIs DEF Children
  <1>2. /\ subnets'[c].registered /\ subnets'[c].circ_supply = ReleaseSupply(c, ch)
        /\ \A d \in NonRoot : d # c => subnets'[d] = subnets[d]
    <2>1. CommitChildCheck(c) /\ c \in NonRoot /\ TypeInv
      OBVIOUS
    <2>2. QED
      BY ChildCheckWrites
  <1>3. \A d \in NonRoot : d # c => Supply(d)' = Supply(d)
    BY <1>2 DEF Supply, Registered
  <1>4. Supply(c)' = Supply(c) - CheckpointValue(ch)
    BY <1>1, <1>2 DEF Supply, Registered, ReleaseSupply
  <1>5. Supply(c) \in Nat /\ SupplyBelow(p) \in Nat
    BY <1>1, SupplyTyped DEF TypeInv
  <1>6. SupplyBelow(p)' = SupplyBelow(p) - Supply(c) + Supply(c)'
    <2>1. \A d \in Children(p) : d # c => Supply(d)' = Supply(d)
      BY <1>3 DEF Children
    <2>2. QED
      BY <1>1, <2>1, SupplyMoves DEF TypeInv
  <1>7. ASSUME NEW s \in Networks, s # p
        PROVE  SupplyBelow(s)' = SupplyBelow(s)
    <2>1. \A d \in Children(s) : Supply(d)' = Supply(d)
      BY <1>3, <1>7 DEF Children
    <2>2. QED
      BY <2>1, SupplyStays
  <1>8. QED
    BY <1>1, <1>3, <1>4, <1>5, <1>6, <1>7

\* A step that moves nothing at the root.
LEMMA BackedKept ==
  ASSUME RootBacked,
         \A s \in Networks : IsRoot(s) =>
           /\ gateway_balance'[s] = gateway_balance[s] /\ postbox'[s] = postbox[s]
           /\ \A c \in Children(s) : Supply(c)' = Supply(c)
  PROVE  RootBacked'
  <1> SUFFICES ASSUME NEW s \in Networks, IsRoot(s)
               PROVE  gateway_balance'[s] = SupplyBelow(s)' + ValueOf(Boxed(s)')
    BY DEF RootBacked, ValueOf, Total
  <1>1. SupplyBelow(s)' = SupplyBelow(s)
    BY SupplyStays
  <1>2. Boxed(s)' = Boxed(s)
    BY DEF Boxed
  <1>3. QED
    BY <1>1, <1>2 DEF RootBacked

\* fund, release and send_cross keep the root's books.
LEMMA SendingBacked ==
  ASSUME TypeInv, TypeInv', BoxInv, RootBacked, FundAny \/ ReleaseAny \/ SendCrossAny
  PROVE  RootBacked'
  <1>0. CrossMsgFee \in Nat
    BY AmountsAssumption
  \* At the root, the gateway and the supply below grow by the same value.
  <1>1. ASSUME NEW t \in Networks, NEW v \in Nat, UNCHANGED postbox,
               \A s \in Networks : IsRoot(s) =>
                 /\ t = s => /\ SupplyBelow(s)' = SupplyBelow(s) + v
                             /\ gateway_balance'[s] = gateway_balance[s] + v
                 /\ t # s => /\ SupplyBelow(s)' = SupplyBelow(s)
                             /\ gateway_balance'[s] = gateway_balance[s]
        PROVE  RootBacked'
    <2> SUFFICES ASSUME NEW s \in Networks, IsRoot(s)
                 PROVE  gateway_balance'[s] = SupplyBelow(s)' + ValueOf(Boxed(s)')
      BY DEF RootBacked, ValueOf, Total
    <2> DEFINE g == gateway_balance[s]
               b == SupplyBelow(s)
               x == ValueOf(Boxed(s))
    <2>1. g = b + x /\ g \in Nat /\ b \in Nat
      BY SupplyTyped DEF RootBacked, TypeInv, MoneyTyped
    <2>2. Boxed(s)' = Boxed(s)
      BY <1>1 DEF Boxed
    <2>3. CASE t # s
      BY <1>1, <2>1, <2>2, <2>3
    <2>4. CASE t = s
      <3>1. SupplyBelow(s)' = b + v /\ gateway_balance'[s] = g + v
        BY <1>1, <2>4
      <3>2. x \in Int => g + v = (b + v) + x
        <4> HIDE DEF g, b, x
        <4>1. QED
          BY <2>1
      <3>3. x \in Int
        <4>1. IsFiniteSet(postbox[s])
          BY DEF BoxInv, BoxAt
        <4>2. QED
          BY <4>1, BoxedValue
      <3>4. QED
        BY <2>2, <3>1, <3>2, <3>3
    <2>5. QED
      BY <2>3, <2>4
  <1>2. CASE FundAny
    <2>1. PICK r \in FundRoutes, a \in Senders, v \in Amounts : Fund(r[1], r[2], a, v)
      BY <1>2 DEF FundAny
    <2> DEFINE t == r[1]
               m == NewFundMsg(r[2], a, CollectCrossFee(v))
    <2>2. t \in Networks /\ r[2] \in NonRoot
      BY <2>1, RoutesAssumption DEF Fund, NonRoot
    <2>3. m \in Message /\ v \in Nat /\ CollectCrossFee(v) \in Nat
      BY <2>1, <2>2, SentMessages DEF Fund
    <2>4. m.value = v - CrossMsgFee
      BY DEF NewFundMsg, Msg, CollectCrossFee
    <2>5. CommitTopdownMsg(t, m) /\ Settle(t, v, 0, CrossMsgFee) /\ UNCHANGED <<postbox, carried>>
      BY <2>1 DEF Fund, Sends
    <2>6. m.value \in Nat
      BY <2>3 DEF Message
    <2> HIDE DEF m, t
    <2>7. \A s \in Networks : t # s => gateway_balance'[s] = gateway_balance[s]
      BY <2>2, <2>5 DEF Settle, TypeInv, MoneyTyped
    <2>8. gateway_balance'[t] = gateway_balance[t] + m.value
      <3>1. gateway_balance'[t] = gateway_balance[t] + v - 0 - CrossMsgFee
        BY <2>2, <2>5 DEF Settle, TypeInv, MoneyTyped
      <3>2. gateway_balance[t] \in Nat
        BY <2>2 DEF TypeInv, MoneyTyped
      <3>3. QED
        BY <1>0, <2>3, <2>4, <3>1, <3>2
    <2>9. \A s \in Networks : /\ t = s => SupplyBelow(s)' = SupplyBelow(s) + m.value
                             /\ t # s => SupplyBelow(s)' = SupplyBelow(s)
      BY <2>2, <2>3, <2>5, QueueSupply
    <2> DEFINE val == m.value
    <2>10. val \in Nat /\ \A s \in Networks : IsRoot(s) =>
             /\ t = s => /\ SupplyBelow(s)' = SupplyBelow(s) + val
                         /\ gateway_balance'[s] = gateway_balance[s] + val
             /\ t # s => /\ SupplyBelow(s)' = SupplyBelow(s)
                         /\ gateway_balance'[s] = gateway_balance[s]
      <3>1. \A s \in Networks : t = s => gateway_balance'[s] = gateway_balance[s] + m.value
        BY <2>8
      <3>2. ASSUME NEW s \in Networks
            PROVE  /\ t = s => /\ SupplyBelow(s)' = SupplyBelow(s) + m.value
                               /\ gateway_balance'[s] = gateway_balance[s] + m.value
                   /\ t # s => /\ SupplyBelow(s)' = SupplyBelow(s)
                               /\ gateway_balance'[s] = gateway_balance[s]
        BY <2>2, <2>3, <2>5, <2>7, <3>1, QueueSupply
      <3>3. QED
        BY <2>6, <3>2
    <2> HIDE DEF val
    <2>11. QED
      BY <1>1, <2>2, <2>5, <2>10
  <1>3. CASE ReleaseAny
    <2>1. PICK t \in Releasing, a \in Senders, v \in Amounts : Release(t, a, v)
      BY <1>3 DEF ReleaseAny
    <2>2. t \in NonRoot
      BY RoutesAssumption
    <2>3. /\ \A s \in Networks : t # s => gateway_balance'[s] = gateway_balance[s]
          /\ UNCHANGED <<subnets, postbox>>
      BY <2>1 DEF Release, Settle, Sends, TypeInv, MoneyTyped
    <2>4. \A s \in Networks : IsRoot(s) =>
            /\ gateway_balance'[s] = gateway_balance[s] /\ postbox'[s] = postbox[s]
            /\ \A c \in Children(s) : Supply(c)' = Supply(c)
      BY <2>2, <2>3 DEF NonRoot, Supply, Registered
    <2>5. QED
      BY <2>4, BackedKept
  <1>4. CASE SendCrossAny
    <2>1. PICK r \in SendRoutes, a \in Senders, v \in Amounts, p \in Payloads :
            SendCross(r[1], r[2], a, v, p)
      BY <1>4 DEF SendCrossAny
    <2> DEFINE t == r[1]
               m == Msg(t, r[2], a, CollectCrossFee(v), p)
    <2>2. t \in Networks /\ r[2] \in Destinations
      BY RoutesAssumption DEF Destinations
    <2>3. m \in Message /\ v \in Nat
      BY <2>1, <2>2, SentMessages DEF SendCross
    <2>4. m.value = v - CrossMsgFee
      BY DEF Msg, CollectCrossFee
    <2>5. /\ CommitCrossMessage(t, m, CrossMsgFee) /\ CrossMsgSideEffects(t, m, v, CrossMsgFee)
          /\ UNCHANGED <<postbox, carried>>
      BY <2>1 DEF SendCross, Sends
    <2>6. m.value \in Nat
      BY <2>3 DEF Message
    <2> HIDE DEF m, t
    <2> DEFINE val == m.value
    <2>7. \A s \in Networks : IsRoot(s) =>
             /\ t = s => /\ SupplyBelow(s)' = SupplyBelow(s) + val
                         /\ gateway_balance'[s] = gateway_balance[s] + v - CrossMsgFee
             /\ t # s => /\ SupplyBelow(s)' = SupplyBelow(s)
                         /\ gateway_balance'[s] = gateway_balance[s]
      BY <2>2, <2>3, <2>5, LeavingBacked
    <2>8. val \in Nat /\ val = v - CrossMsgFee
      BY <2>4, <2>6
    <2> HIDE DEF val
    <2>9. gateway_balance[t] + v - CrossMsgFee = gateway_balance[t] + val
      <3>1. gateway_balance[t] \in Nat
        BY <2>2 DEF TypeInv, MoneyTyped
      <3>2. QED
        BY <1>0, <2>3, <2>8, <3>1
    <2>10. QED
      BY <1>1, <2>2, <2>5, <2>7, <2>8, <2>9
  <1>5. QED
    BY <1>2, <1>3, <1>4

\* propagate takes a message out of the root's postbox and adds its value to the supply
\* below.
LEMMA PropagateBacked ==
  ASSUME TypeInv, TypeInv', BoxInv, RootBacked, NEW t \in Networks, PropagateAny(t)
  PROVE  RootBacked'
  <1>1. PICK i \in postbox[t], o \in Accounts : Propagate(t, i, o)
    BY DEF PropagateAny
  <1> DEFINE m == i.msg
  <1>2. m \in Message /\ m.value \in Nat /\ CrossMsgFee \in Nat
    BY AmountsAssumption DEF TypeInv, PostboxTyped, Item, Message
  <1>3. /\ CommitCrossMessage(t, m, CrossMsgFee)
        /\ CrossMsgSideEffects(t, m, CrossMsgFee, CrossMsgFee)
        /\ postbox' = [postbox EXCEPT ![t] = @ \ {i}] /\ UNCHANGED carried
    BY <1>1 DEF Propagate
  <1> SUFFICES ASSUME NEW s \in Networks, IsRoot(s)
               PROVE  gateway_balance'[s] = SupplyBelow(s)' + ValueOf(Boxed(s)')
    BY DEF RootBacked, ValueOf, Total
  <1>4. /\ t = s => /\ SupplyBelow(s)' = SupplyBelow(s) + m.value
                    /\ gateway_balance'[s] = gateway_balance[s] + CrossMsgFee - CrossMsgFee
        /\ t # s => /\ SupplyBelow(s)' = SupplyBelow(s)
                    /\ gateway_balance'[s] = gateway_balance[s]
    <2> HIDE DEF m
    <2>1. QED
      BY <1>2, <1>3, LeavingBacked
  <1>5. gateway_balance[s] = SupplyBelow(s) + ValueOf(Boxed(s))
    BY DEF RootBacked
  <1>6. gateway_balance[s] \in Nat /\ SupplyBelow(s) \in Nat
    BY SupplyTyped DEF TypeInv, MoneyTyped
  <1>7. CASE t # s
    <2>1. postbox'[s] = postbox[s]
      BY <1>3, <1>7 DEF TypeInv, PostboxTyped
    <2>2. Boxed(s)' = Boxed(s)
      BY <2>1 DEF Boxed
    <2>3. QED
      BY <1>4, <1>5, <1>7, <2>2
  <1>8. CASE t = s
    <2> DEFINE left == Boxed(s) \ {m}
    <2>1. /\ Boxed(s)' = left /\ ValueOf(left) \in Nat
          /\ ValueOf(Boxed(s)) = ValueOf(left) + m.value
      <3>1. i \in postbox[s] /\ postbox' = [postbox EXCEPT ![s] = @ \ {i}]
        BY <1>3, <1>8
      <3>2. /\ Boxed(s)' = Boxed(s) \ {i.msg} /\ ValueOf(Boxed(s) \ {i.msg}) \in Nat
            /\ ValueOf(Boxed(s)) = ValueOf(Boxed(s) \ {i.msg}) + i.msg.value
            /\ \A d \in Networks : d # s => Boxed(d)' = Boxed(d)
        BY <3>1, BoxLoses
      <3>3. QED
        BY <3>2
    <2> DEFINE g == gateway_balance[s]
               b == SupplyBelow(s)
               x == ValueOf(left)
               v == m.value
    <2>2. g = b + (x + v) /\ g \in Nat /\ b \in Nat /\ x \in Nat /\ v \in Nat
      BY <1>2, <1>5, <1>6, <2>1
    <2>3. gateway_balance'[s] = g + CrossMsgFee - CrossMsgFee /\ SupplyBelow(s)' = b + v
      BY <1>4, <1>8
    <2> HIDE DEF g, b, x, v
    <2>4. gateway_balance'[s] = (b + v) + x
      BY <1>2, <2>2, <2>3
    <2>5. QED
      BY <2>1, <2>3, <2>4 DEF x
  <1>9. QED
    BY <1>7, <1>8

\* Executing a child's checkpoint, the root releases from the supply what it pays out and
\* what it puts into the postbox.
LEMMA ReleaseBacked ==
  ASSUME TypeInv, TypeInv', RouteInv, BoxInv, RootBacked, NEW c \in NonRoot, CommitChildCheck(c),
         NEW p, p = Parent(c), IsRoot(p),
         NEW k, k = subnets[c].prev_epoch + CheckPeriod,
         NEW ch, ch = CheckpointAt(c, k),
         NEW out, out = Transit(p, ch.msgs)
  PROVE  RootBacked'
  <1> DEFINE own == TotalValue(Own(p, ch.msgs))
             fee == ch.fee
  <1>1. /\ p \in Networks /\ Apply(p, ch.msgs, ch.fee)
        /\ Registered(c) /\ ch \in Checkpoint /\ fee \in Nat
    BY ChildCheckIs DEF Checkpoint
  <1>2. /\ postbox' = [postbox EXCEPT ![p] = @ \union InTransit(p, ch.msgs)]
        /\ IsFiniteSet(out) /\ Boxed(p) \cap out = {}
        /\ \A x \in out : x \in Message
        /\ own \in Nat /\ TotalValue(ch.msgs) = own + ValueOf(out)
    <2>1. /\ p \in Networks /\ c \in Children(p)
          /\ postbox' = [postbox EXCEPT ![p] = @ \union InTransit(p, ch.msgs)]
          /\ IsFiniteSet(out) /\ Boxed(p) \cap out = {}
          /\ \A x \in out : /\ x \in Message /\ CameFrom(c, x)
                            /\ k \in DOMAIN bottomup_checkpoints[c] /\ x \in Within(c, k)
          /\ TotalValue(Own(p, ch.msgs)) \in Nat /\ ValueOf(out) \in Nat
          /\ TotalValue(ch.msgs) = TotalValue(Own(p, ch.msgs)) + ValueOf(out)
          /\ k > subnets[c].prev_epoch
      BY ChildTaken
    <2>2. QED
      BY <2>1
  <1>3. /\ Boxed(p)' = Boxed(p) \union out /\ ValueOf(Boxed(p)) \in Nat /\ ValueOf(out) \in Nat
        /\ ValueOf(Boxed(p) \union out) = ValueOf(Boxed(p)) + ValueOf(out)
    <2>1. IsFiniteSet(postbox[p])
      BY <1>1 DEF BoxInv, BoxAt
    <2> DEFINE msgs == ch.msgs
    <2>2. /\ postbox' = [postbox EXCEPT ![p] = @ \union InTransit(p, msgs)]
          /\ out = Transit(p, msgs)
      BY <1>2
    <2> HIDE DEF msgs
    <2>3. QED
      BY <1>1, <1>2, <2>1, <2>2, BoxGrows
  <1>4. /\ Supply(c) \in Nat /\ SupplyBelow(p) \in Nat
        /\ Supply(c)' = Supply(c) - CheckpointValue(ch)
        /\ SupplyBelow(p)' = SupplyBelow(p) - Supply(c) + Supply(c)'
    BY ChildSupply
  <1>5. gateway_balance'[p] = gateway_balance[p] + 0 - 0 - (own + fee)
    BY <1>1 DEF Apply, Settle, TypeInv, MoneyTyped
  <1>6. /\ gateway_balance[p] = SupplyBelow(p) + ValueOf(Boxed(p))
        /\ gateway_balance[p] \in Nat
    BY <1>1 DEF RootBacked, TypeInv, MoneyTyped
  <1> DEFINE g == gateway_balance[p]
             b == SupplyBelow(p)
             a == Supply(c)
             x == ValueOf(Boxed(p))
             y == ValueOf(out)
             bn == SupplyBelow(p)'
  <1>7. /\ g = b + x /\ bn = b - a + (a - ((own + y) + fee))
        /\ gateway_balance'[p] = g + 0 - 0 - (own + fee)
    BY <1>2, <1>4, <1>5, <1>6 DEF CheckpointValue
  <1>8. /\ g \in Nat /\ b \in Nat /\ a \in Nat /\ x \in Nat /\ y \in Nat /\ own \in Nat
        /\ fee \in Nat
    BY <1>1, <1>2, <1>3, <1>4, <1>6
  <1>9. ValueOf(Boxed(p)') = x + y
    BY <1>3
  <1> HIDE DEF g, b, a, x, y, own, fee, bn
  <1>10. gateway_balance'[p] = bn + (x + y)
    BY <1>7, <1>8
  <1>11. gateway_balance'[p] = SupplyBelow(p)' + ValueOf(Boxed(p)')
    BY <1>9, <1>10 DEF bn
  <1>12. \A s \in Networks : IsRoot(s) => s = p
    BY <1>1, OneRoot
  <1>13. QED
    BY <1>11, <1>12 DEF RootBacked, ValueOf, Total

\* Every step keeps the root's books.
LEMMA NextBacked ==
  ASSUME TypeInv, TypeInv', RouteInv, BoxInv, RootBacked, [Next]_vars
  PROVE  RootBacked'
  <1> DEFINE Same == \A s \in Networks : IsRoot(s) =>
               /\ gateway_balance'[s] = gateway_balance[s] /\ postbox'[s] = postbox[s]
               /\ \A c \in Children(s) : Supply(c)' = Supply(c)
  <1>1. CASE FundAny \/ ReleaseAny \/ SendCrossAny
    BY <1>1, SendingBacked
  <1>2. CASE \E s \in Networks : PropagateAny(s)
    BY <1>2, PropagateBacked
  <1>3. CASE \E c \in NonRoot : CommitChildCheck(c)
    <2>1. PICK c \in NonRoot : CommitChildCheck(c)
      BY <1>3
    <2>2. CASE IsRoot(Parent(c))
      BY <2>1, <2>2, ReleaseBacked
    <2>3. CASE ~IsRoot(Parent(c))
      <3>1. \A d \in NonRoot : d # c => subnets'[d] = subnets[d]
        BY <2>1 DEF CommitChildCheck, TypeInv, SubnetsTyped
      <3>2. \A s \in Networks : s # Parent(c) => /\ gateway_balance'[s] = gateway_balance[s]
                                                /\ postbox'[s] = postbox[s]
        BY <2>1 DEF CommitChildCheck, Apply, Settle, TypeInv, MoneyTyped, PostboxTyped
      <3>3. Same
        BY <2>3, <3>1, <3>2 DEF Children, Supply, Registered
      <3>4. QED
        BY <3>3, BackedKept
    <2>4. QED
      BY <2>2, <2>3
  <1>4. CASE \E s \in Networks : WhitelistAny(s)
    <2>1. PICK t \in Networks : WhitelistAny(t)
      BY <1>4
    <2>2. PICK i \in postbox[t], o \in Accounts, added \in Accounts :
            WhitelistPropagator(t, i, o, added)
      BY <2>1 DEF WhitelistAny
    <2> DEFINE new == PostBoxItem(i.msg, i.owners \union {added})
    <2>3. /\ postbox'[t] = (postbox[t] \ {i}) \union {new} /\ new.msg = i.msg
          /\ \A s \in Networks : s # t => postbox'[s] = postbox[s]
          /\ UNCHANGED <<subnets, gateway_balance>>
      BY <2>2 DEF WhitelistPropagator, SwapPostboxItem, money, TypeInv, PostboxTyped, PostBoxItem
    <2> HIDE DEF new
    <2>4. ASSUME NEW s \in Networks
          PROVE  Boxed(s)' = Boxed(s)
      BY <2>3 DEF Boxed
    <2>5. \A s \in Networks : SupplyBelow(s)' = SupplyBelow(s)
      BY <2>3 DEF SupplyBelow, Supply, Registered, Children, Total
    <2>6. ASSUME NEW s \in Networks, IsRoot(s)
          PROVE  gateway_balance'[s] = SupplyBelow(s)' + ValueOf(Boxed(s)')
      BY <2>3, <2>4, <2>5, <2>6 DEF RootBacked
    <2>7. QED
      BY <2>6 DEF RootBacked, ValueOf, Total
  <1>5. CASE \E c \in NonRoot : ExecuteTopdownAny(c)
    <2>1. PICK c \in NonRoot : ExecuteTopdownAny(c)
      BY <1>5
    <2>2. /\ \A s \in Networks : s # c => /\ gateway_balance'[s] = gateway_balance[s]
                                          /\ postbox'[s] = postbox[s]
          /\ UNCHANGED subnets
      BY <2>1 DEF ExecuteTopdownAny, ExecuteTopdown, Apply, Settle, TypeInv, MoneyTyped, PostboxTyped
    <2>3. Same
      BY <2>2 DEF NonRoot, Supply, Registered
    <2>4. QED
      BY <2>3, BackedKept
  <1>6. CASE \E c \in NonRoot : SetMembership(c)
    <2>1. PICK c \in NonRoot : SetMembership(c)
      BY <1>6
    <2>2. /\ \A s \in Networks : s # c => gateway_balance'[s] = gateway_balance[s]
          /\ UNCHANGED <<subnets, postbox>>
      BY <2>1 DEF SetMembership, Settle, TypeInv, MoneyTyped
    <2>3. Same
      BY <2>2 DEF NonRoot, Supply, Registered
    <2>4. QED
      BY <2>3, BackedKept
  <1>7. CASE \E c \in Killable : Kill(c)
    <2>1. PICK c \in Killable : Kill(c)
      BY <1>7
    <2>2. /\ Registered(c) /\ subnets[c].circ_supply = 0
          /\ subnets' = [subnets EXCEPT ![c] = NotRegistered]
          /\ UNCHANGED <<gateway_balance, postbox>>
      BY <2>1 DEF Kill, money
    <2>3. \A d \in NonRoot : Supply(d)' = Supply(d)
      <3>1. \A d \in NonRoot : d # c => subnets'[d] = subnets[d]
        BY <2>2 DEF TypeInv, SubnetsTyped
      <3>2. c \in NonRoot => subnets'[c] = NotRegistered
        BY <2>2 DEF TypeInv, SubnetsTyped
      <3>3. QED
        BY <2>2, <3>1, <3>2 DEF Supply, Registered, NotRegistered
    <2>4. Same
      BY <2>2, <2>3 DEF Children
    <2>5. QED
      BY <2>4, BackedKept
  <1>8. CASE (\E s \in Networks : Tick(s)) \/ UNCHANGED vars
    <2>1. UNCHANGED <<subnets, postbox, gateway_balance>>
      BY <1>8 DEF Tick, vars, money
    <2>2. Same
      BY <2>1 DEF Supply, Registered
    <2>3. QED
      BY <2>2, BackedKept
  <1>9. QED
    BY <1>1, <1>2, <1>3, <1>4, <1>5, <1>6, <1>7, <1>8 DEF Next

\* What the sums below rest on: a chain gives each nonce out once, a queue numbers its
\* messages, and nothing comes into a postbox twice.
OnceInv == Numbered /\ QueueNumbered /\ BoxInv

\* In every behaviour a message has one place in each network, and its number there.
LEMMA OnceInvHolds == Spec => []OnceInv
  <1>1. Init => OnceInv
    <2> SUFFICES ASSUME Init PROVE OnceInv
      OBVIOUS
    <2>1. Numbered
      BY DEF Init, Numbered
    <2>2. BoxInv
      <3>1. \A s \in Networks : postbox[s] = {}
        BY DEF Init
      <3>2. QED
        BY <3>1, FS_EmptySet DEF BoxInv, BoxAt
    <2>3. QueueNumbered
      <3> SUFFICES ASSUME NEW c \in NonRoot, NEW n \in DOMAIN subnets[c].top_down_msgs
                   PROVE  subnets[c].top_down_msgs[n].nonce = n
        BY DEF QueueNumbered
      <3>1. /\ n \in IF Endowment[c] > 0 THEN {0} ELSE {}
            /\ subnets[c].top_down_msgs[n]
                 = NewFundMsg(c, CHOOSE a \in Accounts : TRUE, Endowment[c])
        BY DEF Init
      <3>2. n = 0
        BY <3>1
      <3>3. QED
        BY <3>1, <3>2 DEF NewFundMsg, Msg
    <2>4. QED
      BY <2>1, <2>2, <2>3 DEF OnceInv
  <1>2. TypeInv /\ RouteInv /\ TypeInv' /\ OnceInv /\ [Next]_vars => OnceInv'
    BY NextNumbered, NextQueueNumbered, NextBox DEF OnceInv
  <1>3. QED
    BY <1>1, <1>2, RouteInvHolds, PTL DEF Spec

\* Nothing is worth nothing, and at first the supplies are the endowments.
LEMMA NothingWorth == ValueOf({}) = 0
  <1> DEFINE f == [m \in {} |-> 0]
  <1>1. ValueOf({}) = SumFunction([m \in {} |-> m.value])
    BY DEF ValueOf, Total
  <1>2. [m \in {} |-> m.value] = f
    OBVIOUS
  <1>3. SumFunction(f) = 0
    BY FS_EmptySet, LedgerZero
  <1>4. QED
    BY <1>1, <1>2, <1>3

\* An empty postbox holds no value.
LEMMA NothingBoxed ==
  ASSUME NEW s \in Networks, postbox = [t \in Networks |-> {}]
  PROVE  ValueOf(Boxed(s)) = 0
  <1>1. Boxed(s) = {}
    BY DEF Boxed
  <1>2. QED
    BY <1>1, NothingWorth

\* At the start the supplies below a network are the endowments of its children.
LEMMA InitSupply ==
  ASSUME Init, NEW s \in Networks
  PROVE  SupplyBelow(s) = EndowedBelow(s)
  <1>1. \A c \in Children(s) : Supply(c) = Endowment[c]
    BY DEF Init, Supply, Registered, Children
  <1>2. QED
    BY <1>1 DEF SupplyBelow, EndowedBelow, Total

\* The gateway of the root holds exactly what its subnets may still release, together with
\* what waits in its postbox: funds, sends, the messages it passes on and the checkpoints
\* it executes keep the balance and the circulating supplies of the children in step,
\* however deep the tree is and whatever is killed.
THEOREM RootIsBacked == Spec => []RootBacked
  <1>1. Init => RootBacked
    <2> SUFFICES ASSUME Init, NEW s \in Networks, IsRoot(s)
                 PROVE  gateway_balance[s] = SupplyBelow(s) + ValueOf(Boxed(s))
      BY DEF RootBacked
    <2>1. gateway_balance[s] = EndowedBelow(s)
      BY DEF Init
    <2>2. SupplyBelow(s) = EndowedBelow(s)
      BY InitSupply
    <2>3. ValueOf(Boxed(s)) = 0
      BY NothingBoxed DEF Init
    <2>4. EndowedBelow(s) \in Nat
      BY EndowmentType
    <2>5. QED
      BY <2>1, <2>2, <2>3, <2>4
  <1>2. TypeInv /\ RouteInv /\ OnceInv /\ TypeInv' /\ RootBacked /\ [Next]_vars => RootBacked'
    BY NextBacked DEF OnceInv
  <1>3. QED
    BY <1>1, <1>2, RouteInvHolds, OnceInvHolds, PTL DEF Spec

-----------------------------------------------------------------------------
(* What is below a subnet. *)

\* What the checkpoints in a log list, what of a chain's log the log of its parent does
\* not list yet, and what that is worth.
ListedIn(log) == UNION {Range(log[k].children) : k \in DOMAIN log}
OpenIn(c, log, up) == {k \in DOMAIN log : <<c, k>> \notin ListedIn(up)}
PendingIn(c, log, up) == Total([k \in OpenIn(c, log, up) |-> CheckpointValue(log[k])])
Pending(c) == PendingIn(c, bottomup_checkpoints[c], bottomup_checkpoints[Parent(c)])

\* The pending value is that of the checkpoints the parent has still to commit.
LEMMA PendingIs ==
  ASSUME NEW c \in NonRoot
  PROVE  Total([k \in Uncommitted(c) |-> CheckpointValue(bottomup_checkpoints[c][k])])
           = Pending(c)
  <1>1. Uncommitted(c) = OpenIn(c, bottomup_checkpoints[c], bottomup_checkpoints[Parent(c)])
    <2>1. ~IsRoot(c)
      BY DEF NonRoot
    <2>2. ASSUME NEW k
          PROVE  (\A ch \in Range(bottomup_checkpoints[Parent(c)]) : <<c, k>> \notin Range(ch.children))
                   <=> <<c, k>> \notin ListedIn(bottomup_checkpoints[Parent(c)])
      BY DEF ListedIn, Range
    <2>3. QED
      BY <2>1, <2>2 DEF Uncommitted, OpenIn
  <1>2. QED
    BY <1>1 DEF Pending, PendingIn

\* A checkpoint is worth a natural number, an empty one nothing.
LEMMA CheckpointWorth ==
  /\ \A ch \in Checkpoint : CheckpointValue(ch) \in Nat
  /\ CheckpointValue(EmptyCheckpoint) = 0
  <1>1. ASSUME NEW ch \in Checkpoint PROVE CheckpointValue(ch) \in Nat
    <2>1. TotalValue(ch.msgs) \in Nat
      BY ValueType DEF Checkpoint, Message
    <2>2. QED
      BY <2>1 DEF CheckpointValue, Checkpoint
  <1>2. CheckpointValue(EmptyCheckpoint) = 0
    BY NoValue DEF CheckpointValue, EmptyCheckpoint
  <1>3. QED
    BY <1>1, <1>2

\* What is pending is finite.
LEMMA PendingTyped ==
  ASSUME NEW c, NEW log, WindowLog(log), NEW up
  PROVE  PendingIn(c, log, up) \in Nat
  <1> DEFINE S == OpenIn(c, log, up)
             f == [k \in S |-> CheckpointValue(log[k])]
  <1>1. IsFiniteSet(S)
    BY FS_Subset DEF OpenIn, WindowLog
  <1>2. f \in [S -> Nat]
    BY CheckpointWorth DEF OpenIn, WindowLog
  <1>3. SumFunction(f) \in Nat
    BY <1>1, <1>2, LedgerTotal
  <1>4. QED
    BY <1>3 DEF PendingIn, Total

\* A checkpoint that is not listed grows by a value, in a window that may be new.
LEMMA PendingGrows ==
  ASSUME NEW old, WindowLog(old), NEW new, WindowLog(new), NEW w, NEW v \in Nat,
         DOMAIN new = DOMAIN old \union {w},
         \A k \in DOMAIN old : k # w => new[k] = old[k],
         NEW was, was = IF w \in DOMAIN old THEN old[w] ELSE EmptyCheckpoint,
         CheckpointValue(new[w]) = CheckpointValue(was) + v,
         NEW c, NEW up, <<c, w>> \notin ListedIn(up)
  PROVE  PendingIn(c, new, up) = PendingIn(c, old, up) + v
  <1> DEFINE S == OpenIn(c, old, up)
             T == OpenIn(c, new, up)
             f == [k \in S |-> CheckpointValue(old[k])]
             g == [k \in T |-> CheckpointValue(new[k])]
  <1>1. IsFiniteSet(S) /\ T = S \union {w} /\ (w \in S <=> w \in DOMAIN old)
    BY FS_Subset DEF OpenIn, WindowLog
  <1>2. f \in [S -> Nat] /\ g \in [T -> Nat]
    BY CheckpointWorth DEF OpenIn, WindowLog
  <1>3. \A k \in S : k # w => g[k] = f[k]
    BY <1>1 DEF OpenIn
  <1>4. g[w] = (IF w \in S THEN f[w] ELSE 0) + v
    <2>1. g[w] = CheckpointValue(was) + v
      BY <1>1
    <2>2. w \in S => f[w] = CheckpointValue(was)
      BY <1>1
    <2>3. w \notin S => CheckpointValue(was) = 0
      BY <1>1, CheckpointWorth
    <2>4. QED
      BY <2>1, <2>2, <2>3
  <1>5. PendingIn(c, new, up) = SumFunction(g) /\ PendingIn(c, old, up) = SumFunction(f)
    BY DEF PendingIn, Total
  <1> HIDE DEF f, g, S, T
  <1>6. /\ SumFunction(f) \in Nat /\ SumFunction(g) \in Nat
        /\ SumFunction(g) = SumFunction(f) + v
    BY <1>1, <1>2, <1>3, <1>4, LedgerPut
  <1>7. QED
    BY <1>5, <1>6

\* A checkpoint is listed.
LEMMA PendingFalls ==
  ASSUME NEW c, NEW log, WindowLog(log), NEW k, NEW up, NEW up2,
         ListedIn(up2) = ListedIn(up) \union {<<c, k>>}, <<c, k>> \notin ListedIn(up),
         NEW ch, ch = IF k \in DOMAIN log THEN log[k] ELSE EmptyCheckpoint
  PROVE  PendingIn(c, log, up) = PendingIn(c, log, up2) + CheckpointValue(ch)
  <1> DEFINE S == OpenIn(c, log, up)
             T == OpenIn(c, log, up2)
             f == [l \in S |-> CheckpointValue(log[l])]
             g == [l \in T |-> CheckpointValue(log[l])]
  <1>1. IsFiniteSet(S) /\ T = S \ {k} /\ (k \in S <=> k \in DOMAIN log)
    BY FS_Subset DEF OpenIn, WindowLog
  <1>2. f \in [S -> Nat] /\ g \in [T -> Nat]
    BY CheckpointWorth DEF OpenIn, WindowLog
  <1>3. \A l \in T : g[l] = f[l]
    BY <1>1
  <1>4. CheckpointValue(ch) = IF k \in S THEN f[k] ELSE 0
    BY <1>1, CheckpointWorth
  <1>5. PendingIn(c, log, up2) = SumFunction(g) /\ PendingIn(c, log, up) = SumFunction(f)
    BY DEF PendingIn, Total
  <1> HIDE DEF f, g, S, T
  <1>6. CASE k \in S
    <2>1. k \notin T /\ S = T \union {k} /\ IsFiniteSet(S) /\ CheckpointValue(ch) = f[k]
      BY <1>1, <1>4, <1>6
    <2>2. /\ SumFunction(f) \in Nat /\ SumFunction(g) \in Nat
          /\ SumFunction(f) = SumFunction(g) + f[k]
      BY <1>2, <1>3, <1>6, <2>1, LedgerDrop
    <2>3. QED
      BY <1>5, <2>1, <2>2
  <1>7. CASE k \notin S
    <2>1. T = S /\ CheckpointValue(ch) = 0
      BY <1>1, <1>4, <1>7
    <2>2. f = g
      BY <1>2, <1>3, <2>1
    <2>3. SumFunction(f) \in Nat
      BY <1>1, <1>2, LedgerTotal
    <2>4. QED
      BY <1>5, <2>1, <2>2, <2>3
  <1>8. QED
    BY <1>6, <1>7

\* What the parent lists of other chains does not matter.
LEMMA PendingStays ==
  ASSUME NEW c, NEW log, NEW up, NEW up2,
         \A k : <<c, k>> \in ListedIn(up2) <=> <<c, k>> \in ListedIn(up)
  PROVE  PendingIn(c, log, up2) = PendingIn(c, log, up)
  <1>1. OpenIn(c, log, up2) = OpenIn(c, log, up)
    BY DEF OpenIn
  <1>2. QED
    BY <1>1 DEF PendingIn

\* A window is over after the epochs it is made of, and a frozen checkpoint is not ahead
\* of its chain.
LEMMA WindowAhead ==
  ASSUME NEW e \in Nat
  PROVE  WindowEpoch(e) > e /\ CheckpointEpoch(e) <= e /\ WindowEpoch(e) \in Int
  <1> DEFINE P == CheckPeriod
             q == e \div P
  <1>1. P \in Nat /\ P > 0
    BY PeriodAssumption
  <1>2. q \in Int /\ P * q <= e /\ e < P * q + P
    BY <1>1
  <1>3. P * (q + 1) = P * q + P /\ P * q \in Int
    BY <1>1, <1>2
  <1> HIDE DEF q
  <1>4. P * (q + 1) > e /\ P * q <= e /\ P * (q + 1) \in Int
    BY <1>1, <1>2, <1>3
  <1>5. QED
    BY <1>4 DEF WindowEpoch, CheckpointEpoch, q

\* What the checkpoints of a log list, when one of them changes.
LEMMA ListedPut ==
  ASSUME NEW old, NEW new, NEW w,
         DOMAIN new = DOMAIN old \union {w},
         \A k \in DOMAIN old : k # w => new[k] = old[k],
         NEW was, was = IF w \in DOMAIN old THEN old[w] ELSE EmptyCheckpoint,
         Range(was.children) \subseteq Range(new[w].children)
  PROVE  /\ ListedIn(new) = ListedIn(old) \union Range(new[w].children)
         /\ Range(was.children) \subseteq ListedIn(old)
  <1>1. ASSUME NEW x \in ListedIn(new) PROVE x \in ListedIn(old) \union Range(new[w].children)
    <2>1. PICK k \in DOMAIN new : x \in Range(new[k].children)
      BY DEF ListedIn
    <2>2. CASE k # w
      BY <2>1, <2>2 DEF ListedIn
    <2>3. QED
      BY <2>1, <2>2
  <1>2. ASSUME NEW x \in ListedIn(old) PROVE x \in ListedIn(new)
    <2>1. PICK k \in DOMAIN old : x \in Range(old[k].children)
      BY DEF ListedIn
    <2>2. x \in Range(new[k].children)
      BY <2>1
    <2>3. QED
      BY <2>1, <2>2 DEF ListedIn
  <1>3. Range(new[w].children) \subseteq ListedIn(new)
    BY DEF ListedIn
  <1>4. Range(was.children) \subseteq ListedIn(old)
    <2>1. CASE w \in DOMAIN old
      BY <2>1 DEF ListedIn
    <2>2. CASE w \notin DOMAIN old
      BY <2>2 DEF EmptyCheckpoint, Range
    <2>3. QED
      BY <2>1, <2>2
  <1>5. QED
    BY <1>1, <1>2, <1>3, <1>4

\* A message put into a checkpoint leaves what is listed alone.
LEMMA ListedKept ==
  ASSUME BottomUpTyped, NEW s \in Networks, NEW m \in Message, NEW fee \in Nat,
         CommitBottomupMsg(s, m, fee)
  PROVE  \A t \in Networks :
           ListedIn(bottomup_checkpoints'[t]) = ListedIn(bottomup_checkpoints[t])
  <1> DEFINE w == WindowEpoch(epoch[s])
             x == [m EXCEPT !.nonce = bottomup_nonce[s]]
             old == bottomup_checkpoints[s]
             new == bottomup_checkpoints'[s]
             was == CheckpointAt(s, w)
  <1> HIDE DEF w, x
  <1>1. /\ BottomUpTyped' /\ x \in Message
        /\ \A t \in Networks : t # s => bottomup_checkpoints'[t] = bottomup_checkpoints[t]
        /\ DOMAIN new = DOMAIN old \union {w}
        /\ new[w].msgs = Append(was.msgs, x)
        /\ new[w].fee = was.fee + fee
        /\ new[w].children = was.children
        /\ \A k \in DOMAIN old : k # w => new[k] = old[k]
    BY CommitBottomupIs DEF w, x
  <1>2. was = IF w \in DOMAIN old THEN old[w] ELSE EmptyCheckpoint
    BY DEF CheckpointAt
  <1>3. Range(was.children) \subseteq Range(new[w].children)
    BY <1>1
  <1>4. /\ DOMAIN new = DOMAIN old \union {w}
        /\ \A k \in DOMAIN old : k # w => new[k] = old[k]
    BY <1>1
  <1> HIDE DEF was, old, new
  <1>5. /\ ListedIn(new) = ListedIn(old) \union Range(new[w].children)
        /\ Range(was.children) \subseteq ListedIn(old)
    BY <1>2, <1>3, <1>4, ListedPut
  <1>6. ListedIn(new) = ListedIn(old)
    BY <1>1, <1>5
  <1>7. QED
    BY <1>1, <1>6 DEF old, new

\* Executing a child's checkpoint lists it in the parent's current one, whose messages and
\* fee stay the same.
LEMMA ChildListed ==
  ASSUME TypeInv, NEW c \in NonRoot, CommitChildCheck(c),
         NEW p, p = Parent(c),
         NEW k, k = subnets[c].prev_epoch + CheckPeriod,
         NEW w, w = WindowEpoch(epoch[p])
  PROVE  /\ p \in Networks /\ k \in Nat /\ k <= epoch[c] /\ k > subnets[c].prev_epoch
         /\ WindowLog(bottomup_checkpoints'[p])
         /\ ListedIn(bottomup_checkpoints'[p]) = ListedIn(bottomup_checkpoints[p]) \union {<<c, k>>}
         /\ \A t \in Networks : t # p => bottomup_checkpoints'[t] = bottomup_checkpoints[t]
         /\ DOMAIN bottomup_checkpoints'[p] = DOMAIN bottomup_checkpoints[p] \union {w}
         /\ CheckpointValue(bottomup_checkpoints'[p][w]) = CheckpointValue(CheckpointAt(p, w))
         /\ \A l \in DOMAIN bottomup_checkpoints[p] :
              l # w => bottomup_checkpoints'[p][l] = bottomup_checkpoints[p][l]
  <1> DEFINE ch == CheckpointAt(c, k)
             was == GetWindowCheckpoint(p)
             mark == AddChildCheck(was, c, k)
             old == bottomup_checkpoints[p]
             new == bottomup_checkpoints'[p]
  <1>1. /\ p \in Networks /\ c \in Networks /\ k \in Nat /\ Registered(c)
        /\ mark \in Checkpoint /\ bottomup_checkpoints' = FlushCheckpoint(p, mark)
    BY ChildCheckIs
  <1>2. was \in Checkpoint /\ was = CheckpointAt(p, w)
    BY <1>1, CheckpointTyped DEF GetWindowCheckpoint, TypeInv
  <1>3. /\ mark.msgs = was.msgs /\ mark.fee = was.fee
        /\ mark.children = Append(was.children, <<c, k>>)
    BY <1>2 DEF AddChildCheck, Checkpoint
  <1>4. Range(mark.children) = Range(was.children) \union {<<c, k>>}
    <2>1. was.children \in Seq(NonRoot \X Nat)
      BY <1>2 DEF Checkpoint
    <2>2. Append(was.children, <<c, k>>) = mark.children /\ <<c, k>> \in NonRoot \X Nat
      BY <1>1, <1>3
    <2> DEFINE M == NonRoot \X Nat
               x == <<c, k>>
               msgs == was.children
    <2>3. msgs \in Seq(M) /\ x \in M
      BY <2>1, <2>2
    <2> HIDE DEF M, x, msgs
    <2>4. Range(Append(msgs, x)) = Range(msgs) \union {x}
      BY <2>3, AppendRange
    <2>5. QED
      BY <2>2, <2>4 DEF x, msgs
  <1>5. CheckpointValue(mark) = CheckpointValue(was)
    BY <1>3 DEF CheckpointValue
  <1> HIDE DEF mark, was, ch
  <1>6. /\ \A t \in Networks : WindowLog(bottomup_checkpoints'[t])
        /\ \A t \in Networks : t # p => bottomup_checkpoints'[t] = bottomup_checkpoints[t]
        /\ DOMAIN bottomup_checkpoints'[p] = DOMAIN bottomup_checkpoints[p] \union {w}
        /\ bottomup_checkpoints'[p][w] = mark
        /\ \A l \in DOMAIN bottomup_checkpoints[p] :
             l # w => bottomup_checkpoints'[p][l] = bottomup_checkpoints[p][l]
    BY <1>1, FlushIs DEF TypeInv
  <1>7. was = IF w \in DOMAIN old THEN old[w] ELSE EmptyCheckpoint
    BY <1>2 DEF CheckpointAt
  <1>8. /\ DOMAIN new = DOMAIN old \union {w}
        /\ \A l \in DOMAIN old : l # w => new[l] = old[l]
        /\ Range(new[w].children) = Range(was.children) \union {<<c, k>>}
    BY <1>4, <1>6
  <1>9. ListedIn(new) = ListedIn(old) \union {<<c, k>>}
    <2>1. Range(was.children) \subseteq Range(new[w].children)
      BY <1>8
    <2>2. /\ DOMAIN new = DOMAIN old \union {w}
          /\ \A l \in DOMAIN old : l # w => new[l] = old[l]
      BY <1>8
    <2> HIDE DEF old, new
    <2>3. /\ ListedIn(new) = ListedIn(old) \union Range(new[w].children)
          /\ Range(was.children) \subseteq ListedIn(old)
      BY <1>7, <2>1, <2>2, ListedPut, ZenonT(90)
    <2>4. QED
      BY <1>8, <2>3
  <1>10. k <= epoch[c] /\ k > subnets[c].prev_epoch
    <2>1. epoch[c] \in Nat
      BY <1>1 DEF TypeInv, CountersTyped
    <2>2. k <= CheckpointEpoch(epoch[c])
      BY DEF CommitChildCheck
    <2>3. CheckpointEpoch(epoch[c]) <= epoch[c] /\ CheckpointEpoch(epoch[c]) \in Int
      BY <2>1, WindowAhead, PeriodAssumption DEF CheckpointEpoch
    <2>4. subnets[c].prev_epoch \in Nat
      <3>1. subnets[c] \in Subnet
        BY <1>1 DEF TypeInv, SubnetsTyped, Registered, NotRegistered
      <3>2. QED
        BY <3>1 DEF Subnet
    <2>5. QED
      BY <1>1, <2>1, <2>2, <2>3, <2>4, PeriodAssumption
  <1>11. QED
    BY <1>1, <1>2, <1>5, <1>6, <1>9, <1>10

\* What a parent lists of a child is over for the child, and committed.
ListedPast ==
  \A c \in NonRoot : \A k \in Int : <<c, k>> \in ListedIn(bottomup_checkpoints[Parent(c)]) =>
    k <= epoch[c] /\ (Registered(c) => k <= subnets[c].prev_epoch)

\* Steps that list nothing.
LEMMA PastKept ==
  ASSUME ListedPast,
         \A t \in Networks :
           ListedIn(bottomup_checkpoints'[t]) = ListedIn(bottomup_checkpoints[t]),
         \A c \in NonRoot : epoch[c] \in Int /\ epoch'[c] \in Int /\ epoch'[c] >= epoch[c],
         \A c \in NonRoot : Registered(c)' =>
           Registered(c) /\ subnets'[c].prev_epoch = subnets[c].prev_epoch
  PROVE  ListedPast'
  <1> SUFFICES ASSUME NEW c \in NonRoot, NEW k \in Int,
                      <<c, k>> \in ListedIn(bottomup_checkpoints'[Parent(c)])
               PROVE  k <= epoch'[c] /\ (Registered(c)' => k <= subnets'[c].prev_epoch)
    BY DEF ListedPast
  <1>1. Parent(c) \in Networks
    BY NetworksAreIDs
  <1>2. k <= epoch[c] /\ (Registered(c) => k <= subnets[c].prev_epoch)
    BY <1>1 DEF ListedPast
  <1>3. QED
    BY <1>2

\* What is left of a queue from place d on.
Rest(q, d) == {q[n] : n \in {k \in DOMAIN q : k >= d}}

\* The messages that wait in a queue, now and after a step.
LEMMA QueuedIs ==
  ASSUME NEW c
  PROVE  /\ Queued(c) = IF Registered(c) THEN Rest(subnets[c].top_down_msgs, carried[c]) ELSE {}
         /\ Queued(c)' = IF Registered(c)' THEN Rest(subnets'[c].top_down_msgs, carried'[c]) ELSE {}
  BY DEF Queued, Rest

\* What is left of a queue is finitely many messages.
LEMMA RestTyped ==
  ASSUME NEW q, NEW n, IsQueue(q, n), NEW d
  PROVE  IsFiniteSet(Rest(q, d)) /\ \A m \in Rest(q, d) : m \in Message /\ m.value \in Nat
  <1> DEFINE D == {k \in DOMAIN q : k >= d}
             key == [k \in D |-> q[k]]
  <1>1. IsFiniteSet(0..n - 1)
    <2>1. 0 \in Int /\ n - 1 \in Int
      BY DEF IsQueue
    <2>2. QED
      BY <2>1, FS_Interval
  <1>2. IsFiniteSet(D)
    BY <1>1, FS_Subset DEF IsQueue
  <1>3. key \in Surjection(D, Rest(q, d))
    BY DEF Surjection, Rest
  <1>4. \A m \in Rest(q, d) : m \in Message
    BY DEF Rest, IsQueue
  <1> HIDE DEF D, key
  <1>5. IsFiniteSet(Rest(q, d))
    BY <1>2, <1>3, FS_Surjection
  <1>6. QED
    BY <1>4, <1>5 DEF Message

\* A message at the end.
LEMMA RestPut ==
  ASSUME NEW q, NEW n, IsQueue(q, n), NEW x \in Message, x.nonce = n,
         NEW r, PutLast(q, n, x, r), NEW d \in Nat, d <= n
  PROVE  Rest(r, d) = Rest(q, d) \union {x} /\ x \notin Rest(q, d)
  <1> USE DEF IsQueue, PutLast
  <1>1. x \notin Rest(q, d)
    <2> SUFFICES ASSUME NEW k \in DOMAIN q, q[k] = x PROVE FALSE
      BY DEF Rest
    <2>1. k = n /\ k \in 0..n - 1
      OBVIOUS
    <2>2. QED
      BY <2>1
  <1>2. Rest(r, d) = Rest(q, d) \union {x}
    <2>1. ASSUME NEW m \in Rest(r, d) PROVE m \in Rest(q, d) \union {x}
      <3>1. PICK k \in DOMAIN r : k >= d /\ m = r[k]
        BY DEF Rest
      <3>2. CASE k \in DOMAIN q
        BY <3>1, <3>2 DEF Rest
      <3>3. CASE k = n
        BY <3>1, <3>3
      <3>4. QED
        BY <3>2, <3>3
    <2>2. ASSUME NEW m \in Rest(q, d) PROVE m \in Rest(r, d)
      <3>1. PICK k \in DOMAIN q : k >= d /\ m = q[k]
        BY DEF Rest
      <3>2. k \in DOMAIN r /\ r[k] = m
        BY <3>1
      <3>3. QED
        BY <3>1, <3>2 DEF Rest
    <2>3. x \in Rest(r, d)
      <3>1. n \in DOMAIN r /\ n >= d /\ r[n] = x
        OBVIOUS
      <3>2. QED
        BY <3>1 DEF Rest
    <2>4. QED
      BY <2>1, <2>2, <2>3
  <1>3. QED
    BY <1>1, <1>2

\* What it adds to the worth of the queue.
LEMMA RestGrows ==
  ASSUME NEW q, NEW n, IsQueue(q, n), NEW x \in Message, x.nonce = n,
         NEW r, PutLast(q, n, x, r), NEW d \in Nat, d <= n
  PROVE  /\ ValueOf(Rest(r, d)) = ValueOf(Rest(q, d)) + x.value
         /\ ValueOf(Rest(q, d)) \in Nat
  <1>1. IsFiniteSet(Rest(q, d)) /\ \A m \in Rest(q, d) : m \in Message /\ m.value \in Nat
    BY RestTyped
  <1>2. Rest(r, d) = Rest(q, d) \union {x} /\ x \notin Rest(q, d)
    BY RestPut
  <1>3. x.value \in Nat
    BY DEF Message
  <1> DEFINE S == Rest(q, d)
             T == Rest(r, d)
  <1>4. IsFiniteSet(T) /\ (\A m \in T : m.value \in Nat) /\ x \in T /\ T \ {x} = S
    BY <1>1, <1>2, <1>3, FS_AddElement
  <1> HIDE DEF S, T
  <1>5. /\ ValueOf(T) \in Nat /\ ValueOf(T \ {x}) \in Nat
        /\ ValueOf(T) = ValueOf(T \ {x}) + x.value
    BY <1>4, ValueWithout
  <1>6. QED
    BY <1>4, <1>5 DEF S, T

\* The messages at the front are taken.
TakenFrom(q, d, n, msgs) == DOMAIN msgs = 1..n /\ \A i \in 1..n : msgs[i] = q[d + i - 1]

\* The messages taken from the front and those behind them make up what was left.
LEMMA RestSplit ==
  ASSUME NEW q, NEW top, IsQueue(q, top), NEW d \in Nat, NEW n \in Nat,
         NEW e, e = d + n, e <= top, NEW msgs, TakenFrom(q, d, n, msgs)
  PROVE  Rest(q, d) = Range(msgs) \union Rest(q, e) /\ Range(msgs) \cap Rest(q, e) = {}
  <1>0. e \in Nat
    OBVIOUS
  <1> USE DEF IsQueue, TakenFrom
  <1>1. ASSUME NEW m \in Range(msgs)
        PROVE  /\ m \in Rest(q, d) /\ m.nonce < e
    <2>1. PICK i \in 1..n : m = msgs[i]
      BY DEF Range
    <2>2. d + i - 1 \in 0..top - 1 /\ d + i - 1 >= d /\ d + i - 1 < e
      OBVIOUS
    <2>3. m = q[d + i - 1] /\ m.nonce = d + i - 1
      BY <2>1, <2>2
    <2>4. QED
      BY <2>2, <2>3 DEF Rest
  <1>2. ASSUME NEW m \in Rest(q, e)
        PROVE  m \in Rest(q, d) /\ m.nonce >= e /\ m.nonce \in Nat
    <2>1. PICK k \in DOMAIN q : k >= e /\ m = q[k]
      BY DEF Rest
    <2>2. k >= d /\ k \in Nat
      BY <2>1
    <2>3. QED
      BY <2>1, <2>2 DEF Rest
  <1>3. ASSUME NEW m \in Rest(q, d) PROVE m \in Range(msgs) \union Rest(q, e)
    <2>1. PICK k \in DOMAIN q : k >= d /\ m = q[k]
      BY DEF Rest
    <2>2. CASE k >= e
      BY <2>1, <2>2 DEF Rest
    <2>3. CASE k < e
      <3> DEFINE i == k - d + 1
      <3>0. k \in Int /\ k >= d /\ k < d + n
        BY <2>1, <2>3
      <3>1. i \in 1..n /\ d + i - 1 = k
        BY <3>0
      <3>2. msgs[i] = m
        BY <2>1, <3>1
      <3> HIDE DEF i
      <3>3. QED
        BY <3>1, <3>2 DEF Range
    <2>4. QED
      BY <2>1, <2>2, <2>3
  <1> DEFINE S == Range(msgs)
             T == Rest(q, e)
  <1>4. Rest(q, d) = S \union T
    BY <1>1, <1>2, <1>3
  <1>5. S \cap T = {}
    <2> SUFFICES ASSUME NEW m \in S, m \in T PROVE FALSE
      OBVIOUS
    <2>1. m.nonce < e /\ m.nonce >= e /\ m.nonce \in Nat
      BY <1>1, <1>2
    <2> DEFINE k == m.nonce
    <2> HIDE DEF k
    <2>2. k < e /\ k >= e /\ k \in Nat /\ e \in Nat
      BY <1>0, <2>1 DEF k
    <2>3. QED
      BY <2>2
  <1>6. QED
    BY <1>4, <1>5

\* What they take from the worth of the queue.
LEMMA RestTaken ==
  ASSUME NEW q, NEW top, IsQueue(q, top), NEW d \in Nat, NEW n \in Nat,
         NEW e, e = d + n, e <= top,
         NEW msgs, TakenFrom(q, d, n, msgs), IsFiniteSet(Range(msgs))
  PROVE  /\ ValueOf(Rest(q, d)) = ValueOf(Range(msgs)) + ValueOf(Rest(q, e))
         /\ ValueOf(Range(msgs)) \in Nat /\ ValueOf(Rest(q, e)) \in Nat
  <1>1. /\ IsFiniteSet(Rest(q, d)) /\ \A m \in Rest(q, d) : m \in Message /\ m.value \in Nat
        /\ IsFiniteSet(Rest(q, e))
    BY RestTyped
  <1> DEFINE S == Range(msgs)
             T == Rest(q, e)
  <1>2. Rest(q, d) = S \union T /\ S \cap T = {}
    BY RestSplit
  <1>3. IsFiniteSet(S) /\ IsFiniteSet(T) /\ \A m \in S \union T : m.value \in Nat
    BY <1>1, <1>2
  <1> HIDE DEF S, T
  <1>4. ValueOf(S \union T) = ValueOf(S) + ValueOf(T) /\ ValueOf(S) \in Nat /\ ValueOf(T) \in Nat
    BY <1>2, <1>3, ValueUnion
  <1>5. QED
    BY <1>2, <1>4 DEF S, T

\* The queue the parent keeps for a registered child.
LEMMA QueueIs ==
  ASSUME SubnetsTyped, QueueNumbered, NEW c \in NonRoot, Registered(c)
  PROVE  /\ IsQueue(subnets[c].top_down_msgs, subnets[c].topdown_nonce)
         /\ carried[c] \in Nat /\ carried[c] <= subnets[c].topdown_nonce
  <1>1. subnets[c] \in Subnet
    BY DEF SubnetsTyped, Registered, NotRegistered
  <1>2. /\ subnets[c].topdown_nonce \in Nat
        /\ \A k \in DOMAIN subnets[c].top_down_msgs : subnets[c].top_down_msgs[k] \in Message
    BY <1>1 DEF Subnet
  <1>3. QED
    BY <1>2 DEF SubnetsTyped, QueueNumbered, IsQueue

\* What waits in a queue is worth a natural number.
LEMMA QueuedWorth ==
  ASSUME TypeInv, QueueNumbered, NEW c \in NonRoot
  PROVE  ValueOf(Queued(c)) \in Nat
  <1>1. CASE Registered(c)
    <2> DEFINE q == subnets[c].top_down_msgs
               n == subnets[c].topdown_nonce
               S == Rest(q, carried[c])
    <2>1. IsQueue(q, n)
      BY <1>1, QueueIs DEF TypeInv
    <2>2. Queued(c) = S
      BY <1>1, QueuedIs
    <2> HIDE DEF q, n
    <2>3. IsFiniteSet(S) /\ \A m \in S : m \in Message /\ m.value \in Nat
      BY <2>1, RestTyped
    <2>4. IsFiniteSet({}) /\ S \cap {} = {} /\ \A m \in S \union {} : m.value \in Nat
      BY <2>3, FS_EmptySet
    <2> HIDE DEF S
    <2>5. ValueOf(S) \in Nat
      BY <2>3, <2>4, ValueUnion
    <2>6. QED
      BY <2>2, <2>5
  <1>2. CASE ~Registered(c)
    <2>1. Queued(c) = {}
      BY <1>2, QueuedIs
    <2>2. QED
      BY <2>1, NothingWorth
  <1>3. QED
    BY <1>1, <1>2

\* What waits in a queue grows by what is put into it, as does the supply of the child,
LEMMA QueueGrows ==
  ASSUME TypeInv, TypeInv', QueueNumbered, NEW t \in Networks, NEW m \in Message,
         CommitTopdownMsg(t, m), UNCHANGED carried, NEW c \in NonRoot
  PROVE  /\ ValueOf(Queued(c)) \in Nat /\ Supply(c) \in Nat
         /\ \/ /\ Supply(c)' = Supply(c) + m.value
               /\ ValueOf(Queued(c)') = ValueOf(Queued(c)) + m.value
            \/ Supply(c)' = Supply(c) /\ ValueOf(Queued(c)') = ValueOf(Queued(c))
  <1>1. ValueOf(Queued(c)) \in Nat /\ Supply(c) \in Nat
    BY QueuedWorth, SupplyTyped, NetworksAreIDs DEF TypeInv
  <1>2. CASE c # Down(m.to, t)
    <2>1. subnets'[c] = subnets[c]
      BY <1>2, CommitTopdownIs DEF TypeInv
    <2>2. Queued(c)' = Queued(c) /\ Supply(c)' = Supply(c)
      BY <2>1 DEF Queued, Registered, Supply
    <2>3. QED
      BY <1>1, <2>2
  <1>3. CASE c = Down(m.to, t)
    <2> DEFINE n == subnets[c].topdown_nonce
               x == Placed(m, n)
               q == subnets[c].top_down_msgs
               r == subnets'[c].top_down_msgs
               d == carried[c]
    <2>1. /\ c \in NonRoot /\ Registered(c) /\ Registered(c)'
          /\ IsQueue(subnets[c].top_down_msgs, n)
          /\ x \in Message /\ x.nonce = n /\ x.value = m.value
          /\ PutLast(subnets[c].top_down_msgs, n, x, subnets'[c].top_down_msgs)
          /\ QueueNumbered'
      <3>1. SubnetsTyped /\ n = subnets[c].topdown_nonce /\ x = Placed(m, n)
        BY DEF TypeInv
      <3> HIDE DEF n, x
      <3>2. QED
        BY <1>3, <3>1, QueueWrites
    <2>2. IsQueue(q, n) /\ PutLast(q, n, x, r)
      BY <2>1
    <2>3. d \in Nat /\ d <= n
      BY <2>1, QueueIs DEF TypeInv
    <2>4. Queued(c) = Rest(q, d) /\ Queued(c)' = Rest(r, d)
      BY <2>1 DEF Queued, Rest
    <2>5. Supply(c)' = Supply(c) + m.value
      <3>1. /\ Registered(c) /\ subnets'[c].registered
            /\ subnets'[c].circ_supply = subnets[c].circ_supply + m.value
        BY <1>3, CommitTopdownIs DEF TypeInv
      <3>2. QED
        BY <3>1 DEF Supply, Registered
    <2> HIDE DEF q, r, n, d, x
    <2>6. /\ ValueOf(Rest(r, d)) = ValueOf(Rest(q, d)) + x.value
          /\ ValueOf(Rest(q, d)) \in Nat
      BY <2>1, <2>2, <2>3, RestGrows
    <2>7. QED
      BY <1>1, <2>1, <2>4, <2>5, <2>6
  <1>4. QED
    BY <1>2, <1>3

\* and falls by what a top-down checkpoint takes out of it.
LEMMA QueueShrinks ==
  ASSUME TypeInv, RouteInv, BoxInv, QueueNumbered, NEW c \in NonRoot, NEW n,
         TakesNext(c, n), NEW msgs, msgs = NextMsgs(c, n)
  PROVE  /\ ValueOf(Queued(c)') \in Nat
         /\ ValueOf(Queued(c)) = TotalValue(msgs) + ValueOf(Queued(c)')
         /\ \A d \in NonRoot : d # c => Queued(d)' = Queued(d)
  <1> DEFINE out == Transit(c, msgs)
             q == subnets[c].top_down_msgs
             top == subnets[c].topdown_nonce
             d == carried[c]
  <1>1. /\ Registered(c) /\ carried[c] + n - 1 \in DOMAIN subnets[c].top_down_msgs
        /\ ExecuteTopdown(c, n) /\ n \in Nat
    BY AmountsAssumption DEF TakesNext
  <1>2. UNCHANGED subnets
    BY <1>1 DEF ExecuteTopdown
  <1>3. /\ carried'[c] = carried[c] + n
        /\ \A e \in NonRoot : e # c => carried'[e] = carried[e]
        /\ IsFiniteSet(Range(msgs)) /\ ValueOf(Range(msgs)) = TotalValue(msgs)
    <2> HIDE DEF out
    <2>1. /\ c \in Networks /\ Apply(c, msgs, 0) /\ msgs \in Seq(Message)
          /\ postbox' = [postbox EXCEPT ![c] = @ \union InTransit(c, msgs)]
          /\ carried'[c] = carried[c] + n
          /\ \A e \in NonRoot : e # c => carried'[e] = carried[e]
          /\ IsFiniteSet(out) /\ Boxed(c) \cap out = {}
          /\ \A x \in out : x \in Message /\ CameDown(c, x) /\ x.nonce < carried'[c]
          /\ TotalValue(Own(c, msgs)) \in Nat /\ ValueOf(out) \in Nat
          /\ TotalValue(msgs) = TotalValue(Own(c, msgs)) + ValueOf(out)
          /\ IsFiniteSet(Range(msgs)) /\ ValueOf(Range(msgs)) = TotalValue(msgs)
          /\ \A i \in 1..n : msgs[i].nonce = carried[c] + i - 1
      BY QueueTaken DEF out
    <2>2. QED
      BY <2>1
  <1>4. \A e \in NonRoot : e # c => Queued(e)' = Queued(e)
    BY <1>2, <1>3 DEF Queued, Registered
  <1> DEFINE e == d + n
  <1>5. Queued(c) = Rest(q, d) /\ Queued(c)' = Rest(q, e)
    BY <1>1, <1>2, <1>3 DEF Queued, Rest, Registered
  <1>6. IsQueue(q, top) /\ d \in Nat /\ d <= top
    BY <1>1, QueueIs DEF TypeInv
  <1>7. TakenFrom(q, d, n, msgs)
    BY DEF NextMsgs, TakenFrom
  <1>8. d + n - 1 \in DOMAIN q /\ e = d + n
    BY <1>1
  <1> HIDE DEF q, top, d, e
  <1>9. e <= top
    BY <1>1, <1>6, <1>8 DEF IsQueue
  <1>10. /\ ValueOf(Rest(q, d)) = ValueOf(Range(msgs)) + ValueOf(Rest(q, e))
         /\ ValueOf(Range(msgs)) \in Nat /\ ValueOf(Rest(q, e)) \in Nat
    BY <1>1, <1>3, <1>6, <1>7, <1>8, <1>9, RestTaken
  <1>11. QED
    BY <1>3, <1>4, <1>5, <1>10

\* The windows a chain fills: a message adds its value and its fee to what is pending of
\* its chain.
LEMMA PendingPut ==
  ASSUME TypeInv, ListedPast, NEW s \in Networks, NEW m \in Message, NEW fee \in Nat,
         CommitBottomupMsg(s, m, fee), NEW c \in NonRoot
  PROVE  /\ c = s => Pending(c)' = Pending(c) + (m.value + fee)
         /\ c # s => Pending(c)' = Pending(c)
  <1> DEFINE w == WindowEpoch(epoch[s])
             x == [m EXCEPT !.nonce = bottomup_nonce[s]]
             old == bottomup_checkpoints[s]
             new == bottomup_checkpoints'[s]
             was == CheckpointAt(s, w)
  <1> HIDE DEF w, x
  <1>0. BottomUpTyped /\ Parent(c) \in Networks /\ c \in Networks
    BY NetworksAreIDs DEF TypeInv
  <1>1. /\ BottomUpTyped' /\ x \in Message
        /\ \A t \in Networks : t # s => bottomup_checkpoints'[t] = bottomup_checkpoints[t]
        /\ DOMAIN new = DOMAIN old \union {w}
        /\ new[w].msgs = Append(was.msgs, x)
        /\ new[w].fee = was.fee + fee
        /\ new[w].children = was.children
        /\ \A k \in DOMAIN old : k # w => new[k] = old[k]
    BY <1>0, CommitBottomupIs DEF w, x
  <1>2. ListedIn(bottomup_checkpoints'[Parent(c)]) = ListedIn(bottomup_checkpoints[Parent(c)])
    BY <1>0, ListedKept
  <1>3. Pending(c)' = PendingIn(c, bottomup_checkpoints'[c], bottomup_checkpoints[Parent(c)])
    <2> DEFINE up == bottomup_checkpoints[Parent(c)]
               up2 == bottomup_checkpoints'[Parent(c)]
    <2>1. \A k : <<c, k>> \in ListedIn(up2) <=> <<c, k>> \in ListedIn(up)
      BY <1>2
    <2>2. Pending(c)' = PendingIn(c, bottomup_checkpoints'[c], up2)
      BY DEF Pending
    <2> HIDE DEF up, up2
    <2>3. PendingIn(c, bottomup_checkpoints'[c], up2) = PendingIn(c, bottomup_checkpoints'[c], up)
      BY <2>1, PendingStays
    <2>4. QED
      BY <2>2, <2>3 DEF up
  <1>4. CASE c # s
    BY <1>0, <1>1, <1>3, <1>4 DEF Pending
  <1>5. CASE c = s
    <2> DEFINE up == bottomup_checkpoints[Parent(c)]
               v == m.value + fee
    <2>1. WindowLog(old) /\ WindowLog(new)
      BY <1>0, <1>1 DEF BottomUpTyped, WindowLog
    <2>2. was = IF w \in DOMAIN old THEN old[w] ELSE EmptyCheckpoint
      BY DEF CheckpointAt
    <2>3. was.msgs \in Seq(Message) /\ was.fee \in Nat /\ m.value \in Nat /\ x.value = m.value
      BY <1>0, CheckpointTyped DEF Checkpoint, Message, x
    <2>4. CheckpointValue(new[w]) = CheckpointValue(was) + v
      <3>1. \A y \in Message : y.value \in Nat
        BY DEF Message
      <3>2. /\ TotalValue(Append(was.msgs, x)) = TotalValue(was.msgs) + x.value
            /\ TotalValue(was.msgs) \in Nat
        BY <1>1, <2>3, <3>1, ValueAppend, ValueType
      <3>3. CheckpointValue(new[w]) = TotalValue(Append(was.msgs, x)) + (was.fee + fee)
        BY <1>1 DEF CheckpointValue
      <3>4. CheckpointValue(was) = TotalValue(was.msgs) + was.fee
        BY DEF CheckpointValue
      <3> DEFINE a == TotalValue(was.msgs)
                 b == was.fee
                 e == m.value
      <3>5. /\ a \in Nat /\ b \in Nat /\ e \in Nat
            /\ CheckpointValue(new[w]) = (a + e) + (b + fee) /\ CheckpointValue(was) = a + b
        BY <2>3, <3>2, <3>3, <3>4
      <3> HIDE DEF a, b, new, was
      <3>6. CheckpointValue(new[w]) = CheckpointValue(was) + (e + fee)
        <4> HIDE DEF e
        <4>1. QED
          BY <3>5
      <3>7. QED
        BY <3>6
    <2>5. <<s, w>> \notin ListedIn(up)
      <3>1. epoch[s] \in Nat
        BY DEF TypeInv, CountersTyped
      <3>2. w > epoch[s] /\ w \in Int
        BY <3>1, WindowAhead DEF w
      <3>3. <<s, w>> \in ListedIn(up) => w <= epoch[s]
        BY <1>5, <3>2 DEF ListedPast
      <3>4. QED
        BY <3>1, <3>2, <3>3
    <2>6. v \in Nat
      BY <2>3
    <2>7. /\ DOMAIN new = DOMAIN old \union {w}
          /\ \A k \in DOMAIN old : k # w => new[k] = old[k]
      BY <1>1
    <2>8. Pending(c)' = PendingIn(s, new, up) /\ Pending(c) = PendingIn(s, old, up)
      BY <1>3, <1>5 DEF Pending
    <2> HIDE DEF was, old, new, up, v
    <2>9. PendingIn(s, new, up) = PendingIn(s, old, up) + v
      BY <2>1, <2>2, <2>4, <2>5, <2>6, <2>7, PendingGrows
    <2>10. QED
      BY <1>5, <2>8, <2>9 DEF v
  <1>6. QED
    BY <1>4, <1>5

\* What a parent owes a child beyond what is on its way down, and what there is in the
\* child outside of its gateway and further below.
Owed(c) == Supply(c) - ValueOf(Queued(c))
Held(c) == wallet[c] + SupplyBelow(c) + Pending(c)
Books == \A c \in NonRoot : Owed(c) + granted[c] = Held(c) + ValueOf(Boxed(c))

\* The terms of the books are natural numbers.
LEMMA TermsTyped ==
  ASSUME TypeInv, QueueNumbered, BoxInv, NEW c \in NonRoot
  PROVE  /\ c \in Networks /\ Parent(c) \in Networks
         /\ Supply(c) \in Nat /\ ValueOf(Queued(c)) \in Nat /\ wallet[c] \in Nat
         /\ SupplyBelow(c) \in Nat /\ Pending(c) \in Nat /\ ValueOf(Boxed(c)) \in Nat
         /\ granted[c] \in Nat
  <1>1. c \in Networks /\ Parent(c) \in Networks
    BY NetworksAreIDs
  <1>2. Supply(c) \in Nat /\ SupplyBelow(c) \in Nat
    BY <1>1, SupplyTyped DEF TypeInv
  <1>3. ValueOf(Queued(c)) \in Nat
    BY QueuedWorth
  <1>4. ValueOf(Boxed(c)) \in Nat
    BY <1>1, BoxedValue DEF BoxInv, BoxAt
  <1>5. Pending(c) \in Nat
    BY <1>1, PendingTyped DEF Pending, TypeInv, BottomUpTyped
  <1>6. wallet[c] \in Nat /\ granted[c] \in Nat
    BY <1>1 DEF TypeInv, MoneyTyped, CountersTyped
  <1>7. QED
    BY <1>1, <1>2, <1>3, <1>4, <1>5, <1>6

\* The books say what SupplyAccounted says.
LEMMA BooksAreSupply ==
  ASSUME TypeInv, QueueNumbered, BoxInv, Books
  PROVE  SupplyAccounted
  <1> SUFFICES ASSUME NEW c \in NonRoot
               PROVE  Supply(c) + granted[c] =
                        ValueOf(Queued(c)) + wallet[c] + ValueOf(Boxed(c)) + SupplyBelow(c)
                        + Total([k \in Uncommitted(c) |-> CheckpointValue(bottomup_checkpoints[c][k])])
    BY DEF SupplyAccounted
  <1>1. Total([k \in Uncommitted(c) |-> CheckpointValue(bottomup_checkpoints[c][k])]) = Pending(c)
    BY PendingIs
  <1> DEFINE s == Supply(c)
             q == ValueOf(Queued(c))
             w == wallet[c]
             x == ValueOf(Boxed(c))
             b == SupplyBelow(c)
             p == Pending(c)
             g == granted[c]
  <1>2. /\ s \in Nat /\ q \in Nat /\ w \in Nat /\ x \in Nat /\ b \in Nat /\ p \in Nat
        /\ g \in Nat
    BY TermsTyped
  <1>3. (s - q) + g = (w + b + p) + x
    BY DEF Books, Owed, Held
  <1> HIDE DEF s, q, w, x, b, p, g
  <1>4. s + g = q + w + x + b + p
    BY <1>2, <1>3
  <1>5. QED
    BY <1>1, <1>4 DEF s, q, w, x, b, p, g

\* The same after a step, term by term.
LEMMA TermsAfter ==
  ASSUME NEW c
  PROVE  /\ Owed(c)' = Supply(c)' - ValueOf(Queued(c)')
         /\ Held(c)' = wallet'[c] + SupplyBelow(c)' + Pending(c)'
  BY DEF Owed, Held, ValueOf, Total

\* What the books are after a step.
LEMMA BooksAfter ==
  ASSUME \A c \in NonRoot : Owed(c)' + granted'[c] = Held(c)' + ValueOf(Boxed(c)')
  PROVE  Books'
  BY DEF Books, ValueOf, Total

\* What goes down through a gateway leaves what is owed alone,
LEMMA DownMoves ==
  ASSUME TypeInv, TypeInv', QueueNumbered, BoxInv,
         NEW t \in Networks, NEW m \in Message, NEW paid \in Nat, NEW fee \in Nat,
         CommitTopdownMsg(t, m), Settle(t, paid, 0, fee), UNCHANGED <<carried, bottomUp>>,
         NEW c \in NonRoot
  PROVE  /\ Owed(c)' = Owed(c)
         /\ c = t => Held(c)' = Held(c) - paid + (m.value + fee)
         /\ c # t => Held(c)' = Held(c)
  <1>1. /\ c \in Networks /\ Supply(c) \in Nat /\ ValueOf(Queued(c)) \in Nat
        /\ wallet[c] \in Nat /\ SupplyBelow(c) \in Nat /\ Pending(c) \in Nat
    BY TermsTyped
  <1>2. \/ /\ Supply(c)' = Supply(c) + m.value
           /\ ValueOf(Queued(c)') = ValueOf(Queued(c)) + m.value
        \/ Supply(c)' = Supply(c) /\ ValueOf(Queued(c)') = ValueOf(Queued(c))
    BY QueueGrows
  <1>3. /\ t = c => SupplyBelow(c)' = SupplyBelow(c) + m.value
        /\ t # c => SupplyBelow(c)' = SupplyBelow(c)
    BY <1>1, QueueSupply
  <1>4. /\ t = c => wallet'[c] = wallet[c] - paid + fee
        /\ t # c => wallet'[c] = wallet[c]
    BY <1>1 DEF Settle, TypeInv, MoneyTyped
  <1>5. Pending(c)' = Pending(c)
    BY DEF Pending, bottomUp
  <1>6. /\ Owed(c)' = Supply(c)' - ValueOf(Queued(c)')
        /\ Held(c)' = wallet'[c] + SupplyBelow(c)' + Pending(c)'
    BY TermsAfter
  <1>7. m.value \in Nat
    BY DEF Message
  <1> DEFINE s == Supply(c)
             q == ValueOf(Queued(c))
             w == wallet[c]
             b == SupplyBelow(c)
             p == Pending(c)
             v == m.value
  <1>8. /\ s \in Nat /\ q \in Nat /\ w \in Nat /\ b \in Nat /\ p \in Nat /\ v \in Nat
        /\ Owed(c) = s - q /\ Held(c) = w + b + p
    BY <1>1, <1>7 DEF Owed, Held
  <1>9. \/ Owed(c)' = (s + v) - (q + v)
        \/ Owed(c)' = s - q
    BY <1>2, <1>6
  <1>10. /\ c = t => Held(c)' = (w - paid + fee) + (b + v) + p
         /\ c # t => Held(c)' = w + b + p
    BY <1>3, <1>4, <1>5, <1>6
  <1> HIDE DEF s, q, w, b, p, v
  <1>11. Owed(c)' = Owed(c)
    BY <1>8, <1>9
  <1>12. c = t => Held(c)' = Held(c) - paid + (v + fee)
    BY <1>8, <1>10
  <1>13. QED
    BY <1>8, <1>10, <1>11, <1>12 DEF v

\* and so does what goes up.
LEMMA UpMoves ==
  ASSUME TypeInv, TypeInv', QueueNumbered, BoxInv, ListedPast,
         NEW t \in Networks, NEW m \in Message, NEW paid \in Nat, NEW fee \in Nat,
         CommitBottomupMsg(t, m, fee), Settle(t, paid, m.value, 0),
         UNCHANGED <<carried, subnets>>,
         NEW c \in NonRoot
  PROVE  /\ Owed(c)' = Owed(c)
         /\ c = t => Held(c)' = Held(c) - paid + (m.value + fee)
         /\ c # t => Held(c)' = Held(c)
  <1>1. /\ c \in Networks /\ Supply(c) \in Nat /\ ValueOf(Queued(c)) \in Nat
        /\ wallet[c] \in Nat /\ SupplyBelow(c) \in Nat /\ Pending(c) \in Nat
    BY TermsTyped
  <1>2. Supply(c)' = Supply(c) /\ Queued(c)' = Queued(c)
    BY DEF Supply, Queued, Registered
  <1>3. SupplyBelow(c)' = SupplyBelow(c)
    <2>1. \A d \in Children(c) : Supply(d)' = Supply(d)
      BY DEF Supply, Registered
    <2>2. QED
      BY <2>1, SupplyStays
  <1>4. /\ t = c => wallet'[c] = wallet[c] - paid + 0
        /\ t # c => wallet'[c] = wallet[c]
    BY <1>1 DEF Settle, TypeInv, MoneyTyped
  <1>5. /\ c = t => Pending(c)' = Pending(c) + (m.value + fee)
        /\ c # t => Pending(c)' = Pending(c)
    BY PendingPut
  <1>6. /\ Owed(c)' = Supply(c)' - ValueOf(Queued(c)')
        /\ Held(c)' = wallet'[c] + SupplyBelow(c)' + Pending(c)'
    BY TermsAfter
  <1>7. Owed(c)' = Owed(c)
    BY <1>2, <1>6 DEF Owed
  <1> DEFINE w == wallet[c]
             b == SupplyBelow(c)
             p == Pending(c)
             v == m.value
  <1>8. w \in Nat /\ b \in Nat /\ p \in Nat /\ v \in Nat /\ Held(c) = w + b + p
    BY <1>1 DEF Held, Message
  <1>9. /\ c = t => Held(c)' = (w - paid + 0) + b + (p + (v + fee))
        /\ c # t => Held(c)' = w + b + p
    BY <1>3, <1>4, <1>5, <1>6
  <1> HIDE DEF w, b, p, v
  <1>10. c = t => Held(c)' = Held(c) - paid + (v + fee)
    BY <1>8, <1>9
  <1>11. QED
    BY <1>7, <1>8, <1>9, <1>10 DEF v

\* What leaves through commit_cross_message and cross_msg_side_effects.
LEMMA LeavingMoves ==
  ASSUME TypeInv, TypeInv', QueueNumbered, BoxInv, ListedPast,
         NEW t \in Networks, NEW m \in Message, NEW paid \in Nat, NEW fee \in Nat,
         CommitCrossMessage(t, m, fee), CrossMsgSideEffects(t, m, paid, fee),
         UNCHANGED carried, NEW c \in NonRoot
  PROVE  /\ Owed(c)' = Owed(c)
         /\ c = t => Held(c)' = Held(c) - paid + (m.value + fee)
         /\ c # t => Held(c)' = Held(c)
  <1>1. CASE CommitUp(t, m, fee)
    <2>1. /\ CommitBottomupMsg(t, m, fee) /\ Settle(t, paid, m.value, 0)
          /\ UNCHANGED <<carried, subnets>>
      BY <1>1 DEF CommitUp, CrossMsgSideEffects
    <2>2. QED
      BY <2>1, UpMoves
  <1>2. CASE CommitTurn(t, m) \/ CommitDown(t, m)
    <2>1. ~GoesUp(m.from, m.to, t)
      <3>1. CASE CommitTurn(t, m)
        BY <3>1 DEF CommitTurn
      <3>2. CASE CommitDown(t, m)
        BY <3>2 DEF CommitDown, GoesUp, TopDown, BottomUp
      <3>3. QED
        BY <1>2, <3>1, <3>2
    <2>2. /\ CommitTopdownMsg(t, m) /\ Settle(t, paid, 0, fee)
          /\ UNCHANGED <<carried, bottomUp>>
      BY <1>2, <2>1 DEF CommitTurn, CommitDown, CrossMsgSideEffects
    <2>3. QED
      BY <2>2, DownMoves
  <1>3. QED
    BY <1>1, <1>2 DEF CommitCrossMessage

\* No subnet is its own parent.
LEMMA NotOwnParent ==
  ASSUME NEW c \in NonRoot
  PROVE  Parent(c) # c
  <1>1. c \in ID /\ Parent(c) \in ID /\ ~IsRoot(c)
    BY NetworksAreIDs DEF NonRoot
  <1>2. Depth(c) # 0 /\ Depth(Parent(c)) = Depth(c) - 1 /\ Depth(c) \in Nat
    BY <1>1, ParentIs, IDParts DEF ID
  <1>3. QED
    BY <1>2

\* A step that moves nothing, or moves it within what a subnet holds.
LEMMA BooksKept ==
  ASSUME Books, UNCHANGED granted,
         \A c \in NonRoot : /\ Owed(c)' = Owed(c) /\ Held(c)' = Held(c)
                            /\ Boxed(c)' = Boxed(c)
  PROVE  Books'
  BY BooksAfter DEF Books

\* fund, release and send_cross, paid with value and fee.
LEMMA SendingBooks ==
  ASSUME TypeInv, TypeInv', QueueNumbered, BoxInv, ListedPast, Books,
         FundAny \/ ReleaseAny \/ SendCrossAny
  PROVE  Books'
  <1>0. CrossMsgFee \in Nat
    BY AmountsAssumption
  <1>1. ASSUME NEW t \in Networks, NEW m \in Message, NEW paid \in Nat,
               m.value = paid - CrossMsgFee, UNCHANGED <<postbox, granted>>,
               \A c \in NonRoot :
                 /\ Owed(c)' = Owed(c)
                 /\ c = t => Held(c)' = Held(c) - paid + (m.value + CrossMsgFee)
                 /\ c # t => Held(c)' = Held(c)
        PROVE  Books'
    <2>1. ASSUME NEW c \in NonRoot
          PROVE  Held(c) - paid + (m.value + CrossMsgFee) = Held(c)
      <3>1. wallet[c] \in Nat /\ SupplyBelow(c) \in Nat /\ Pending(c) \in Nat
        BY TermsTyped
      <3>2. Held(c) \in Int
        BY <3>1 DEF Held
      <3>3. QED
        BY <1>0, <1>1, <3>2
    <2>2. \A c \in NonRoot : Boxed(c)' = Boxed(c)
      BY <1>1 DEF Boxed
    <2>3. QED
      BY <1>1, <2>1, <2>2, BooksKept
  <1>2. CASE FundAny
    <2>1. PICK r \in FundRoutes, a \in Senders, v \in Amounts : Fund(r[1], r[2], a, v)
      BY <1>2 DEF FundAny
    <2> DEFINE t == r[1]
               m == NewFundMsg(r[2], a, CollectCrossFee(v))
    <2>2. t \in Networks /\ r[2] \in NonRoot
      BY <2>1, RoutesAssumption DEF Fund, NonRoot
    <2>3. m \in Message /\ v \in Nat
      BY <2>1, <2>2, SentMessages DEF Fund
    <2>4. m.value = v - CrossMsgFee
      BY DEF NewFundMsg, Msg, CollectCrossFee
    <2>5. /\ CommitTopdownMsg(t, m) /\ Settle(t, v, 0, CrossMsgFee)
          /\ UNCHANGED <<postbox, granted>> /\ UNCHANGED <<carried, bottomUp>>
      BY <2>1 DEF Fund, Sends
    <2> HIDE DEF m, t
    <2>6. \A c \in NonRoot :
            /\ Owed(c)' = Owed(c)
            /\ c = t => Held(c)' = Held(c) - v + (m.value + CrossMsgFee)
            /\ c # t => Held(c)' = Held(c)
      BY <1>0, <2>2, <2>3, <2>5, DownMoves
    <2>7. QED
      BY <1>1, <2>2, <2>3, <2>4, <2>5, <2>6
  <1>3. CASE ReleaseAny
    <2>1. PICK t \in Releasing, a \in Senders, v \in Amounts : Release(t, a, v)
      BY <1>3 DEF ReleaseAny
    <2> DEFINE m == NewReleaseMsg(t, a, CollectCrossFee(v))
    <2>2. t \in NonRoot /\ t \in Networks
      BY RoutesAssumption, NetworksAreIDs
    <2>3. m \in Message /\ v \in Nat
      BY <2>1, <2>2, SentMessages DEF Release
    <2>4. m.value = v - CrossMsgFee
      BY DEF NewReleaseMsg, Msg, CollectCrossFee
    <2>5. /\ CommitBottomupMsg(t, m, CrossMsgFee) /\ Settle(t, v, m.value, 0)
          /\ UNCHANGED <<postbox, granted>> /\ UNCHANGED <<carried, subnets>>
      BY <2>1 DEF Release, Sends
    <2> HIDE DEF m
    <2>6. \A c \in NonRoot :
            /\ Owed(c)' = Owed(c)
            /\ c = t => Held(c)' = Held(c) - v + (m.value + CrossMsgFee)
            /\ c # t => Held(c)' = Held(c)
      BY <1>0, <2>2, <2>3, <2>5, UpMoves
    <2>7. QED
      BY <1>1, <2>2, <2>3, <2>4, <2>5, <2>6
  <1>4. CASE SendCrossAny
    <2>1. PICK r \in SendRoutes, a \in Senders, v \in Amounts, p \in Payloads :
            SendCross(r[1], r[2], a, v, p)
      BY <1>4 DEF SendCrossAny
    <2> DEFINE t == r[1]
               m == Msg(t, r[2], a, CollectCrossFee(v), p)
    <2>2. t \in Networks /\ r[2] \in Destinations
      BY RoutesAssumption DEF Destinations
    <2>3. m \in Message /\ v \in Nat
      BY <2>1, <2>2, SentMessages DEF SendCross
    <2>4. m.value = v - CrossMsgFee
      BY DEF Msg, CollectCrossFee
    <2>5. /\ CommitCrossMessage(t, m, CrossMsgFee) /\ CrossMsgSideEffects(t, m, v, CrossMsgFee)
          /\ UNCHANGED <<postbox, granted>> /\ UNCHANGED carried
      BY <2>1 DEF SendCross, Sends
    <2> HIDE DEF m, t
    <2>6. \A c \in NonRoot :
            /\ Owed(c)' = Owed(c)
            /\ c = t => Held(c)' = Held(c) - v + (m.value + CrossMsgFee)
            /\ c # t => Held(c)' = Held(c)
      BY <1>0, <2>2, <2>3, <2>5, LeavingMoves
    <2>7. QED
      BY <1>1, <2>2, <2>3, <2>4, <2>5, <2>6
  <1>5. QED
    BY <1>2, <1>3, <1>4

\* propagate is paid the fee: what leaves the postbox is held further on.
LEMMA PropagateBooks ==
  ASSUME TypeInv, TypeInv', QueueNumbered, BoxInv, ListedPast, Books,
         NEW t \in Networks, PropagateAny(t)
  PROVE  Books'
  <1>1. PICK i \in postbox[t], o \in Accounts : Propagate(t, i, o)
    BY DEF PropagateAny
  <1> DEFINE m == i.msg
  <1>2. m \in Message /\ m.value \in Nat /\ CrossMsgFee \in Nat
    BY AmountsAssumption DEF TypeInv, PostboxTyped, Item, Message
  <1>3. /\ CommitCrossMessage(t, m, CrossMsgFee)
        /\ CrossMsgSideEffects(t, m, CrossMsgFee, CrossMsgFee)
        /\ postbox' = [postbox EXCEPT ![t] = @ \ {i}] /\ UNCHANGED carried /\ UNCHANGED granted
    BY <1>1 DEF Propagate
  <1>4. \A c \in NonRoot :
          /\ Owed(c)' = Owed(c)
          /\ c = t => Held(c)' = Held(c) - CrossMsgFee + (m.value + CrossMsgFee)
          /\ c # t => Held(c)' = Held(c)
    <2> HIDE DEF m
    <2>1. QED
      BY <1>2, <1>3, LeavingMoves
  <1>5. /\ Boxed(t)' = Boxed(t) \ {m} /\ ValueOf(Boxed(t) \ {m}) \in Nat
        /\ ValueOf(Boxed(t)) = ValueOf(Boxed(t) \ {m}) + m.value
        /\ \A d \in Networks : d # t => Boxed(d)' = Boxed(d)
    BY <1>3, BoxLoses
  <1>6. ASSUME NEW c \in NonRoot
        PROVE  Owed(c)' + granted'[c] = Held(c)' + ValueOf(Boxed(c)')
    <2>1. Owed(c) + granted[c] = Held(c) + ValueOf(Boxed(c)) /\ granted'[c] = granted[c]
      BY <1>3 DEF Books
    <2>2. CASE c # t
      <3>1. Boxed(c)' = Boxed(c)
        BY <1>5, <2>2, NetworksAreIDs
      <3>2. QED
        BY <1>4, <2>1, <2>2, <3>1
    <2>3. CASE c = t
      <3> DEFINE h == Held(c)
                 x == ValueOf(Boxed(c) \ {m})
                 v == m.value
      <3>1. h \in Int
        <4>1. wallet[c] \in Nat /\ SupplyBelow(c) \in Nat /\ Pending(c) \in Nat
          BY TermsTyped
        <4>2. QED
          BY <4>1 DEF Held
      <3>2. /\ Owed(c)' + granted'[c] = h + (x + v) /\ x \in Nat /\ v \in Nat
            /\ Held(c)' = h - CrossMsgFee + (v + CrossMsgFee)
            /\ ValueOf(Boxed(c)') = x
        BY <1>2, <1>4, <1>5, <2>1, <2>3
      <3> HIDE DEF h, x, v
      <3>3. Held(c)' = h + v
        BY <1>2, <3>1, <3>2
      <3>4. h + (x + v) = (h + v) + x
        BY <3>1, <3>2
      <3>5. QED
        BY <3>2, <3>3, <3>4
    <2>4. QED
      BY <2>2, <2>3
  <1>7. QED
    BY <1>6, BooksAfter

\* A top-down checkpoint moves what was on its way into the subnet, or into its postbox.
LEMMA QueueBooks ==
  ASSUME TypeInv, TypeInv', RouteInv, QueueNumbered, BoxInv, Books,
         NEW c \in NonRoot, NEW n, TakesNext(c, n)
  PROVE  Books'
  <1> DEFINE msgs == NextMsgs(c, n)
             out == Transit(c, msgs)
             own == TotalValue(Own(c, msgs))
  <1>1. /\ msgs = NextMsgs(c, n) /\ out = Transit(c, msgs)
        /\ UNCHANGED <<subnets, bottomUp>>
    BY DEF TakesNext, ExecuteTopdown
  <1> HIDE DEF msgs, out
  <1>2. /\ c \in Networks /\ Apply(c, msgs, 0) /\ msgs \in Seq(Message)
        /\ postbox' = [postbox EXCEPT ![c] = @ \union InTransit(c, msgs)]
        /\ carried'[c] = carried[c] + n
        /\ \A d \in NonRoot : d # c => carried'[d] = carried[d]
        /\ IsFiniteSet(out) /\ Boxed(c) \cap out = {}
        /\ \A x \in out : x \in Message /\ CameDown(c, x) /\ x.nonce < carried'[c]
        /\ TotalValue(Own(c, msgs)) \in Nat /\ ValueOf(out) \in Nat
        /\ TotalValue(msgs) = TotalValue(Own(c, msgs)) + ValueOf(out)
        /\ IsFiniteSet(Range(msgs)) /\ ValueOf(Range(msgs)) = TotalValue(msgs)
        /\ \A i \in 1..n : msgs[i].nonce = carried[c] + i - 1
    BY <1>1, QueueTaken
  <1>3. /\ Boxed(c)' = Boxed(c) \union out /\ ValueOf(Boxed(c)) \in Nat /\ ValueOf(out) \in Nat
        /\ ValueOf(Boxed(c) \union out) = ValueOf(Boxed(c)) + ValueOf(out)
        /\ \A d \in Networks : d # c => Boxed(d)' = Boxed(d)
    <2>1. IsFiniteSet(postbox[c]) /\ \A x \in out : x \in Message
      BY <1>2 DEF BoxInv, BoxAt
    <2>2. QED
      BY <1>1, <1>2, <2>1, BoxGrows
  <1>4. /\ ValueOf(Queued(c)') \in Nat
        /\ ValueOf(Queued(c)) = TotalValue(msgs) + ValueOf(Queued(c)')
        /\ \A d \in NonRoot : d # c => Queued(d)' = Queued(d)
    BY <1>1, QueueShrinks
  <1>5. /\ wallet'[c] = wallet[c] - 0 + (own + 0)
        /\ \A d \in Networks : d # c => wallet'[d] = wallet[d]
        /\ granted' = granted
    BY <1>2 DEF Apply, Settle, TypeInv, MoneyTyped
  <1>6. ASSUME NEW d \in NonRoot
        PROVE  Supply(d)' = Supply(d) /\ SupplyBelow(d)' = SupplyBelow(d) /\ Pending(d)' = Pending(d)
    <2>1. \A e \in NonRoot : Supply(e)' = Supply(e)
      BY <1>1 DEF Supply, Registered
    <2>2. SupplyBelow(d)' = SupplyBelow(d)
      BY <2>1, SupplyStays DEF Children
    <2>3. Pending(d)' = Pending(d)
      BY <1>1 DEF Pending, bottomUp
    <2>4. QED
      BY <2>1, <2>2, <2>3
  <1>7. ASSUME NEW d \in NonRoot
        PROVE  Owed(d)' + granted'[d] = Held(d)' + ValueOf(Boxed(d)')
    <2>1. /\ d \in Networks /\ Supply(d) \in Nat /\ ValueOf(Queued(d)) \in Nat
          /\ wallet[d] \in Nat /\ SupplyBelow(d) \in Nat /\ Pending(d) \in Nat
          /\ ValueOf(Boxed(d)) \in Nat /\ granted[d] \in Nat
      BY TermsTyped
    <2>2. /\ Owed(d)' = Supply(d)' - ValueOf(Queued(d)')
          /\ Held(d)' = wallet'[d] + SupplyBelow(d)' + Pending(d)'
      BY TermsAfter
    <2>3. Owed(d) + granted[d] = Held(d) + ValueOf(Boxed(d))
      BY DEF Books
    <2>4. CASE d # c
      <3>1. Owed(d)' = Owed(d) /\ Held(d)' = Held(d) /\ Boxed(d)' = Boxed(d)
        BY <1>3, <1>4, <1>5, <1>6, <2>1, <2>2, <2>4 DEF Owed, Held
      <3>2. QED
        BY <1>5, <2>3, <3>1
    <2>5. CASE d = c
      <3> DEFINE s == Supply(d)
                 q == ValueOf(Queued(d)')
                 w == wallet[d]
                 b == SupplyBelow(d)
                 p == Pending(d)
                 x == ValueOf(Boxed(d))
                 y == ValueOf(out)
                 g == granted[d]
      <3>1. /\ s \in Nat /\ q \in Nat /\ w \in Nat /\ b \in Nat /\ p \in Nat /\ x \in Nat
            /\ y \in Nat /\ g \in Nat /\ own \in Nat
        BY <1>2, <1>3, <1>4, <2>1, <2>5
      <3>2. (s - ((own + y) + q)) + g = (w + b + p) + x
        BY <1>2, <1>4, <2>3, <2>5 DEF Owed, Held
      <3>3. /\ Owed(d)' = s - q /\ Held(d)' = (w - 0 + (own + 0)) + b + p
            /\ granted'[d] = g /\ ValueOf(Boxed(d)') = x + y
        BY <1>3, <1>5, <1>6, <2>2, <2>5
      <3> HIDE DEF s, q, w, b, p, x, y, g, own
      <3>4. (s - q) + g = ((w - 0 + (own + 0)) + b + p) + (x + y)
        BY <3>1, <3>2
      <3>5. QED
        BY <3>3, <3>4
    <2>6. QED
      BY <2>4, <2>5
  <1>8. QED
    BY <1>7, BooksAfter

\* Executing a child's checkpoint takes it from what is pending below the child, and
\* nothing else.
LEMMA PendingChild ==
  ASSUME TypeInv, ListedPast, NEW c \in NonRoot, CommitChildCheck(c),
         NEW k, k = subnets[c].prev_epoch + CheckPeriod,
         NEW ch, ch = CheckpointAt(c, k), NEW d \in NonRoot
  PROVE  /\ d = c => Pending(c) = Pending(c)' + CheckpointValue(ch)
         /\ d # c => Pending(d)' = Pending(d)
  <1> DEFINE p == Parent(c)
             w == WindowEpoch(epoch[p])
             log(t) == bottomup_checkpoints[t]
             new(t) == bottomup_checkpoints'[t]
  <1>1. /\ p \in Networks /\ k \in Nat /\ k <= epoch[c] /\ k > subnets[c].prev_epoch
        /\ WindowLog(new(p))
        /\ ListedIn(new(p)) = ListedIn(log(p)) \union {<<c, k>>}
        /\ \A t \in Networks : t # p => new(t) = log(t)
        /\ DOMAIN new(p) = DOMAIN log(p) \union {w}
        /\ CheckpointValue(new(p)[w]) = CheckpointValue(CheckpointAt(p, w))
        /\ \A l \in DOMAIN log(p) : l # w => new(p)[l] = log(p)[l]
    BY ChildListed
  <1>2. /\ c \in Networks /\ d \in Networks /\ Parent(d) \in Networks
        /\ Parent(c) # c /\ Parent(d) # d
    BY NetworksAreIDs, NotOwnParent
  <1>3. \A t \in Networks : WindowLog(log(t))
    BY DEF TypeInv, BottomUpTyped
  <1>4. Registered(c) /\ subnets[c].prev_epoch \in Nat
    <2>1. Registered(c)
      BY DEF CommitChildCheck
    <2>2. subnets[c] \in Subnet
      BY <2>1 DEF TypeInv, SubnetsTyped, Registered, NotRegistered
    <2>3. QED
      BY <2>1, <2>2 DEF Subnet
  <1>5. <<c, k>> \notin ListedIn(log(p))
    BY <1>1, <1>4 DEF ListedPast
  <1>6. /\ Pending(d) = PendingIn(d, log(d), log(Parent(d)))
        /\ Pending(d)' = PendingIn(d, new(d), new(Parent(d)))
    BY DEF Pending, PendingIn, OpenIn, ListedIn, CheckpointValue, TotalValue, Total
  <1>7. CASE d = c
    <2>1. ch = IF k \in DOMAIN log(c) THEN log(c)[k] ELSE EmptyCheckpoint
      BY DEF CheckpointAt
    <2>2. new(c) = log(c) /\ WindowLog(log(c))
      BY <1>1, <1>2, <1>3
    <2> HIDE DEF log, new
    <2>3. PendingIn(c, log(c), log(p)) = PendingIn(c, log(c), new(p)) + CheckpointValue(ch)
      BY <1>1, <1>5, <2>1, <2>2, PendingFalls
    <2>4. QED
      BY <1>6, <1>7, <2>2, <2>3
  <1>8. CASE d # c /\ d = p
    <2>1. new(Parent(d)) = log(Parent(d)) /\ WindowLog(log(d)) /\ WindowLog(new(d))
      BY <1>1, <1>2, <1>3, <1>8
    <2>2. <<d, w>> \notin ListedIn(log(Parent(d)))
      <3>1. epoch[d] \in Nat
        BY <1>2 DEF TypeInv, CountersTyped
      <3>2. w > epoch[d] /\ w \in Int
        BY <1>8, <3>1, WindowAhead
      <3>3. QED
        BY <3>1, <3>2 DEF ListedPast
    <2> DEFINE was == CheckpointAt(d, w)
    <2>3. was = IF w \in DOMAIN log(d) THEN log(d)[w] ELSE EmptyCheckpoint
      BY DEF CheckpointAt
    <2>4. was \in Checkpoint
      BY <1>2, CheckpointTyped DEF TypeInv
    <2>5. CheckpointValue(was) \in Nat
      BY <2>4, CheckpointWorth
    <2>6. /\ DOMAIN new(d) = DOMAIN log(d) \union {w}
          /\ \A l \in DOMAIN log(d) : l # w => new(d)[l] = log(d)[l]
          /\ CheckpointValue(new(d)[w]) = CheckpointValue(was) + 0
      BY <1>1, <1>8, <2>5
    <2> HIDE DEF log, new, was, w, p
    <2>7. PendingIn(d, new(d), log(Parent(d))) = PendingIn(d, log(d), log(Parent(d))) + 0
      BY <2>1, <2>2, <2>3, <2>6, PendingGrows, 0 \in Nat
    <2>8. PendingIn(d, log(d), log(Parent(d))) \in Nat
      BY <2>1, PendingTyped
    <2>9. QED
      BY <1>6, <1>8, <2>1, <2>7, <2>8
  <1>9. CASE d # c /\ d # p
    <2>1. new(d) = log(d)
      BY <1>1, <1>2, <1>9
    <2>2. \A l : <<d, l>> \in ListedIn(new(Parent(d))) <=> <<d, l>> \in ListedIn(log(Parent(d)))
      <3>1. CASE Parent(d) = p
        BY <1>1, <1>9, <3>1
      <3>2. CASE Parent(d) # p
        BY <1>1, <1>2, <3>2
      <3>3. QED
        BY <3>1, <3>2
    <2> HIDE DEF log, new
    <2>3. PendingIn(d, log(d), new(Parent(d))) = PendingIn(d, log(d), log(Parent(d)))
      BY <2>2, PendingStays
    <2>4. QED
      BY <1>6, <1>9, <2>1, <2>3
  <1>10. QED
    BY <1>7, <1>8, <1>9

\* A child's checkpoint takes from the books of the child what it releases, and leaves
\* those of the parent even: paid out, put into the postbox, and off the supply below.
LEMMA ChildBooks ==
  ASSUME TypeInv, TypeInv', RouteInv, QueueNumbered, BoxInv, ListedPast, Books,
         NEW c \in NonRoot, CommitChildCheck(c)
  PROVE  Books'
  <1> DEFINE p == Parent(c)
             k == subnets[c].prev_epoch + CheckPeriod
             ch == CheckpointAt(c, k)
             out == Transit(p, ch.msgs)
             own == TotalValue(Own(p, ch.msgs))
             fee == ch.fee
  <1>1. /\ p \in Networks /\ Apply(p, ch.msgs, ch.fee) /\ UNCHANGED carried
        /\ Registered(c) /\ ch \in Checkpoint /\ fee \in Nat
    BY ChildCheckIs DEF Checkpoint
  <1>2. /\ postbox' = [postbox EXCEPT ![p] = @ \union InTransit(p, ch.msgs)]
        /\ IsFiniteSet(out) /\ Boxed(p) \cap out = {}
        /\ \A x \in out : x \in Message
        /\ own \in Nat /\ TotalValue(ch.msgs) = own + ValueOf(out)
    <2>1. /\ p \in Networks /\ c \in Children(p)
          /\ postbox' = [postbox EXCEPT ![p] = @ \union InTransit(p, ch.msgs)]
          /\ IsFiniteSet(out) /\ Boxed(p) \cap out = {}
          /\ \A x \in out : /\ x \in Message /\ CameFrom(c, x)
                            /\ k \in DOMAIN bottomup_checkpoints[c] /\ x \in Within(c, k)
          /\ TotalValue(Own(p, ch.msgs)) \in Nat /\ ValueOf(out) \in Nat
          /\ TotalValue(ch.msgs) = TotalValue(Own(p, ch.msgs)) + ValueOf(out)
          /\ k > subnets[c].prev_epoch
      BY ChildTaken
    <2>2. QED
      BY <2>1
  <1>3. /\ Boxed(p)' = Boxed(p) \union out /\ ValueOf(Boxed(p)) \in Nat /\ ValueOf(out) \in Nat
        /\ ValueOf(Boxed(p) \union out) = ValueOf(Boxed(p)) + ValueOf(out)
        /\ \A d \in Networks : d # p => Boxed(d)' = Boxed(d)
    <2>1. IsFiniteSet(postbox[p])
      BY <1>1 DEF BoxInv, BoxAt
    <2> DEFINE msgs == ch.msgs
    <2>2. /\ postbox' = [postbox EXCEPT ![p] = @ \union InTransit(p, msgs)]
          /\ out = Transit(p, msgs)
      BY <1>2
    <2> HIDE DEF msgs, out
    <2>3. QED
      BY <1>1, <1>2, <2>1, <2>2, BoxGrows
  <1>4. /\ Supply(c)' = Supply(c) - CheckpointValue(ch)
        /\ \A d \in NonRoot : d # c => Supply(d)' = Supply(d)
        /\ SupplyBelow(p)' = SupplyBelow(p) - Supply(c) + Supply(c)'
        /\ \A s \in Networks : s # p => SupplyBelow(s)' = SupplyBelow(s)
    <2>1. CommitChildCheck(c) /\ TypeInv /\ TypeInv' /\ c \in NonRoot
      OBVIOUS
    <2>2. QED
      BY ChildSupply
  <1>5. \A d \in NonRoot : Queued(d)' = Queued(d)
    <2>1. /\ Registered(c) /\ subnets'[c].registered
          /\ subnets'[c].top_down_msgs = subnets[c].top_down_msgs
          /\ \A d \in NonRoot : d # c => subnets'[d] = subnets[d]
      BY ChildCheckWrites
    <2>2. QED
      BY <1>1, <2>1 DEF Queued, Registered
  <1>6. /\ wallet'[p] = wallet[p] - 0 + (own + fee)
        /\ \A d \in Networks : d # p => wallet'[d] = wallet[d]
        /\ granted' = granted
    BY <1>1 DEF Apply, Settle, TypeInv, MoneyTyped
  <1>7. /\ Pending(c) = Pending(c)' + CheckpointValue(ch)
        /\ \A d \in NonRoot : d # c => Pending(d)' = Pending(d)
    BY PendingChild
  <1>8. CheckpointValue(ch) = (own + ValueOf(out)) + fee /\ CheckpointValue(ch) \in Nat
    BY <1>1, <1>2, CheckpointWorth DEF CheckpointValue
  <1> HIDE DEF p, k, ch, out, own, fee
  <1>9. ASSUME NEW d \in NonRoot
        PROVE  Owed(d)' + granted'[d] = Held(d)' + ValueOf(Boxed(d)')
    <2>1. /\ d \in Networks /\ Supply(d) \in Nat /\ ValueOf(Queued(d)) \in Nat
          /\ wallet[d] \in Nat /\ SupplyBelow(d) \in Nat /\ Pending(d) \in Nat
          /\ ValueOf(Boxed(d)) \in Nat /\ granted[d] \in Nat
      BY TermsTyped
    <2>2. /\ Owed(d)' = Supply(d)' - ValueOf(Queued(d)')
          /\ Held(d)' = wallet'[d] + SupplyBelow(d)' + Pending(d)'
      BY TermsAfter
    <2>3. Owed(d) + granted[d] = Held(d) + ValueOf(Boxed(d))
      BY DEF Books
    <2>4. ValueOf(Queued(d)') = ValueOf(Queued(d))
      BY <1>5
    <2>5. CASE d = c
      <3>1. c # p
        BY NotOwnParent DEF p
      <3> DEFINE s == Supply(d)
                 q == ValueOf(Queued(d))
                 w == wallet[d]
                 b == SupplyBelow(d)
                 u == Pending(d)
                 n == Pending(d)'
                 x == ValueOf(Boxed(d))
                 g == granted[d]
                 v == CheckpointValue(ch)
      <3>2. /\ Owed(d)' = (s - v) - q /\ Held(d)' = w + b + n
            /\ granted'[d] = g /\ ValueOf(Boxed(d)') = x /\ u = n + v
        BY <1>3, <1>4, <1>6, <1>7, <2>1, <2>2, <2>4, <2>5, <3>1
      <3>3. /\ s \in Nat /\ q \in Nat /\ w \in Nat /\ b \in Nat /\ u \in Nat /\ x \in Nat
            /\ g \in Nat /\ v \in Nat /\ (s - q) + g = (w + b + u) + x
        BY <1>8, <2>1, <2>3 DEF Owed, Held
      <3>4. n \in Int
        <4>1. WindowLog(bottomup_checkpoints'[d])
          BY <2>1 DEF TypeInv, BottomUpTyped
        <4>2. Pending(d)' = PendingIn(d, bottomup_checkpoints'[d], bottomup_checkpoints'[Parent(d)])
          BY DEF Pending, PendingIn, OpenIn, ListedIn, CheckpointValue, TotalValue, Total
        <4>3. QED
          BY <4>1, <4>2, PendingTyped
      <3> HIDE DEF s, q, w, b, u, n, x, g, v
      <3>5. ((s - v) - q) + g = (w + b + n) + x
        BY <3>2, <3>3, <3>4
      <3>6. QED
        BY <3>2, <3>5
    <2>6. CASE d # c /\ d = p
      <3> DEFINE s == Supply(d)
                 q == ValueOf(Queued(d))
                 w == wallet[d]
                 b == SupplyBelow(d)
                 a == Supply(c)
                 u == Pending(d)
                 x == ValueOf(Boxed(d))
                 y == ValueOf(out)
                 g == granted[d]
      <3>1. /\ Owed(d)' = s - q
            /\ Held(d)' = (w - 0 + (own + fee)) + (b - a + (a - ((own + y) + fee))) + u
            /\ granted'[d] = g /\ ValueOf(Boxed(d)') = x + y
        BY <1>3, <1>4, <1>6, <1>7, <1>8, <2>1, <2>2, <2>4, <2>6
      <3>2. a \in Nat
        BY TermsTyped
      <3>3. /\ s \in Nat /\ q \in Nat /\ w \in Nat /\ b \in Nat /\ u \in Nat /\ x \in Nat
            /\ y \in Nat /\ g \in Nat /\ own \in Nat /\ fee \in Nat
            /\ (s - q) + g = (w + b + u) + x
        BY <1>1, <1>2, <1>3, <2>1, <2>3, <2>6 DEF Owed, Held
      <3> HIDE DEF s, q, w, b, a, u, x, y, g
      <3>4. (s - q) + g
              = ((w - 0 + (own + fee)) + (b - a + (a - ((own + y) + fee))) + u) + (x + y)
        BY <3>2, <3>3
      <3>5. QED
        BY <3>1, <3>4
    <2>7. CASE d # c /\ d # p
      <3>1. /\ Owed(d)' = Owed(d) /\ Held(d)' = Held(d)
            /\ granted'[d] = granted[d] /\ Boxed(d)' = Boxed(d)
        BY <1>3, <1>4, <1>6, <1>7, <2>1, <2>2, <2>4, <2>7 DEF Owed, Held
      <3>2. QED
        BY <2>3, <3>1
    <2>8. QED
      BY <2>5, <2>6, <2>7
  <1>10. QED
    BY <1>9, BooksAfter

\* Every step keeps to it: only a checkpoint executed at the parent is listed, once its
\* window is over and as the last one committed.
LEMMA NextPast ==
  ASSUME TypeInv, TypeInv', ListedPast, [Next]_vars
  PROVE  ListedPast'
  <1>0. \A c \in NonRoot : c \in Networks
    BY DEF NonRoot
  <1>1. \A c \in NonRoot : epoch[c] \in Int /\ epoch'[c] \in Int
    BY <1>0 DEF TypeInv, CountersTyped
  <1> DEFINE Lists == \A t \in Networks :
               ListedIn(bottomup_checkpoints'[t]) = ListedIn(bottomup_checkpoints[t])
             Prevs == \A c \in NonRoot : Registered(c)' =>
               Registered(c) /\ subnets'[c].prev_epoch = subnets[c].prev_epoch
  <1>2. CASE FundAny \/ ReleaseAny \/ SendCrossAny \/ \E s \in Networks : PropagateAny(s)
    <2>1. ASSUME NEW t \in Networks, NEW m \in Message,
                 UNCHANGED <<epoch, carried>>,
                 \/ CommitTopdownMsg(t, m) /\ UNCHANGED bottomUp
                 \/ CommitBottomupMsg(t, m, CrossMsgFee) /\ UNCHANGED subnets
          PROVE  ListedPast'
      <3>1. Lists
        <4>1. CASE UNCHANGED bottomUp
          BY <4>1 DEF bottomUp
        <4>2. CASE CommitBottomupMsg(t, m, CrossMsgFee)
          BY <4>2, ListedKept, AmountsAssumption DEF TypeInv
        <4>3. QED
          BY <2>1, <4>1, <4>2
      <3>2. Prevs
        BY <2>1, PrevKept DEF TypeInv
      <3>3. \A c \in NonRoot : epoch'[c] >= epoch[c]
        BY <1>1, <2>1
      <3>4. QED
        BY <1>1, <3>1, <3>2, <3>3, PastKept
    <2>2. CASE FundAny
      <3>1. PICK r \in FundRoutes, a \in Senders, v \in Amounts : Fund(r[1], r[2], a, v)
        BY <2>2 DEF FundAny
      <3>2. r[1] \in Networks /\ r[2] \in NonRoot
        BY <3>1, RoutesAssumption DEF Fund, NonRoot
      <3>3. NewFundMsg(r[2], a, CollectCrossFee(v)) \in Message
        BY <3>1, <3>2, SentMessages DEF Fund
      <3>4. /\ CommitTopdownMsg(r[1], NewFundMsg(r[2], a, CollectCrossFee(v)))
            /\ UNCHANGED bottomUp /\ UNCHANGED <<epoch, carried>>
        BY <3>1 DEF Fund, Sends
      <3>5. QED
        BY <2>1, <3>2, <3>3, <3>4
    <2>3. CASE ReleaseAny
      <3>1. PICK t \in Releasing, a \in Senders, v \in Amounts : Release(t, a, v)
        BY <2>3 DEF ReleaseAny
      <3>2. t \in NonRoot /\ t \in Networks
        BY RoutesAssumption, NetworksAreIDs
      <3>3. NewReleaseMsg(t, a, CollectCrossFee(v)) \in Message
        BY <3>1, <3>2, SentMessages DEF Release
      <3>4. /\ CommitBottomupMsg(t, NewReleaseMsg(t, a, CollectCrossFee(v)), CrossMsgFee)
            /\ UNCHANGED subnets /\ UNCHANGED <<epoch, carried>>
        BY <3>1 DEF Release, Sends
      <3>5. QED
        BY <2>1, <3>2, <3>3, <3>4
    <2>4. ASSUME NEW t \in Networks, NEW m \in Message, UNCHANGED <<epoch, carried>>,
                 CommitCrossMessage(t, m, CrossMsgFee)
          PROVE  ListedPast'
      <3>1. \/ CommitTopdownMsg(t, m) /\ UNCHANGED bottomUp
            \/ CommitBottomupMsg(t, m, CrossMsgFee) /\ UNCHANGED subnets
        BY <2>4 DEF CommitCrossMessage, CommitUp, CommitTurn, CommitDown
      <3>2. QED
        BY <2>1, <2>4, <3>1
    <2>5. CASE SendCrossAny
      <3>1. PICK r \in SendRoutes, a \in Senders, v \in Amounts, q \in Payloads :
              SendCross(r[1], r[2], a, v, q)
        BY <2>5 DEF SendCrossAny
      <3>2. r[1] \in Networks /\ r[2] \in Destinations
        BY RoutesAssumption DEF Destinations
      <3>3. Msg(r[1], r[2], a, CollectCrossFee(v), q) \in Message
        BY <3>1, <3>2, SentMessages DEF SendCross
      <3>4. /\ CommitCrossMessage(r[1], Msg(r[1], r[2], a, CollectCrossFee(v), q), CrossMsgFee)
            /\ UNCHANGED <<epoch, carried>>
        BY <3>1 DEF SendCross, Sends
      <3>5. QED
        BY <2>4, <3>2, <3>3, <3>4
    <2>6. CASE \E s \in Networks : PropagateAny(s)
      <3>1. PICK t \in Networks : PropagateAny(t)
        BY <2>6
      <3>2. PICK i \in postbox[t], o \in Accounts : Propagate(t, i, o)
        BY <3>1 DEF PropagateAny
      <3>3. i.msg \in Message
        BY DEF TypeInv, PostboxTyped, Item
      <3>4. CommitCrossMessage(t, i.msg, CrossMsgFee) /\ UNCHANGED <<epoch, carried>>
        BY <3>2 DEF Propagate
      <3>5. QED
        BY <2>4, <3>3, <3>4
    <2>7. QED
      BY <1>2, <2>2, <2>3, <2>5, <2>6
  <1>3. CASE \E c \in NonRoot : CommitChildCheck(c)
    <2>1. PICK c \in NonRoot : CommitChildCheck(c)
      BY <1>3
    <2> DEFINE k == subnets[c].prev_epoch + CheckPeriod
               p == Parent(c)
    <2>2. /\ p \in Networks /\ k \in Nat /\ k <= epoch[c] /\ k > subnets[c].prev_epoch
          /\ ListedIn(bottomup_checkpoints'[p]) = ListedIn(bottomup_checkpoints[p]) \union {<<c, k>>}
          /\ \A t \in Networks : t # p => bottomup_checkpoints'[t] = bottomup_checkpoints[t]
      BY <2>1, ChildListed
    <2>3. /\ Registered(c) /\ subnets'[c].prev_epoch = k
          /\ \A d \in NonRoot : d # c => subnets'[d] = subnets[d]
      BY <2>1, ChildCheckWrites
    <2>4. epoch' = epoch
      BY <2>1 DEF CommitChildCheck
    <2> HIDE DEF k
    <2> SUFFICES ASSUME NEW d \in NonRoot, NEW l \in Int,
                        <<d, l>> \in ListedIn(bottomup_checkpoints'[Parent(d)])
                 PROVE  l <= epoch'[d] /\ (Registered(d)' => l <= subnets'[d].prev_epoch)
      BY DEF ListedPast
    <2>5. Parent(d) \in Networks
      BY NetworksAreIDs
    <2>6. CASE <<d, l>> = <<c, k>>
      BY <2>2, <2>3, <2>4, <2>6
    <2>7. CASE <<d, l>> # <<c, k>>
      <3>1. <<d, l>> \in ListedIn(bottomup_checkpoints[Parent(d)])
        BY <2>2, <2>5, <2>7
      <3>2. l <= epoch[d] /\ (Registered(d) => l <= subnets[d].prev_epoch)
        BY <3>1 DEF ListedPast
      <3>3. CASE d # c
        BY <2>3, <2>4, <3>2, <3>3 DEF Registered
      <3>4. CASE d = c
        <4>1. subnets[c].prev_epoch \in Nat
          <5>1. subnets[c] \in Subnet
            BY <2>3 DEF TypeInv, SubnetsTyped, Registered, NotRegistered
          <5>2. QED
            BY <5>1 DEF Subnet
        <4>2. QED
          BY <2>2, <2>3, <2>4, <3>2, <3>4, <4>1
      <3>5. QED
        BY <3>3, <3>4
    <2>8. QED
      BY <2>6, <2>7
  <1>4. CASE \/ \E s \in Networks : WhitelistAny(s)
             \/ \E c \in NonRoot : ExecuteTopdownAny(c) \/ SetMembership(c)
             \/ UNCHANGED vars
    <2>1. UNCHANGED <<epoch, bottomup_checkpoints, subnets>>
      BY <1>4 DEF WhitelistAny, WhitelistPropagator, ExecuteTopdownAny, ExecuteTopdown,
                  SetMembership, vars, bottomUp
    <2>2. Lists /\ Prevs /\ \A c \in NonRoot : epoch'[c] >= epoch[c]
      BY <1>1, <2>1 DEF Registered
    <2>3. QED
      BY <1>1, <2>2, PastKept
  <1>5. CASE \E s \in Networks : Tick(s)
    <2>1. PICK s \in Networks : Tick(s)
      BY <1>5
    <2>2. UNCHANGED <<bottomup_checkpoints, subnets>> /\ epoch' = [epoch EXCEPT ![s] = @ + 1]
      BY <2>1 DEF Tick, bottomUp
    <2>3. \A c \in NonRoot : epoch'[c] >= epoch[c]
      BY <1>0, <1>1, <2>2 DEF TypeInv, CountersTyped
    <2>4. Lists /\ Prevs
      BY <2>2 DEF Registered
    <2>5. QED
      BY <1>1, <2>3, <2>4, PastKept
  <1>6. CASE \E c \in Killable : Kill(c)
    <2>1. PICK c \in Killable : Kill(c)
      BY <1>6
    <2>2. /\ UNCHANGED <<epoch, bottomup_checkpoints>>
          /\ subnets' = [subnets EXCEPT ![c] = NotRegistered]
      BY <2>1 DEF Kill, bottomUp
    <2>3. c \in NonRoot
      BY RoutesAssumption
    <2>4. /\ subnets'[c] = NotRegistered
          /\ \A d \in NonRoot : d # c => subnets'[d] = subnets[d]
      BY <2>2, <2>3 DEF TypeInv, SubnetsTyped
    <2>5. Lists /\ \A d \in NonRoot : epoch'[d] >= epoch[d]
      BY <1>1, <2>2
    <2>6. Prevs
      BY <2>4 DEF Registered, NotRegistered
    <2>7. QED
      BY <1>1, <2>5, <2>6, PastKept
  <1>7. QED
    BY <1>2, <1>3, <1>4, <1>5, <1>6 DEF Next

\* Subnets that do not pay their validators out of their gateway's reserve.
Unfunded(K) == \A c \in K : ValidatorFunds[c] = 0
Ungranted(K) == \A c \in K : granted[c] = 0

\* Subnets that pay nothing to their validators are granted nothing.
LEMMA NextGrants ==
  ASSUME TypeInv, NEW K, K \subseteq NonRoot, Unfunded(K), Ungranted(K), [Next]_vars
  PROVE  Ungranted(K)'
  <1>1. CASE \E c \in NonRoot : SetMembership(c)
    <2>1. PICK c \in NonRoot : SetMembership(c)
      BY <1>1
    <2>2. c \notin K /\ granted' = [granted EXCEPT ![c] = ValidatorFunds[c]]
      BY <2>1, AmountsAssumption DEF SetMembership, Unfunded
    <2>3. \A d \in K : granted'[d] = granted[d]
      BY <2>2 DEF TypeInv, CountersTyped
    <2>4. QED
      BY <2>3 DEF Ungranted
  <1>2. CASE ~\E c \in NonRoot : SetMembership(c)
    <2>1. CASE FundAny \/ ReleaseAny \/ SendCrossAny
      BY <2>1 DEF FundAny, Fund, ReleaseAny, Release, SendCrossAny, SendCross, Sends, Ungranted
    <2>2. CASE \E s \in Networks : PropagateAny(s) \/ WhitelistAny(s) \/ Tick(s)
      BY <2>2 DEF PropagateAny, Propagate, WhitelistAny, WhitelistPropagator, Tick, Ungranted
    <2>3. CASE \E c \in NonRoot : ExecuteTopdownAny(c) \/ CommitChildCheck(c)
      <3>1. PICK c \in NonRoot : ExecuteTopdownAny(c) \/ CommitChildCheck(c)
        BY <2>3
      <3>2. CASE ExecuteTopdownAny(c)
        <4>1. PICK n \in 1..MaxMsgs : ExecuteTopdown(c, n)
          BY <3>2 DEF ExecuteTopdownAny
        <4>2. QED
          BY <4>1 DEF ExecuteTopdown, Apply, Ungranted
      <3>3. CASE CommitChildCheck(c)
        BY <3>3 DEF CommitChildCheck, Apply, Ungranted
      <3>4. QED
        BY <3>1, <3>2, <3>3
    <2>4. CASE (\E c \in Killable : Kill(c)) \/ UNCHANGED vars
      BY <2>4 DEF Kill, vars, Ungranted
    <2>5. QED
      BY <1>2, <2>1, <2>2, <2>3, <2>4 DEF Next
  <1>3. QED
    BY <1>1, <1>2

\* set_membership pays out on top of the books; a subnet that is killed has none left.
LEMMA LifeBooks ==
  ASSUME TypeInv, TypeInv', QueueNumbered, BoxInv, Books, Ungranted(Killable),
         (\E c \in NonRoot : SetMembership(c)) \/ (\E c \in Killable : Kill(c))
  PROVE  Books'
  <1>1. CASE \E c \in NonRoot : SetMembership(c)
    <2>1. PICK c \in NonRoot : SetMembership(c)
      BY <1>1
    <2> DEFINE v == ValidatorFunds[c]
    <2>2. /\ UNCHANGED <<postbox, subnets, carried, bottomup_checkpoints>>
          /\ Settle(c, 0, 0, v) /\ v \in Nat /\ granted[c] = 0 /\ c \in Networks
          /\ granted' = [granted EXCEPT ![c] = v]
      BY <2>1, AmountsAssumption DEF SetMembership, bottomUp, NonRoot
    <2> HIDE DEF v
    <2>3. /\ wallet'[c] = wallet[c] - 0 + v /\ granted'[c] = v
          /\ \A d \in NonRoot : d # c => wallet'[d] = wallet[d] /\ granted'[d] = granted[d]
      BY <2>2 DEF Settle, TypeInv, MoneyTyped, CountersTyped, NonRoot
    <2>4. ASSUME NEW d \in NonRoot
          PROVE  Owed(d)' + granted'[d] = Held(d)' + ValueOf(Boxed(d)')
      <3>1. /\ d \in Networks /\ Supply(d) \in Nat /\ ValueOf(Queued(d)) \in Nat
            /\ wallet[d] \in Nat /\ SupplyBelow(d) \in Nat /\ Pending(d) \in Nat
            /\ ValueOf(Boxed(d)) \in Nat /\ granted[d] \in Nat
        BY TermsTyped
      <3>2. /\ Owed(d)' = Supply(d)' - ValueOf(Queued(d)')
            /\ Held(d)' = wallet'[d] + SupplyBelow(d)' + Pending(d)'
        BY TermsAfter
      <3>3. /\ Supply(d)' = Supply(d) /\ Queued(d)' = Queued(d) /\ Boxed(d)' = Boxed(d)
            /\ Pending(d)' = Pending(d)
        BY <2>2 DEF Supply, Queued, Boxed, Pending, Registered
      <3>4. SupplyBelow(d)' = SupplyBelow(d)
        <4>1. \A e \in Children(d) : Supply(e)' = Supply(e)
          BY <2>2 DEF Supply, Registered
        <4>2. QED
          BY <4>1, SupplyStays
      <3>5. Owed(d) + granted[d] = Held(d) + ValueOf(Boxed(d))
        BY DEF Books
      <3>6. CASE d # c
        BY <2>3, <3>2, <3>3, <3>4, <3>5, <3>6 DEF Owed, Held
      <3>7. CASE d = c
        <4> DEFINE o == Supply(d) - ValueOf(Queued(d))
                   w == wallet[d]
                   b == SupplyBelow(d)
                   u == Pending(d)
                   x == ValueOf(Boxed(d))
        <4>1. /\ o \in Int /\ w \in Nat /\ b \in Nat /\ u \in Nat /\ x \in Nat
              /\ o + 0 = (w + b + u) + x
          BY <2>2, <3>1, <3>5, <3>7 DEF Owed, Held
        <4>2. /\ Owed(d)' = o /\ granted'[d] = v /\ ValueOf(Boxed(d)') = x
              /\ Held(d)' = (w - 0 + v) + b + u
          BY <2>3, <3>2, <3>3, <3>4, <3>7
        <4> HIDE DEF o, w, b, u, x
        <4>3. o + v = ((w - 0 + v) + b + u) + x
          BY <2>2, <4>1
        <4>4. QED
          BY <4>2, <4>3
      <3>8. QED
        BY <3>6, <3>7
    <2>5. QED
      BY <2>4, BooksAfter
  <1>2. CASE \E c \in Killable : Kill(c)
    <2>1. PICK c \in Killable : Kill(c)
      BY <1>2
    <2>2. /\ c \in NonRoot /\ Registered(c) /\ subnets[c].circ_supply = 0 /\ granted[c] = 0
          /\ UNCHANGED <<postbox, carried, bottomup_checkpoints, wallet, granted>>
      BY <2>1, RoutesAssumption DEF Kill, money, bottomUp, Ungranted
    <2>3. /\ subnets'[c] = NotRegistered
          /\ \A d \in NonRoot : d # c => subnets'[d] = subnets[d]
      BY <2>1, <2>2 DEF Kill, TypeInv, SubnetsTyped
    <2>4. \A d \in NonRoot : Supply(d)' = Supply(d)
      BY <2>2, <2>3 DEF Supply, Registered, NotRegistered
    <2>5. ASSUME NEW d \in NonRoot
          PROVE  /\ SupplyBelow(d)' = SupplyBelow(d) /\ Pending(d)' = Pending(d)
                 /\ Boxed(d)' = Boxed(d)
      <3>1. SupplyBelow(d)' = SupplyBelow(d)
        BY <2>4, SupplyStays DEF Children
      <3>2. QED
        BY <2>2, <3>1 DEF Pending, Boxed
    <2>6. ASSUME NEW d \in NonRoot
          PROVE  ValueOf(Queued(d)') = ValueOf(Queued(d))
      <3>1. CASE d # c
        <4>1. Queued(d)' = Queued(d)
          BY <2>2, <2>3, <3>1 DEF Queued, Registered
        <4>2. QED
          BY <4>1
      <3>2. CASE d = c
        <4>1. Queued(d)' = {}
          BY <2>3, <3>2 DEF Queued, Registered, NotRegistered
        <4>2. /\ Supply(d) = 0 /\ ValueOf(Queued(d)) \in Nat
              /\ wallet[d] \in Nat /\ SupplyBelow(d) \in Nat /\ Pending(d) \in Nat
              /\ ValueOf(Boxed(d)) \in Nat /\ granted[d] = 0
          BY <2>2, <3>2, TermsTyped DEF Supply
        <4>3. (Supply(d) - ValueOf(Queued(d))) + granted[d]
                = (wallet[d] + SupplyBelow(d) + Pending(d)) + ValueOf(Boxed(d))
          BY DEF Books, Owed, Held
        <4> DEFINE q == ValueOf(Queued(d))
                   w == wallet[d]
                   b == SupplyBelow(d)
                   u == Pending(d)
                   x == ValueOf(Boxed(d))
        <4>4. /\ q \in Nat /\ w \in Nat /\ b \in Nat /\ u \in Nat /\ x \in Nat
              /\ (0 - q) + 0 = (w + b + u) + x
          BY <4>2, <4>3
        <4> HIDE DEF q, w, b, u, x
        <4>5. q = 0
          BY <4>4
        <4>6. QED
          BY <4>1, <4>5, NothingWorth DEF q
      <3>3. QED
        BY <3>1, <3>2
    <2>7. \A d \in NonRoot : Owed(d)' = Owed(d) /\ Held(d)' = Held(d) /\ Boxed(d)' = Boxed(d)
      BY <2>2, <2>4, <2>5, <2>6, TermsAfter DEF Owed, Held
    <2>8. QED
      BY <2>2, <2>7, BooksKept
  <1>3. QED
    BY <1>1, <1>2

\* Every step keeps the books of every subnet.
LEMMA NextBooks ==
  ASSUME TypeInv, TypeInv', RouteInv, OnceInv, ListedPast, Ungranted(Killable),
         Books, [Next]_vars
  PROVE  Books'
  <1>0. QueueNumbered /\ BoxInv
    BY DEF OnceInv
  <1>1. CASE FundAny \/ ReleaseAny \/ SendCrossAny
    BY <1>0, <1>1, SendingBooks
  <1>2. CASE \E s \in Networks : PropagateAny(s)
    BY <1>0, <1>2, PropagateBooks
  <1>3. CASE \E c \in NonRoot : CommitChildCheck(c)
    BY <1>0, <1>3, ChildBooks
  <1>4. CASE \E c \in NonRoot : ExecuteTopdownAny(c)
    <2>1. PICK c \in NonRoot : ExecuteTopdownAny(c)
      BY <1>4
    <2>2. PICK n \in 1..MaxMsgs :
            /\ Registered(c) /\ carried[c] + n - 1 \in DOMAIN subnets[c].top_down_msgs
            /\ ExecuteTopdown(c, n)
      BY <2>1 DEF ExecuteTopdownAny
    <2>3. TakesNext(c, n)
      BY <2>2 DEF TakesNext
    <2>4. QED
      BY <1>0, <2>3, QueueBooks
  <1>5. CASE (\E c \in NonRoot : SetMembership(c)) \/ (\E c \in Killable : Kill(c))
    BY <1>0, <1>5, LifeBooks
  <1>6. CASE (\E s \in Networks : WhitelistAny(s) \/ Tick(s)) \/ UNCHANGED vars
    <2>1. UNCHANGED <<subnets, carried, wallet, granted, bottomup_checkpoints>>
      BY <1>6 DEF WhitelistAny, WhitelistPropagator, Tick, vars, money, bottomUp
    <2>2. \A s \in Networks : Boxed(s)' = Boxed(s)
      <3>1. CASE \E s \in Networks : WhitelistAny(s)
        <4>1. PICK t \in Networks : WhitelistAny(t)
          BY <3>1
        <4>2. PICK i \in postbox[t], o \in Accounts, added \in Accounts :
                WhitelistPropagator(t, i, o, added)
          BY <4>1 DEF WhitelistAny
        <4> DEFINE new == PostBoxItem(i.msg, i.owners \union {added})
        <4>3. /\ postbox'[t] = (postbox[t] \ {i}) \union {new} /\ new.msg = i.msg
              /\ \A s \in Networks : s # t => postbox'[s] = postbox[s]
          BY <4>2 DEF WhitelistPropagator, SwapPostboxItem, TypeInv, PostboxTyped, PostBoxItem
        <4> HIDE DEF new
        <4>4. QED
          BY <4>3 DEF Boxed
      <3>2. CASE UNCHANGED postbox
        BY <3>2 DEF Boxed
      <3>3. QED
        BY <1>6, <3>1, <3>2 DEF Tick, vars
    <2>3. ASSUME NEW d \in NonRoot
          PROVE  Owed(d)' = Owed(d) /\ Held(d)' = Held(d) /\ Boxed(d)' = Boxed(d)
      <3>1. /\ Supply(d)' = Supply(d) /\ Queued(d)' = Queued(d) /\ Pending(d)' = Pending(d)
            /\ Boxed(d)' = Boxed(d)
        BY <2>1, <2>2 DEF Supply, Queued, Pending, Registered, NonRoot
      <3>2. SupplyBelow(d)' = SupplyBelow(d)
        <4>1. \A e \in Children(d) : Supply(e)' = Supply(e)
          BY <2>1 DEF Supply, Registered
        <4>2. QED
          BY <4>1, SupplyStays
      <3>3. QED
        BY <2>1, <3>1, <3>2, TermsAfter DEF Owed, Held
    <2>4. QED
      BY <2>1, <2>3, BooksKept
  <1>7. QED
    BY <1>1, <1>2, <1>3, <1>4, <1>5, <1>6 DEF Next

\* At first, what a subnet has received is on its chain and below it.
LEMMA InitBooks ==
  ASSUME Init
  PROVE  Books /\ ListedPast /\ Ungranted(NonRoot)
  <1>1. ListedPast
    <2>1. ASSUME NEW c \in NonRoot
          PROVE  ListedIn(bottomup_checkpoints[Parent(c)]) = {}
      <3>1. bottomup_checkpoints[Parent(c)] = <<>>
        BY NetworksAreIDs DEF Init
      <3>2. QED
        BY <3>1 DEF ListedIn
    <2>2. QED
      BY <2>1 DEF ListedPast
  <1>2. Ungranted(NonRoot)
    BY DEF Init, Ungranted
  <1>3. ASSUME NEW c \in NonRoot
        PROVE  Owed(c) + granted[c] = Held(c) + ValueOf(Boxed(c))
    <2>1. c \in Networks /\ ~IsRoot(c)
      BY DEF NonRoot
    <2>2. Supply(c) = Endowment[c] /\ granted[c] = 0 /\ wallet[c] = Endowment[c] - EndowedBelow(c)
      BY <2>1 DEF Init, Supply, Registered
    <2>3. SupplyBelow(c) = EndowedBelow(c)
      BY <2>1, InitSupply
    <2>4. ValueOf(Boxed(c)) = 0
      BY <2>1, NothingBoxed DEF Init
    <2>5. ValueOf(Queued(c)) = 0
      <3>1. /\ DOMAIN subnets[c].top_down_msgs = IF Endowment[c] > 0 THEN {0} ELSE {}
            /\ carried[c] = IF Endowment[c] > 0 THEN 1 ELSE 0
        BY DEF Init
      <3>2. Queued(c) = {}
        BY <3>1 DEF Queued
      <3>3. QED
        BY <3>2, NothingWorth
    <2>6. Pending(c) = 0
      <3>1. bottomup_checkpoints[c] = <<>>
        BY <2>1 DEF Init
      <3>2. OpenIn(c, bottomup_checkpoints[c], bottomup_checkpoints[Parent(c)]) = {}
        BY <3>1 DEF OpenIn
      <3> DEFINE f == [k \in {} |-> CheckpointValue(bottomup_checkpoints[c][k])]
                 z == [k \in {} |-> 0]
      <3>3. Pending(c) = SumFunction(f)
        BY <3>2 DEF Pending, PendingIn, Total
      <3>4. f = z
        OBVIOUS
      <3>5. SumFunction(z) = 0
        BY FS_EmptySet, LedgerZero
      <3>6. QED
        BY <3>3, <3>4, <3>5
    <2>7. Endowment[c] \in Nat /\ EndowedBelow(c) \in Nat
      BY <2>1, EndowmentType, AmountsAssumption
    <2>8. Owed(c) + granted[c] = (Endowment[c] - 0) + 0
      BY <2>2, <2>5 DEF Owed
    <2>9. Held(c) + ValueOf(Boxed(c)) = ((Endowment[c] - EndowedBelow(c)) + EndowedBelow(c) + 0) + 0
      BY <2>2, <2>3, <2>4, <2>6 DEF Held
    <2>10. QED
      BY <2>7, <2>8, <2>9
  <1>4. QED
    BY <1>1, <1>2, <1>3 DEF Books

\* Whatever is sent, carried, executed, propagated, paid out and killed, the circulating
\* supply a gateway keeps for a subnet is what there is below: on the chain and the chains
\* under it, in queues and postboxes, and in checkpoints that are not executed yet, values
\* and fees.  The hypothesis is the one the property names: no subnet that may be killed
\* pays its validators on top of its supply.
THEOREM SupplyIsAccounted == Unfunded(Killable) => (Spec => []SupplyAccounted)
  <1> SUFFICES ASSUME Unfunded(Killable) PROVE Spec => []SupplyAccounted
    OBVIOUS
  <1> DEFINE Inv == Books /\ ListedPast /\ Ungranted(Killable)
  <1>0. Killable \subseteq NonRoot
    BY RoutesAssumption
  <1>1. Init => Inv
    BY <1>0, InitBooks DEF Ungranted
  <1>2. TypeInv /\ RouteInv /\ OnceInv /\ TypeInv' /\ Inv /\ [Next]_vars => Inv'
    BY <1>0, NextBooks, NextPast, NextGrants
  <1>3. TypeInv /\ OnceInv /\ Inv => SupplyAccounted
    BY BooksAreSupply DEF OnceInv
  <1>4. QED
    BY <1>1, <1>2, <1>3, RouteInvHolds, OnceInvHolds, PTL DEF Spec

\* Where no subnet pays its validators on top of its supply, the gateway of the parent
\* never refuses a checkpoint for what it releases: whatever the chain has put into its
\* checkpoints, ahead of time or late, is covered by its circulating supply.
THEOREM ReleasesAreCovered == Unfunded(NonRoot) => (Spec => []ReleaseCovered)
  <1> SUFFICES ASSUME Unfunded(NonRoot) PROVE Spec => []ReleaseCovered
    OBVIOUS
  <1>1. Unfunded(Killable)
    BY RoutesAssumption DEF Unfunded
  <1>2. Init => Ungranted(NonRoot)
    BY InitBooks
  <1>3. TypeInv /\ Ungranted(NonRoot) /\ [Next]_vars => Ungranted(NonRoot)'
    BY NextGrants
  <1>4. TypeInv /\ OnceInv /\ Ungranted(NonRoot) /\ SupplyAccounted => ReleaseCovered
    <2> SUFFICES ASSUME TypeInv, OnceInv, Ungranted(NonRoot), SupplyAccounted,
                        NEW c \in NonRoot, Registered(c)
                 PROVE  Total([k \in Uncommitted(c) |->
                                 CheckpointValue(bottomup_checkpoints[c][k])])
                          <= subnets[c].circ_supply
      BY DEF ReleaseCovered
    <2> DEFINE s == subnets[c].circ_supply
               q == ValueOf(Queued(c))
               w == wallet[c]
               b == SupplyBelow(c)
               x == ValueOf(Boxed(c))
               u == Pending(c)
    <2>1. Total([k \in Uncommitted(c) |-> CheckpointValue(bottomup_checkpoints[c][k])]) = u
      BY PendingIs
    <2>2. s + 0 = q + w + x + b + u
      BY <2>1 DEF SupplyAccounted, Ungranted, Supply
    <2>3. s \in Nat /\ q \in Nat /\ w \in Nat /\ b \in Nat /\ x \in Nat /\ u \in Nat
      BY TermsTyped DEF OnceInv, Supply
    <2> HIDE DEF s, q, w, b, x, u
    <2>4. u <= s
      BY <2>2, <2>3
    <2>5. QED
      BY <2>1, <2>4 DEF s
  <1>5. QED
    BY <1>1, <1>2, <1>3, <1>4, SupplyIsAccounted, RouteInvHolds, OnceInvHolds, PTL DEF Spec
=============================================================================
