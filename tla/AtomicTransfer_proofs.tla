------------------------ MODULE AtomicTransfer_proofs ------------------------
(***************************************************************************)
(* Proofs about AtomicTransfer, for every set of tokens, accounts,         *)
(* transfers and executions.                                               *)
(***************************************************************************)
EXTENDS AtomicTransfer, Lemmas, SequenceTheorems

-----------------------------------------------------------------------------

(* Queues *)

ToCoordinator == [method : {"PreCommit", "Revoke"}, exec_id : Executions]
ToToken == [method : {"Commit", "Rollback"}, exec_id : Executions]

\* Messages of different methods, or about different executions, differ.
LEMMA MessagesDiffer ==
  \A m, n, x, y : Message(m, x) = Message(n, y) <=> m = n /\ x = y
  <1>1. \A m, n, x, y : Message(m, x) = Message(n, y) => m = n /\ x = y
    <2> TAKE m, n, x, y
    <2>1. /\ Message(m, x).method = m /\ Message(m, x).exec_id = x
          /\ Message(n, y).method = n /\ Message(n, y).exec_id = y
      BY DEF Message
    <2>2. QED
      BY <2>1
  <1>2. QED
    BY <1>1

\* A queue without the message at one place is a queue of the same messages.
LEMMA RemoveAtType ==
  ASSUME NEW S, NEW q \in Seq(S), NEW i \in DOMAIN q
  PROVE  RemoveAt(q, i) \in Seq(S)
  <1>1. Len(q) \in Nat /\ i \in 1..Len(q) /\ \A j \in 1..Len(q) : q[j] \in S
    BY LenProperties
  <1>2. SubSeq(q, 1, i - 1) \in Seq(S)
    <2>1. 1 \in Int /\ i - 1 \in Int /\ \A j \in 1..(i - 1) : q[j] \in S
      BY <1>1
    <2>2. QED
      BY <2>1, SubSeqProperties
  <1>3. SubSeq(q, i + 1, Len(q)) \in Seq(S)
    <2>1. i + 1 \in Int /\ Len(q) \in Int /\ \A j \in (i + 1)..Len(q) : q[j] \in S
      BY <1>1
    <2>2. QED
      BY <2>1, SubSeqProperties
  <1>4. QED
    BY <1>2, <1>3, ConcatProperties DEF RemoveAt

\* Without its first message, a queue moves up by one place.
LEMMA WithoutFirst ==
  ASSUME NEW S, NEW q \in Seq(S), q # <<>>, NEW r, r = RemoveAt(q, 1)
  PROVE  /\ r \in Seq(S) /\ Len(r) = Len(q) - 1 /\ Len(q) \in Nat
         /\ \A i \in 1..Len(r) : r[i] = q[i + 1]
  <1>1. Len(q) \in Nat /\ 1 \in 1..Len(q) /\ \A j \in 1..Len(q) : q[j] \in S
    BY LenProperties
  <1>2. SubSeq(q, 1, 0) = <<>>
    BY SubSeqEmpty
  <1>3. /\ SubSeq(q, 2, Len(q)) \in Seq(S)
        /\ Len(SubSeq(q, 2, Len(q))) = IF 2 <= Len(q) THEN Len(q) - 2 + 1 ELSE 0
        /\ \A i \in 1 .. (Len(q) - 2 + 1) : SubSeq(q, 2, Len(q))[i] = q[2 + i - 1]
    <2>1. 2 \in Int /\ Len(q) \in Int /\ \A j \in 2..Len(q) : q[j] \in S
      BY <1>1
    <2>2. QED
      BY <2>1, SubSeqProperties
  <1>4. r = <<>> \o SubSeq(q, 2, Len(q))
    BY <1>2 DEF RemoveAt
  <1>5. r = SubSeq(q, 2, Len(q))
    BY <1>3, <1>4, ConcatEmptySeq
  <1>6. Len(r) = Len(q) - 1
    BY <1>1, <1>3, <1>5
  <1>7. ASSUME NEW i \in 1..Len(r)
        PROVE  r[i] = q[i + 1]
    <2>1. i \in 1 .. (Len(q) - 2 + 1) /\ 2 + i - 1 = i + 1
      BY <1>1, <1>6
    <2>2. SubSeq(q, 2, Len(q))[i] = q[2 + i - 1]
      BY <1>3, <2>1
    <2>3. QED
      BY <1>5, <2>1, <2>2
  <1>8. r \in Seq(S)
    BY <1>3, <1>5
  <1>9. QED
    BY <1>1, <1>6, <1>7, <1>8
-----------------------------------------------------------------------------

(* Types *)

\* The parts of a transfer.
LEMMA TransferParts ==
  \A tr \in Transfers :
    tr.from \in Accounts /\ tr.to \in Accounts /\ tr.amount \in Int /\ tr # NoTransfer
  BY TransfersAssumption

\* An entry of a registry is a transfer or nothing.
LEMMA EntryTypes ==
  ASSUME TypeOK, NEW t \in Tokens
  PROVE  /\ \A i \in InputIds : input_ids[t][i] # NoTransfer => input_ids[t][i] \in Transfers
         /\ \A x \in Executions : exec_ids[t][x] # NoTransfer => exec_ids[t][x] \in Transfers
  <1>1. /\ input_ids \in [Tokens -> [InputIds -> Transfers \cup {NoTransfer}]]
        /\ exec_ids \in [Tokens -> [Executions -> Transfers \cup {NoTransfer}]]
    BY DEF TypeOK
  <1>2. /\ input_ids[t] \in [InputIds -> Transfers \cup {NoTransfer}]
        /\ exec_ids[t] \in [Executions -> Transfers \cup {NoTransfer}]
    BY <1>1
  <1>3. /\ \A i \in InputIds : input_ids[t][i] \in Transfers \cup {NoTransfer}
        /\ \A x \in Executions : exec_ids[t][x] \in Transfers \cup {NoTransfer}
    BY <1>2
  <1>4. QED
    BY <1>3

\* do_transfer keeps the balances integers.
LEMMA DoTransferType ==
  ASSUME TypeOK, NEW t \in Tokens, NEW tr \in Transfers
  PROVE  DoTransfer(t, tr) \in [Tokens -> [Accounts -> Int]]
  <1>1. tr.from \in Accounts /\ tr.to \in Accounts /\ tr.amount \in Int
    BY TransferParts
  <1>2. balances \in [Tokens -> [Accounts -> Int]]
    BY DEF TypeOK
  <1>3. balances[t][tr.from] \in Int /\ balances[t][tr.to] \in Int
    BY <1>1, <1>2
  <1>4. balances[t][tr.from] - tr.amount \in Int /\ balances[t][tr.to] + tr.amount \in Int
    BY <1>1, <1>3
  <1>5. QED
    BY <1>1, <1>2, <1>4 DEF DoTransfer

\* What do_transfer leaves: the other accounts and the other tokens; what the receiver
\* gains the sender loses.
LEMMA DoTransferFields ==
  ASSUME TypeOK, NEW t \in Tokens, NEW tr \in Transfers, NEW b, b = DoTransfer(t, tr)
  PROVE  /\ \A s \in Tokens : s # t => b[s] = balances[s]
         /\ \A a \in Accounts : a # tr.from /\ a # tr.to => b[t][a] = balances[t][a]
         /\ b[t][tr.to] = balances[t][tr.to] + tr.amount
         /\ tr.from # tr.to => b[t][tr.from] = balances[t][tr.from] - tr.amount
  <1>1. tr.from \in Accounts /\ tr.to \in Accounts
    BY TransferParts
  <1>2. balances \in [Tokens -> [Accounts -> Int]]
    BY DEF TypeOK
  <1>3. QED
    BY <1>1, <1>2 DEF DoTransfer

\* A message leaves its queue.
LEMMA ReceivesType ==
  ASSUME NEW S, NEW queues \in [Tokens -> Seq(S)], NEW t \in Tokens, NEW i \in DOMAIN queues[t]
  PROVE  [queues EXCEPT ![t] = RemoveAt(@, i)] \in [Tokens -> Seq(S)]
  <1>1. RemoveAt(queues[t], i) \in Seq(S)
    BY RemoveAtType
  <1>2. QED
    BY <1>1

\* A message joins a queue.
LEMMA SendsType ==
  ASSUME NEW S, NEW queues \in [Tokens -> Seq(S)], NEW t \in Tokens, NEW m \in S
  PROVE  [queues EXCEPT ![t] = Append(@, m)] \in [Tokens -> Seq(S)]
  <1>1. Append(queues[t], m) \in Seq(S)
    BY AppendProperties
  <1>2. QED
    BY <1>1

\* The type invariant with the sets of messages named.
LEMMA QueueTypes ==
  TypeOK => to_coordinator \in [Tokens -> Seq(ToCoordinator)]
            /\ to_token \in [Tokens -> Seq(ToToken)]
  BY DEF TypeOK, ToCoordinator, ToToken

\* The coordinator's mail and the tokens' mail after one delivery.
LEMMA DeliveryType ==
  ASSUME TypeOK, NEW t \in Tokens, NEW m, NEW x \in Executions
  PROVE  /\ Receives(t, m, x) => to_token' \in [Tokens -> Seq(ToToken)]
         /\ CoordinatorReceives(t, m, x) =>
              to_coordinator' \in [Tokens -> Seq(ToCoordinator)]
  <1>1. ASSUME Receives(t, m, x)
        PROVE  to_token' \in [Tokens -> Seq(ToToken)]
    <2>1. PICK i \in DOMAIN to_token[t] : to_token' = [to_token EXCEPT ![t] = RemoveAt(@, i)]
      BY <1>1 DEF Receives, Deliverable
    <2>2. QED
      BY <2>1, QueueTypes, ReceivesType
  <1>2. ASSUME CoordinatorReceives(t, m, x)
        PROVE  to_coordinator' \in [Tokens -> Seq(ToCoordinator)]
    <2>1. PICK i \in DOMAIN to_coordinator[t] :
            to_coordinator' = [to_coordinator EXCEPT ![t] = RemoveAt(@, i)]
      BY <1>2 DEF CoordinatorReceives, Deliverable
    <2>2. QED
      BY <2>1, QueueTypes, ReceivesType
  <1>3. QED
    BY <1>1, <1>2

\* The input ids that were not given out name nothing: the last part of TypeOK's inputs.
UnusedInputs ==
  \A t \in Tokens, i \in InputIds : i >= nonce[t] => input_ids[t][i] = NoTransfer

\* Removing an input keeps it so.
LEMMA UnusedRemoved ==
  ASSUME TypeOK, NEW t \in Tokens, NEW j \in InputIds, nonce' = nonce,
         input_ids' = [input_ids EXCEPT ![t][j] = NoTransfer]
  PROVE  UnusedInputs'
  <1>1. input_ids \in [Tokens -> [InputIds -> Transfers \cup {NoTransfer}]]
    BY DEF TypeOK
  <1>2. ASSUME NEW s \in Tokens, NEW i \in InputIds, i >= nonce'[s]
        PROVE  input_ids'[s][i] = NoTransfer
    <2>1. input_ids[s][i] = NoTransfer
      BY <1>2 DEF TypeOK
    <2>2. QED
      BY <1>1, <2>1
  <1>3. QED
    BY <1>2 DEF UnusedInputs

\* The steps of a user keep the types.
LEMMA UserTypes ==
  ASSUME TypeOK, NEW t \in Tokens,
         \/ \E tr \in Transfers : Transfer(t, tr) \/ InitAtomicTransfer(t, tr)
         \/ \E i \in InputIds : CancelAtomicTransfer(t, i)
         \/ \E x \in Executions : PrepareAtomicTransfer(t, x) \/ AbortAtomicTransfer(t, x)
  PROVE  TypeOK'
  <1>1. ASSUME NEW tr \in Transfers, Transfer(t, tr)
        PROVE  TypeOK'
    <2>1. balances' \in [Tokens -> [Accounts -> Int]]
      BY <1>1, DoTransferType DEF Transfer, CanDoTransfer
    <2>2. QED
      BY <1>1, <2>1 DEF Transfer, TypeOK
  <1>2. ASSUME NEW tr \in Transfers, InitAtomicTransfer(t, tr)
        PROVE  TypeOK'
    <2>1. tr.from \in Accounts
      BY TransferParts
    <2>2. nonce[t] \in InputIds /\ nonce[t] + 1 \in 0 .. MaxInputs
      <3>1. nonce[t] \in 0 .. MaxInputs /\ nonce[t] < MaxInputs
        BY <1>2 DEF TypeOK, InitAtomicTransfer, InitAtomicExec
      <3>2. QED
        BY <3>1, BoundsAssumption DEF InputIds
    <2>3. /\ locked' \in [Tokens -> SUBSET Accounts]
          /\ nonce' \in [Tokens -> 0 .. MaxInputs]
          /\ input_ids' \in [Tokens -> [InputIds -> Transfers \cup {NoTransfer}]]
      BY <1>2, <2>1, <2>2 DEF TypeOK, InitAtomicTransfer, InitAtomicExec
    <2>4. UnusedInputs'
      <3>1. /\ nonce' = [nonce EXCEPT ![t] = nonce[t] + 1]
            /\ input_ids' = [input_ids EXCEPT ![t][nonce[t]] = tr]
        BY <1>2 DEF InitAtomicTransfer, InitAtomicExec
      <3>2. ASSUME NEW s \in Tokens, NEW i \in InputIds, i >= nonce'[s]
            PROVE  input_ids'[s][i] = NoTransfer
        <4>1. nonce \in [Tokens -> Int] /\ i \in Int
          <5>1. 0 .. MaxInputs \subseteq Int /\ InputIds \subseteq Int
            BY BoundsAssumption DEF InputIds
          <5>2. nonce \in [Tokens -> 0 .. MaxInputs]
            BY DEF TypeOK
          <5> HIDE DEF InputIds
          <5>3. \A u \in Tokens : nonce[u] \in Int
            BY <5>1, <5>2
          <5>4. QED
            BY <5>1, <5>2, <5>3
        <4>2. i >= nonce[s] /\ (s = t => i # nonce[s])
          <5>1. CASE s = t
            <6>1. nonce'[s] = nonce[s] + 1 /\ nonce[s] \in Int
              BY <3>1, <4>1, <5>1
            <6>2. QED
              BY <3>2, <4>1, <6>1
          <5>2. CASE s # t
            BY <3>1, <3>2, <4>1, <5>2
          <5>3. QED
            BY <5>1, <5>2
        <4>3. input_ids[s][i] = NoTransfer
          BY <4>2 DEF TypeOK
        <4>4. input_ids \in [Tokens -> [InputIds -> Transfers \cup {NoTransfer}]]
          BY DEF TypeOK
        <4>5. QED
          BY <3>1, <4>2, <4>3, <4>4
      <3>3. QED
        BY <3>2 DEF UnusedInputs
    <2>5. QED
      BY <1>2, <2>3, <2>4 DEF TypeOK, UnusedInputs, InitAtomicTransfer
  <1>3. ASSUME NEW i \in InputIds, CancelAtomicTransfer(t, i)
        PROVE  TypeOK'
    <2>1. /\ locked' \in [Tokens -> SUBSET Accounts]
          /\ input_ids' \in [Tokens -> [InputIds -> Transfers \cup {NoTransfer}]]
      BY <1>3 DEF TypeOK, CancelAtomicTransfer, CancelAtomicExec
    <2>2. UnusedInputs'
      <3>1. nonce' = nonce /\ input_ids' = [input_ids EXCEPT ![t][i] = NoTransfer]
        BY <1>3 DEF CancelAtomicTransfer, CancelAtomicExec
      <3>2. QED
        BY <3>1, UnusedRemoved
    <2>3. QED
      BY <1>3, <2>1, <2>2 DEF TypeOK, UnusedInputs, CancelAtomicTransfer
  <1>4. ASSUME NEW x \in Executions, PrepareAtomicTransfer(t, x)
        PROVE  TypeOK'
    <2>1. x[t] \in InputIds
      BY <1>4, ExecutionsAssumption DEF PrepareAtomicTransfer
    <2>2. /\ input_ids' \in [Tokens -> [InputIds -> Transfers \cup {NoTransfer}]]
          /\ exec_ids' \in [Tokens -> [Executions -> Transfers \cup {NoTransfer}]]
      <3>1. input_ids[t][x[t]] \in Transfers \cup {NoTransfer}
        <4>1. input_ids \in [Tokens -> [InputIds -> Transfers \cup {NoTransfer}]]
          BY DEF TypeOK
        <4>2. QED
          BY <2>1, <4>1
      <3>2. input_ids' \in [Tokens -> [InputIds -> Transfers \cup {NoTransfer}]]
        BY <1>4, <2>1 DEF TypeOK, PrepareAtomicTransfer, PrepareAtomicExec
      <3>3. exec_ids' \in [Tokens -> [Executions -> Transfers \cup {NoTransfer}]]
        BY <1>4, <3>1 DEF TypeOK, PrepareAtomicTransfer, PrepareAtomicExec
      <3>4. QED
        BY <3>2, <3>3
    <2>3. Message("PreCommit", x) \in ToCoordinator
      BY DEF Message, ToCoordinator
    <2>4. to_coordinator' \in [Tokens -> Seq(ToCoordinator)]
      BY <1>4, <2>3, QueueTypes, SendsType DEF PrepareAtomicTransfer
    <2>5. UnusedInputs'
      <3>1. nonce' = nonce /\ input_ids' = [input_ids EXCEPT ![t][x[t]] = NoTransfer]
        BY <1>4 DEF PrepareAtomicTransfer, PrepareAtomicExec
      <3>2. QED
        BY <2>1, <3>1, UnusedRemoved
    <2>6. QED
      BY <1>4, <2>2, <2>4, <2>5
      DEF TypeOK, UnusedInputs, PrepareAtomicTransfer, ToCoordinator
  <1>5. ASSUME NEW x \in Executions, AbortAtomicTransfer(t, x)
        PROVE  TypeOK'
    <2>1. aborts' \in 0 .. MaxAborts
      <3>1. aborts \in 0 .. MaxAborts /\ aborts < MaxAborts /\ aborts' = aborts + 1
        BY <1>5 DEF TypeOK, AbortAtomicTransfer
      <3>2. QED
        BY <3>1, BoundsAssumption
    <2>2. Message("Revoke", x) \in ToCoordinator
      BY DEF Message, ToCoordinator
    <2>3. to_coordinator' \in [Tokens -> Seq(ToCoordinator)]
      BY <1>5, <2>2, QueueTypes, SendsType DEF AbortAtomicTransfer
    <2>4. QED
      BY <1>5, <2>1, <2>3 DEF TypeOK, AbortAtomicTransfer, ToCoordinator, tokens
  <1>6. QED
    BY <1>1, <1>2, <1>3, <1>4, <1>5

\* The deliveries keep the types.
LEMMA DeliveryTypes ==
  ASSUME TypeOK, NEW t \in Tokens, DeliverToToken(t) \/ DeliverToCoordinator(t)
  PROVE  TypeOK'
  <1>1. ASSUME NEW x \in Executions, NEW m, Receives(t, m, x), FinishAtomicExec(t, x)
        PROVE  /\ to_token' \in [Tokens -> Seq(ToToken)]
               /\ locked' \in [Tokens -> SUBSET Accounts]
               /\ exec_ids' \in [Tokens -> [Executions -> Transfers \cup {NoTransfer}]]
    BY <1>1, DeliveryType DEF TypeOK, FinishAtomicExec
  <1>2. ASSUME NEW x \in Executions, CommitAtomicTransfer(t, x)
        PROVE  TypeOK'
    <2>1. exec_ids[t][x] \in Transfers
      BY <1>2, EntryTypes DEF CommitAtomicTransfer, FinishAtomicExec
    <2>2. balances' \in [Tokens -> [Accounts -> Int]]
      BY <1>2, <2>1, DoTransferType DEF CommitAtomicTransfer, CanDoTransfer
    <2>3. outcome' \in [Tokens -> [Executions -> {"open", "committed", "rolled back"}]]
      BY <1>2 DEF CommitAtomicTransfer, TypeOK
    <2>4. /\ to_token' \in [Tokens -> Seq(ToToken)]
          /\ locked' \in [Tokens -> SUBSET Accounts]
          /\ exec_ids' \in [Tokens -> [Executions -> Transfers \cup {NoTransfer}]]
      BY <1>1, <1>2 DEF CommitAtomicTransfer
    <2>5. QED
      BY <1>2, <2>2, <2>3, <2>4 DEF CommitAtomicTransfer, TypeOK, ToToken
  <1>3. ASSUME NEW x \in Executions, RollbackAtomicTransfer(t, x)
        PROVE  TypeOK'
    <2>1. outcome' \in [Tokens -> [Executions -> {"open", "committed", "rolled back"}]]
      BY <1>3 DEF RollbackAtomicTransfer, TypeOK
    <2>2. /\ to_token' \in [Tokens -> Seq(ToToken)]
          /\ locked' \in [Tokens -> SUBSET Accounts]
          /\ exec_ids' \in [Tokens -> [Executions -> Transfers \cup {NoTransfer}]]
      BY <1>1, <1>3 DEF RollbackAtomicTransfer
    <2>3. QED
      BY <1>3, <2>1, <2>2 DEF RollbackAtomicTransfer, TypeOK, ToToken
  <1>4. ASSUME NEW x \in Executions, NEW m, CoordinatorReceives(t, m, x),
               registry' \in [Executions -> SUBSET Tokens],
               to_token' \in [Tokens -> Seq(ToToken)], UNCHANGED <<tokens, aborts, outcome>>
        PROVE  TypeOK'
    <2>1. to_coordinator' \in [Tokens -> Seq(ToCoordinator)]
      BY <1>4, DeliveryType
    <2>2. QED
      BY <1>4, <2>1 DEF TypeOK, tokens, ToToken, ToCoordinator
  <1>5. ASSUME NEW x \in Executions, PreCommitWaits(t, x)
        PROVE  TypeOK'
    <2>1. registry' \in [Executions -> SUBSET Tokens]
      BY <1>5 DEF TypeOK, PreCommitWaits
    <2>2. to_token' \in [Tokens -> Seq(ToToken)]
      BY <1>5, QueueTypes DEF PreCommitWaits
    <2>3. QED
      BY <1>4, <1>5, <2>1, <2>2 DEF PreCommitWaits
  <1>6. ASSUME NEW x \in Executions, PreCommitCompletes(t, x)
        PROVE  TypeOK'
    <2>1. registry' \in [Executions -> SUBSET Tokens]
      BY <1>6 DEF TypeOK, PreCommitCompletes
    <2>2. Message("Commit", x) \in ToToken
      BY DEF Message, ToToken
    <2>3. to_token' \in [Tokens -> Seq(ToToken)]
      <3>1. \A s \in Tokens : /\ to_token[s] \in Seq(ToToken)
                              /\ Append(to_token[s], Message("Commit", x)) \in Seq(ToToken)
        BY <2>2, QueueTypes, AppendProperties
      <3>2. QED
        BY <1>6, <3>1 DEF PreCommitCompletes, CommitMessages
    <2>4. QED
      BY <1>4, <1>6, <2>1, <2>3 DEF PreCommitCompletes
  <1>7. ASSUME NEW x \in Executions, Revoke(t, x)
        PROVE  TypeOK'
    <2>1. registry' \in [Executions -> SUBSET Tokens]
      BY <1>7 DEF TypeOK, Revoke, Revoked
    <2>2. Message("Rollback", x) \in ToToken
      BY DEF Message, ToToken
    <2>3. to_token' \in [Tokens -> Seq(ToToken)]
      BY <1>7, <2>2, QueueTypes, SendsType DEF Revoke
    <2>4. QED
      BY <1>4, <1>7, <2>1, <2>3 DEF Revoke
  <1>8. QED
    BY <1>2, <1>3, <1>5, <1>6, <1>7 DEF DeliverToToken, DeliverToCoordinator

\* Registries, accounts and queues keep their types, whatever the signs of amounts and
\* initial balances, and init_atomic_exec never gives out an input id that is in use.
THEOREM TypeCorrect == Spec => []TypeOK
  <1>1. Init => TypeOK
    BY BalancesAssumption, BoundsAssumption DEF Init, TypeOK
  <1>2. TypeOK /\ [Next]_vars => TypeOK'
    <2> SUFFICES ASSUME TypeOK, [Next]_vars PROVE TypeOK'
      OBVIOUS
    <2>1. CASE Next
      BY <2>1, UserTypes, DeliveryTypes DEF Next
    <2>2. CASE UNCHANGED vars
      BY <2>2 DEF vars, tokens, TypeOK
    <2>3. QED
      BY <2>1, <2>2
  <1>3. QED
    BY <1>1, <1>2, PTL DEF Spec
-----------------------------------------------------------------------------

(* Locks: the state of one token, as values *)

Inputs == [InputIds -> Transfers \cup {NoTransfer}]
Execs == [Executions -> Transfers \cup {NoTransfer}]

\* No entry beyond the nonce; the account of a pending transfer is locked and covers it; no
\* two pending transfers share an account; a locked account has a pending transfer.
SoundLocks(bal, lock, n, inp, exe) ==
  /\ \A i \in InputIds : i >= n => inp[i] = NoTransfer
  /\ \A i \in InputIds : inp[i] # NoTransfer =>
       inp[i].from \in lock /\ bal[inp[i].from] >= inp[i].amount
  /\ \A x \in Executions : exe[x] # NoTransfer =>
       exe[x].from \in lock /\ bal[exe[x].from] >= exe[x].amount
  /\ \A i, j \in InputIds :
       inp[i] # NoTransfer /\ inp[j] # NoTransfer /\ inp[i].from = inp[j].from => i = j
  /\ \A x, y \in Executions :
       exe[x] # NoTransfer /\ exe[y] # NoTransfer /\ exe[x].from = exe[y].from => x = y
  /\ \A i \in InputIds, x \in Executions :
       inp[i] # NoTransfer /\ exe[x] # NoTransfer => inp[i].from # exe[x].from
  /\ \A a \in lock :
       \/ \E i \in InputIds : inp[i] # NoTransfer /\ inp[i].from = a
       \/ \E x \in Executions : exe[x] # NoTransfer /\ exe[x].from = a

\* Balances of locked accounts do not move.
LEMMA LocksAfterTransfer ==
  ASSUME NEW bal, NEW lock, NEW n, NEW inp, NEW exe, SoundLocks(bal, lock, n, inp, exe),
         NEW now, \A a \in lock : now[a] = bal[a]
  PROVE  SoundLocks(now, lock, n, inp, exe)
  BY DEF SoundLocks

\* init_atomic_exec locks an account that no pending transfer uses.
LEMMA LocksAfterInit ==
  ASSUME NEW bal, NEW lock, NEW n \in InputIds, NEW inp \in Inputs, NEW exe,
         SoundLocks(bal, lock, n, inp, exe),
         NEW tr \in Transfers, tr.from \notin lock, bal[tr.from] >= tr.amount
  PROVE  SoundLocks(bal, lock \cup {tr.from}, n + 1, [inp EXCEPT ![n] = tr], exe)
  <1> DEFINE now == [inp EXCEPT ![n] = tr]
  <1>1. now[n] = tr /\ \A i \in InputIds : i # n => now[i] = inp[i]
    BY DEF Inputs
  <1>2. tr # NoTransfer
    BY TransferParts
  <1> HIDE DEF now
  <1>3. \A i \in InputIds : i >= n + 1 => now[i] = NoTransfer
    <2>1. \A i \in InputIds : i >= n + 1 => i >= n /\ i # n
      BY BoundsAssumption DEF InputIds
    <2>2. QED
      BY <1>1, <2>1 DEF SoundLocks
  <1>4. SoundLocks(bal, lock \cup {tr.from}, n + 1, now, exe)
    <2>1. \A i \in InputIds : now[i] # NoTransfer =>
            now[i].from \in lock \cup {tr.from} /\ bal[now[i].from] >= now[i].amount
      BY <1>1 DEF SoundLocks
    <2>2. \A x \in Executions : exe[x] # NoTransfer =>
            exe[x].from \in lock \cup {tr.from} /\ bal[exe[x].from] >= exe[x].amount
      BY DEF SoundLocks
    <2>3. ASSUME NEW i \in InputIds, NEW j \in InputIds, now[i] # NoTransfer,
                 now[j] # NoTransfer, now[i].from = now[j].from
          PROVE  i = j
      BY <1>1, <2>3 DEF SoundLocks
    <2>4. \A i \in InputIds, x \in Executions :
            now[i] # NoTransfer /\ exe[x] # NoTransfer => now[i].from # exe[x].from
      BY <1>1 DEF SoundLocks
    <2>5. ASSUME NEW a \in lock \cup {tr.from}
          PROVE  \/ \E i \in InputIds : now[i] # NoTransfer /\ now[i].from = a
                 \/ \E x \in Executions : exe[x] # NoTransfer /\ exe[x].from = a
      <3>1. CASE a = tr.from
        BY <1>1, <1>2, <3>1
      <3>2. CASE a \in lock
        <4>1. inp[n] = NoTransfer
          <5>1. n >= n
            BY BoundsAssumption DEF InputIds
          <5>2. QED
            BY <5>1 DEF SoundLocks
        <4>2. QED
          BY <1>1, <3>2, <4>1 DEF SoundLocks
      <3>3. QED
        BY <3>1, <3>2
    <2>6. QED
      BY <1>3, <2>1, <2>2, <2>3, <2>4, <2>5 DEF SoundLocks
  <1>5. QED
    BY <1>4 DEF now

\* cancel_atomic_exec unlocks the account of the input it removes.
LEMMA LocksAfterCancel ==
  ASSUME NEW bal, NEW lock, NEW n, NEW inp \in Inputs, NEW exe,
         SoundLocks(bal, lock, n, inp, exe), NEW i \in InputIds, inp[i] # NoTransfer
  PROVE  SoundLocks(bal, lock \ {inp[i].from}, n, [inp EXCEPT ![i] = NoTransfer], exe)
  <1> DEFINE now == [inp EXCEPT ![i] = NoTransfer]
  <1>1. now[i] = NoTransfer /\ \A j \in InputIds : j # i => now[j] = inp[j]
    BY DEF Inputs
  <1> HIDE DEF now
  <1>2. SoundLocks(bal, lock \ {inp[i].from}, n, now, exe)
    BY <1>1 DEF SoundLocks
  <1>3. QED
    BY <1>2 DEF now

\* prepare_atomic_exec turns an input into an execution: the account stays locked.
LEMMA LocksAfterPrepare ==
  ASSUME NEW bal, NEW lock, NEW n, NEW inp \in Inputs, NEW exe \in Execs,
         SoundLocks(bal, lock, n, inp, exe), NEW i \in InputIds, inp[i] # NoTransfer,
         NEW x \in Executions, exe[x] = NoTransfer
  PROVE  SoundLocks(bal, lock, n, [inp EXCEPT ![i] = NoTransfer], [exe EXCEPT ![x] = inp[i]])
  <1> DEFINE now == [inp EXCEPT ![i] = NoTransfer]
             run == [exe EXCEPT ![x] = inp[i]]
  <1>1. /\ now[i] = NoTransfer /\ \A j \in InputIds : j # i => now[j] = inp[j]
        /\ run[x] = inp[i] /\ \A y \in Executions : y # x => run[y] = exe[y]
    BY DEF Inputs, Execs
  <1> HIDE DEF now, run
  <1>2. SoundLocks(bal, lock, n, now, run)
    BY <1>1 DEF SoundLocks
  <1>3. QED
    BY <1>2 DEF now, run

\* finish_atomic_exec unlocks the account of the execution it removes.
LEMMA LocksAfterFinish ==
  ASSUME NEW bal, NEW lock, NEW n, NEW inp, NEW exe \in Execs,
         SoundLocks(bal, lock, n, inp, exe), NEW x \in Executions, exe[x] # NoTransfer
  PROVE  SoundLocks(bal, lock \ {exe[x].from}, n, inp, [exe EXCEPT ![x] = NoTransfer])
  <1> DEFINE run == [exe EXCEPT ![x] = NoTransfer]
  <1>1. run[x] = NoTransfer /\ \A y \in Executions : y # x => run[y] = exe[y]
    BY DEF Execs
  <1> HIDE DEF run
  <1>2. SoundLocks(bal, lock \ {exe[x].from}, n, inp, run)
    BY <1>1 DEF SoundLocks
  <1>3. QED
    BY <1>2 DEF run

\* The inductive invariant for the locks.
TokenLocks(t) == SoundLocks(balances[t], locked[t], nonce[t], input_ids[t], exec_ids[t])

LockInv == TypeOK /\ \A t \in Tokens : TokenLocks(t)

\* The components of a token have their types.
LEMMA TokenTypes ==
  ASSUME TypeOK, NEW t \in Tokens
  PROVE  /\ balances[t] \in [Accounts -> Int] /\ locked[t] \in SUBSET Accounts
         /\ nonce[t] \in 0 .. MaxInputs /\ input_ids[t] \in Inputs /\ exec_ids[t] \in Execs
  BY DEF TypeOK, Inputs, Execs

\* A step at one token leaves the others alone.
LEMMA StepAtToken ==
  ASSUME LockInv, TypeOK', NEW t \in Tokens, TokenLocks(t)',
         \A s \in Tokens : s # t =>
           /\ balances'[s] = balances[s] /\ locked'[s] = locked[s] /\ nonce'[s] = nonce[s]
           /\ input_ids'[s] = input_ids[s] /\ exec_ids'[s] = exec_ids[s]
  PROVE  LockInv'
  <1>1. ASSUME NEW s \in Tokens
        PROVE  TokenLocks(s)'
    <2>1. CASE s = t
      BY <2>1
    <2>2. CASE s # t
      BY <2>2 DEF LockInv, TokenLocks
    <2>3. QED
      BY <2>1, <2>2
  <1>2. QED
    BY <1>1 DEF LockInv

\* The steps of a user keep the locks sound.
LEMMA UserLocks ==
  ASSUME LockInv, NEW t \in Tokens,
         \/ \E tr \in Transfers : Transfer(t, tr) \/ InitAtomicTransfer(t, tr)
         \/ \E i \in InputIds : CancelAtomicTransfer(t, i)
         \/ \E x \in Executions : PrepareAtomicTransfer(t, x) \/ AbortAtomicTransfer(t, x)
  PROVE  LockInv'
  <1>1. TypeOK /\ TypeOK' /\ TokenLocks(t)
    BY UserTypes DEF LockInv
  <1>2. /\ balances[t] \in [Accounts -> Int] /\ locked[t] \in SUBSET Accounts
        /\ nonce[t] \in 0 .. MaxInputs /\ input_ids[t] \in Inputs /\ exec_ids[t] \in Execs
    BY <1>1, TokenTypes
  <1>3. /\ balances \in [Tokens -> [Accounts -> Int]] /\ locked \in [Tokens -> SUBSET Accounts]
        /\ nonce \in [Tokens -> 0 .. MaxInputs] /\ input_ids \in [Tokens -> Inputs]
        /\ exec_ids \in [Tokens -> Execs]
    BY <1>1 DEF TypeOK, Inputs, Execs
  <1>4. ASSUME NEW tr \in Transfers, Transfer(t, tr)
        PROVE  LockInv'
    <2>1. /\ \A s \in Tokens : s # t => balances'[s] = balances[s]
          /\ \A a \in Accounts : a # tr.from /\ a # tr.to => balances'[t][a] = balances[t][a]
      BY <1>1, <1>4, DoTransferFields DEF Transfer
    <2>2. tr.from \notin locked[t] /\ tr.to \notin locked[t]
      BY <1>4 DEF Transfer, CanDoTransfer
    <2>3. \A a \in locked[t] : balances'[t][a] = balances[t][a]
      BY <1>2, <2>1, <2>2
    <2>4. SoundLocks(balances'[t], locked[t], nonce[t], input_ids[t], exec_ids[t])
      BY <1>1, <2>3, LocksAfterTransfer DEF TokenLocks
    <2>5. QED
      BY <1>1, <1>4, <2>1, <2>4, StepAtToken DEF TokenLocks, Transfer
  <1>5. ASSUME NEW tr \in Transfers, InitAtomicTransfer(t, tr)
        PROVE  LockInv'
    <2>1. /\ tr.from \notin locked[t] /\ balances[t][tr.from] >= tr.amount
          /\ nonce[t] < MaxInputs
          /\ locked' = [locked EXCEPT ![t] = @ \cup {tr.from}]
          /\ nonce' = [nonce EXCEPT ![t] = @ + 1]
          /\ input_ids' = [input_ids EXCEPT ![t][nonce[t]] = tr]
          /\ UNCHANGED <<balances, exec_ids>>
      BY <1>5 DEF InitAtomicTransfer, InitAtomicExec
    <2>2. nonce[t] \in InputIds
      BY <1>2, <2>1, BoundsAssumption DEF InputIds
    <2>3. SoundLocks(balances[t], locked[t] \cup {tr.from}, nonce[t] + 1,
                     [input_ids[t] EXCEPT ![nonce[t]] = tr], exec_ids[t])
      BY <1>1, <1>2, <2>1, <2>2, LocksAfterInit DEF TokenLocks
    <2>4. /\ locked'[t] = locked[t] \cup {tr.from} /\ nonce'[t] = nonce[t] + 1
          /\ input_ids'[t] = [input_ids[t] EXCEPT ![nonce[t]] = tr]
      BY <1>3, <2>1
    <2>5. \A s \in Tokens : s # t =>
            locked'[s] = locked[s] /\ nonce'[s] = nonce[s] /\ input_ids'[s] = input_ids[s]
      BY <1>3, <2>1
    <2>6. TokenLocks(t)'
      BY <2>1, <2>3, <2>4 DEF TokenLocks
    <2>7. QED
      BY <1>1, <2>1, <2>5, <2>6, StepAtToken
  <1>6. ASSUME NEW i \in InputIds, CancelAtomicTransfer(t, i)
        PROVE  LockInv'
    <2>1. /\ input_ids[t][i] # NoTransfer
          /\ input_ids' = [input_ids EXCEPT ![t][i] = NoTransfer]
          /\ locked' = [locked EXCEPT ![t] = @ \ {input_ids[t][i].from}]
          /\ UNCHANGED <<balances, nonce, exec_ids>>
      BY <1>6 DEF CancelAtomicTransfer, CancelAtomicExec
    <2>2. SoundLocks(balances[t], locked[t] \ {input_ids[t][i].from}, nonce[t],
                     [input_ids[t] EXCEPT ![i] = NoTransfer], exec_ids[t])
      BY <1>1, <1>2, <2>1, LocksAfterCancel DEF TokenLocks
    <2>3. /\ locked'[t] = locked[t] \ {input_ids[t][i].from}
          /\ input_ids'[t] = [input_ids[t] EXCEPT ![i] = NoTransfer]
      BY <1>3, <2>1
    <2>4. \A s \in Tokens : s # t => locked'[s] = locked[s] /\ input_ids'[s] = input_ids[s]
      BY <1>3, <2>1
    <2>5. TokenLocks(t)'
      BY <2>1, <2>2, <2>3 DEF TokenLocks
    <2>6. QED
      BY <1>1, <2>1, <2>4, <2>5, StepAtToken
  <1>7. ASSUME NEW x \in Executions, PrepareAtomicTransfer(t, x)
        PROVE  LockInv'
    <2> DEFINE i == x[t]
    <2>1. /\ input_ids[t][i] # NoTransfer /\ exec_ids[t][x] = NoTransfer /\ t \in DOMAIN x
          /\ input_ids' = [input_ids EXCEPT ![t][i] = NoTransfer]
          /\ exec_ids' = [exec_ids EXCEPT ![t][x] = input_ids[t][i]]
          /\ UNCHANGED <<balances, locked, nonce>>
      BY <1>7 DEF PrepareAtomicTransfer, PrepareAtomicExec
    <2>2. i \in InputIds
      BY <2>1, ExecutionsAssumption
    <2> HIDE DEF i
    <2>3. SoundLocks(balances[t], locked[t], nonce[t], [input_ids[t] EXCEPT ![i] = NoTransfer],
                     [exec_ids[t] EXCEPT ![x] = input_ids[t][i]])
      BY <1>1, <1>2, <2>1, <2>2, LocksAfterPrepare DEF TokenLocks
    <2>4. /\ exec_ids'[t] = [exec_ids[t] EXCEPT ![x] = input_ids[t][i]]
          /\ input_ids'[t] = [input_ids[t] EXCEPT ![i] = NoTransfer]
      BY <1>3, <2>1
    <2>5. \A s \in Tokens : s # t =>
            exec_ids'[s] = exec_ids[s] /\ input_ids'[s] = input_ids[s]
      BY <1>3, <2>1
    <2>6. TokenLocks(t)'
      BY <2>1, <2>3, <2>4 DEF TokenLocks
    <2>7. QED
      BY <1>1, <2>1, <2>5, <2>6, StepAtToken
  <1>8. ASSUME NEW x \in Executions, AbortAtomicTransfer(t, x)
        PROVE  LockInv'
    BY <1>1, <1>8 DEF AbortAtomicTransfer, tokens, LockInv, TokenLocks
  <1>9. QED
    BY <1>4, <1>5, <1>6, <1>7, <1>8

\* finish_atomic_exec keeps the locks sound.
LEMMA FinishLocks ==
  ASSUME LockInv, NEW t \in Tokens, NEW x \in Executions, FinishAtomicExec(t, x)
  PROVE  /\ SoundLocks(balances[t], locked'[t], nonce[t], input_ids[t], exec_ids'[t])
         /\ \A s \in Tokens : s # t => locked'[s] = locked[s] /\ exec_ids'[s] = exec_ids[s]
         /\ locked'[t] \in SUBSET Accounts /\ exec_ids[t][x] \in Transfers
  <1>1. TypeOK /\ TokenLocks(t)
    BY DEF LockInv
  <1>2. exec_ids[t] \in Execs /\ locked[t] \in SUBSET Accounts
    BY <1>1, TokenTypes
  <1>3. locked \in [Tokens -> SUBSET Accounts] /\ exec_ids \in [Tokens -> Execs]
    BY <1>1 DEF TypeOK, Execs
  <1>4. /\ exec_ids[t][x] # NoTransfer
        /\ exec_ids' = [exec_ids EXCEPT ![t][x] = NoTransfer]
        /\ locked' = [locked EXCEPT ![t] = @ \ {exec_ids[t][x].from}]
    BY DEF FinishAtomicExec
  <1>5. SoundLocks(balances[t], locked[t] \ {exec_ids[t][x].from}, nonce[t], input_ids[t],
                   [exec_ids[t] EXCEPT ![x] = NoTransfer])
    BY <1>1, <1>2, <1>4, LocksAfterFinish DEF TokenLocks
  <1>6. /\ locked'[t] = locked[t] \ {exec_ids[t][x].from}
        /\ exec_ids'[t] = [exec_ids[t] EXCEPT ![x] = NoTransfer]
    BY <1>3, <1>4
  <1>7. \A s \in Tokens : s # t => locked'[s] = locked[s] /\ exec_ids'[s] = exec_ids[s]
    BY <1>3, <1>4
  <1>8. exec_ids[t][x] \in Transfers
    BY <1>1, <1>4, EntryTypes
  <1>9. QED
    BY <1>2, <1>5, <1>6, <1>7, <1>8

\* The deliveries keep the locks sound.
LEMMA DeliveryLocks ==
  ASSUME LockInv, NEW t \in Tokens, DeliverToToken(t) \/ DeliverToCoordinator(t)
  PROVE  LockInv'
  <1>1. TypeOK /\ TypeOK' /\ TokenLocks(t)
    BY DeliveryTypes DEF LockInv
  <1>2. ASSUME NEW x \in Executions, CommitAtomicTransfer(t, x)
        PROVE  LockInv'
    <2> DEFINE tr == exec_ids[t][x]
    <2>1. /\ SoundLocks(balances[t], locked'[t], nonce[t], input_ids[t], exec_ids'[t])
          /\ \A s \in Tokens : s # t => locked'[s] = locked[s] /\ exec_ids'[s] = exec_ids[s]
          /\ locked'[t] \in SUBSET Accounts /\ tr \in Transfers
      BY <1>2, FinishLocks DEF CommitAtomicTransfer
    <2>2. /\ tr.from \notin locked'[t] /\ tr.to \notin locked'[t]
          /\ balances' = DoTransfer(t, tr)
          /\ UNCHANGED <<nonce, input_ids>>
      BY <1>2 DEF CommitAtomicTransfer, CanDoTransfer
    <2> HIDE DEF tr
    <2>3. /\ \A s \in Tokens : s # t => balances'[s] = balances[s]
          /\ \A a \in Accounts : a # tr.from /\ a # tr.to => balances'[t][a] = balances[t][a]
      BY <1>1, <2>1, <2>2, DoTransferFields
    <2>4. \A a \in locked'[t] : balances'[t][a] = balances[t][a]
      BY <2>1, <2>2, <2>3
    <2>5. SoundLocks(balances'[t], locked'[t], nonce[t], input_ids[t], exec_ids'[t])
      BY <2>1, <2>4, LocksAfterTransfer
    <2>6. TokenLocks(t)'
      BY <2>2, <2>5 DEF TokenLocks
    <2>7. QED
      BY <1>1, <2>1, <2>2, <2>3, <2>6, StepAtToken
  <1>3. ASSUME NEW x \in Executions, RollbackAtomicTransfer(t, x)
        PROVE  LockInv'
    <2>1. /\ SoundLocks(balances[t], locked'[t], nonce[t], input_ids[t], exec_ids'[t])
          /\ \A s \in Tokens : s # t => locked'[s] = locked[s] /\ exec_ids'[s] = exec_ids[s]
      BY <1>3, FinishLocks DEF RollbackAtomicTransfer
    <2>2. UNCHANGED <<balances, nonce, input_ids>>
      BY <1>3 DEF RollbackAtomicTransfer
    <2>3. TokenLocks(t)'
      BY <2>1, <2>2 DEF TokenLocks
    <2>4. QED
      BY <1>1, <2>1, <2>2, <2>3, StepAtToken
  <1>4. ASSUME UNCHANGED tokens
        PROVE  LockInv'
    BY <1>1, <1>4 DEF tokens, LockInv, TokenLocks
  <1>5. QED
    BY <1>2, <1>3, <1>4
       DEF DeliverToToken, DeliverToCoordinator, PreCommitWaits, PreCommitCompletes, Revoke

\* The locks are always sound.
LEMMA LocksSound == Spec => []LockInv
  <1>1. Init => LockInv
    <2> SUFFICES ASSUME Init PROVE LockInv
      OBVIOUS
    <2>1. TypeOK
      BY BalancesAssumption, BoundsAssumption DEF Init, TypeOK
    <2>2. ASSUME NEW t \in Tokens
          PROVE  TokenLocks(t)
      <3>1. /\ locked[t] = {} /\ \A i \in InputIds : input_ids[t][i] = NoTransfer
            /\ \A x \in Executions : exec_ids[t][x] = NoTransfer
        BY DEF Init
      <3>2. QED
        BY <3>1 DEF TokenLocks, SoundLocks
    <2>3. QED
      BY <2>1, <2>2 DEF LockInv
  <1>2. LockInv /\ [Next]_vars => LockInv'
    <2> SUFFICES ASSUME LockInv, [Next]_vars PROVE LockInv'
      OBVIOUS
    <2>1. CASE Next
      BY <2>1, UserLocks, DeliveryLocks DEF Next
    <2>2. CASE UNCHANGED vars
      <3>1. TypeOK'
        BY <2>2 DEF vars, tokens, TypeOK, LockInv
      <3>2. QED
        BY <2>2, <3>1 DEF vars, tokens, LockInv, TokenLocks
    <2>3. QED
      BY <2>1, <2>2
  <1>3. QED
    BY <1>1, <1>2, PTL DEF Spec

\* In whatever order messages arrive and transfers are cancelled, committed or rolled back,
\* an account is locked exactly while one transfer from it is pending, which its balance
\* covers: unlock does not panic and the debit of a commit does not fail.
THEOREM LocksOwned == Spec => []LockOwned
  <1>1. LockInv => LockOwned
    <2> SUFFICES ASSUME LockInv, NEW t \in Tokens, NEW a \in Accounts
                 PROVE  /\ Cardinality(PendingInputs(t, a)) + Cardinality(PendingExecs(t, a))
                             = (IF a \in locked[t] THEN 1 ELSE 0)
                        /\ \A i \in PendingInputs(t, a) :
                             balances[t][a] >= input_ids[t][i].amount
                        /\ \A x \in PendingExecs(t, a) :
                             balances[t][a] >= exec_ids[t][x].amount
      BY DEF LockOwned
    <2> DEFINE inputs == PendingInputs(t, a)
               execs == PendingExecs(t, a)
    <2>1. SoundLocks(balances[t], locked[t], nonce[t], input_ids[t], exec_ids[t])
      BY DEF LockInv, TokenLocks
    <2>2. /\ \A i \in inputs : balances[t][a] >= input_ids[t][i].amount
          /\ \A x \in execs : balances[t][a] >= exec_ids[t][x].amount
      BY <2>1 DEF SoundLocks, PendingInputs, PendingExecs
    <2>3. /\ \A i, j \in inputs : i = j
          /\ \A x, y \in execs : x = y
          /\ inputs = {} \/ execs = {}
          /\ a \in locked[t] <=> inputs # {} \/ execs # {}
      BY <2>1 DEF SoundLocks, PendingInputs, PendingExecs
    <2> HIDE DEF inputs, execs
    <2>4. Cardinality({}) = 0
      BY FS_EmptySet
    <2>5. Cardinality(inputs) + Cardinality(execs) = (IF a \in locked[t] THEN 1 ELSE 0)
      <3>1. CASE a \notin locked[t]
        <4>1. inputs = {} /\ execs = {}
          BY <2>3, <3>1
        <4>2. QED
          BY <2>4, <3>1, <4>1
      <3>2. CASE inputs # {}
        <4>1. PICK i \in inputs : TRUE
          BY <3>2
        <4>2. inputs = {i} /\ execs = {} /\ a \in locked[t]
          BY <2>3, <4>1
        <4>3. Cardinality(inputs) = 1
          BY <4>2, FS_Singleton
        <4>4. QED
          BY <2>4, <4>2, <4>3
      <3>3. CASE execs # {}
        <4>1. PICK x \in execs : TRUE
          BY <3>3
        <4>2. execs = {x} /\ inputs = {} /\ a \in locked[t]
          BY <2>3, <4>1
        <4>3. Cardinality(execs) = 1
          BY <4>2, FS_Singleton
        <4>4. QED
          BY <2>4, <4>2, <4>3
      <3>4. QED
        BY <2>3, <3>1, <3>2, <3>3
    <2>6. QED
      BY <2>2, <2>5 DEF inputs, execs
  <1>2. QED
    BY <1>1, LocksSound, PTL
-----------------------------------------------------------------------------

(* Supply *)

\* No user asks for a transfer to the account it comes from.
NoSelfTransfer == \A tr \in Transfers : tr.from # tr.to

\* do_transfer between two accounts of token t moves an amount and keeps the sum.
LEMMA TransferConserves ==
  ASSUME TypeOK, NEW t \in Tokens, NEW tr \in Transfers, tr.from # tr.to,
         balances[t][tr.from] >= tr.amount
  PROVE  /\ SumFunction(DoTransfer(t, tr)[t]) = SumFunction(balances[t])
         /\ \A s \in Tokens : s # t => DoTransfer(t, tr)[s] = balances[s]
  <1> DEFINE b == balances[t]
             c == DoTransfer(t, tr)[t]
             m == [b EXCEPT ![tr.from] = b[tr.from] - tr.amount]
  <1>1. tr.from \in Accounts /\ tr.to \in Accounts /\ tr.amount \in Int
    BY TransferParts
  <1>2. /\ b \in [Accounts -> Int] /\ DoTransfer(t, tr) \in [Tokens -> [Accounts -> Int]]
    BY DoTransferType DEF TypeOK
  <1>3. /\ \A s \in Tokens : s # t => DoTransfer(t, tr)[s] = balances[s]
        /\ \A a \in Accounts : a # tr.from /\ a # tr.to => c[a] = b[a]
        /\ c[tr.to] = b[tr.to] + tr.amount
        /\ c[tr.from] = b[tr.from] - tr.amount
    BY DoTransferFields
  <1>4. c \in [Accounts -> Int]
    BY <1>2
  <1>5. /\ b[tr.from] \in Int /\ b[tr.from] - tr.amount \in Int /\ b[tr.to] \in Int
    BY <1>1, <1>2
  <1>6. /\ m \in [Accounts -> Int] /\ m[tr.from] = b[tr.from] - tr.amount
        /\ \A a \in Accounts : a # tr.from => m[a] = b[a]
    BY <1>1, <1>2, <1>5
  <1> HIDE DEF b, c, m
  <1>7. \A a \in Accounts : a # tr.to => c[a] = m[a]
    BY <1>3, <1>6
  <1>8. /\ SumFunction(m) = SumFunction(b) - b[tr.from] + m[tr.from] /\ SumFunction(b) \in Int
    <2> DEFINE a == tr.from
    <2>1. /\ IsFiniteSet(Accounts) /\ b \in [Accounts -> Int] /\ m \in [Accounts -> Int]
          /\ a \in Accounts /\ \A x \in Accounts : x # a => m[x] = b[x]
      BY <1>1, <1>2, <1>6, AccountsAssumption
    <2> HIDE DEF a
    <2>2. SumFunction(m) = SumFunction(b) - b[a] + m[a] /\ SumFunction(b) \in Int
      BY <2>1, LedgerUpdate, LedgerTotal
    <2>3. QED
      BY <2>2 DEF a
  <1>9. /\ SumFunction(c) = SumFunction(m) - m[tr.to] + c[tr.to] /\ SumFunction(m) \in Int
    <2> DEFINE a == tr.to
    <2>1. /\ IsFiniteSet(Accounts) /\ m \in [Accounts -> Int] /\ c \in [Accounts -> Int]
          /\ a \in Accounts /\ \A x \in Accounts : x # a => c[x] = m[x]
      BY <1>1, <1>4, <1>6, <1>7, AccountsAssumption
    <2> HIDE DEF a
    <2>2. SumFunction(c) = SumFunction(m) - m[a] + c[a] /\ SumFunction(m) \in Int
      BY <2>1, LedgerUpdate, LedgerTotal
    <2>3. QED
      BY <2>2 DEF a
  <1>10. m[tr.to] = b[tr.to]
    BY <1>1, <1>6
  <1>11. SumFunction(c) = SumFunction(b)
    BY <1>1, <1>3, <1>5, <1>6, <1>8, <1>9, <1>10
  <1>12. QED
    BY <1>3, <1>11 DEF b, c

\* Only the two steps that call do_transfer touch a balance.
LEMMA BalancesMove ==
  ASSUME TypeOK, [Next]_vars
  PROVE  \/ balances' = balances
         \/ \E t \in Tokens, tr \in Transfers :
              balances[t][tr.from] >= tr.amount /\ balances' = DoTransfer(t, tr)
  <1>1. ASSUME NEW t \in Tokens, NEW x \in Executions, CommitAtomicTransfer(t, x)
        PROVE  \E tr \in Transfers :
                 balances[t][tr.from] >= tr.amount /\ balances' = DoTransfer(t, tr)
    <2>1. exec_ids[t][x] \in Transfers
      BY <1>1, EntryTypes DEF CommitAtomicTransfer, FinishAtomicExec
    <2>2. QED
      BY <1>1, <2>1 DEF CommitAtomicTransfer, CanDoTransfer
  <1>2. ASSUME NEW t \in Tokens, NEW tr \in Transfers, Transfer(t, tr)
        PROVE  balances[t][tr.from] >= tr.amount /\ balances' = DoTransfer(t, tr)
    BY <1>2 DEF Transfer, CanDoTransfer
  <1>3. ASSUME NEW t \in Tokens,
               \/ \E tr \in Transfers : InitAtomicTransfer(t, tr)
               \/ \E i \in InputIds : CancelAtomicTransfer(t, i)
               \/ \E x \in Executions : \/ PrepareAtomicTransfer(t, x)
                                        \/ AbortAtomicTransfer(t, x)
                                        \/ RollbackAtomicTransfer(t, x)
               \/ DeliverToCoordinator(t)
        PROVE  balances' = balances
    BY <1>3 DEF InitAtomicTransfer, CancelAtomicTransfer, PrepareAtomicTransfer,
                AbortAtomicTransfer, RollbackAtomicTransfer, DeliverToCoordinator,
                PreCommitWaits, PreCommitCompletes, Revoke, tokens
  <1>4. CASE UNCHANGED vars
    BY <1>4 DEF vars, tokens
  <1>5. CASE Next
    BY <1>1, <1>2, <1>3, <1>5 DEF Next, DeliverToToken
  <1>6. QED
    BY <1>4, <1>5

\* Transfers between two accounts neither make nor destroy tokens, whether they happen at
\* once or through an atomic execution.
THEOREM SupplyKept == NoSelfTransfer => (Spec => []SupplyConserved)
  <1> SUFFICES ASSUME NoSelfTransfer PROVE Spec => []SupplyConserved
    OBVIOUS
  <1>1. Init => SupplyConserved
    BY DEF Init, SupplyConserved
  <1>2. TypeOK /\ SupplyConserved /\ [Next]_vars => SupplyConserved'
    <2> SUFFICES ASSUME TypeOK, SupplyConserved, [Next]_vars PROVE SupplyConserved'
      OBVIOUS
    <2>1. CASE balances' = balances
      BY <2>1 DEF SupplyConserved
    <2>2. ASSUME NEW t \in Tokens, NEW tr \in Transfers, balances[t][tr.from] >= tr.amount,
                 balances' = DoTransfer(t, tr)
          PROVE  SupplyConserved'
      <3>1. tr.from # tr.to
        BY DEF NoSelfTransfer
      <3>2. /\ SumFunction(balances'[t]) = SumFunction(balances[t])
            /\ \A s \in Tokens : s # t => balances'[s] = balances[s]
        BY <2>2, <3>1, TransferConserves
      <3>3. QED
        BY <3>2 DEF SupplyConserved
    <2>3. QED
      BY <2>1, <2>2, BalancesMove
  <1>3. QED
    BY <1>1, <1>2, TypeCorrect, PTL DEF Spec

\* No user asks to transfer a negative amount and no account starts below zero: what the
\* handlers and the constructor would have to check.
NoNegatives ==
  /\ \A tr \in Transfers : tr.amount >= 0
  /\ \A t \in Tokens, a \in Accounts : InitialBalances[t][a] >= 0

\* The one check do_transfer makes, that the sender has the amount, keeps every balance
\* from going below zero exactly as long as no amount is negative: also when the check is
\* made at init_atomic_transfer and the debit comes later, in commit_atomic_transfer.
THEOREM DebtFree == NoNegatives => (Spec => []NobodyInDebt)
  <1> SUFFICES ASSUME NoNegatives PROVE Spec => []NobodyInDebt
    OBVIOUS
  <1>1. Init => NobodyInDebt
    BY DEF Init, NobodyInDebt, NoNegatives
  <1>2. TypeOK /\ NobodyInDebt /\ [Next]_vars => NobodyInDebt'
    <2> SUFFICES ASSUME TypeOK, NobodyInDebt, [Next]_vars PROVE NobodyInDebt'
      OBVIOUS
    <2>1. CASE balances' = balances
      BY <2>1 DEF NobodyInDebt
    <2>2. ASSUME NEW t \in Tokens, NEW tr \in Transfers, balances[t][tr.from] >= tr.amount,
                 balances' = DoTransfer(t, tr)
          PROVE  NobodyInDebt'
      <3>1. /\ tr.from \in Accounts /\ tr.to \in Accounts /\ tr.amount \in Int
            /\ tr.amount >= 0 /\ balances \in [Tokens -> [Accounts -> Int]]
        BY TransferParts DEF NoNegatives, TypeOK
      <3>2. /\ \A s \in Tokens : s # t => balances'[s] = balances[s]
            /\ \A a \in Accounts : a # tr.from /\ a # tr.to => balances'[t][a] = balances[t][a]
            /\ balances'[t][tr.to] = balances[t][tr.to] + tr.amount
            /\ tr.from # tr.to => balances'[t][tr.from] = balances[t][tr.from] - tr.amount
        BY <2>2, DoTransferFields
      <3>3. ASSUME NEW s \in Tokens, NEW a \in Accounts
            PROVE  balances'[s][a] >= 0
        <4>1. /\ balances[s][a] >= 0 /\ balances[s][a] \in Int
              /\ balances[t][tr.to] >= 0 /\ balances[t][tr.to] \in Int
              /\ balances[t][tr.from] \in Int
          BY <3>1 DEF NobodyInDebt
        <4>2. CASE s # t \/ (a # tr.from /\ a # tr.to)
          BY <3>2, <4>1, <4>2
        <4>3. CASE s = t /\ a = tr.to
          BY <3>1, <3>2, <4>1, <4>3
        <4>4. CASE s = t /\ a = tr.from /\ a # tr.to
          BY <2>2, <3>1, <3>2, <4>1, <4>4
        <4>5. QED
          BY <4>2, <4>3, <4>4
      <3>4. QED
        BY <3>3 DEF NobodyInDebt
    <2>3. QED
      BY <2>1, <2>2, BalancesMove
  <1>3. QED
    BY <1>1, <1>2, TypeCorrect, PTL DEF Spec
-----------------------------------------------------------------------------

(* One outcome for all, when messages arrive in order *)

\* A message is not in the queue; it is there at most once; it is there, before any n.
Absent(q, m) == \A i \in 1..Len(q) : q[i] # m
Once(q, m) == \A i, j \in 1..Len(q) : q[i] = m /\ q[j] = m => i = j
Before(q, m, n) ==
  \E i \in 1..Len(q) : q[i] = m /\ \A j \in 1..Len(q) : q[j] = n => i < j

\* A queue with one more message at the end.
LEMMA AfterSending ==
  ASSUME NEW S, NEW q \in Seq(S), NEW k \in S, NEW r, r = Append(q, k), NEW m, NEW n
  PROVE  /\ m # k => (Absent(r, m) <=> Absent(q, m))
         /\ m # k => (Once(r, m) <=> Once(q, m))
         /\ m # k => (Before(r, m, n) <=> Before(q, m, n))
         /\ Absent(q, k) => Once(r, k)
         /\ Absent(q, n) /\ n # k => Before(r, k, n)
  <1>1. /\ Len(q) \in Nat /\ Len(r) = Len(q) + 1
        /\ \A i \in 1..Len(q) : r[i] = q[i]
        /\ r[Len(q) + 1] = k
    BY AppendProperties, LenProperties
  <1> DEFINE l == Len(q)
  <1>2. l \in Nat /\ Len(r) = l + 1 /\ r[l + 1] = k /\ \A i \in 1..l : r[i] = q[i]
    BY <1>1
  <1>3. 1..l \subseteq 1..(l + 1) /\ \A i \in 1..(l + 1) : i \in 1..l \/ i = l + 1
    BY <1>2
  <1>4. \A i \in 1..l : i < l + 1
    BY <1>2
  <1> HIDE DEF l
  <1>5. m # k => (Absent(r, m) <=> Absent(q, m))
    BY <1>2, <1>3 DEF Absent, l
  <1>6. m # k => (Once(r, m) <=> Once(q, m))
    BY <1>2, <1>3 DEF Once, l
  <1>7. ASSUME m # k, Before(r, m, n)
        PROVE  Before(q, m, n)
    <2>1. PICK i \in 1..(l + 1) : r[i] = m /\ \A j \in 1..(l + 1) : r[j] = n => i < j
      BY <1>2, <1>7 DEF Before
    <2>2. i \in 1..l
      BY <1>2, <1>3, <1>7, <2>1
    <2>3. q[i] = m /\ \A j \in 1..l : q[j] = n => i < j
      BY <1>2, <1>3, <2>1, <2>2
    <2>4. QED
      BY <2>2, <2>3 DEF Before, l
  <1>8. ASSUME m # k, Before(q, m, n)
        PROVE  Before(r, m, n)
    <2>1. PICK i \in 1..l : q[i] = m /\ \A j \in 1..l : q[j] = n => i < j
      BY <1>8 DEF Before, l
    <2>2. i \in 1..(l + 1) /\ r[i] = m /\ \A j \in 1..(l + 1) : r[j] = n => i < j
      BY <1>2, <1>3, <1>4, <2>1
    <2>3. QED
      BY <1>2, <2>2 DEF Before
  <1>9. Absent(q, k) => Once(r, k)
    BY <1>2, <1>3 DEF Absent, Once, l
  <1>10. ASSUME Absent(q, n), n # k
         PROVE  Before(r, k, n)
    <2>1. l + 1 \in 1..(l + 1) /\ \A j \in 1..(l + 1) : r[j] # n
      BY <1>2, <1>3, <1>10 DEF Absent, l
    <2>2. QED
      BY <1>2, <2>1 DEF Before
  <1>11. QED
    BY <1>5, <1>6, <1>7, <1>8, <1>9, <1>10

\* A queue without the message at its head.
LEMMA AfterDelivery ==
  ASSUME NEW S, NEW q \in Seq(S), q # <<>>, NEW r, r = RemoveAt(q, 1), NEW m, NEW n
  PROVE  /\ m # q[1] => (Absent(r, m) <=> Absent(q, m))
         /\ Absent(q, m) => Absent(r, m)
         /\ m # q[1] => (Once(r, m) <=> Once(q, m))
         /\ Once(q, q[1]) => Absent(r, q[1])
         /\ m # q[1] /\ n # q[1] => (Before(r, m, n) <=> Before(q, m, n))
         /\ Before(q, m, n) => q[1] # n
         /\ Absent(q, m) => q[1] # m
  <1> DEFINE l == Len(r)
  <1>1. l \in Nat /\ Len(q) = l + 1 /\ \A i \in 1..l : r[i] = q[i + 1]
    <2>1. Len(r) = Len(q) - 1 /\ Len(q) \in Nat /\ \A i \in 1..Len(r) : r[i] = q[i + 1]
      BY WithoutFirst
    <2>2. Len(q) # 0
      BY EmptySeq, <2>1, LenProperties
    <2>3. QED
      BY <2>1, <2>2
  <1>2. /\ \A i \in 1..l : i + 1 \in 1..(l + 1) /\ i + 1 # 1
        /\ \A i \in 1..(l + 1) : i = 1 \/ (i - 1 \in 1..l /\ (i - 1) + 1 = i)
        /\ 1 \in 1..(l + 1)
    BY <1>1
  <1>3. \A i, j \in 1..l : (i < j <=> i + 1 < j + 1) /\ (i + 1 = j + 1 <=> i = j)
    BY <1>1
  <1> HIDE DEF l
  <1>4. m # q[1] => (Absent(r, m) <=> Absent(q, m))
    <2>1. ASSUME m # q[1], Absent(r, m), NEW i \in 1..(l + 1)
          PROVE  q[i] # m
      <3>1. CASE i = 1
        BY <2>1, <3>1
      <3>2. CASE i - 1 \in 1..l /\ (i - 1) + 1 = i
        <4>1. r[i - 1] = q[i]
          BY <1>1, <3>2
        <4>2. QED
          BY <2>1, <3>2, <4>1 DEF Absent, l
      <3>3. QED
        BY <1>2, <3>1, <3>2
    <2>2. ASSUME Absent(q, m), NEW i \in 1..l
          PROVE  r[i] # m
      BY <1>1, <1>2, <2>2 DEF Absent
    <2>3. QED
      BY <1>1, <2>1, <2>2 DEF Absent, l
  <1>5. Absent(q, m) => Absent(r, m)
    BY <1>1, <1>2 DEF Absent, l
  <1>6. ASSUME m # q[1], Once(r, m)
        PROVE  Once(q, m)
    <2>1. ASSUME NEW i \in 1..(l + 1), NEW j \in 1..(l + 1), q[i] = m, q[j] = m
          PROVE  i = j
      <3>1. /\ i - 1 \in 1..l /\ (i - 1) + 1 = i
            /\ j - 1 \in 1..l /\ (j - 1) + 1 = j
        BY <1>2, <1>6, <2>1
      <3>2. r[i - 1] = m /\ r[j - 1] = m
        BY <1>1, <2>1, <3>1
      <3>3. i - 1 = j - 1
        BY <1>6, <3>1, <3>2 DEF Once, l
      <3>4. QED
        BY <3>1, <3>3
    <2>2. QED
      BY <1>1, <2>1 DEF Once
  <1>7. ASSUME Once(q, m)
        PROVE  Once(r, m)
    BY <1>1, <1>2, <1>3, <1>7 DEF Once, l
  <1>8. Once(q, q[1]) => Absent(r, q[1])
    BY <1>1, <1>2 DEF Once, Absent, l
  <1>9. ASSUME m # q[1], n # q[1], Before(r, m, n)
        PROVE  Before(q, m, n)
    <2>1. PICK i \in 1..l : r[i] = m /\ \A j \in 1..l : r[j] = n => i < j
      BY <1>9 DEF Before, l
    <2>2. i + 1 \in 1..(l + 1) /\ q[i + 1] = m
      BY <1>1, <1>2, <2>1
    <2>3. ASSUME NEW j \in 1..(l + 1), q[j] = n
          PROVE  i + 1 < j
      <3>1. j - 1 \in 1..l /\ (j - 1) + 1 = j
        BY <1>2, <1>9, <2>3
      <3>2. r[j - 1] = n
        BY <1>1, <2>3, <3>1
      <3>3. i < j - 1
        BY <2>1, <3>1, <3>2
      <3>4. QED
        BY <1>3, <3>1, <3>3
    <2>4. QED
      BY <1>1, <2>2, <2>3 DEF Before
  <1>10. ASSUME m # q[1], Before(q, m, n)
         PROVE  Before(r, m, n)
    <2>1. PICK i \in 1..(l + 1) : q[i] = m /\ \A j \in 1..(l + 1) : q[j] = n => i < j
      BY <1>1, <1>10 DEF Before
    <2>2. i - 1 \in 1..l /\ (i - 1) + 1 = i
      BY <1>2, <1>10, <2>1
    <2>3. r[i - 1] = m
      BY <1>1, <2>1, <2>2
    <2>4. ASSUME NEW j \in 1..l, r[j] = n
          PROVE  i - 1 < j
      <3>1. q[j + 1] = n /\ j + 1 \in 1..(l + 1)
        BY <1>1, <1>2, <2>4
      <3>2. i < j + 1
        BY <2>1, <3>1
      <3>3. QED
        BY <2>2, <3>2
    <2>5. QED
      BY <2>2, <2>3, <2>4 DEF Before, l
  <1>11. ASSUME Before(q, m, n)
         PROVE  q[1] # n
    <2>1. PICK i \in 1..(l + 1) : \A j \in 1..(l + 1) : q[j] = n => i < j
      BY <1>1, <1>11 DEF Before
    <2>2. ~(i < 1)
      BY <1>1, <2>1
    <2>3. QED
      BY <1>2, <2>1, <2>2
  <1>12. Absent(q, m) => q[1] # m
    BY <1>1, <1>2 DEF Absent
  <1>13. QED
    BY <1>4, <1>5, <1>6, <1>7, <1>8, <1>9, <1>10, <1>11, <1>12

\* What the queue of a token to the coordinator says about execution x.
NothingAsked(q, x) == Absent(q, Message("PreCommit", x)) /\ Absent(q, Message("Revoke", x))
PreCommitFirst(q, x) ==
  /\ Once(q, Message("PreCommit", x))
  /\ Before(q, Message("PreCommit", x), Message("Revoke", x))
NoPreCommit(q, x) == Absent(q, Message("PreCommit", x))

\* What the queue of the coordinator to a token says about execution x.
NothingAnswered(q, x) == Absent(q, Message("Commit", x)) /\ Absent(q, Message("Rollback", x))
NoCommit(q, x) == Absent(q, Message("Commit", x))
CommitFirst(q, x) == Before(q, Message("Commit", x), Message("Rollback", x))

\* How token t stands with execution x: it has not prepared it; its pre-commitment is on
\* the way, before any revocation; the coordinator holds its pre-commitment; it has revoked
\* it; the coordinator has decided, and the decision arrives before any rollback.
Unprepared(t, x) ==
  /\ outcome[t][x] = "open" /\ exec_ids[t][x] = NoTransfer /\ t \notin registry[x]
  /\ NothingAsked(to_coordinator[t], x) /\ NothingAnswered(to_token[t], x)

Asking(t, x) ==
  /\ outcome[t][x] = "open" /\ exec_ids[t][x] # NoTransfer /\ t \notin registry[x]
  /\ PreCommitFirst(to_coordinator[t], x) /\ NothingAnswered(to_token[t], x)

Standing(t, x) ==
  /\ outcome[t][x] = "open" /\ exec_ids[t][x] # NoTransfer /\ t \in registry[x]
  /\ NoPreCommit(to_coordinator[t], x) /\ NothingAnswered(to_token[t], x)

Refused(t, x) ==
  /\ t \notin registry[x] /\ NoPreCommit(to_coordinator[t], x) /\ NoCommit(to_token[t], x)
  /\ \/ outcome[t][x] = "open" /\ exec_ids[t][x] # NoTransfer
     \/ outcome[t][x] = "rolled back" /\ exec_ids[t][x] = NoTransfer

Agreed(t, x) ==
  /\ t \notin registry[x] /\ NoPreCommit(to_coordinator[t], x)
  /\ \/ /\ outcome[t][x] = "open" /\ exec_ids[t][x] # NoTransfer
        /\ CommitFirst(to_token[t], x)
     \/ outcome[t][x] = "committed" /\ exec_ids[t][x] = NoTransfer

InPhase(t, x) ==
  Unprepared(t, x) \/ Asking(t, x) \/ Standing(t, x) \/ Refused(t, x) \/ Agreed(t, x)

\* The input of a prepared execution is used up: it is not prepared a second time.
InputSpent(t, x) == t \in DOMAIN x /\ input_ids[t][x[t]] = NoTransfer /\ x[t] < nonce[t]

\* The inductive invariant: the coordinator decides for all actors of an execution at once.
OrderInv ==
  /\ LockInv
  /\ \A t \in Tokens, x \in Executions :
       InPhase(t, x) /\ (Unprepared(t, x) \/ InputSpent(t, x))
  /\ \A x \in Executions : \A s, t \in DOMAIN x : Agreed(s, x) => Agreed(t, x)

\* Two queues say the same about execution x.
SameAsk(q, r, x) ==
  /\ NothingAsked(r, x) <=> NothingAsked(q, x)
  /\ PreCommitFirst(r, x) <=> PreCommitFirst(q, x)
  /\ NoPreCommit(r, x) <=> NoPreCommit(q, x)

SameAnswer(q, r, x) ==
  /\ NothingAnswered(r, x) <=> NothingAnswered(q, x)
  /\ NoCommit(r, x) <=> NoCommit(q, x)
  /\ CommitFirst(r, x) <=> CommitFirst(q, x)

\* Messages about another execution make no difference.
LEMMA SendOther ==
  ASSUME NEW S, NEW q \in Seq(S), NEW m, NEW y, Message(m, y) \in S, NEW x, x # y,
         NEW r, r = Append(q, Message(m, y))
  PROVE  SameAsk(q, r, x) /\ SameAnswer(q, r, x)
  <1>1. \A n : Message(n, x) # Message(m, y)
    BY MessagesDiffer
  <1> DEFINE k == Message(m, y)
  <1>2. k \in S /\ r = Append(q, k) /\ \A n : Message(n, x) # k
    BY <1>1
  <1> HIDE DEF k
  <1>3. \A a, b :
          /\ Message(a, x) # k => (Absent(r, Message(a, x)) <=> Absent(q, Message(a, x)))
          /\ Message(a, x) # k => (Once(r, Message(a, x)) <=> Once(q, Message(a, x)))
          /\ Message(a, x) # k => (Before(r, Message(a, x), Message(b, x))
                                     <=> Before(q, Message(a, x), Message(b, x)))
    BY <1>2, AfterSending
  <1>4. QED
    BY <1>2, <1>3 DEF SameAsk, SameAnswer, NothingAsked, PreCommitFirst, NoPreCommit,
                      NothingAnswered, NoCommit, CommitFirst

\* Nor does the delivery of one.
LEMMA DeliverOther ==
  ASSUME NEW S, NEW q \in Seq(S), q # <<>>, NEW m, NEW y, q[1] = Message(m, y),
         NEW x, x # y, NEW r, r = RemoveAt(q, 1)
  PROVE  SameAsk(q, r, x) /\ SameAnswer(q, r, x)
  <1>1. \A n : Message(n, x) # q[1]
    BY MessagesDiffer
  <1>2. \A a, b :
          /\ Message(a, x) # q[1] => (Absent(r, Message(a, x)) <=> Absent(q, Message(a, x)))
          /\ Message(a, x) # q[1] => (Once(r, Message(a, x)) <=> Once(q, Message(a, x)))
          /\ Message(a, x) # q[1] /\ Message(b, x) # q[1] =>
               (Before(r, Message(a, x), Message(b, x))
                  <=> Before(q, Message(a, x), Message(b, x)))
    BY AfterDelivery
  <1>3. QED
    BY <1>1, <1>2 DEF SameAsk, SameAnswer, NothingAsked, PreCommitFirst, NoPreCommit,
                      NothingAnswered, NoCommit, CommitFirst

\* A step does not change how t stands with x.
PhaseKept(t, x) ==
  /\ Unprepared(t, x)' <=> Unprepared(t, x)
  /\ Asking(t, x)' <=> Asking(t, x)
  /\ Standing(t, x)' <=> Standing(t, x)
  /\ Refused(t, x)' <=> Refused(t, x)
  /\ Agreed(t, x)' <=> Agreed(t, x)

\* A token stands as it did when nothing about the execution has changed.
LEMMA SamePhase ==
  ASSUME NEW t, NEW x, outcome'[t][x] = outcome[t][x], exec_ids'[t][x] = exec_ids[t][x],
         t \in registry'[x] <=> t \in registry[x],
         SameAsk(to_coordinator[t], to_coordinator'[t], x),
         SameAnswer(to_token[t], to_token'[t], x)
  PROVE  PhaseKept(t, x)
  <1>1. Unprepared(t, x)' <=> Unprepared(t, x)
    BY DEF Unprepared, SameAsk, SameAnswer
  <1>2. Asking(t, x)' <=> Asking(t, x)
    BY DEF Asking, SameAsk, SameAnswer
  <1>3. Standing(t, x)' <=> Standing(t, x)
    BY DEF Standing, SameAsk, SameAnswer
  <1>4. Refused(t, x)' <=> Refused(t, x)
    BY DEF Refused, SameAsk, SameAnswer
  <1>5. Agreed(t, x)' <=> Agreed(t, x)
    BY DEF Agreed, SameAsk, SameAnswer
  <1>6. QED
    BY <1>1, <1>2, <1>3, <1>4, <1>5 DEF PhaseKept

\* Who is agreed stands in no other way.
LEMMA AgreedAlone ==
  ASSUME NEW t, NEW x
  PROVE  /\ Unprepared(t, x) \/ Asking(t, x) \/ Standing(t, x) \/ Refused(t, x)
              => ~Agreed(t, x)
         /\ Unprepared(t, x)' \/ Asking(t, x)' \/ Standing(t, x)' \/ Refused(t, x)'
              => ~Agreed(t, x)'
  <1>1. \A q : CommitFirst(q, x) => ~NoCommit(q, x) /\ ~NothingAnswered(q, x)
    BY DEF CommitFirst, NoCommit, NothingAnswered, Before, Absent
  <1>2. Unprepared(t, x) \/ Asking(t, x) \/ Standing(t, x) \/ Refused(t, x) => ~Agreed(t, x)
    BY <1>1 DEF Unprepared, Asking, Standing, Refused, Agreed
  <1>3. Unprepared(t, x)' \/ Asking(t, x)' \/ Standing(t, x)' \/ Refused(t, x)'
          => ~Agreed(t, x)'
    BY <1>1 DEF Unprepared, Asking, Standing, Refused, Agreed
  <1>4. QED
    BY <1>2, <1>3

\* A used input stays used.
LEMMA SpentStays ==
  ASSUME LockInv, LockInv', [Next]_vars, NEW t \in Tokens, NEW x \in Executions,
         InputSpent(t, x)
  PROVE  InputSpent(t, x)'
  <1>1. /\ input_ids \in [Tokens -> Inputs] /\ nonce \in [Tokens -> 0 .. MaxInputs]
    BY DEF LockInv, TypeOK, Inputs
  <1>2. x[t] \in InputIds /\ t \in DOMAIN x /\ input_ids[t][x[t]] = NoTransfer
        /\ x[t] < nonce[t]
    BY ExecutionsAssumption DEF InputSpent
  <1>3. nonce[t] \in Nat /\ x[t] \in Nat
    BY <1>1, <1>2, BoundsAssumption DEF InputIds
  <1>4. ASSUME UNCHANGED <<input_ids, nonce>>
        PROVE  InputSpent(t, x)'
    BY <1>4 DEF InputSpent
  <1>5. ASSUME NEW s \in Tokens, NEW tr \in Transfers, InitAtomicTransfer(s, tr)
        PROVE  InputSpent(t, x)'
    <2>1. /\ nonce' = [nonce EXCEPT ![s] = @ + 1]
          /\ input_ids' = [input_ids EXCEPT ![s][nonce[s]] = tr]
      BY <1>5 DEF InitAtomicTransfer, InitAtomicExec
    <2>2. nonce'[t] = nonce[t] \/ nonce'[t] = nonce[t] + 1
      BY <1>1, <2>1
    <2>3. x[t] < nonce'[t]
      BY <1>2, <1>3, <2>2
    <2>4. input_ids'[t][x[t]] = NoTransfer
      <3>1. CASE s # t
        BY <1>1, <1>2, <2>1, <3>1
      <3>2. CASE s = t
        <4>1. x[t] # nonce[s]
          BY <1>2, <1>3, <3>2
        <4>2. input_ids'[t] = [input_ids[t] EXCEPT ![nonce[s]] = tr]
          BY <1>1, <2>1, <3>2
        <4>3. input_ids[t] \in Inputs
          BY <1>1
        <4>4. QED
          BY <1>2, <4>1, <4>2, <4>3 DEF Inputs
      <3>3. QED
        BY <3>1, <3>2
    <2>5. QED
      BY <1>2, <2>3, <2>4 DEF InputSpent
  <1>6. ASSUME NEW s \in Tokens, NEW i \in InputIds,
               input_ids' = [input_ids EXCEPT ![s][i] = NoTransfer], nonce' = nonce
        PROVE  InputSpent(t, x)'
    <2>1. input_ids'[t][x[t]] = NoTransfer
      <3>1. CASE s # t
        BY <1>1, <1>2, <1>6, <3>1
      <3>2. CASE s = t
        <4>1. input_ids'[t] = [input_ids[t] EXCEPT ![i] = NoTransfer] /\ input_ids[t] \in Inputs
          BY <1>1, <1>6, <3>2
        <4>2. QED
          BY <1>2, <4>1 DEF Inputs
      <3>3. QED
        BY <3>1, <3>2
    <2>2. QED
      BY <1>2, <1>6, <2>1 DEF InputSpent
  <1>7. ASSUME NEW s \in Tokens, NEW i \in InputIds, CancelAtomicTransfer(s, i)
        PROVE  InputSpent(t, x)'
    BY <1>6, <1>7 DEF CancelAtomicTransfer, CancelAtomicExec
  <1>8. ASSUME NEW s \in Tokens, NEW y \in Executions, PrepareAtomicTransfer(s, y)
        PROVE  InputSpent(t, x)'
    <2>1. y[s] \in InputIds
      BY <1>8, ExecutionsAssumption DEF PrepareAtomicTransfer
    <2>2. QED
      BY <1>6, <1>8, <2>1 DEF PrepareAtomicTransfer, PrepareAtomicExec
  <1>9. ASSUME NEW s \in Tokens,
               \/ \E tr \in Transfers : Transfer(s, tr)
               \/ \E y \in Executions : AbortAtomicTransfer(s, y)
               \/ DeliverToToken(s) \/ DeliverToCoordinator(s)
        PROVE  UNCHANGED <<input_ids, nonce>>
    BY <1>9 DEF Transfer, AbortAtomicTransfer, DeliverToToken, CommitAtomicTransfer,
                RollbackAtomicTransfer, DeliverToCoordinator, PreCommitWaits,
                PreCommitCompletes, Revoke, tokens
  <1>10. CASE UNCHANGED vars
    BY <1>4, <1>10 DEF vars, tokens
  <1>11. CASE Next
    BY <1>4, <1>5, <1>7, <1>8, <1>9, <1>11 DEF Next
  <1>12. QED
    BY <1>10, <1>11

\* A step that changes how one token stands with one execution, and does not decide it.
LEMMA StepAtPair ==
  ASSUME OrderInv, LockInv', [Next]_vars, NEW t \in Tokens, NEW x \in Executions,
         \A s \in Tokens, y \in Executions : s # t \/ y # x => PhaseKept(s, y),
         InPhase(t, x)', Unprepared(t, x)' \/ InputSpent(t, x)',
         Agreed(t, x)' <=> Agreed(t, x)
  PROVE  OrderInv'
  <1>1. \A s \in Tokens, y \in Executions : Agreed(s, y)' <=> Agreed(s, y)
    BY DEF PhaseKept
  <1>2. ASSUME NEW s \in Tokens, NEW y \in Executions
        PROVE  InPhase(s, y)' /\ (Unprepared(s, y)' \/ InputSpent(s, y)')
    <2>1. CASE s = t /\ y = x
      BY <2>1
    <2>2. CASE s # t \/ y # x
      <3>1. PhaseKept(s, y) /\ InPhase(s, y) /\ (Unprepared(s, y) \/ InputSpent(s, y))
        BY <2>2 DEF OrderInv
      <3>2. InputSpent(s, y) => InputSpent(s, y)'
        BY SpentStays DEF OrderInv
      <3>3. QED
        BY <3>1, <3>2 DEF PhaseKept, InPhase
    <2>3. QED
      BY <2>1, <2>2
  <1>3. ASSUME NEW y \in Executions, NEW s \in DOMAIN y, NEW u \in DOMAIN y, Agreed(s, y)'
        PROVE  Agreed(u, y)'
    <2>1. s \in Tokens /\ u \in Tokens
      BY ExecutionsAssumption
    <2>2. QED
      BY <1>1, <1>3, <2>1 DEF OrderInv
  <1>4. QED
    BY <1>2, <1>3 DEF OrderInv

\* A request of x joins the queue to the coordinator.
LEMMA AskedMore ==
  ASSUME NEW q \in Seq(ToCoordinator), NEW x \in Executions
  PROVE  /\ NothingAsked(q, x) => PreCommitFirst(Append(q, Message("PreCommit", x)), x)
         /\ PreCommitFirst(q, x) => PreCommitFirst(Append(q, Message("Revoke", x)), x)
         /\ NoPreCommit(q, x) => NoPreCommit(Append(q, Message("Revoke", x)), x)
  <1> DEFINE pre == Message("PreCommit", x)
             rev == Message("Revoke", x)
  <1>1. pre \in ToCoordinator /\ rev \in ToCoordinator /\ pre # rev
    BY MessagesDiffer DEF Message, ToCoordinator
  <1> HIDE DEF pre, rev
  <1>2. /\ Absent(q, pre) => Once(Append(q, pre), pre)
        /\ Absent(q, rev) => Before(Append(q, pre), pre, rev)
    BY <1>1, AfterSending
  <1>3. /\ Absent(q, pre) => Absent(Append(q, rev), pre)
        /\ Once(q, pre) => Once(Append(q, rev), pre)
        /\ Before(q, pre, rev) => Before(Append(q, rev), pre, rev)
    BY <1>1, AfterSending
  <1>4. QED
    BY <1>2, <1>3 DEF NothingAsked, PreCommitFirst, NoPreCommit, pre, rev

\* A request of x, the first message of its queue, reaches the coordinator.
LEMMA AskedLess ==
  ASSUME NEW q \in Seq(ToCoordinator), q # <<>>, NEW x \in Executions
  PROVE  /\ q[1] = Message("PreCommit", x) =>
              /\ ~NothingAsked(q, x) /\ ~NoPreCommit(q, x)
              /\ PreCommitFirst(q, x) => NoPreCommit(RemoveAt(q, 1), x)
         /\ q[1] = Message("Revoke", x) =>
              /\ ~NothingAsked(q, x) /\ ~PreCommitFirst(q, x)
              /\ NoPreCommit(q, x) => NoPreCommit(RemoveAt(q, 1), x)
  <1> DEFINE pre == Message("PreCommit", x)
             rev == Message("Revoke", x)
  <1> HIDE DEF pre, rev
  <1>1. ASSUME q[1] = pre
        PROVE  /\ ~Absent(q, pre)
               /\ Once(q, pre) => Absent(RemoveAt(q, 1), pre)
    BY <1>1, AfterDelivery
  <1>2. ASSUME q[1] = rev
        PROVE  /\ ~Absent(q, rev) /\ ~Before(q, pre, rev)
               /\ Absent(q, pre) => Absent(RemoveAt(q, 1), pre)
    BY <1>2, AfterDelivery
  <1>3. QED
    BY <1>1, <1>2 DEF NothingAsked, PreCommitFirst, NoPreCommit, pre, rev

\* An answer about x joins the queue to a token.
LEMMA AnsweredMore ==
  ASSUME NEW q \in Seq(ToToken), NEW x \in Executions
  PROVE  /\ NothingAnswered(q, x) => CommitFirst(Append(q, Message("Commit", x)), x)
         /\ NothingAnswered(q, x) \/ NoCommit(q, x) =>
              NoCommit(Append(q, Message("Rollback", x)), x)
         /\ CommitFirst(q, x) => CommitFirst(Append(q, Message("Rollback", x)), x)
  <1> DEFINE com == Message("Commit", x)
             rol == Message("Rollback", x)
  <1>1. com \in ToToken /\ rol \in ToToken /\ com # rol
    BY MessagesDiffer DEF Message, ToToken
  <1> HIDE DEF com, rol
  <1>2. Absent(q, rol) => Before(Append(q, com), com, rol)
    BY <1>1, AfterSending
  <1>3. /\ Absent(q, com) => Absent(Append(q, rol), com)
        /\ Before(q, com, rol) => Before(Append(q, rol), com, rol)
    BY <1>1, AfterSending
  <1>4. QED
    BY <1>2, <1>3 DEF NothingAnswered, NoCommit, CommitFirst, com, rol

\* An answer about x, the first message of its queue, reaches the token.
LEMMA AnsweredLess ==
  ASSUME NEW q \in Seq(ToToken), q # <<>>, NEW x \in Executions
  PROVE  /\ q[1] = Message("Commit", x) => ~NothingAnswered(q, x) /\ ~NoCommit(q, x)
         /\ q[1] = Message("Rollback", x) =>
              /\ ~NothingAnswered(q, x) /\ ~CommitFirst(q, x)
              /\ NoCommit(q, x) => NoCommit(RemoveAt(q, 1), x)
  <1> DEFINE com == Message("Commit", x)
             rol == Message("Rollback", x)
  <1> HIDE DEF com, rol
  <1>1. q[1] = com => ~Absent(q, com)
    BY AfterDelivery
  <1>2. ASSUME q[1] = rol
        PROVE  /\ ~Absent(q, rol) /\ ~Before(q, com, rol)
               /\ Absent(q, com) => Absent(RemoveAt(q, 1), com)
    BY <1>2, AfterDelivery
  <1>3. QED
    BY <1>1, <1>2 DEF NothingAnswered, NoCommit, CommitFirst, com, rol

\* In order, the message that is delivered is the first of its queue.
LEMMA FifoReceives ==
  ASSUME Fifo, TypeOK, NEW t \in Tokens, NEW m, NEW x, Receives(t, m, x)
  PROVE  /\ to_token[t] \in Seq(ToToken) /\ to_token[t] # <<>>
         /\ to_token[t][1] = Message(m, x) /\ to_token'[t] = RemoveAt(to_token[t], 1)
         /\ \A s \in Tokens : s # t => to_token'[s] = to_token[s]
  <1>1. to_token \in [Tokens -> Seq(ToToken)]
    BY QueueTypes
  <1>2. PICK i \in DOMAIN to_token[t] :
          /\ i = 1 /\ to_token[t][i] = Message(m, x)
          /\ to_token' = [to_token EXCEPT ![t] = RemoveAt(@, i)]
    BY DEF Receives, Deliverable
  <1>3. to_token[t] \in Seq(ToToken) /\ to_token[t] # <<>>
    BY <1>1, <1>2
  <1>4. QED
    BY <1>1, <1>2, <1>3

\* Likewise at the coordinator.
LEMMA FifoCoordinatorReceives ==
  ASSUME Fifo, TypeOK, NEW t \in Tokens, NEW m, NEW x, CoordinatorReceives(t, m, x)
  PROVE  /\ to_coordinator[t] \in Seq(ToCoordinator) /\ to_coordinator[t] # <<>>
         /\ to_coordinator[t][1] = Message(m, x)
         /\ to_coordinator'[t] = RemoveAt(to_coordinator[t], 1)
         /\ \A s \in Tokens : s # t => to_coordinator'[s] = to_coordinator[s]
  <1>1. to_coordinator \in [Tokens -> Seq(ToCoordinator)]
    BY QueueTypes
  <1>2. PICK i \in DOMAIN to_coordinator[t] :
          /\ i = 1 /\ to_coordinator[t][i] = Message(m, x)
          /\ to_coordinator' = [to_coordinator EXCEPT ![t] = RemoveAt(@, i)]
    BY DEF CoordinatorReceives, Deliverable
  <1>3. to_coordinator[t] \in Seq(ToCoordinator) /\ to_coordinator[t] # <<>>
    BY <1>1, <1>2
  <1>4. QED
    BY <1>1, <1>2, <1>3

\* A step that leaves a queue as it is, appends a message about x to it or delivers one
\* says nothing about another execution.
LEMMA QueuesOfOthers ==
  ASSUME TypeOK, NEW x \in Executions, NEW y \in Executions, y # x, NEW s \in Tokens,
         \/ to_coordinator'[s] = to_coordinator[s]
         \/ \E m \in {"PreCommit", "Revoke"} :
              to_coordinator'[s] = Append(to_coordinator[s], Message(m, x))
         \/ \E m : /\ to_coordinator[s] # <<>> /\ to_coordinator[s][1] = Message(m, x)
                   /\ to_coordinator'[s] = RemoveAt(to_coordinator[s], 1),
         \/ to_token'[s] = to_token[s]
         \/ \E m \in {"Commit", "Rollback"} :
              to_token'[s] = Append(to_token[s], Message(m, x))
         \/ \E m : /\ to_token[s] # <<>> /\ to_token[s][1] = Message(m, x)
                   /\ to_token'[s] = RemoveAt(to_token[s], 1)
  PROVE  /\ SameAsk(to_coordinator[s], to_coordinator'[s], y)
         /\ SameAnswer(to_token[s], to_token'[s], y)
  <1>1. to_coordinator[s] \in Seq(ToCoordinator) /\ to_token[s] \in Seq(ToToken)
    BY QueueTypes
  <1>2. \A q : SameAsk(q, q, y) /\ SameAnswer(q, q, y)
    BY DEF SameAsk, SameAnswer
  <1>3. /\ \A m \in {"PreCommit", "Revoke"} : Message(m, x) \in ToCoordinator
        /\ \A m \in {"Commit", "Rollback"} : Message(m, x) \in ToToken
    BY DEF Message, ToCoordinator, ToToken
  <1>4. SameAsk(to_coordinator[s], to_coordinator'[s], y)
    <2>1. CASE to_coordinator'[s] = to_coordinator[s]
      BY <1>2, <2>1
    <2>2. ASSUME NEW m \in {"PreCommit", "Revoke"},
                 to_coordinator'[s] = Append(to_coordinator[s], Message(m, x))
          PROVE  SameAsk(to_coordinator[s], to_coordinator'[s], y)
      <3>1. Message(m, x) \in ToCoordinator
        BY <1>3
      <3>2. QED
        BY <1>1, <2>2, <3>1, SendOther
    <2>3. ASSUME NEW m, to_coordinator[s] # <<>>, to_coordinator[s][1] = Message(m, x),
                 to_coordinator'[s] = RemoveAt(to_coordinator[s], 1)
          PROVE  SameAsk(to_coordinator[s], to_coordinator'[s], y)
      BY <1>1, <2>3, DeliverOther
    <2>4. QED
      BY <2>1, <2>2, <2>3
  <1>5. SameAnswer(to_token[s], to_token'[s], y)
    <2>1. CASE to_token'[s] = to_token[s]
      BY <1>2, <2>1
    <2>2. ASSUME NEW m \in {"Commit", "Rollback"},
                 to_token'[s] = Append(to_token[s], Message(m, x))
          PROVE  SameAnswer(to_token[s], to_token'[s], y)
      <3>1. Message(m, x) \in ToToken
        BY <1>3
      <3>2. QED
        BY <1>1, <2>2, <3>1, SendOther
    <2>3. ASSUME NEW m, to_token[s] # <<>>, to_token[s][1] = Message(m, x),
                 to_token'[s] = RemoveAt(to_token[s], 1)
          PROVE  SameAnswer(to_token[s], to_token'[s], y)
      BY <1>1, <2>3, DeliverOther
    <2>4. QED
      BY <2>1, <2>2, <2>3
  <1>6. QED
    BY <1>4, <1>5
\* A step of token t about execution x leaves every other pair as it was.
LEMMA OthersKept ==
  ASSUME TypeOK, NEW t \in Tokens, NEW x \in Executions,
         \A s \in Tokens, y \in Executions : s # t \/ y # x =>
           /\ outcome'[s][y] = outcome[s][y]
           /\ exec_ids'[s][y] = exec_ids[s][y]
           /\ s \in registry'[y] <=> s \in registry[y],
         \A s \in Tokens : s # t =>
           to_coordinator'[s] = to_coordinator[s] /\ to_token'[s] = to_token[s],
         \/ to_coordinator'[t] = to_coordinator[t]
         \/ \E m \in {"PreCommit", "Revoke"} :
              to_coordinator'[t] = Append(to_coordinator[t], Message(m, x))
         \/ \E m : /\ to_coordinator[t] # <<>> /\ to_coordinator[t][1] = Message(m, x)
                   /\ to_coordinator'[t] = RemoveAt(to_coordinator[t], 1),
         \/ to_token'[t] = to_token[t]
         \/ \E m \in {"Commit", "Rollback"} :
              to_token'[t] = Append(to_token[t], Message(m, x))
         \/ \E m : /\ to_token[t] # <<>> /\ to_token[t][1] = Message(m, x)
                   /\ to_token'[t] = RemoveAt(to_token[t], 1)
  PROVE  \A s \in Tokens, y \in Executions : s # t \/ y # x => PhaseKept(s, y)
  <1> SUFFICES ASSUME NEW s \in Tokens, NEW y \in Executions, s # t \/ y # x
               PROVE  PhaseKept(s, y)
    OBVIOUS
  <1>1. \A q : SameAsk(q, q, y) /\ SameAnswer(q, q, y)
    BY DEF SameAsk, SameAnswer
  <1>2. /\ SameAsk(to_coordinator[s], to_coordinator'[s], y)
        /\ SameAnswer(to_token[s], to_token'[s], y)
    <2>1. CASE s # t
      BY <1>1, <2>1
    <2>2. CASE s = t /\ y # x
      <3>1. /\ SameAsk(to_coordinator[t], to_coordinator'[t], y)
            /\ SameAnswer(to_token[t], to_token'[t], y)
        BY <2>2, QueuesOfOthers
      <3>2. QED
        BY <2>2, <3>1
    <2>3. QED
      BY <2>1, <2>2
  <1>3. QED
    BY <1>2, SamePhase

\* A step that touches neither executions nor messages.
LEMMA NothingDecided ==
  ASSUME OrderInv, LockInv', [Next]_vars,
         UNCHANGED <<exec_ids, registry, to_coordinator, to_token, outcome>>
  PROVE  OrderInv'
  <1>1. \A q, y : SameAsk(q, q, y) /\ SameAnswer(q, q, y)
    BY DEF SameAsk, SameAnswer
  <1>2. \A s \in Tokens, y \in Executions : PhaseKept(s, y)
    BY <1>1, SamePhase
  <1>3. ASSUME NEW s \in Tokens, NEW y \in Executions
        PROVE  InPhase(s, y)' /\ (Unprepared(s, y)' \/ InputSpent(s, y)')
    <2>1. PhaseKept(s, y) /\ InPhase(s, y) /\ (Unprepared(s, y) \/ InputSpent(s, y))
      BY <1>2 DEF OrderInv
    <2>2. InputSpent(s, y) => InputSpent(s, y)'
      BY SpentStays DEF OrderInv
    <2>3. QED
      BY <2>1, <2>2 DEF PhaseKept, InPhase
  <1>4. ASSUME NEW y \in Executions, NEW s \in DOMAIN y, NEW u \in DOMAIN y, Agreed(s, y)'
        PROVE  Agreed(u, y)'
    <2>1. s \in Tokens /\ u \in Tokens
      BY ExecutionsAssumption
    <2>2. PhaseKept(s, y) /\ PhaseKept(u, y)
      BY <1>2, <2>1
    <2>3. QED
      BY <1>4, <2>2 DEF OrderInv, PhaseKept
  <1>5. QED
    BY <1>3, <1>4 DEF OrderInv

\* prepare_atomic_exec: the pre-commitment is the first word of t about x.
LEMMA OrderAfterPrepare ==
  ASSUME OrderInv, LockInv', NEW t \in Tokens, NEW x \in Executions,
         PrepareAtomicTransfer(t, x)
  PROVE  OrderInv'
  <1>1. TypeOK /\ TokenLocks(t)
    BY DEF OrderInv, LockInv
  <1>2. t \in DOMAIN x /\ x[t] \in InputIds
    BY ExecutionsAssumption DEF PrepareAtomicTransfer
  <1>3. /\ input_ids[t][x[t]] # NoTransfer
        /\ input_ids' = [input_ids EXCEPT ![t][x[t]] = NoTransfer]
        /\ exec_ids' = [exec_ids EXCEPT ![t][x] = input_ids[t][x[t]]]
        /\ to_coordinator' = [to_coordinator EXCEPT ![t] = Append(@, Message("PreCommit", x))]
        /\ UNCHANGED <<nonce, registry, to_token, outcome>>
    BY DEF PrepareAtomicTransfer, PrepareAtomicExec
  <1>4. Unprepared(t, x)
    BY <1>3 DEF OrderInv, InputSpent
  <1>5. /\ to_coordinator \in [Tokens -> Seq(ToCoordinator)]
        /\ exec_ids \in [Tokens -> Execs] /\ input_ids \in [Tokens -> Inputs]
        /\ nonce \in [Tokens -> 0 .. MaxInputs]
    BY <1>1, QueueTypes DEF TypeOK, Execs, Inputs
  <1>6. /\ exec_ids'[t][x] = input_ids[t][x[t]]
        /\ \A s \in Tokens, y \in Executions :
             s # t \/ y # x => exec_ids'[s][y] = exec_ids[s][y]
    BY <1>3, <1>5 DEF Execs
  <1>7. /\ to_coordinator'[t] = Append(to_coordinator[t], Message("PreCommit", x))
        /\ \A s \in Tokens : s # t => to_coordinator'[s] = to_coordinator[s]
    BY <1>3, <1>5
  <1>8. Asking(t, x)'
    <2>1. PreCommitFirst(to_coordinator'[t], x)
      BY <1>4, <1>5, <1>7, AskedMore DEF Unprepared
    <2>2. QED
      BY <1>3, <1>4, <1>6, <2>1 DEF Unprepared, Asking
  <1>9. InputSpent(t, x)'
    <2>1. input_ids'[t][x[t]] = NoTransfer
      BY <1>2, <1>3, <1>5 DEF Inputs
    <2>2. ~(x[t] >= nonce[t])
      BY <1>1, <1>2, <1>3 DEF TokenLocks, SoundLocks
    <2>3. x[t] \in Nat /\ nonce[t] \in Nat
      BY <1>2, <1>5, BoundsAssumption DEF InputIds
    <2>4. x[t] < nonce'[t]
      BY <1>3, <2>2, <2>3
    <2>5. QED
      BY <1>2, <2>1, <2>4 DEF InputSpent
  <1>10. \A s \in Tokens, y \in Executions : s # t \/ y # x => PhaseKept(s, y)
    BY <1>1, <1>3, <1>6, <1>7, OthersKept
  <1>11. [Next]_vars
    BY DEF Next
  <1>12. InPhase(t, x)' /\ (Agreed(t, x)' <=> Agreed(t, x))
    BY <1>4, <1>8, AgreedAlone DEF InPhase
  <1>13. QED
    BY <1>9, <1>10, <1>11, <1>12, StepAtPair

\* abort_atomic_transfer: a revocation follows the pre-commitment.
LEMMA OrderAfterAbort ==
  ASSUME OrderInv, LockInv', NEW t \in Tokens, NEW x \in Executions, AbortAtomicTransfer(t, x)
  PROVE  OrderInv'
  <1>1. TypeOK /\ LockInv
    BY DEF OrderInv, LockInv
  <1>2. /\ exec_ids[t][x] # NoTransfer
        /\ to_coordinator' = [to_coordinator EXCEPT ![t] = Append(@, Message("Revoke", x))]
        /\ UNCHANGED <<exec_ids, registry, to_token, outcome>>
    BY DEF AbortAtomicTransfer, tokens
  <1>3. to_coordinator \in [Tokens -> Seq(ToCoordinator)]
    BY <1>1, QueueTypes
  <1>4. /\ to_coordinator'[t] = Append(to_coordinator[t], Message("Revoke", x))
        /\ \A s \in Tokens : s # t => to_coordinator'[s] = to_coordinator[s]
    BY <1>2, <1>3
  <1>5. /\ PreCommitFirst(to_coordinator[t], x) => PreCommitFirst(to_coordinator'[t], x)
        /\ NoPreCommit(to_coordinator[t], x) => NoPreCommit(to_coordinator'[t], x)
    BY <1>3, <1>4, AskedMore
  <1>6. /\ ~Unprepared(t, x)
        /\ Asking(t, x) => Asking(t, x)'
        /\ Standing(t, x) => Standing(t, x)'
        /\ Refused(t, x) => Refused(t, x)'
        /\ Agreed(t, x) => Agreed(t, x)'
    BY <1>2, <1>5 DEF Unprepared, Asking, Standing, Refused, Agreed
  <1>7. InPhase(t, x) /\ InputSpent(t, x)
    BY <1>6 DEF OrderInv
  <1>8. [Next]_vars
    BY DEF Next
  <1>9. InPhase(t, x)' /\ (Agreed(t, x)' <=> Agreed(t, x))
    BY <1>6, <1>7, AgreedAlone DEF InPhase
  <1>10. \A s \in Tokens, y \in Executions : s # t \/ y # x => PhaseKept(s, y)
    BY <1>1, <1>2, <1>4, OthersKept
  <1>11. InputSpent(t, x)'
    BY <1>1, <1>7, <1>8, SpentStays
  <1>12. QED
    BY <1>8, <1>9, <1>10, <1>11, StepAtPair
\* commit_atomic_transfer and rollback_atomic_transfer: what they take and what they leave.
LEMMA OrderAfterFinish ==
  ASSUME Fifo, OrderInv, LockInv', NEW t \in Tokens, NEW x \in Executions, NEW m,
         NEW result, Receives(t, m, x), FinishAtomicExec(t, x),
         outcome' = [outcome EXCEPT ![t][x] = result],
         UNCHANGED <<registry, to_coordinator>>, [Next]_vars,
         \/ m = "Commit" /\ result = "committed"
         \/ m = "Rollback" /\ result = "rolled back"
  PROVE  OrderInv'
  <1>1. TypeOK /\ LockInv
    BY DEF OrderInv, LockInv
  <1>2. /\ to_token[t] \in Seq(ToToken) /\ to_token[t] # <<>>
        /\ to_token[t][1] = Message(m, x) /\ to_token'[t] = RemoveAt(to_token[t], 1)
        /\ \A s \in Tokens : s # t => to_token'[s] = to_token[s]
    BY <1>1, FifoReceives
  <1>3. /\ exec_ids \in [Tokens -> Execs]
        /\ outcome \in [Tokens -> [Executions -> {"open", "committed", "rolled back"}]]
    BY <1>1 DEF TypeOK, Execs
  <1>4. exec_ids[t][x] # NoTransfer /\ exec_ids' = [exec_ids EXCEPT ![t][x] = NoTransfer]
    BY DEF FinishAtomicExec
  <1>5. /\ exec_ids'[t][x] = NoTransfer /\ outcome'[t][x] = result
        /\ \A s \in Tokens, y \in Executions : s # t \/ y # x =>
             exec_ids'[s][y] = exec_ids[s][y] /\ outcome'[s][y] = outcome[s][y]
    BY <1>3, <1>4 DEF Execs
  <1>6. InPhase(t, x) /\ ~Unprepared(t, x) /\ InputSpent(t, x)
    BY <1>4 DEF OrderInv, Unprepared
  <1>7. \A s \in Tokens, y \in Executions : s # t \/ y # x => PhaseKept(s, y)
    <2>1. \A s \in Tokens, y \in Executions : s # t \/ y # x =>
            /\ outcome'[s][y] = outcome[s][y]
            /\ exec_ids'[s][y] = exec_ids[s][y]
            /\ s \in registry'[y] <=> s \in registry[y]
      BY <1>5
    <2>2. \A s \in Tokens : s # t =>
            to_coordinator'[s] = to_coordinator[s] /\ to_token'[s] = to_token[s]
      BY <1>2
    <2>3. \E k : /\ to_token[t] # <<>> /\ to_token[t][1] = Message(k, x)
                 /\ to_token'[t] = RemoveAt(to_token[t], 1)
      BY <1>2
    <2>4. QED
      BY <1>1, <2>1, <2>2, <2>3, OthersKept
  <1>8. CASE m = "Commit" /\ result = "committed"
    <2>1. ~NothingAnswered(to_token[t], x) /\ ~NoCommit(to_token[t], x)
      BY <1>2, <1>8, AnsweredLess
    <2>2. Agreed(t, x)
      BY <1>6, <2>1 DEF InPhase, Asking, Standing, Refused
    <2>3. Agreed(t, x)'
      BY <1>5, <1>8, <2>2 DEF Agreed
    <2>4. InputSpent(t, x)'
      BY <1>1, <1>6, SpentStays
    <2>5. QED
      BY <1>7, <2>2, <2>3, <2>4, StepAtPair DEF InPhase
  <1>9. CASE m = "Rollback" /\ result = "rolled back"
    <2>1. /\ ~NothingAnswered(to_token[t], x) /\ ~CommitFirst(to_token[t], x)
          /\ NoCommit(to_token[t], x) => NoCommit(to_token'[t], x)
      BY <1>2, <1>9, AnsweredLess
    <2>2. Refused(t, x)
      BY <1>4, <1>6, <2>1 DEF InPhase, Asking, Standing, Agreed
    <2>3. Refused(t, x)'
      BY <1>5, <1>9, <2>1, <2>2 DEF Refused
    <2>4. InputSpent(t, x)'
      BY <1>1, <1>6, SpentStays
    <2>5. Agreed(t, x)' <=> Agreed(t, x)
      BY <2>2, <2>3, AgreedAlone
    <2>6. QED
      BY <1>7, <2>3, <2>4, <2>5, StepAtPair DEF InPhase
  <1>10. QED
    BY <1>8, <1>9

\* pre_commit, when others are missing: the coordinator holds the pre-commitment.
LEMMA OrderAfterWaiting ==
  ASSUME Fifo, OrderInv, LockInv', NEW t \in Tokens, NEW x \in Executions,
         PreCommitWaits(t, x), [Next]_vars
  PROVE  OrderInv'
  <1>1. TypeOK /\ LockInv
    BY DEF OrderInv, LockInv
  <1>2. /\ to_coordinator[t] \in Seq(ToCoordinator) /\ to_coordinator[t] # <<>>
        /\ to_coordinator[t][1] = Message("PreCommit", x)
        /\ to_coordinator'[t] = RemoveAt(to_coordinator[t], 1)
        /\ \A s \in Tokens : s # t => to_coordinator'[s] = to_coordinator[s]
    BY <1>1, FifoCoordinatorReceives DEF PreCommitWaits
  <1>3. /\ registry' = [registry EXCEPT ![x] = @ \cup {t}]
        /\ UNCHANGED <<exec_ids, to_token, outcome>>
        /\ registry \in [Executions -> SUBSET Tokens]
    BY <1>1 DEF PreCommitWaits, tokens, TypeOK
  <1>4. /\ t \in registry'[x]
        /\ \A s \in Tokens, y \in Executions : s # t \/ y # x =>
             (s \in registry'[y] <=> s \in registry[y])
    BY <1>3
  <1>5. /\ ~NothingAsked(to_coordinator[t], x) /\ ~NoPreCommit(to_coordinator[t], x)
        /\ PreCommitFirst(to_coordinator[t], x) => NoPreCommit(to_coordinator'[t], x)
    BY <1>2, AskedLess
  <1>6. Asking(t, x) /\ ~Unprepared(t, x)
    BY <1>5 DEF OrderInv, InPhase, Unprepared, Standing, Refused, Agreed
  <1>7. Standing(t, x)'
    BY <1>3, <1>4, <1>5, <1>6 DEF Asking, Standing
  <1>8. InputSpent(t, x)
    BY <1>6 DEF OrderInv
  <1>9. InputSpent(t, x)'
    BY <1>1, <1>8, SpentStays
  <1>10. Agreed(t, x)' <=> Agreed(t, x)
    BY <1>6, <1>7, AgreedAlone
  <1>11. \A s \in Tokens, y \in Executions : s # t \/ y # x => PhaseKept(s, y)
    BY <1>1, <1>2, <1>3, <1>4, OthersKept
  <1>12. QED
    BY <1>7, <1>9, <1>10, <1>11, StepAtPair DEF InPhase

\* revoke: the pre-commitment is withdrawn, or the decision is already on its way.
LEMMA OrderAfterRevoke ==
  ASSUME Fifo, OrderInv, LockInv', NEW t \in Tokens, NEW x \in Executions, Revoke(t, x),
         [Next]_vars
  PROVE  OrderInv'
  <1>1. TypeOK /\ LockInv
    BY DEF OrderInv, LockInv
  <1>2. /\ to_coordinator[t] \in Seq(ToCoordinator) /\ to_coordinator[t] # <<>>
        /\ to_coordinator[t][1] = Message("Revoke", x)
        /\ to_coordinator'[t] = RemoveAt(to_coordinator[t], 1)
        /\ \A s \in Tokens : s # t => to_coordinator'[s] = to_coordinator[s]
    BY <1>1, FifoCoordinatorReceives DEF Revoke
  <1>3. /\ registry' = [registry EXCEPT ![x] = @ \ {t}]
        /\ to_token' = [to_token EXCEPT ![t] = Append(@, Message("Rollback", x))]
        /\ UNCHANGED <<exec_ids, outcome>>
        /\ registry \in [Executions -> SUBSET Tokens]
        /\ to_token \in [Tokens -> Seq(ToToken)]
    BY <1>1, QueueTypes DEF Revoke, Revoked, tokens, TypeOK
  <1>4. /\ t \notin registry'[x]
        /\ \A s \in Tokens, y \in Executions : s # t \/ y # x =>
             (s \in registry'[y] <=> s \in registry[y])
    BY <1>3
  <1>5. /\ to_token'[t] = Append(to_token[t], Message("Rollback", x))
        /\ \A s \in Tokens : s # t => to_token'[s] = to_token[s]
    BY <1>3
  <1>6. /\ ~NothingAsked(to_coordinator[t], x) /\ ~PreCommitFirst(to_coordinator[t], x)
        /\ NoPreCommit(to_coordinator[t], x) => NoPreCommit(to_coordinator'[t], x)
    BY <1>2, AskedLess
  <1>7. /\ NothingAnswered(to_token[t], x) \/ NoCommit(to_token[t], x) =>
             NoCommit(to_token'[t], x)
        /\ CommitFirst(to_token[t], x) => CommitFirst(to_token'[t], x)
    BY <1>3, <1>5, AnsweredMore
  <1>8. ~Unprepared(t, x) /\ ~Asking(t, x)
    BY <1>6 DEF Unprepared, Asking
  <1>9. /\ Standing(t, x) \/ Refused(t, x) => Refused(t, x)'
        /\ Agreed(t, x) => Agreed(t, x)'
    BY <1>3, <1>4, <1>6, <1>7 DEF Standing, Refused, Agreed
  <1>10. InPhase(t, x) /\ InputSpent(t, x)
    BY <1>8 DEF OrderInv
  <1>11. InPhase(t, x)' /\ (Agreed(t, x)' <=> Agreed(t, x))
    BY <1>8, <1>9, <1>10, AgreedAlone DEF InPhase
  <1>12. InputSpent(t, x)'
    BY <1>1, <1>10, SpentStays
  <1>13. \A s \in Tokens, y \in Executions : s # t \/ y # x => PhaseKept(s, y)
    <2>1. \A s \in Tokens, y \in Executions : s # t \/ y # x =>
            /\ outcome'[s][y] = outcome[s][y]
            /\ exec_ids'[s][y] = exec_ids[s][y]
            /\ s \in registry'[y] <=> s \in registry[y]
      BY <1>3, <1>4
    <2>2. \A s \in Tokens : s # t =>
            to_coordinator'[s] = to_coordinator[s] /\ to_token'[s] = to_token[s]
      BY <1>2, <1>5
    <2>3. \E m : /\ to_coordinator[t] # <<>> /\ to_coordinator[t][1] = Message(m, x)
                 /\ to_coordinator'[t] = RemoveAt(to_coordinator[t], 1)
      BY <1>2
    <2>4. \E m \in {"Commit", "Rollback"} :
            to_token'[t] = Append(to_token[t], Message(m, x))
      BY <1>5
    <2>5. QED
      BY <1>1, <2>1, <2>2, <2>3, <2>4, OthersKept
  <1>14. QED
    BY <1>11, <1>12, <1>13, StepAtPair

\* pre_commit, when it is the last one: everyone stands, and everyone is told.
LEMMA OrderAfterDecision ==
  ASSUME Fifo, OrderInv, LockInv', NEW t \in Tokens, NEW x \in Executions,
         PreCommitCompletes(t, x), [Next]_vars
  PROVE  OrderInv'
  <1>1. TypeOK /\ LockInv
    BY DEF OrderInv, LockInv
  <1>2. /\ to_coordinator[t] \in Seq(ToCoordinator) /\ to_coordinator[t] # <<>>
        /\ to_coordinator[t][1] = Message("PreCommit", x)
        /\ to_coordinator'[t] = RemoveAt(to_coordinator[t], 1)
        /\ \A s \in Tokens : s # t => to_coordinator'[s] = to_coordinator[s]
    BY <1>1, FifoCoordinatorReceives DEF PreCommitCompletes
  <1>3. /\ registry' = [registry EXCEPT ![x] = {}]
        /\ DOMAIN x \subseteq registry[x] \cup {t}
        /\ to_token' = CommitMessages(x, t)
        /\ UNCHANGED <<exec_ids, outcome>>
        /\ registry \in [Executions -> SUBSET Tokens]
        /\ to_token \in [Tokens -> Seq(ToToken)]
    BY <1>1, QueueTypes DEF PreCommitCompletes, tokens, TypeOK
  <1>4. registry'[x] = {} /\ \A y \in Executions : y # x => registry'[y] = registry[y]
    BY <1>3
  <1>5. \A s \in Tokens :
          to_token'[s] = IF s \in DOMAIN x THEN Append(to_token[s], Message("Commit", x))
                         ELSE to_token[s]
    BY <1>3 DEF CommitMessages
  <1>6. /\ ~NothingAsked(to_coordinator[t], x) /\ ~NoPreCommit(to_coordinator[t], x)
        /\ PreCommitFirst(to_coordinator[t], x) => NoPreCommit(to_coordinator'[t], x)
    BY <1>2, AskedLess
  <1>7. Asking(t, x) /\ InputSpent(t, x) /\ NoPreCommit(to_coordinator'[t], x)
    <2>1. Asking(t, x) /\ ~Unprepared(t, x)
      BY <1>6 DEF OrderInv, InPhase, Unprepared, Standing, Refused, Agreed
    <2>2. QED
      BY <1>6, <2>1 DEF OrderInv, Asking
  <1>8. ASSUME NEW s \in DOMAIN x
        PROVE  Agreed(s, x)' /\ InputSpent(s, x)'
    <2>1. s \in Tokens
      BY ExecutionsAssumption
    <2>2. /\ outcome[s][x] = "open" /\ exec_ids[s][x] # NoTransfer
          /\ NothingAnswered(to_token[s], x) /\ NoPreCommit(to_coordinator'[s], x)
          /\ InputSpent(s, x)
      <3>1. CASE s = t
        BY <1>7, <3>1 DEF Asking
      <3>2. CASE s # t
        <4>1. s \in registry[x]
          BY <1>3, <3>2
        <4>2. Standing(s, x) /\ InputSpent(s, x)
          BY <2>1, <4>1 DEF OrderInv, InPhase, Unprepared, Asking, Refused, Agreed
        <4>3. QED
          BY <1>2, <2>1, <3>2, <4>2 DEF Standing
      <3>3. QED
        BY <3>1, <3>2
    <2>3. CommitFirst(to_token'[s], x)
      BY <1>3, <1>5, <2>1, <2>2, AnsweredMore
    <2>4. Agreed(s, x)'
      BY <1>3, <1>4, <2>2, <2>3 DEF Agreed
    <2>5. QED
      BY <1>1, <2>1, <2>2, <2>4, SpentStays
  <1>9. ASSUME NEW s \in Tokens, s \notin DOMAIN x
        PROVE  Unprepared(s, x)'
    <2>1. Unprepared(s, x)
      BY <1>9 DEF OrderInv, InputSpent
    <2>2. s # t
      BY <1>7, <1>9 DEF InputSpent
    <2>3. QED
      BY <1>2, <1>3, <1>4, <1>5, <1>9, <2>1, <2>2 DEF Unprepared
  <1>10. ASSUME NEW s \in Tokens, NEW y \in Executions, y # x
         PROVE  PhaseKept(s, y)
    <2>1. /\ SameAsk(to_coordinator[s], to_coordinator'[s], y)
          /\ SameAnswer(to_token[s], to_token'[s], y)
      BY <1>1, <1>2, <1>5, <1>10, QueuesOfOthers
    <2>2. QED
      BY <1>3, <1>4, <1>10, <2>1, SamePhase
  <1>11. ASSUME NEW s \in Tokens, NEW y \in Executions
         PROVE  InPhase(s, y)' /\ (Unprepared(s, y)' \/ InputSpent(s, y)')
    <2>1. CASE y = x
      BY <1>8, <1>9, <2>1 DEF InPhase
    <2>2. CASE y # x
      <3>1. PhaseKept(s, y) /\ InPhase(s, y) /\ (Unprepared(s, y) \/ InputSpent(s, y))
        BY <1>10, <2>2 DEF OrderInv
      <3>2. InputSpent(s, y) => InputSpent(s, y)'
        BY <1>1, SpentStays
      <3>3. QED
        BY <3>1, <3>2 DEF PhaseKept, InPhase
    <2>3. QED
      BY <2>1, <2>2
  <1>12. ASSUME NEW y \in Executions, NEW s \in DOMAIN y, NEW u \in DOMAIN y, Agreed(s, y)'
         PROVE  Agreed(u, y)'
    <2>1. s \in Tokens /\ u \in Tokens
      BY ExecutionsAssumption
    <2>2. CASE y = x
      BY <1>8, <2>2
    <2>3. CASE y # x
      <3>1. PhaseKept(s, y) /\ PhaseKept(u, y)
        BY <1>10, <2>1, <2>3
      <3>2. QED
        BY <1>12, <3>1 DEF OrderInv, PhaseKept
    <2>4. QED
      BY <2>2, <2>3
  <1>13. QED
    BY <1>11, <1>12 DEF OrderInv

\* The inductive step.
LEMMA OrderStep ==
  ASSUME Fifo, OrderInv, LockInv', [Next]_vars
  PROVE  OrderInv'
  <1>1. CASE UNCHANGED vars
    BY <1>1, NothingDecided DEF vars, tokens
  <1>2. ASSUME NEW t \in Tokens,
               \/ \E tr \in Transfers : Transfer(t, tr) \/ InitAtomicTransfer(t, tr)
               \/ \E i \in InputIds : CancelAtomicTransfer(t, i)
        PROVE  OrderInv'
    <2>1. UNCHANGED <<exec_ids, registry, to_coordinator, to_token, outcome>>
      BY <1>2 DEF Transfer, InitAtomicTransfer, CancelAtomicTransfer
    <2>2. QED
      BY <2>1, NothingDecided
  <1>3. ASSUME NEW t \in Tokens, NEW x \in Executions,
               PrepareAtomicTransfer(t, x) \/ AbortAtomicTransfer(t, x)
        PROVE  OrderInv'
    BY <1>3, OrderAfterPrepare, OrderAfterAbort
  <1>4. ASSUME NEW t \in Tokens, NEW x \in Executions, CommitAtomicTransfer(t, x)
        PROVE  OrderInv'
    <2>1. /\ Receives(t, "Commit", x) /\ FinishAtomicExec(t, x)
          /\ outcome' = [outcome EXCEPT ![t][x] = "committed"]
          /\ UNCHANGED <<registry, to_coordinator>>
      BY <1>4 DEF CommitAtomicTransfer
    <2>2. QED
      BY <2>1, OrderAfterFinish
  <1>5. ASSUME NEW t \in Tokens, NEW x \in Executions, RollbackAtomicTransfer(t, x)
        PROVE  OrderInv'
    <2>1. /\ Receives(t, "Rollback", x) /\ FinishAtomicExec(t, x)
          /\ outcome' = [outcome EXCEPT ![t][x] = "rolled back"]
          /\ UNCHANGED <<registry, to_coordinator>>
      BY <1>5 DEF RollbackAtomicTransfer
    <2>2. QED
      BY <2>1, OrderAfterFinish
  <1>6. ASSUME NEW t \in Tokens, NEW x \in Executions,
               PreCommitWaits(t, x) \/ PreCommitCompletes(t, x) \/ Revoke(t, x)
        PROVE  OrderInv'
    BY <1>6, OrderAfterWaiting, OrderAfterDecision, OrderAfterRevoke
  <1>7. CASE Next
    BY <1>2, <1>3, <1>4, <1>5, <1>6, <1>7 DEF Next, DeliverToToken, DeliverToCoordinator
  <1>8. QED
    BY <1>1, <1>7

\* When messages arrive in the order they were sent in, an execution has one outcome: what
\* one actor commits no other one rolls back, for any number of actors, executions, aborts
\* and messages under way.
THEOREM OneOutcome == Fifo => (Spec => []AllOrNothing)
  <1> SUFFICES ASSUME Fifo PROVE Spec => []AllOrNothing
    OBVIOUS
  <1>1. Init /\ LockInv => OrderInv
    <2> SUFFICES ASSUME Init, LockInv PROVE OrderInv
      OBVIOUS
    <2>1. Len(<<>>) = 0 /\ \A m : Absent(<<>>, m)
      BY DEF Absent
    <2>2. \A t \in Tokens, x \in Executions : Unprepared(t, x)
      BY <2>1 DEF Init, Unprepared, NothingAsked, NothingAnswered
    <2>3. \A t \in Tokens, x \in Executions : ~Agreed(t, x)
      BY <2>2, AgreedAlone
    <2>4. QED
      BY <2>2, <2>3, ExecutionsAssumption DEF OrderInv, InPhase
  <1>2. OrderInv /\ LockInv' /\ [Next]_vars => OrderInv'
    BY OrderStep
  <1>3. OrderInv => AllOrNothing
    <2> SUFFICES ASSUME OrderInv, NEW x \in Executions, NEW s \in DOMAIN x, NEW t \in DOMAIN x,
                        outcome[s][x] = "committed", outcome[t][x] = "rolled back"
                 PROVE  FALSE
      BY DEF AllOrNothing
    <2>1. s \in Tokens /\ t \in Tokens
      BY ExecutionsAssumption
    <2>2. Agreed(s, x)
      BY <2>1 DEF OrderInv, InPhase, Unprepared, Asking, Standing, Refused
    <2>3. Agreed(t, x)
      BY <2>2 DEF OrderInv
    <2>4. QED
      BY <2>3 DEF Agreed
  <1>4. QED
    BY <1>1, <1>2, <1>3, LocksSound, PTL DEF Spec
=============================================================================
