---------------------------- MODULE AtomicTransfer ----------------------------
(***************************************************************************)
(* Atomic execution: token actors in different subnets, each with the      *)
(* registry of atomic-exec/primitives, and the coordinator of              *)
(* atomic-exec/src, which collects their pre-commitments.                  *)
(*                                                                         *)
(* A transfer is initiated (the sender's account is locked), prepared (the *)
(* actor pre-commits at the coordinator) and, when all actors of the       *)
(* execution have pre-committed, committed by a message from the           *)
(* coordinator.  Before it is prepared it can be cancelled; afterwards it  *)
(* can only be aborted through the coordinator, which answers with a       *)
(* rollback.                                                               *)
(*                                                                         *)
(* The cross-messages between an actor and the coordinator are two queues. *)
(* Between a network and its parent a gateway numbers the messages and     *)
(* applies them in the order of their nonces (Fifo).  On a longer way they *)
(* wait in postboxes, from which their owner propagates them one by one,   *)
(* in any order.  A message whose handler fails is reverted together with  *)
(* the checkpoint that carries it, so it stays in its queue.               *)
(*                                                                         *)
(* An input id is a hash over the registry's nonce: it is the nonce.  An   *)
(* execution id is a hash over the input ids of all actors: it is the      *)
(* function from the actors to their input ids (every user of an execution *)
(* is expected to list them in the same order).                            *)
(*                                                                         *)
(* A TokenAmount is signed and no handler looks at the sign of an amount,  *)
(* nor does the constructor: amounts and balances are integers.            *)
(***************************************************************************)
EXTENDS Integers, Sequences, FiniteSets, Functions, SequencesExt

CONSTANTS
  Tokens,             \* the executing actors, one per subnet
  Accounts,           \* the accounts of each token
  InitialBalances,    \* for each token, the balances it is constructed with
  Transfers,          \* the transfers [from, to, amount] users may ask for
  NoTransfer,         \* where the code has no entry
  Executions,         \* the execution ids users may prepare or abort
  Fifo,               \* whether messages arrive in the order they were sent in
  MaxInputs,          \* bound: the transfers initiated at each token
  MaxAborts,          \* bound: the aborts requested
  MaxDebt             \* bound: how far below zero a direct transfer takes a receiver

InputIds == 0 .. MaxInputs - 1

ASSUME AccountsAssumption == IsFiniteSet(Accounts)
ASSUME TransfersAssumption ==
  /\ Transfers \subseteq [from : Accounts, to : Accounts, amount : Int]
  /\ NoTransfer \notin Transfers
ASSUME BalancesAssumption == InitialBalances \in [Tokens -> [Accounts -> Int]]
ASSUME FifoAssumption == Fifo \in BOOLEAN
ASSUME BoundsAssumption == MaxInputs \in Nat /\ MaxAborts \in Nat /\ MaxDebt \in Nat
ASSUME ExecutionsAssumption ==
  \A x \in Executions : DOMAIN x \subseteq Tokens /\ \A t \in DOMAIN x : x[t] \in InputIds

VARIABLES
  balances,         \* State.balances of each token: the amounts
  locked,           \* State.balances of each token: the locked accounts
  nonce,            \* AtomicExecRegistry.nonce
  input_ids,        \* AtomicExecRegistry.input_ids
  exec_ids,         \* AtomicExecRegistry.exec_ids
  registry,         \* State.registry of the coordinator: who has pre-committed
  to_coordinator,   \* cross-messages on their way to the coordinator
  to_token,         \* cross-messages on their way to each token
  aborts,           \* how many aborts were requested
  outcome           \* history: how each token finished each execution

tokens == <<balances, locked, nonce, input_ids, exec_ids>>
vars == <<tokens, registry, to_coordinator, to_token, aborts, outcome>>

Message(method, x) == [method |-> method, exec_id |-> x]

\* The places in a queue from which a gateway may take a message next.
Deliverable(queue) == {i \in DOMAIN queue : Fifo => i = 1}

\* Types; and an input id that init_atomic_exec has not given out yet names nothing.
TypeOK ==
  /\ balances \in [Tokens -> [Accounts -> Int]]
  /\ locked \in [Tokens -> SUBSET Accounts]
  /\ nonce \in [Tokens -> 0 .. MaxInputs]
  /\ input_ids \in [Tokens -> [InputIds -> Transfers \cup {NoTransfer}]]
  /\ \A t \in Tokens, i \in InputIds : i >= nonce[t] => input_ids[t][i] = NoTransfer
  /\ exec_ids \in [Tokens -> [Executions -> Transfers \cup {NoTransfer}]]
  /\ registry \in [Executions -> SUBSET Tokens]
  /\ to_coordinator \in
       [Tokens -> Seq([method : {"PreCommit", "Revoke"}, exec_id : Executions])]
  /\ to_token \in [Tokens -> Seq([method : {"Commit", "Rollback"}, exec_id : Executions])]
  /\ aborts \in 0 .. MaxAborts
  /\ outcome \in [Tokens -> [Executions -> {"open", "committed", "rolled back"}]]

Init ==
  /\ balances = InitialBalances
  /\ locked = [t \in Tokens |-> {}]
  /\ nonce = [t \in Tokens |-> 0]
  /\ input_ids = [t \in Tokens |-> [i \in InputIds |-> NoTransfer]]
  /\ exec_ids = [t \in Tokens |-> [x \in Executions |-> NoTransfer]]
  /\ registry = [x \in Executions |-> {}]
  /\ to_coordinator = [t \in Tokens |-> <<>>]
  /\ to_token = [t \in Tokens |-> <<>>]
  /\ aborts = 0
  /\ outcome = [t \in Tokens |-> [x \in Executions |-> "open"]]

-----------------------------------------------------------------------------

(* The registry of a token: inputs, outputs and the locks they hold. *)

\* A plausible slip: the nonce is not advanced, the next input gets the same id.
InitAtomicExecSameNonce(t, tr) ==
  /\ tr.from \notin locked[t]
  /\ nonce[t] < MaxInputs
  /\ locked' = [locked EXCEPT ![t] = @ \cup {tr.from}]
  /\ input_ids' = [input_ids EXCEPT ![t][nonce[t]] = tr]
  /\ UNCHANGED nonce

\* init_atomic_exec with lock = true: fails on a locked account.
InitAtomicExec(t, tr) ==
  /\ tr.from \notin locked[t]
  /\ nonce[t] < MaxInputs
  /\ locked' = [locked EXCEPT ![t] = @ \cup {tr.from}]
  /\ nonce' = [nonce EXCEPT ![t] = @ + 1]
  /\ input_ids' = [input_ids EXCEPT ![t][nonce[t]] = tr]

\* cancel_atomic_exec
CancelAtomicExec(t, i) ==
  /\ input_ids[t][i] # NoTransfer
  /\ input_ids' = [input_ids EXCEPT ![t][i] = NoTransfer]
  /\ locked' = [locked EXCEPT ![t] = @ \ {input_ids[t][i].from}]

\* prepare_atomic_exec: an account that is not locked has a cid that was not recorded,
\* which is a mismatch.
PrepareAtomicExec(t, i, x) ==
  /\ input_ids[t][i] # NoTransfer
  /\ input_ids[t][i].from \in locked[t]
  /\ exec_ids[t][x] = NoTransfer
  /\ input_ids' = [input_ids EXCEPT ![t][i] = NoTransfer]
  /\ exec_ids' = [exec_ids EXCEPT ![t][x] = input_ids[t][i]]

\* A plausible slip: the account stays locked.
FinishAtomicExecKeepsLock(t, x) ==
  /\ exec_ids[t][x] # NoTransfer
  /\ exec_ids' = [exec_ids EXCEPT ![t][x] = NoTransfer]
  /\ UNCHANGED locked

\* finish_atomic_exec: unlock panics on an account that is not locked.
FinishAtomicExec(t, x) ==
  /\ exec_ids[t][x] # NoTransfer
  /\ exec_ids[t][x].from \in locked[t]
  /\ exec_ids' = [exec_ids EXCEPT ![t][x] = NoTransfer]
  /\ locked' = [locked EXCEPT ![t] = @ \ {exec_ids[t][x].from}]

-----------------------------------------------------------------------------

(* The token. *)

\* The checks of do_transfer: neither account may be locked.  A negative amount is less
\* than any balance that is not itself negative: it credits the sender.
CanDoTransfer(t, lock, tr) ==
  /\ balances[t][tr.from] >= tr.amount
  /\ tr.from \notin lock
  /\ tr.to \notin lock

\* A plausible slip: the debited account is not written back.
DoTransferCreditOnly(t, tr) ==
  [balances EXCEPT ![t][tr.to] = balances[t][tr.to] + tr.amount]

\* do_transfer: both accounts are read before either is written, the receiver last.
DoTransfer(t, tr) ==
  [balances EXCEPT ![t][tr.from] = balances[t][tr.from] - tr.amount,
                   ![t][tr.to] = balances[t][tr.to] + tr.amount]

\* transfer
Transfer(t, tr) ==
  /\ CanDoTransfer(t, locked[t], tr)
  /\ tr.amount < 0 => balances[t][tr.to] + tr.amount >= -MaxDebt
  /\ balances' = DoTransfer(t, tr)
  /\ UNCHANGED <<locked, nonce, input_ids, exec_ids, registry, to_coordinator, to_token,
                 aborts, outcome>>

\* init_atomic_transfer
InitAtomicTransfer(t, tr) ==
  /\ balances[t][tr.from] >= tr.amount
  /\ InitAtomicExec(t, tr)
  /\ UNCHANGED <<balances, exec_ids, registry, to_coordinator, to_token, aborts, outcome>>

\* cancel_atomic_transfer, by the sender of the transfer.
CancelAtomicTransfer(t, i) ==
  /\ CancelAtomicExec(t, i)
  /\ UNCHANGED <<balances, nonce, exec_ids, registry, to_coordinator, to_token, aborts,
                 outcome>>

\* prepare_atomic_transfer, by the sender: whether the other inputs exist is not checked.
PrepareAtomicTransfer(t, x) ==
  /\ t \in DOMAIN x
  /\ PrepareAtomicExec(t, x[t], x)
  /\ to_coordinator' = [to_coordinator EXCEPT ![t] = Append(@, Message("PreCommit", x))]
  /\ UNCHANGED <<balances, locked, nonce, registry, to_token, aborts, outcome>>

\* abort_atomic_transfer, by the sender: changes nothing here, so it can be repeated.
AbortAtomicTransfer(t, x) ==
  /\ exec_ids[t][x] # NoTransfer
  /\ aborts < MaxAborts
  /\ aborts' = aborts + 1
  /\ to_coordinator' = [to_coordinator EXCEPT ![t] = Append(@, Message("Revoke", x))]
  /\ UNCHANGED <<tokens, registry, to_token, outcome>>

\* The gateway of the token's subnet delivers a message of the coordinator.
Receives(t, method, x) ==
  \E i \in Deliverable(to_token[t]) :
    /\ to_token[t][i] = Message(method, x)
    /\ to_token' = [to_token EXCEPT ![t] = RemoveAt(@, i)]

\* commit_atomic_transfer
CommitAtomicTransfer(t, x) ==
  /\ Receives(t, "Commit", x)
  /\ FinishAtomicExec(t, x)
  /\ CanDoTransfer(t, locked'[t], exec_ids[t][x])
  /\ balances' = DoTransfer(t, exec_ids[t][x])
  /\ outcome' = [outcome EXCEPT ![t][x] = "committed"]
  /\ UNCHANGED <<nonce, input_ids, registry, to_coordinator, aborts>>

\* rollback_atomic_transfer
RollbackAtomicTransfer(t, x) ==
  /\ Receives(t, "Rollback", x)
  /\ FinishAtomicExec(t, x)
  /\ outcome' = [outcome EXCEPT ![t][x] = "rolled back"]
  /\ UNCHANGED <<balances, nonce, input_ids, registry, to_coordinator, aborts>>

-----------------------------------------------------------------------------

(* The coordinator. *)

\* A message of t reaches the coordinator.  (Its origin is one of the actors: a token
\* only pre-commits to and revokes executions it is part of.)
CoordinatorReceives(t, method, x) ==
  \E i \in Deliverable(to_coordinator[t]) :
    /\ to_coordinator[t][i] = Message(method, x)
    /\ to_coordinator' = [to_coordinator EXCEPT ![t] = RemoveAt(@, i)]

\* A plausible slip: only the actor whose pre-commitment was the last is told.
CommitMessagesLastOnly(x, last) ==
  [to_token EXCEPT ![last] = Append(@, Message("Commit", x))]

\* The messages of pre_commit to all actors of the execution.
CommitMessages(x, last) ==
  [t \in Tokens |-> IF t \in DOMAIN x THEN Append(to_token[t], Message("Commit", x))
                    ELSE to_token[t]]

\* pre_commit, when pre-commitments are missing.
PreCommitWaits(t, x) ==
  /\ CoordinatorReceives(t, "PreCommit", x)
  /\ ~(DOMAIN x \subseteq registry[x] \cup {t})
  /\ registry' = [registry EXCEPT ![x] = @ \cup {t}]
  /\ UNCHANGED <<tokens, to_token, aborts, outcome>>

\* pre_commit, when it is the last one: all actors are told and the entry is removed.
PreCommitCompletes(t, x) ==
  /\ CoordinatorReceives(t, "PreCommit", x)
  /\ DOMAIN x \subseteq registry[x] \cup {t}
  /\ registry' = [registry EXCEPT ![x] = {}]
  /\ to_token' = CommitMessages(x, t)
  /\ UNCHANGED <<tokens, aborts, outcome>>

\* A plausible slip: the rollback is sent, the pre-commitment stays.
RevokedKeeps(x, t) == registry

\* The entry without the pre-commitment of t, if it has one.
Revoked(x, t) == [registry EXCEPT ![x] = @ \ {t}]

\* A plausible slip: the pre-commitment is removed and nobody is told.
RevokeSilent(t, x) ==
  /\ CoordinatorReceives(t, "Revoke", x)
  /\ registry' = Revoked(x, t)
  /\ UNCHANGED <<tokens, to_token, aborts, outcome>>

\* revoke: the rollback is sent whether or not there was a pre-commitment.
Revoke(t, x) ==
  /\ CoordinatorReceives(t, "Revoke", x)
  /\ registry' = Revoked(x, t)
  /\ to_token' = [to_token EXCEPT ![t] = Append(@, Message("Rollback", x))]
  /\ UNCHANGED <<tokens, aborts, outcome>>

-----------------------------------------------------------------------------

DeliverToToken(t) ==
  \E x \in Executions : CommitAtomicTransfer(t, x) \/ RollbackAtomicTransfer(t, x)

DeliverToCoordinator(t) ==
  \E x \in Executions : PreCommitWaits(t, x) \/ PreCommitCompletes(t, x) \/ Revoke(t, x)

Next ==
  \E t \in Tokens :
    \/ \E tr \in Transfers : Transfer(t, tr) \/ InitAtomicTransfer(t, tr)
    \/ \E i \in InputIds : CancelAtomicTransfer(t, i)
    \/ \E x \in Executions : PrepareAtomicTransfer(t, x) \/ AbortAtomicTransfer(t, x)
    \/ DeliverToToken(t)
    \/ DeliverToCoordinator(t)

Spec == Init /\ [][Next]_vars

\* Cross-messages that can be applied are applied in the end; users need not act.
FairSpec ==
  /\ Spec
  /\ \A t \in Tokens : WF_vars(DeliverToToken(t)) /\ WF_vars(DeliverToCoordinator(t))

-----------------------------------------------------------------------------

\* The transfers from account a of token t that are initiated or prepared.
PendingInputs(t, a) ==
  {i \in InputIds : input_ids[t][i] # NoTransfer /\ input_ids[t][i].from = a}
PendingExecs(t, a) ==
  {x \in Executions : exec_ids[t][x] # NoTransfer /\ exec_ids[t][x].from = a}

\* An account is locked exactly while one, and only one, transfer from it is pending,
\* and its balance still covers that transfer: neither the unlock of
\* finish_atomic_exec nor the debit of a commit can fail.
LockOwned ==
  \A t \in Tokens, a \in Accounts :
    LET inputs == PendingInputs(t, a)
        execs  == PendingExecs(t, a)
    IN  /\ Cardinality(inputs) + Cardinality(execs) = (IF a \in locked[t] THEN 1 ELSE 0)
        /\ \A i \in inputs : balances[t][a] >= input_ids[t][i].amount
        /\ \A x \in execs : balances[t][a] >= exec_ids[t][x].amount

\* The field total, "Total amount of the token in existence", is set once: transfers
\* move tokens and neither make nor destroy them.
SupplyConserved ==
  \A t \in Tokens : SumFunction(balances[t]) = SumFunction(InitialBalances[t])

\* What a token's users expect of it, though no line of the code sees to it: nobody owns
\* less than nothing.  do_transfer keeps it only if no amount is negative.
NobodyInDebt == \A t \in Tokens, a \in Accounts : balances[t][a] >= 0

\* An execution has one outcome: when one of its actors has committed it, no other
\* one has rolled it back, in whatever order pre-commitments, revocations and the
\* coordinator's answers cross each other.
AllOrNothing ==
  \A x \in Executions : \A s, t \in DOMAIN x :
    ~(outcome[s][x] = "committed" /\ outcome[t][x] = "rolled back")

Decided(x) ==
  \E t \in DOMAIN x :
    outcome[t][x] = "committed" \/ Contains(to_token[t], Message("Commit", x))

\* The comment on PrepareAtomicTransfer: it can be aborted "until the coordinator
\* actor has committed the atomic execution".  Once it has, no rollback is sent.
NoRollbackOnceCommitted ==
  \A x \in Executions :
    Decided(x) => \A t \in DOMAIN x : ~Contains(to_token[t], Message("Rollback", x))

\* A rollback that comes too late, of an execution that t has finished, fails whenever
\* it is delivered: the messages behind it wait for good.
LateRollback(t) ==
  \E x \in Executions :
    to_token[t] # <<>> /\ Head(to_token[t]) = Message("Rollback", x) /\ outcome[t][x] # "open"

\* The coordinator's decision takes effect at every actor of the execution, unless a
\* late rollback is in the way.
DecisionApplied ==
  \A x \in Executions :
    Decided(x) ~> \A t \in DOMAIN x : outcome[t][x] = "committed" \/ LateRollback(t)

\* An actor that asks for an abort gets an answer, unless a late rollback is in the way:
\* its account does not stay locked.
AbortAnswered ==
  \A x \in Executions : \A t \in DOMAIN x :
    Contains(to_coordinator[t], Message("Revoke", x))
      ~> exec_ids[t][x] = NoTransfer \/ LateRollback(t)
=============================================================================
