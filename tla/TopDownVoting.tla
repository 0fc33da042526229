---------------------------- MODULE TopDownVoting ----------------------------
(***************************************************************************)
(* The gateway of a child subnet agreeing on, and executing, the top-down  *)
(* checkpoints of its parent: init_genesis_epoch, set_membership and       *)
(* submit_topdown_check of gateway/src/lib.rs over the Voting of           *)
(* common/src/vote.                                                        *)
(*                                                                         *)
(* A validator of the subnet reads the parent chain and submits, for each  *)
(* submission epoch, the top-down messages it saw, sorted by nonce.  The   *)
(* call that completes a two-thirds majority executes them; when that      *)
(* checkpoint is not the next in line its epoch is queued instead.  Every  *)
(* call that ends without messages of its own to apply tries the queue.    *)
(*                                                                         *)
(* A message is its nonce: every message here is addressed to this subnet  *)
(* (a message in transit to a grandchild goes to the postbox instead).  A  *)
(* call that fails anywhere, in the actor, in a message it applies or for  *)
(* lack of balance, leaves no trace: it is a stuttering step.              *)
(***************************************************************************)
EXTENDS Voting, Functions, Sequences

CONSTANTS
  GenesisEpochs,        \* the genesis epochs init_genesis_epoch may be called with
  CheckPeriodParam,     \* ConstructorParams.topdown_check_period, not validated
  DefaultCheckpointPeriod,  \* DEFAULT_CHECKPOINT_PERIOD
  Memberships,          \* the validator sets set_membership may install
  Ballots,              \* for each address, the checkpoints it may ever submit
  Honest                \* the validators that submit what the parent committed, for
                        \* every epoch (only the fairness condition mentions them)

\* A checkpoint is [epoch, top_down_msgs]; a membership gives a weight to every
\* address, 0 to those that are not validators (a validator's weight is its stake,
\* which is positive).
Checkpoints == Votes

TotalWeight(m) == SumFunction(m)

NoMembership == [a \in Voters |-> 0]

\* State.topdown_check_period: the parameter, when it is larger than the default.
TopdownCheckPeriod ==
  IF CheckPeriodParam > DefaultCheckpointPeriod THEN CheckPeriodParam
  ELSE DefaultCheckpointPeriod

ASSUME CheckpointsAssumption ==
  \A c \in Checkpoints : c.epoch \in Epochs /\ c.top_down_msgs \in Seq(Nat)
ASSUME GenesisAssumption == GenesisEpochs \subseteq Nat
ASSUME PeriodAssumption ==
  CheckPeriodParam \in Int /\ DefaultCheckpointPeriod \in Nat \ {0}
ASSUME BallotsAssumption == Ballots \in [Voters -> SUBSET Checkpoints]
ASSUME HonestAssumption == Honest \subseteq Voters
ASSUME MembershipsAssumption == Memberships \subseteq [Voters -> Nat]

VARIABLES
  initialized,                \* State.initialized
  validators,                 \* State.validators: weights and total_weight
  topdown_checkpoint_voting,  \* State.topdown_checkpoint_voting
  applied_topdown_nonce,      \* State.applied_topdown_nonce
  executed,                   \* history: the checkpoints executed, in order
  delivered,                  \* history: the nonces applied, in order
  ballots                     \* history: who voted for what in the current rounds

state == <<initialized, validators, topdown_checkpoint_voting, applied_topdown_nonce>>
vars == <<state, executed, delivered, ballots>>

voting == topdown_checkpoint_voting

Executions == [ch : Checkpoints, weight : Nat, total : Nat]

\* Until init_genesis_epoch the voting is the constructor's placeholder, on which
\* nothing was voted and whose period may be 0 or negative; from then on it is a
\* voting proper, with a positive period.
TypeOK ==
  /\ initialized \in BOOLEAN
  /\ validators \in [weights : [Voters -> Nat], total_weight : Nat]
  /\ initialized => topdown_checkpoint_voting \in VotingType
  /\ ~initialized => topdown_checkpoint_voting = NewVoting(0, CheckPeriodParam)
  /\ applied_topdown_nonce \in Nat
  /\ executed \in Seq(Executions)
  /\ delivered \in Seq(Nat)
  /\ ballots \in [Epochs -> [Voters -> Votes \cup {NoVote}]]

\* The state the constructor leaves in a child subnet.  (The constructor of the
\* rootnet also calls init_gateway; the rootnet has no parent to vote on.)  The
\* placeholder voting is built with the parameter itself, not with the field
\* topdown_check_period.
Init ==
  /\ initialized = FALSE
  /\ validators = [weights |-> NoMembership, total_weight |-> 0]
  /\ topdown_checkpoint_voting = NewVoting(0, CheckPeriodParam)
  /\ applied_topdown_nonce = 0
  /\ executed = <<>>
  /\ delivered = <<>>
  /\ ballots = [e \in Epochs |-> [a \in Voters |-> NoVote]]

-----------------------------------------------------------------------------

\* A plausible slip: the new voting takes its period over from the placeholder.
InitGenesisEpochKeepsPeriod(genesis) ==
  /\ ~initialized
  /\ initialized' = TRUE
  /\ topdown_checkpoint_voting' = NewVoting(genesis, voting.submission_period)
  /\ UNCHANGED <<validators, applied_topdown_nonce, executed, delivered, ballots>>

\* init_genesis_epoch, called once by the system actor.
InitGenesisEpoch(genesis) ==
  /\ ~initialized
  /\ initialized' = TRUE
  /\ topdown_checkpoint_voting' = NewVoting(genesis, TopdownCheckPeriod)
  /\ UNCHANGED <<validators, applied_topdown_nonce, executed, delivered, ballots>>

\* set_membership, called by the system actor at a reconfiguration.  Submissions
\* already counted keep the weights they were counted with.  (Balances are no part of
\* this module, nor are the funds sent to the initial validators in epoch 1.)
SetMembership(m) ==
  /\ validators' = [weights |-> m, total_weight |-> TotalWeight(m)]
  /\ UNCHANGED <<initialized, topdown_checkpoint_voting, applied_topdown_nonce,
                 executed, delivered, ballots>>

-----------------------------------------------------------------------------

\* ensure_message_sorted: unique_key refuses a checkpoint that is not sorted.
EnsureMessageSorted(msgs) ==
  \A i \in 2..Len(msgs) : msgs[i-1] < msgs[i]

\* A plausible slip in apply_msg_inner: a message is refused only when it is ahead.
CanApplyNotAhead(nonce, msgs) ==
  \A i \in DOMAIN msgs : msgs[i] <= nonce + i - 1

\* apply_msg_inner on each message in turn: every nonce must be the next one.
CanApply(nonce, msgs) ==
  \A i \in DOMAIN msgs : msgs[i] = nonce + i - 1

\* What a handler has done so far: the voting, the checkpoints it executed with
\* the weight each was backed by, and the messages it applied.
Outcome(vt, runs, msgs) == [voting |-> vt, runs |-> runs, msgs |-> msgs]

Execution(ch, weight) ==
  [ch |-> ch, weight |-> weight, total |-> validators.total_weight]

\* The checkpoint at the head of the queue, and the weight recorded for it.
DueSubmission(vt) == vt.epoch_vote_submissions[Min(vt.executable_epoch_queue)]

\* execute_next_topdown_epoch can run to its end: no epoch is due, or the one that
\* is has a leader (else the unwrap panics), can be marked, and applies.
CanExecuteNext(vt, nonce) ==
  HasDueEpoch(vt) =>
    LET ch == NextExecutableVote(vt)
    IN  /\ ch # NoVote
        /\ CanMarkEpochExecuted(vt, ch.epoch)
        /\ CanApply(nonce, ch.top_down_msgs)

\* execute_next_topdown_epoch
ExecuteNext(vt) ==
  IF HasDueEpoch(vt)
    THEN LET ch == NextExecutableVote(vt)
         IN  Outcome(MarkEpochExecuted(vt, ch.epoch),
                     <<Execution(ch, LoadMostVotedWeight(DueSubmission(vt)))>>,
                     ch.top_down_msgs)
    ELSE Outcome(vt, <<>>, <<>>)

Finish(out) ==
  /\ topdown_checkpoint_voting' = out.voting
  /\ applied_topdown_nonce' = applied_topdown_nonce + Len(out.msgs)
  /\ executed' = executed \o out.runs
  /\ delivered' = delivered \o out.msgs

\* The history of the rounds: a ballot is remembered until its round is aborted.
RecordBallot(who, ch) ==
  LET s == topdown_checkpoint_voting'.epoch_vote_submissions[ch.epoch]
  IN  ballots' = [ballots EXCEPT ![ch.epoch] =
                    IF who \in s.submitters THEN [@ EXCEPT ![who] = ch]
                    ELSE [a \in Voters |-> NoVote]]

\* What submit_topdown_check requires of every submission.
Accepted(who, ch) ==
  /\ initialized
  /\ validators.weights[who] > 0
  /\ EnsureMessageSorted(ch.top_down_msgs)
  /\ CanSubmitVote(voting, ch.epoch, who)

Vote(who, ch) ==
  SubmitVote(voting, ch, ch.epoch, who, validators.weights[who],
             validators.total_weight)

\* The weight behind the leader once who's ballot is counted.
LeaderWeight(who, ch) ==
  LoadMostVotedWeight(Submit(voting.epoch_vote_submissions[ch.epoch], who,
                             validators.weights[who], ch))

\* submit_topdown_check when the ballot decides nothing, or decides an epoch that
\* has to wait: the queue is tried.
SubmitWithoutExecution(who, ch) ==
  /\ Accepted(who, ch)
  /\ \E r \in {Vote(who, ch)} :
       /\ r.to_execute = NoVote
       /\ CanExecuteNext(r.voting, applied_topdown_nonce)
       /\ \E next \in {ExecuteNext(r.voting)} : Finish(next)
  /\ RecordBallot(who, ch)
  /\ UNCHANGED <<initialized, validators>>

\* submit_topdown_check when the ballot decides the next epoch in line and its
\* checkpoint carries messages: they are applied, the queue waits.
SubmitWithMessages(who, ch) ==
  /\ Accepted(who, ch)
  /\ \E r \in {Vote(who, ch)} :
       /\ r.to_execute # NoVote
       /\ r.to_execute.top_down_msgs # <<>>
       /\ CanMarkEpochExecuted(r.voting, ch.epoch)
       /\ CanApply(applied_topdown_nonce, r.to_execute.top_down_msgs)
       /\ Finish(Outcome(MarkEpochExecuted(r.voting, ch.epoch),
                         <<Execution(r.to_execute, LeaderWeight(who, ch))>>,
                         r.to_execute.top_down_msgs))
  /\ RecordBallot(who, ch)
  /\ UNCHANGED <<initialized, validators>>

\* submit_topdown_check when the ballot decides the next epoch in line and its
\* checkpoint is empty: the queue is tried in the same call.
SubmitEmpty(who, ch) ==
  /\ Accepted(who, ch)
  /\ \E r \in {Vote(who, ch)} :
       /\ r.to_execute # NoVote
       /\ r.to_execute.top_down_msgs = <<>>
       /\ CanMarkEpochExecuted(r.voting, ch.epoch)
       /\ \E marked \in {MarkEpochExecuted(r.voting, ch.epoch)} :
            /\ CanExecuteNext(marked, applied_topdown_nonce)
            /\ \E next \in {ExecuteNext(marked)} :
                 Finish(Outcome(next.voting,
                                <<Execution(r.to_execute, LeaderWeight(who, ch))>>
                                  \o next.runs,
                                next.msgs))
  /\ RecordBallot(who, ch)
  /\ UNCHANGED <<initialized, validators>>

\* submit_topdown_check
SubmitTopdownCheck(who, ch) ==
  \/ SubmitWithoutExecution(who, ch)
  \/ SubmitWithMessages(who, ch)
  \/ SubmitEmpty(who, ch)

Next ==
  \/ \E genesis \in GenesisEpochs : InitGenesisEpoch(genesis)
  \/ \E m \in Memberships : SetMembership(m)
  \/ \E who \in Voters : \E ch \in Ballots[who] : SubmitTopdownCheck(who, ch)

Spec == Init /\ [][Next]_vars

\* The system actor initialises the subnet and installs its validators, and an
\* honest validator that has something to submit eventually gets a submission in.  No
\* fairness for the others, nor for further reconfigurations.
FairSpec ==
  /\ Spec
  /\ WF_vars(\E genesis \in GenesisEpochs : InitGenesisEpoch(genesis))
  /\ WF_vars(\E m \in Memberships : SetMembership(m))
  /\ \A who \in Honest : WF_vars(\E ch \in Ballots[who] : SubmitTopdownCheck(who, ch))

-----------------------------------------------------------------------------

OpenEpochs == {e \in Epochs : e > voting.last_voting_executed_epoch}

Supporters(e, ch) == {a \in Voters : ballots[e][a] = ch}

WeightOf(A) == SumFunctionOnSet(validators.weights, A)

\* Epochs are executed one after the other from the genesis epoch on: whatever the
\* order in which they reach consensus, submit_vote, the queue and
\* mark_epoch_executed never skip one and never execute one twice.
ExecutedInOrder ==
  initialized =>
    /\ \A i \in DOMAIN executed :
         executed[i].ch.epoch = voting.genesis_epoch + i * TopdownCheckPeriod
    /\ voting.last_voting_executed_epoch
         = voting.genesis_epoch + Len(executed) * TopdownCheckPeriod

\* The messages submit_topdown_check applies, whether from the ballot just decided
\* or from the queue, are the parent's nonces 0, 1, 2, ... without gap or repeat.
DeliveredInOrder ==
  /\ Len(delivered) = applied_topdown_nonce
  /\ \A i \in DOMAIN delivered : delivered[i] = i - 1

\* Every executed checkpoint was recorded with more than two thirds of the total
\* weight at the time of its execution, also one that waited in the queue, whose
\* weight get_next_executable_vote does not look at again.
QuorumExecuted ==
  \A i \in DOMAIN executed : TwoThirds(executed[i].weight, executed[i].total)

\* Every epoch in executable_epoch_queue is ready, so that
\* get_next_executable_vote meets none of its `unreachable!` and `unwrap`.
QueueReady ==
  \A e \in voting.executable_epoch_queue : ReadyEpoch(voting, e, validators.total_weight)

\* The field comment of executable_epoch_queue, epochs "that are ready to be
\* executed", as the unwrap of get_next_executable_vote relies on it: a queued
\* epoch has a checkpoint to execute.
QueueHasLeader ==
  \A e \in voting.executable_epoch_queue :
    LoadMostVotedSubmission(voting.epoch_vote_submissions[e]) # NoVote

\* What an open epoch's submission records is what was really cast in the current
\* round: who voted, the weight behind each checkpoint, the turnout, and a leader
\* that nobody outweighs, through every replacement of the leader and every abort.
TallyExact ==
  \A e \in OpenEpochs :
    LET s == voting.epoch_vote_submissions[e]
    IN  /\ s.submitters = {a \in Voters : ballots[e][a] # NoVote}
        /\ \A v \in Votes : s.submission_weights[v] = WeightOf(Supporters(e, v))
        /\ s.total_submission_weight = WeightOf(s.submitters)
        /\ s.submitters # {} =>
             \A v \in Votes :
               s.submission_weights[v] <= s.submission_weights[s.most_voted_key]

\* Also when the membership changes between two ballots, so that weights counted
\* under different memberships meet in one submission: the turnout is the sum of
\* the weights behind the checkpoints, and no checkpoint outweighs the leader.
TallyConsistent ==
  \A e \in OpenEpochs :
    LET s == voting.epoch_vote_submissions[e]
    IN  /\ s.total_submission_weight = SumFunction(s.submission_weights)
        /\ s.submitters # {} =>
             \A v \in Votes :
               s.submission_weights[v] <= s.submission_weights[s.most_voted_key]

\* No epoch is left with every validator's ballot cast and no decision: then
\* nobody could vote again to trigger its execution and the epoch, with all the
\* later ones, would be stuck.
NoWedgedRound ==
  \A e \in OpenEpochs \ voting.executable_epoch_queue :
    LET members == {a \in Voters : validators.weights[a] > 0}
    IN  members # {} =>
          ~(members \subseteq voting.epoch_vote_submissions[e].submitters)

\* derive_execution_status gives a round up only when no checkpoint could still
\* win it: the support each has, the ballot being cast included, plus every
\* outstanding weight, is no quorum.
AbortOnlyWhenHopeless ==
  [][\A who \in Voters : \A ch \in Ballots[who] :
       LET e      == ch.epoch
           cast   == [ballots[e] EXCEPT ![who] = ch]
           silent == {a \in Voters : cast[a] = NoVote}
       IN  (/\ voting'.last_voting_executed_epoch < e
            /\ voting.epoch_vote_submissions[e].submitters # {}
            /\ voting'.epoch_vote_submissions[e].submitters = {}
            /\ SubmitTopdownCheck(who, ch))
           => \A v \in Votes :
                ~TwoThirds(WeightOf({a \in Voters : cast[a] = v} \cup silent),
                           validators.total_weight)]_vars

\* The honest validators have nothing left to submit, and all that is not executed
\* waits in the queue: only the finite set of epochs keeps it from going on.
OutOfBallots ==
  \A e \in OpenEpochs :
    /\ e \in voting.executable_epoch_queue
    /\ Honest \subseteq voting.epoch_vote_submissions[e].submitters

\* When the honest validators hold a quorum every epoch is executed, in whatever
\* order the epochs are voted on and whatever the others submit.  A submission
\* that applies messages leaves the queue to the next submission, so at the end of
\* the run a decided epoch may wait for a ballot of an epoch beyond the bound.
EveryEpochExecuted ==
  \A e \in Epochs :
    <>(initialized /\ (voting.last_voting_executed_epoch >= e \/ OutOfBallots))

\* An epoch that waits in the queue and is due is executed by one of the next
\* submissions, for whatever epoch, as long as an honest validator has one to make.
QueueDrained ==
  \A e \in Epochs :
    (/\ e \in voting.executable_epoch_queue
     /\ e = voting.last_voting_executed_epoch + voting.submission_period
     /\ \E f \in OpenEpochs : ~(Honest \subseteq voting.epoch_vote_submissions[f].submitters))
    ~> voting.last_voting_executed_epoch >= e
=============================================================================
