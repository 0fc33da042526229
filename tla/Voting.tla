------------------------------- MODULE Voting -------------------------------
(***************************************************************************)
(* Voting<T> of common/src/vote/voting.rs: one round of voting per         *)
(* submission epoch, epochs executed strictly in order, and the queue of   *)
(* epochs that reached consensus ahead of their turn.  Both the gateway    *)
(* (top-down checkpoints) and the subnet actor (bottom-up checkpoints)     *)
(* hold one.                                                               *)
(*                                                                         *)
(* A voting is a record value.  The HAMT epoch_vote_submissions is a total *)
(* function that is NewSubmission where the HAMT has no entry:             *)
(* submit_vote and abort_epoch cannot tell the two apart, and              *)
(* get_next_executable_vote panics on both.  The Option around the         *)
(* executable_epoch_queue is dropped: None is the empty set.  A call that  *)
(* returns Err or panics aborts the message and reverts the actor's state, *)
(* so what the operators below offer is a guard (can the call succeed) and *)
(* a result.                                                               *)
(***************************************************************************)
EXTENDS VoteSubmission, FiniteSetsExt

CONSTANTS Epochs    \* the epochs a vote can name

ASSUME EpochsAssumption == Epochs \subseteq Nat

VotingType ==
  [ genesis_epoch              : Nat,
    submission_period          : Nat \ {0},
    last_voting_executed_epoch : Nat,
    executable_epoch_queue     : SUBSET Epochs,
    epoch_vote_submissions     : [Epochs -> Submission] ]

\* `new`, `new_with_ratio`
NewVoting(genesis, period) ==
  [ genesis_epoch              |-> genesis,
    submission_period          |-> period,
    last_voting_executed_epoch |-> genesis,
    executable_epoch_queue     |-> {},
    epoch_vote_submissions     |-> [e \in Epochs |-> NewSubmission] ]

-----------------------------------------------------------------------------

\* A plausible slip: any epoch that was not executed is next.
IsLaterEpoch(vt, e) == e > vt.last_voting_executed_epoch

\* `is_next_executable_epoch`
IsNextExecutableEpoch(vt, e) ==
  vt.last_voting_executed_epoch + vt.submission_period = e

\* `epoch_can_vote`
EpochCanVote(vt, e) == (e - vt.genesis_epoch) % vt.submission_period = 0

\* `is_epoch_executed`
IsEpochExecuted(vt, e) == vt.last_voting_executed_epoch >= e

\* The early returns of submit_vote and of the update_submitters it calls.
CanSubmitVote(vt, e, who) ==
  /\ EpochCanVote(vt, e)
  /\ ~IsEpochExecuted(vt, e)
  /\ ~HasSubmitted(vt.epoch_vote_submissions[e], who)

\* The submission of epoch e once the ballot is counted, and its status.
Counted(vt, vote, e, who, weight) ==
  Submit(vt.epoch_vote_submissions[e], who, weight, vote)

VoteStatus(s, total) == DeriveExecutionStatus(s, total, LoadMostVotedWeight(s))

StoreSubmission(vt, e, s) ==
  [vt EXCEPT !.epoch_vote_submissions[e] = s]

\* A plausible slip: the queue is only created, the epoch is not put into it.
InsertExecutableEpochLost(vt, e) == vt

\* `insert_executable_epoch`
InsertExecutableEpoch(vt, e) == [vt EXCEPT !.executable_epoch_queue = @ \cup {e}]

\* `submit_vote`: the voting after the call and the vote to execute, if any.  The
\* ballot that completes the next epoch in line is not stored: its epoch is
\* about to be marked executed.
SubmitVote(vt, vote, e, who, weight, total) ==
  LET s      == Counted(vt, vote, e, who, weight)
      status == VoteStatus(s, total)
  IN  IF status = ConsensusReached /\ IsNextExecutableEpoch(vt, e)
        THEN [voting |-> vt, to_execute |-> LoadMostVotedSubmission(s)]
      ELSE IF status = ConsensusReached
        THEN [voting |-> InsertExecutableEpoch(StoreSubmission(vt, e, s), e),
              to_execute |-> NoVote]
      ELSE [voting |-> StoreSubmission(vt, e, IF status = RoundAbort THEN Abort(s) ELSE s),
            to_execute |-> NoVote]

-----------------------------------------------------------------------------

\* `abort_epoch`
AbortEpoch(vt, e) ==
  StoreSubmission([vt EXCEPT !.executable_epoch_queue = @ \ {e}], e,
                  Abort(vt.epoch_vote_submissions[e]))

\* The early returns of mark_epoch_executed.
CanMarkEpochExecuted(vt, e) ==
  /\ IsNextExecutableEpoch(vt, e)
  /\ e \in vt.executable_epoch_queue => \A f \in vt.executable_epoch_queue : e <= f

\* A plausible slip: the executed epoch stays in the queue.
MarkEpochExecutedKeepsQueue(vt, e) ==
  StoreSubmission([vt EXCEPT !.last_voting_executed_epoch = e], e, NewSubmission)

\* `mark_epoch_executed`
MarkEpochExecuted(vt, e) ==
  StoreSubmission([vt EXCEPT !.last_voting_executed_epoch = e,
                             !.executable_epoch_queue = @ \ {e}],
                  e, NewSubmission)

\* A plausible slip: off by one period, the queue never comes to its turn.
HasDueEpochStrict(vt) ==
  /\ vt.executable_epoch_queue # {}
  /\ Min(vt.executable_epoch_queue)
       < vt.last_voting_executed_epoch + vt.submission_period

\* Is an epoch due, that is, does get_next_executable_vote go past its early returns?
HasDueEpoch(vt) ==
  /\ vt.executable_epoch_queue # {}
  /\ Min(vt.executable_epoch_queue)
       <= vt.last_voting_executed_epoch + vt.submission_period

\* `get_next_executable_vote`, when an epoch is due.  NoVote is the panic on an
\* epoch whose submission is gone or has no leader.
NextExecutableVote(vt) ==
  LoadMostVotedSubmission(
    vt.epoch_vote_submissions[Min(vt.executable_epoch_queue)])

-----------------------------------------------------------------------------

\* The rule the threshold stands for, free of the code's rounding.
TwoThirds(weight, total) == weight * RatioDen > total * RatioNum

\* A submission of epoch e is sound: its leader is stored, it holds votes for e only
\* (both kinds of checkpoint carry their epoch), and none outweighs the turnout.
SoundSubmission(s, e) ==
  /\ s.most_voted_key \in s.submissions \cup {NoVote}
  /\ \A v \in s.submissions : v.epoch = e
  /\ \A v \in Votes : s.submission_weights[v] <= s.total_submission_weight

SoundVoting(vt) == \A e \in Epochs : SoundSubmission(vt.epoch_vote_submissions[e], e)

\* What it means for an epoch of the queue to be "ready to be executed": not
\* executed yet, aligned with the period, and with a stored leader for that epoch
\* that holds a quorum.
ReadyEpoch(vt, e, total) ==
  LET s == vt.epoch_vote_submissions[e]
  IN  /\ e > vt.last_voting_executed_epoch
      /\ EpochCanVote(vt, e)
      /\ s.most_voted_key \in s.submissions
      /\ s.most_voted_key.epoch = e
      /\ TwoThirds(LoadMostVotedWeight(s), total)
=============================================================================
