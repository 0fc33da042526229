--------------------------- MODULE VoteSubmission ---------------------------
(***************************************************************************)
(* EpochVoteSubmissions<T> of common/src/vote/submission.rs: the ballots   *)
(* cast for one epoch.  A submission is a record value; its methods are    *)
(* operators that return the next value.                                   *)
(*                                                                         *)
(* A vote stands for its own unique_key (a collision-free hash of it), so  *)
(* the HAMT `submissions` is the set of the votes it holds.  The HAMT      *)
(* `submission_weights` is a total function that is 0 where the HAMT has   *)
(* no entry, which is how update_submission_weight reads it.               *)
(***************************************************************************)
EXTENDS Integers, FiniteSets

CONSTANTS
  Votes,        \* what can be voted for: top-down or bottom-up checkpoints
  NoVote,       \* Option::None where the code has an Option of a vote
  Voters        \* the addresses that can cast a vote

ASSUME NoVoteAssumption == NoVote \notin Votes
ASSUME VotersAssumption == IsFiniteSet(Voters)

\* DEFAULT_THRESHOLD_RATIO, also what the subnet actor passes to new_with_ratio.
RatioNum == 2
RatioDen == 3

Submission ==
  [ total_submission_weight : Nat,
    most_voted_key          : Votes \cup {NoVote},
    submitters              : SUBSET Voters,
    submission_weights      : [Votes -> Nat],
    submissions             : SUBSET Votes ]

NewSubmission ==
  [ total_submission_weight |-> 0,
    most_voted_key          |-> NoVote,
    submitters              |-> {},
    submission_weights      |-> [v \in Votes |-> 0],
    submissions             |-> {} ]

-----------------------------------------------------------------------------

\* A plausible slip in `abort`: the per-vote weights of the aborted round stay.
AbortKeepsWeights(s) ==
  [s EXCEPT !.total_submission_weight = 0,
            !.submitters = {},
            !.most_voted_key = NoVote]

\* `abort`: a new round starts; the votes already stored are kept.
Abort(s) ==
  [s EXCEPT !.total_submission_weight = 0,
            !.submitters = {},
            !.most_voted_key = NoVote,
            !.submission_weights = [v \in Votes |-> 0]]

\* `has_submitted`, and the refusal of a second ballot by update_submitters.
HasSubmitted(s, who) == who \in s.submitters

\* The comparison of update_submission_weight: vote v, now at weight w, leads
\* when nothing led before, when it led already, or when it overtakes.
Leads(s, v, w) ==
  \/ s.most_voted_key = NoVote
  \/ s.most_voted_key = v
  \/ w > s.submission_weights[s.most_voted_key]

\* A plausible slip: the latest ballot always takes the lead.
UpdateSubmissionWeightLatest(s, v, w) ==
  [s EXCEPT !.submission_weights[v] = @ + w,
            !.most_voted_key = v]

\* `update_submission_weight`
UpdateSubmissionWeight(s, v, w) ==
  [s EXCEPT !.submission_weights[v] = @ + w,
            !.most_voted_key = IF Leads(s, v, s.submission_weights[v] + w)
                                 THEN v ELSE @]

\* The first half of `submit`, update_submitters and insert_vote: the submitter and
\* its weight are counted and the vote is stored.
CountSubmitter(s, who, w, v) ==
  [s EXCEPT !.submitters = @ \cup {who},
            !.total_submission_weight = @ + w,
            !.submissions = @ \cup {v}]

\* `submit`, for a submitter that passes update_submitters.
Submit(s, who, w, v) == UpdateSubmissionWeight(CountSubmitter(s, who, w, v), v, w)

\* `load_most_voted_submission`: None when nothing leads or the leader is not stored.
LoadMostVotedSubmission(s) ==
  IF s.most_voted_key \in s.submissions THEN s.most_voted_key ELSE NoVote

\* `load_most_voted_weight`
LoadMostVotedWeight(s) ==
  IF s.most_voted_key = NoVote THEN 0 ELSE s.submission_weights[s.most_voted_key]

-----------------------------------------------------------------------------

Threshold(total) == (total * RatioNum) \div RatioDen

ThresholdNotReached == "ThresholdNotReached"
ReachingConsensus   == "ReachingConsensus"
RoundAbort          == "RoundAbort"
ConsensusReached    == "ConsensusReached"

\* A plausible slip: the turnout is checked, the leader's own weight is not.
StatusByTurnout(s, total, most) ==
  IF s.total_submission_weight <= Threshold(total) THEN ThresholdNotReached
  ELSE ConsensusReached

\* A plausible slip: without a winner at the threshold the round is given up.
StatusImpatient(s, total, most) ==
  IF s.total_submission_weight <= Threshold(total) THEN ThresholdNotReached
  ELSE IF most > Threshold(total) THEN ConsensusReached
  ELSE RoundAbort

\* A plausible slip: off by one in the early termination check.
StatusNeverHopeless(s, total, most) ==
  LET threshold == Threshold(total)
  IN  IF s.total_submission_weight <= threshold THEN ThresholdNotReached
      ELSE IF most > threshold THEN ConsensusReached
      ELSE IF threshold - most > total - s.total_submission_weight THEN RoundAbort
      ELSE ReachingConsensus

\* `derive_execution_status`.  Token amounts are big integers: the weight still to
\* come is negative when the membership shrank below what was already cast.
DeriveExecutionStatus(s, total, most) ==
  LET threshold == Threshold(total)
  IN  IF s.total_submission_weight <= threshold THEN ThresholdNotReached
      ELSE IF most > threshold THEN ConsensusReached
      ELSE IF threshold - most >= total - s.total_submission_weight THEN RoundAbort
      ELSE ReachingConsensus
=============================================================================
