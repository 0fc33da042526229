---------------------------- MODULE Voting_proofs ----------------------------
(***************************************************************************)
(* What the operations of EpochVoteSubmissions and Voting preserve, for    *)
(* every set of votes, voters and epochs.                                  *)
(***************************************************************************)
EXTENDS Voting, Lemmas, TLAPS

-----------------------------------------------------------------------------

(* Submissions *)

\* Passing the code's rounded-down threshold is having more than two thirds.
LEMMA ThresholdExact ==
  ASSUME NEW w \in Nat, NEW total \in Nat
  PROVE  /\ Threshold(total) \in Nat
         /\ w > Threshold(total) <=> TwoThirds(w, total)
  BY DEF Threshold, TwoThirds, RatioNum, RatioDen

\* A fresh submission is a submission.
LEMMA NewSubmissionType == NewSubmission \in Submission
  BY DEF NewSubmission, Submission

\* Aborting a round keeps the type and the stored votes, and clears the rest.
LEMMA AbortFields ==
  ASSUME NEW s \in Submission
  PROVE  /\ Abort(s) \in Submission
         /\ Abort(s).submissions = s.submissions
         /\ Abort(s).submitters = {}
         /\ Abort(s).most_voted_key = NoVote
         /\ Abort(s).total_submission_weight = 0
         /\ Abort(s).submission_weights = [v \in Votes |-> 0]
  BY DEF Abort, Submission

\* Replacing fields of a submission by values of their type gives a submission.
LEMMA SubmissionExcept ==
  ASSUME NEW s \in Submission,
         NEW total \in Nat, NEW who \in SUBSET Voters, NEW stored \in SUBSET Votes,
         NEW lead \in Votes \cup {NoVote}, NEW weights \in [Votes -> Nat]
  PROVE  /\ [s EXCEPT !.submitters = who, !.total_submission_weight = total,
                      !.submissions = stored] \in Submission
         /\ [s EXCEPT !.submission_weights = weights, !.most_voted_key = lead]
              \in Submission
  BY DEF Submission

\* The first half of `submit`, field by field.
LEMMA CountSubmitterFields ==
  ASSUME NEW s \in Submission, NEW who \in Voters, NEW w \in Nat, NEW v \in Votes
  PROVE  LET c == CountSubmitter(s, who, w, v)
         IN  /\ c \in Submission
             /\ c.submissions = s.submissions \cup {v}
             /\ c.submitters = s.submitters \cup {who}
             /\ c.total_submission_weight = s.total_submission_weight + w
             /\ c.submission_weights = s.submission_weights
             /\ c.most_voted_key = s.most_voted_key
  <1>1. /\ s.submitters \cup {who} \in SUBSET Voters
        /\ s.submissions \cup {v} \in SUBSET Votes
        /\ s.total_submission_weight + w \in Nat
        /\ s.submission_weights \in [Votes -> Nat]
        /\ s.most_voted_key \in Votes \cup {NoVote}
    BY DEF Submission
  <1>2. CountSubmitter(s, who, w, v) \in Submission
    BY <1>1, SubmissionExcept DEF CountSubmitter
  <1>3. QED
    BY <1>2 DEF CountSubmitter, Submission

\* update_submission_weight, field by field.
LEMMA UpdateSubmissionWeightFields ==
  ASSUME NEW s \in Submission, NEW w \in Nat, NEW v \in Votes
  PROVE  LET t == UpdateSubmissionWeight(s, v, w)
         IN  /\ t \in Submission
             /\ t.submissions = s.submissions
             /\ t.submitters = s.submitters
             /\ t.total_submission_weight = s.total_submission_weight
             /\ t.submission_weights
                  = [s.submission_weights EXCEPT ![v] = s.submission_weights[v] + w]
             /\ t.most_voted_key
                  = IF Leads(s, v, s.submission_weights[v] + w) THEN v
                    ELSE s.most_voted_key
  <1> DEFINE lead == IF Leads(s, v, s.submission_weights[v] + w) THEN v
                     ELSE s.most_voted_key
             weights == [s.submission_weights EXCEPT ![v] = s.submission_weights[v] + w]
             t == [s EXCEPT !.submission_weights = weights, !.most_voted_key = lead]
  <1>1. lead \in Votes \cup {NoVote} /\ weights \in [Votes -> Nat]
    BY DEF Submission
  <1>2. UpdateSubmissionWeight(s, v, w) = t
    BY DEF UpdateSubmissionWeight
  <1>3. s.submitters \in SUBSET Voters /\ s.submissions \in SUBSET Votes
        /\ s.total_submission_weight \in Nat
    BY DEF Submission
  <1> HIDE DEF lead, weights
  <1>4. t \in Submission
    BY <1>1, <1>3, SubmissionExcept
  <1>5. /\ t.submissions = s.submissions
        /\ t.submitters = s.submitters
        /\ t.total_submission_weight = s.total_submission_weight
        /\ t.submission_weights = weights
        /\ t.most_voted_key = lead
    BY DEF Submission
  <1>6. QED
    BY <1>2, <1>4, <1>5 DEF lead, weights

\* What a ballot does to a submission, field by field.
LEMMA SubmitFields ==
  ASSUME NEW s \in Submission, NEW who \in Voters, NEW w \in Nat, NEW v \in Votes
  PROVE  LET t == Submit(s, who, w, v)
         IN  /\ t \in Submission
             /\ t.submissions = s.submissions \cup {v}
             /\ t.submitters = s.submitters \cup {who}
             /\ t.total_submission_weight = s.total_submission_weight + w
             /\ t.submission_weights
                  = [s.submission_weights EXCEPT ![v] = s.submission_weights[v] + w]
             /\ t.most_voted_key
                  = IF Leads(s, v, s.submission_weights[v] + w) THEN v
                    ELSE s.most_voted_key
  <1> DEFINE c == CountSubmitter(s, who, w, v)
  <1>1. /\ c \in Submission
        /\ c.submissions = s.submissions \cup {v}
        /\ c.submitters = s.submitters \cup {who}
        /\ c.total_submission_weight = s.total_submission_weight + w
        /\ c.submission_weights = s.submission_weights
        /\ c.most_voted_key = s.most_voted_key
    BY CountSubmitterFields
  <1>2. Submit(s, who, w, v) = UpdateSubmissionWeight(c, v, w)
    BY DEF Submit
  <1> HIDE DEF c
  <1> DEFINE t == UpdateSubmissionWeight(c, v, w)
  <1>3. /\ t \in Submission
        /\ t.submissions = c.submissions
        /\ t.submitters = c.submitters
        /\ t.total_submission_weight = c.total_submission_weight
        /\ t.submission_weights
             = [c.submission_weights EXCEPT ![v] = c.submission_weights[v] + w]
        /\ t.most_voted_key
             = IF Leads(c, v, c.submission_weights[v] + w) THEN v ELSE c.most_voted_key
    BY <1>1, UpdateSubmissionWeightFields
  <1> HIDE DEF t
  <1>4. t.most_voted_key
          = IF Leads(s, v, s.submission_weights[v] + w) THEN v ELSE s.most_voted_key
    BY <1>1, <1>3 DEF Leads
  <1>5. QED
    BY <1>1, <1>2, <1>3, <1>4 DEF t

\* `submit`, as seen by one that compares weights.
LEMMA SubmitEffect ==
  ASSUME NEW s \in Submission, NEW who \in Voters, NEW vote \in Votes, NEW x \in Nat,
         NEW t, t = Submit(s, who, x, vote)
  PROVE  /\ t \in Submission
         /\ t.submitters = s.submitters \cup {who}
         /\ t.total_submission_weight = s.total_submission_weight + x
         /\ t.submission_weights[vote] = s.submission_weights[vote] + x
         /\ \A v \in Votes : v # vote => t.submission_weights[v] = s.submission_weights[v]
         /\ Leads(s, vote, t.submission_weights[vote]) => t.most_voted_key = vote
         /\ ~Leads(s, vote, t.submission_weights[vote]) => t.most_voted_key = s.most_voted_key
  <1> DEFINE u == Submit(s, who, x, vote)
  <1>1. /\ u \in Submission
        /\ u.submitters = s.submitters \cup {who}
        /\ u.total_submission_weight = s.total_submission_weight + x
        /\ u.submission_weights
             = [s.submission_weights EXCEPT ![vote] = s.submission_weights[vote] + x]
        /\ u.most_voted_key
             = IF Leads(s, vote, s.submission_weights[vote] + x) THEN vote
               ELSE s.most_voted_key
    BY SubmitFields
  <1>2. s.submission_weights \in [Votes -> Nat]
    BY DEF Submission
  <1>3. t = u
    OBVIOUS
  <1> HIDE DEF u
  <1>4. QED
    BY <1>1, <1>2, <1>3

\* A ballot for its own epoch keeps a submission sound, leaves it with a leader, and
\* never lowers the leader's weight, which stays within the turnout.
LEMMA SubmitSound ==
  ASSUME NEW s \in Submission, NEW who \in Voters, NEW w \in Nat, NEW v \in Votes,
         SoundSubmission(s, v.epoch)
  PROVE  LET t == Submit(s, who, w, v)
         IN  /\ SoundSubmission(t, v.epoch)
             /\ t.most_voted_key \in t.submissions
             /\ t.most_voted_key \in Votes
             /\ LoadMostVotedWeight(t) \in Nat
             /\ LoadMostVotedWeight(t) >= LoadMostVotedWeight(s)
             /\ LoadMostVotedWeight(t) <= t.total_submission_weight
  <1> DEFINE t == Submit(s, who, w, v)
  <1>1. /\ t \in Submission
        /\ t.submissions = s.submissions \cup {v}
        /\ t.total_submission_weight = s.total_submission_weight + w
        /\ t.submission_weights
             = [s.submission_weights EXCEPT ![v] = s.submission_weights[v] + w]
        /\ t.most_voted_key
             = IF Leads(s, v, s.submission_weights[v] + w) THEN v ELSE s.most_voted_key
    BY SubmitFields
  <1>2. /\ s.submission_weights \in [Votes -> Nat]
        /\ s.total_submission_weight \in Nat
        /\ s.submissions \subseteq Votes
    BY DEF Submission
  <1> HIDE DEF t
  <1>3. \A u \in Votes : t.submission_weights[u] \in Nat
                        /\ t.submission_weights[u] <= t.total_submission_weight
                        /\ s.submission_weights[u] <= t.submission_weights[u]
    BY <1>1, <1>2 DEF SoundSubmission
  <1>4. t.most_voted_key \in t.submissions /\ t.most_voted_key \in Votes
    BY <1>1, <1>2 DEF SoundSubmission, Leads
  <1>5. SoundSubmission(t, v.epoch)
    BY <1>1, <1>3, <1>4 DEF SoundSubmission
  <1>6. LoadMostVotedWeight(t) = t.submission_weights[t.most_voted_key]
    BY <1>4, NoVoteAssumption DEF LoadMostVotedWeight
  <1>7. LoadMostVotedWeight(t) >= LoadMostVotedWeight(s)
    <2>1. CASE s.most_voted_key = NoVote
      BY <2>1, <1>3, <1>4, <1>6 DEF LoadMostVotedWeight
    <2>2. CASE s.most_voted_key # NoVote
      <3>1. s.most_voted_key \in Votes
        BY <2>2 DEF Submission
      <3>2. LoadMostVotedWeight(s) = s.submission_weights[s.most_voted_key]
        BY <2>2 DEF LoadMostVotedWeight
      <3>3. CASE t.most_voted_key = s.most_voted_key
        BY <3>1, <3>2, <3>3, <1>3, <1>6
      <3>4. CASE t.most_voted_key # s.most_voted_key
        BY <2>2, <3>1, <3>2, <3>4, <1>1, <1>2, <1>6 DEF Leads
      <3>5. QED
        BY <3>3, <3>4
    <2>3. QED
      BY <2>1, <2>2
  <1>8. QED
    BY <1>3, <1>4, <1>5, <1>6, <1>7 DEF t

\* An aborted submission is sound and has no leader.
LEMMA AbortSound ==
  ASSUME NEW s \in Submission, NEW e, SoundSubmission(s, e)
  PROVE  SoundSubmission(Abort(s), e)
  BY AbortFields DEF SoundSubmission

\* A fresh submission is sound.
LEMMA NewSubmissionSound ==
  ASSUME NEW e
  PROVE  SoundSubmission(NewSubmission, e)
  BY DEF SoundSubmission, NewSubmission

\* Consensus is reached exactly when the leader passes the threshold: the turnout
\* is at least the leader's weight.
LEMMA ConsensusIsQuorum ==
  ASSUME NEW s \in Submission, NEW total \in Nat,
         LoadMostVotedWeight(s) \in Nat,
         LoadMostVotedWeight(s) <= s.total_submission_weight
  PROVE  VoteStatus(s, total) = ConsensusReached
           <=> TwoThirds(LoadMostVotedWeight(s), total)
  <1>1. /\ s.total_submission_weight \in Nat
        /\ Threshold(total) \in Nat
        /\ LoadMostVotedWeight(s) > Threshold(total)
             <=> TwoThirds(LoadMostVotedWeight(s), total)
    BY ThresholdExact DEF Submission
  <1>2. QED
    BY <1>1 DEF VoteStatus, DeriveExecutionStatus, ConsensusReached, ThresholdNotReached,
                RoundAbort, ReachingConsensus

-----------------------------------------------------------------------------

(* Votings *)

\* A new voting is a sound voting with nothing executed since its genesis.
LEMMA NewVotingSound ==
  ASSUME NEW g \in Nat, NEW p \in Nat \ {0}
  PROVE  /\ NewVoting(g, p) \in VotingType
         /\ SoundVoting(NewVoting(g, p))
         /\ NewVoting(g, p).genesis_epoch = g
         /\ NewVoting(g, p).submission_period = p
         /\ NewVoting(g, p).last_voting_executed_epoch = g
         /\ NewVoting(g, p).executable_epoch_queue = {}
  <1>1. [e \in Epochs |-> NewSubmission] \in [Epochs -> Submission]
    BY NewSubmissionType
  <1>2. \A e \in Epochs : SoundSubmission(NewSubmission, e)
    BY NewSubmissionSound
  <1>3. NewVoting(g, p) \in VotingType
    BY <1>1 DEF NewVoting, VotingType
  <1>4. SoundVoting(NewVoting(g, p))
    BY <1>2 DEF NewVoting, SoundVoting
  <1>5. QED
    BY <1>3, <1>4 DEF NewVoting

\* Whatever the period, also when it is 0 or negative, a new voting is sound and empty.
LEMMA NewVotingEmpty ==
  ASSUME NEW g, NEW p
  PROVE  /\ SoundVoting(NewVoting(g, p))
         /\ NewVoting(g, p).genesis_epoch = g
         /\ NewVoting(g, p).submission_period = p
         /\ NewVoting(g, p).last_voting_executed_epoch = g
         /\ NewVoting(g, p).executable_epoch_queue = {}
  <1>1. \A e \in Epochs : SoundSubmission(NewSubmission, e)
    BY NewSubmissionSound
  <1>2. SoundVoting(NewVoting(g, p))
    BY <1>1 DEF NewVoting, SoundVoting
  <1>3. QED
    BY <1>2 DEF NewVoting

\* Storing a submission changes that submission only.
LEMMA StoreSubmissionFields ==
  ASSUME NEW vt \in VotingType, NEW e \in Epochs, NEW s \in Submission
  PROVE  LET n == StoreSubmission(vt, e, s)
         IN  /\ n \in VotingType
             /\ n.genesis_epoch = vt.genesis_epoch
             /\ n.submission_period = vt.submission_period
             /\ n.last_voting_executed_epoch = vt.last_voting_executed_epoch
             /\ n.executable_epoch_queue = vt.executable_epoch_queue
             /\ n.epoch_vote_submissions = [vt.epoch_vote_submissions EXCEPT ![e] = s]
  <1> DEFINE subs == [vt.epoch_vote_submissions EXCEPT ![e] = s]
  <1>1. subs \in [Epochs -> Submission]
    BY DEF VotingType
  <1>2. StoreSubmission(vt, e, s) = [vt EXCEPT !.epoch_vote_submissions = subs]
    BY DEF StoreSubmission
  <1> HIDE DEF subs
  <1>3. QED
    BY <1>1, <1>2 DEF VotingType, subs

\* Queueing an epoch changes the queue only.
LEMMA InsertExecutableEpochFields ==
  ASSUME NEW vt \in VotingType, NEW e \in Epochs
  PROVE  LET n == InsertExecutableEpoch(vt, e)
         IN  /\ n \in VotingType
             /\ n.genesis_epoch = vt.genesis_epoch
             /\ n.submission_period = vt.submission_period
             /\ n.last_voting_executed_epoch = vt.last_voting_executed_epoch
             /\ n.executable_epoch_queue = vt.executable_epoch_queue \cup {e}
             /\ n.epoch_vote_submissions = vt.epoch_vote_submissions
  <1> DEFINE queue == vt.executable_epoch_queue \cup {e}
  <1>1. queue \in SUBSET Epochs
    BY DEF VotingType
  <1>2. InsertExecutableEpoch(vt, e) = [vt EXCEPT !.executable_epoch_queue = queue]
    BY DEF InsertExecutableEpoch
  <1> HIDE DEF queue
  <1>3. QED
    BY <1>1, <1>2 DEF VotingType, queue

\* Marking an epoch executed, field by field.
LEMMA MarkEpochExecutedFields ==
  ASSUME NEW vt \in VotingType, NEW e \in Epochs
  PROVE  LET n == MarkEpochExecuted(vt, e)
         IN  /\ n \in VotingType
             /\ n.genesis_epoch = vt.genesis_epoch
             /\ n.submission_period = vt.submission_period
             /\ n.last_voting_executed_epoch = e
             /\ n.executable_epoch_queue = vt.executable_epoch_queue \ {e}
             /\ n.epoch_vote_submissions
                  = [vt.epoch_vote_submissions EXCEPT ![e] = NewSubmission]
  <1> DEFINE queue == vt.executable_epoch_queue \ {e}
             m == [vt EXCEPT !.last_voting_executed_epoch = e,
                             !.executable_epoch_queue = queue]
  <1>1. queue \in SUBSET Epochs /\ e \in Nat
    BY EpochsAssumption DEF VotingType
  <1>2. MarkEpochExecuted(vt, e) = StoreSubmission(m, e, NewSubmission)
    BY DEF MarkEpochExecuted
  <1> HIDE DEF queue
  <1>3. /\ m \in VotingType
        /\ m.genesis_epoch = vt.genesis_epoch
        /\ m.submission_period = vt.submission_period
        /\ m.last_voting_executed_epoch = e
        /\ m.executable_epoch_queue = queue
        /\ m.epoch_vote_submissions = vt.epoch_vote_submissions
    BY <1>1 DEF VotingType
  <1> HIDE DEF m
  <1>4. QED
    BY <1>2, <1>3, NewSubmissionType, StoreSubmissionFields DEF queue

\* BTreeSet::first: a set of naturals that is not empty has a least element.
LEMMA MinIsFirst ==
  ASSUME NEW S \in SUBSET Nat, S # {}
  PROVE  Min(S) \in S /\ \A y \in S : Min(S) <= y
  <1>1. \E x \in S : \A y \in S : ~(<<y, x>> \in OpToRel(<, Nat))
    BY WFMin, NatLessThanWellFounded
  <1>2. PICK x \in S : \A y \in S : ~(<<y, x>> \in OpToRel(<, Nat))
    BY <1>1
  <1>3. \A y \in S : x <= y
    <2>1. SUFFICES ASSUME NEW y \in S, y < x PROVE FALSE
      OBVIOUS
    <2>2. <<y, x>> \in OpToRel(<, Nat)
      BY <2>1 DEF OpToRel
    <2>3. QED
      BY <1>2, <2>2
  <1>4. QED
    BY <1>3 DEF Min

\* The counted submission of submit_vote is sound and has a leader.
LEMMA CountedSound ==
  ASSUME NEW vt \in VotingType, SoundVoting(vt), NEW vote \in Votes,
         vote.epoch \in Epochs, NEW who \in Voters, NEW w \in Nat
  PROVE  LET old == vt.epoch_vote_submissions[vote.epoch]
             s   == Counted(vt, vote, vote.epoch, who, w)
         IN  /\ s \in Submission
             /\ SoundSubmission(s, vote.epoch)
             /\ s.most_voted_key \in s.submissions
             /\ s.most_voted_key \in Votes
             /\ s.most_voted_key.epoch = vote.epoch
             /\ LoadMostVotedSubmission(s) = s.most_voted_key
             /\ LoadMostVotedWeight(s) \in Nat
             /\ LoadMostVotedWeight(s) >= LoadMostVotedWeight(old)
             /\ LoadMostVotedWeight(s) <= s.total_submission_weight
  <1> DEFINE old == vt.epoch_vote_submissions[vote.epoch]
             s   == Counted(vt, vote, vote.epoch, who, w)
  <1>1. old \in Submission /\ SoundSubmission(old, vote.epoch)
    BY DEF VotingType, SoundVoting
  <1>2. s = Submit(old, who, w, vote)
    BY DEF Counted
  <1> HIDE DEF old, s
  <1>3. s \in Submission
    BY <1>1, <1>2, SubmitFields
  <1>4. /\ SoundSubmission(s, vote.epoch)
        /\ s.most_voted_key \in s.submissions
        /\ s.most_voted_key \in Votes
        /\ LoadMostVotedWeight(s) \in Nat
        /\ LoadMostVotedWeight(s) >= LoadMostVotedWeight(old)
        /\ LoadMostVotedWeight(s) <= s.total_submission_weight
    BY <1>1, <1>2, SubmitSound
  <1>5. s.most_voted_key.epoch = vote.epoch
    BY <1>4 DEF SoundSubmission
  <1>6. LoadMostVotedSubmission(s) = s.most_voted_key
    BY <1>4 DEF LoadMostVotedSubmission
  <1>7. QED
    BY <1>3, <1>4, <1>5, <1>6 DEF old, s

\* The three outcomes of submit_vote: the vote to execute, an epoch queued, or a
\* submission stored.
LEMMA SubmitVoteCases ==
  ASSUME NEW vt, NEW vote, NEW e, NEW who, NEW w, NEW total
  PROVE  LET s == Counted(vt, vote, e, who, w)
             r == SubmitVote(vt, vote, e, who, w, total)
         IN  \/ /\ VoteStatus(s, total) = ConsensusReached
                /\ IsNextExecutableEpoch(vt, e)
                /\ r = [voting |-> vt, to_execute |-> LoadMostVotedSubmission(s)]
             \/ /\ VoteStatus(s, total) = ConsensusReached
                /\ ~IsNextExecutableEpoch(vt, e)
                /\ r = [voting |-> InsertExecutableEpoch(StoreSubmission(vt, e, s), e),
                        to_execute |-> NoVote]
             \/ /\ VoteStatus(s, total) # ConsensusReached
                /\ \E t \in {s, Abort(s)} :
                     r = [voting |-> StoreSubmission(vt, e, t), to_execute |-> NoVote]
  BY DEF SubmitVote

\* submit_vote keeps a voting sound, touches neither the genesis, nor the period,
\* nor the last executed epoch, and hands out a vote to execute only for the next
\* epoch, with a quorum.
LEMMA SubmitVoteSound ==
  ASSUME NEW vt \in VotingType, SoundVoting(vt), NEW vote \in Votes,
         vote.epoch \in Epochs, NEW who \in Voters, NEW w \in Nat, NEW total \in Nat
  PROVE  LET s == Counted(vt, vote, vote.epoch, who, w)
             r == SubmitVote(vt, vote, vote.epoch, who, w, total)
         IN  /\ r.voting \in VotingType
             /\ SoundVoting(r.voting)
             /\ r.voting.genesis_epoch = vt.genesis_epoch
             /\ r.voting.submission_period = vt.submission_period
             /\ r.voting.last_voting_executed_epoch = vt.last_voting_executed_epoch
             /\ r.to_execute \in Votes \cup {NoVote}
             /\ r.to_execute # NoVote =>
                  /\ r.voting = vt
                  /\ r.to_execute.epoch = vote.epoch
                  /\ IsNextExecutableEpoch(vt, vote.epoch)
                  /\ LoadMostVotedWeight(s) \in Nat
                  /\ TwoThirds(LoadMostVotedWeight(s), total)
  <1> DEFINE e == vote.epoch
             s == Counted(vt, vote, e, who, w)
             r == SubmitVote(vt, vote, e, who, w, total)
  <1>1. /\ s \in Submission
        /\ SoundSubmission(s, e)
        /\ s.most_voted_key \in Votes
        /\ s.most_voted_key.epoch = e
        /\ LoadMostVotedSubmission(s) = s.most_voted_key
        /\ LoadMostVotedWeight(s) \in Nat
        /\ LoadMostVotedWeight(s) <= s.total_submission_weight
    BY CountedSound
  <1>2. VoteStatus(s, total) = ConsensusReached <=> TwoThirds(LoadMostVotedWeight(s), total)
    BY <1>1, ConsensusIsQuorum
  <1>3. Abort(s) \in Submission /\ SoundSubmission(Abort(s), e)
    BY <1>1, AbortFields, AbortSound
  <1>4. \/ /\ VoteStatus(s, total) = ConsensusReached
           /\ IsNextExecutableEpoch(vt, e)
           /\ r = [voting |-> vt, to_execute |-> LoadMostVotedSubmission(s)]
        \/ r = [voting |-> InsertExecutableEpoch(StoreSubmission(vt, e, s), e),
                to_execute |-> NoVote]
        \/ \E t \in {s, Abort(s)} :
             r = [voting |-> StoreSubmission(vt, e, t), to_execute |-> NoVote]
    BY SubmitVoteCases
  <1> HIDE DEF s, r
  <1>5. CASE /\ VoteStatus(s, total) = ConsensusReached
             /\ IsNextExecutableEpoch(vt, e)
             /\ r = [voting |-> vt, to_execute |-> LoadMostVotedSubmission(s)]
    BY <1>1, <1>2, <1>5 DEF s, r
  <1>6. ASSUME NEW t \in Submission, SoundSubmission(t, e)
        PROVE  LET n == StoreSubmission(vt, e, t)
               IN  /\ n \in VotingType
                   /\ SoundVoting(n)
                   /\ n.genesis_epoch = vt.genesis_epoch
                   /\ n.submission_period = vt.submission_period
                   /\ n.last_voting_executed_epoch = vt.last_voting_executed_epoch
    <2> DEFINE n == StoreSubmission(vt, e, t)
    <2>1. /\ n \in VotingType
          /\ n.genesis_epoch = vt.genesis_epoch
          /\ n.submission_period = vt.submission_period
          /\ n.last_voting_executed_epoch = vt.last_voting_executed_epoch
          /\ n.epoch_vote_submissions = [vt.epoch_vote_submissions EXCEPT ![e] = t]
      BY StoreSubmissionFields
    <2>2. vt.epoch_vote_submissions \in [Epochs -> Submission]
      BY DEF VotingType
    <2> HIDE DEF n
    <2>3. SoundVoting(n)
      BY <1>6, <2>1, <2>2 DEF SoundVoting
    <2>4. QED
      BY <2>1, <2>3 DEF n
  <1>7. CASE r = [voting |-> InsertExecutableEpoch(StoreSubmission(vt, e, s), e),
                  to_execute |-> NoVote]
    <2> DEFINE n == StoreSubmission(vt, e, s)
               q == InsertExecutableEpoch(n, e)
    <2>1. /\ n \in VotingType
          /\ SoundVoting(n)
          /\ n.genesis_epoch = vt.genesis_epoch
          /\ n.submission_period = vt.submission_period
          /\ n.last_voting_executed_epoch = vt.last_voting_executed_epoch
      BY <1>1, <1>6
    <2> HIDE DEF n
    <2>2. /\ q \in VotingType
          /\ q.genesis_epoch = n.genesis_epoch
          /\ q.submission_period = n.submission_period
          /\ q.last_voting_executed_epoch = n.last_voting_executed_epoch
          /\ q.epoch_vote_submissions = n.epoch_vote_submissions
      BY <2>1, InsertExecutableEpochFields
    <2>3. SoundVoting(q)
      BY <2>1, <2>2 DEF SoundVoting
    <2>4. r.voting = q /\ r.to_execute = NoVote
      BY <1>7 DEF n
    <2>5. QED
      BY <2>1, <2>2, <2>3, <2>4 DEF r
  <1>8. CASE \E t \in {s, Abort(s)} :
               r = [voting |-> StoreSubmission(vt, e, t), to_execute |-> NoVote]
    <2>1. PICK t \in {s, Abort(s)} :
                 r = [voting |-> StoreSubmission(vt, e, t), to_execute |-> NoVote]
      BY <1>8
    <2>2. t \in Submission /\ SoundSubmission(t, e)
      BY <1>1, <1>3
    <2>3. r.voting = StoreSubmission(vt, e, t) /\ r.to_execute = NoVote
      BY <2>1
    <2>4. QED
      BY <1>6, <2>2, <2>3 DEF r
  <1>9. QED
    BY <1>4, <1>5, <1>7, <1>8

-----------------------------------------------------------------------------

(* Epochs that wait in the queue *)

\* A larger weight is a quorum when a smaller one is.
LEMMA TwoThirdsMonotonic ==
  ASSUME NEW x \in Nat, NEW y \in Nat, NEW total \in Nat, x <= y, TwoThirds(x, total)
  PROVE  TwoThirds(y, total)
  BY DEF TwoThirds, RatioNum, RatioDen

\* What leaves no remainder is a multiple.
LEMMA MultipleOfPeriod ==
  ASSUME NEW p \in Nat \ {0}, NEW x \in Int, x % p = 0
  PROVE  \E q \in Int : x = p * q
  <1>1. x = p * (x \div p) + (x % p)
    OBVIOUS
  <1>2. x \div p \in Int
    OBVIOUS
  <1>3. QED
    BY <1>1, <1>2

\* Two multiples of the period are at least a period apart.
LEMMA MultiplesApart ==
  ASSUME NEW p \in Nat \ {0}, NEW x \in Int, NEW y \in Int,
         x % p = 0, y % p = 0, x < y
  PROVE  x + p <= y
  <1>1. PICK q \in Int : x = p * q
    BY MultipleOfPeriod
  <1>2. PICK r \in Int : y = p * r
    BY MultipleOfPeriod
  <1>3. q < r
    <2>1. SUFFICES ASSUME r <= q PROVE FALSE
      OBVIOUS
    <2>2. p * r <= p * q
      BY <2>1
    <2>3. QED
      BY <1>1, <1>2, <2>2
  <1>4. p * (r - 1 - q) >= 0 /\ p * (r - 1 - q) = p * r - p - p * q
    BY <1>3
  <1>5. QED
    BY <1>1, <1>2, <1>4

\* submit_vote keeps every queued epoch ready, as long as the total weight is the
\* one the epochs were queued under: a ballot for a queued epoch leaves its leader
\* with a quorum, so that the round cannot be aborted.
LEMMA SubmitVoteReady ==
  ASSUME NEW vt \in VotingType, SoundVoting(vt), NEW vote \in Votes,
         vote.epoch \in Epochs, NEW who \in Voters, NEW w \in Nat, NEW total \in Nat,
         EpochCanVote(vt, vote.epoch), ~IsEpochExecuted(vt, vote.epoch),
         \A f \in vt.executable_epoch_queue : ReadyEpoch(vt, f, total)
  PROVE  LET r == SubmitVote(vt, vote, vote.epoch, who, w, total)
         IN  \A f \in r.voting.executable_epoch_queue : ReadyEpoch(r.voting, f, total)
  <1> DEFINE e == vote.epoch
             old == vt.epoch_vote_submissions[e]
             s == Counted(vt, vote, e, who, w)
             r == SubmitVote(vt, vote, e, who, w, total)
  <1>1. /\ s \in Submission
        /\ s.most_voted_key \in s.submissions
        /\ s.most_voted_key.epoch = e
        /\ LoadMostVotedWeight(s) \in Nat
        /\ LoadMostVotedWeight(s) >= LoadMostVotedWeight(old)
        /\ LoadMostVotedWeight(s) <= s.total_submission_weight
    BY CountedSound
  <1>2. VoteStatus(s, total) = ConsensusReached <=> TwoThirds(LoadMostVotedWeight(s), total)
    BY <1>1, ConsensusIsQuorum
  <1>3. Abort(s) \in Submission
    BY <1>1, AbortFields
  <1>4. LoadMostVotedWeight(old) \in Nat
    <2>1. old \in Submission
      BY DEF VotingType
    <2>2. QED
      BY <2>1 DEF LoadMostVotedWeight, Submission
  <1>5. /\ vt.epoch_vote_submissions \in [Epochs -> Submission]
        /\ vt.executable_epoch_queue \subseteq Epochs
        /\ vt.last_voting_executed_epoch \in Nat
        /\ e > vt.last_voting_executed_epoch
    <2>1. /\ vt.epoch_vote_submissions \in [Epochs -> Submission]
          /\ vt.executable_epoch_queue \subseteq Epochs
          /\ vt.last_voting_executed_epoch \in Nat
      BY DEF VotingType
    <2>2. e \in Nat
      BY EpochsAssumption
    <2>3. QED
      BY <2>1, <2>2 DEF IsEpochExecuted
  <1>6. \/ r = [voting |-> vt, to_execute |-> LoadMostVotedSubmission(s)]
        \/ /\ VoteStatus(s, total) = ConsensusReached
           /\ r = [voting |-> InsertExecutableEpoch(StoreSubmission(vt, e, s), e),
                   to_execute |-> NoVote]
        \/ /\ VoteStatus(s, total) # ConsensusReached
           /\ \E t \in {s, Abort(s)} :
                r = [voting |-> StoreSubmission(vt, e, t), to_execute |-> NoVote]
    BY SubmitVoteCases
  <1>7. \A f \in vt.executable_epoch_queue :
          /\ f > vt.last_voting_executed_epoch
          /\ EpochCanVote(vt, f)
          /\ vt.epoch_vote_submissions[f].most_voted_key
               \in vt.epoch_vote_submissions[f].submissions
          /\ vt.epoch_vote_submissions[f].most_voted_key.epoch = f
          /\ TwoThirds(LoadMostVotedWeight(vt.epoch_vote_submissions[f]), total)
    BY DEF ReadyEpoch
  <1> HIDE DEF s, r
  <1>8. CASE r = [voting |-> vt, to_execute |-> LoadMostVotedSubmission(s)]
    BY <1>8 DEF r
  <1>9. ASSUME NEW t \in Submission
        PROVE  LET n == StoreSubmission(vt, e, t)
               IN  /\ n \in VotingType
                   /\ n.executable_epoch_queue = vt.executable_epoch_queue
                   /\ n.epoch_vote_submissions = [vt.epoch_vote_submissions EXCEPT ![e] = t]
                   /\ \A f \in vt.executable_epoch_queue \ {e} : ReadyEpoch(n, f, total)
                   /\ n.last_voting_executed_epoch = vt.last_voting_executed_epoch
                   /\ EpochCanVote(n, e)
    <2> DEFINE n == StoreSubmission(vt, e, t)
    <2>1. /\ n \in VotingType
          /\ n.genesis_epoch = vt.genesis_epoch
          /\ n.submission_period = vt.submission_period
          /\ n.last_voting_executed_epoch = vt.last_voting_executed_epoch
          /\ n.executable_epoch_queue = vt.executable_epoch_queue
          /\ n.epoch_vote_submissions = [vt.epoch_vote_submissions EXCEPT ![e] = t]
      BY StoreSubmissionFields
    <2> HIDE DEF n
    <2>2. \A f \in Epochs : EpochCanVote(vt, f) => EpochCanVote(n, f)
      BY <2>1 DEF EpochCanVote
    <2>3. ASSUME NEW f \in vt.executable_epoch_queue \ {e}
          PROVE  ReadyEpoch(n, f, total)
      <3>1. f \in Epochs /\ n.epoch_vote_submissions[f] = vt.epoch_vote_submissions[f]
        BY <1>5, <2>1
      <3>2. QED
        BY <1>7, <2>1, <2>2, <3>1 DEF ReadyEpoch
    <2>4. QED
      BY <2>1, <2>2, <2>3 DEF n
  <1>10. CASE /\ VoteStatus(s, total) = ConsensusReached
              /\ r = [voting |-> InsertExecutableEpoch(StoreSubmission(vt, e, s), e),
                      to_execute |-> NoVote]
    <2> DEFINE n == StoreSubmission(vt, e, s)
               q == InsertExecutableEpoch(n, e)
    <2>1. /\ n \in VotingType
          /\ n.executable_epoch_queue = vt.executable_epoch_queue
          /\ n.epoch_vote_submissions = [vt.epoch_vote_submissions EXCEPT ![e] = s]
          /\ \A f \in vt.executable_epoch_queue \ {e} : ReadyEpoch(n, f, total)
          /\ n.last_voting_executed_epoch = vt.last_voting_executed_epoch
          /\ EpochCanVote(n, e)
      BY <1>1, <1>9
    <2> HIDE DEF n
    <2>2. /\ q.genesis_epoch = n.genesis_epoch
          /\ q.submission_period = n.submission_period
          /\ q.last_voting_executed_epoch = n.last_voting_executed_epoch
          /\ q.executable_epoch_queue = n.executable_epoch_queue \cup {e}
          /\ q.epoch_vote_submissions = n.epoch_vote_submissions
      BY <2>1, InsertExecutableEpochFields
    <2> HIDE DEF q
    <2>3. \A f \in Epochs : EpochCanVote(n, f) <=> EpochCanVote(q, f)
      BY <2>2 DEF EpochCanVote
    <2>4. n.epoch_vote_submissions[e] = s
      BY <1>5, <2>1
    <2>5. ReadyEpoch(q, e, total)
      BY <1>1, <1>2, <1>5, <1>10, <2>1, <2>2, <2>3, <2>4 DEF ReadyEpoch
    <2>6. ASSUME NEW f \in vt.executable_epoch_queue \ {e}
          PROVE  ReadyEpoch(q, f, total)
      BY <1>5, <2>1, <2>2, <2>3 DEF ReadyEpoch
    <2>7. r.voting = q
      BY <1>10 DEF n, q
    <2>8. QED
      BY <2>1, <2>2, <2>5, <2>6, <2>7 DEF r
  <1>11. CASE /\ VoteStatus(s, total) # ConsensusReached
              /\ \E t \in {s, Abort(s)} :
                   r = [voting |-> StoreSubmission(vt, e, t), to_execute |-> NoVote]
    <2>1. PICK t \in {s, Abort(s)} :
                 r = [voting |-> StoreSubmission(vt, e, t), to_execute |-> NoVote]
      BY <1>11
    <2>2. r.voting = StoreSubmission(vt, e, t) /\ t \in Submission
      BY <1>1, <1>3, <2>1
    <2>3. e \notin vt.executable_epoch_queue
      BY <1>1, <1>2, <1>4, <1>7, <1>11, TwoThirdsMonotonic
    <2>4. QED
      BY <1>9, <2>2, <2>3 DEF r
  <1>12. QED
    BY <1>6, <1>8, <1>10, <1>11

\* mark_epoch_executed keeps a voting sound.
LEMMA MarkSound ==
  ASSUME NEW vt \in VotingType, SoundVoting(vt), NEW e \in Epochs
  PROVE  SoundVoting(MarkEpochExecuted(vt, e))
  <1> DEFINE n == MarkEpochExecuted(vt, e)
  <1>1. /\ n.epoch_vote_submissions
             = [vt.epoch_vote_submissions EXCEPT ![e] = NewSubmission]
        /\ vt.epoch_vote_submissions \in [Epochs -> Submission]
    BY MarkEpochExecutedFields DEF VotingType
  <1> HIDE DEF n
  <1>2. SoundVoting(n)
    BY <1>1, NewSubmissionSound DEF SoundVoting
  <1>3. QED
    BY <1>2 DEF n

\* mark_epoch_executed, where it is allowed, leaves the rest of the queue ready:
\* what is queued is aligned and not executed, so it lies beyond the epoch marked.
LEMMA MarkReady ==
  ASSUME NEW vt \in VotingType, NEW e \in Epochs, NEW total \in Nat,
         EpochCanVote(vt, e), EpochCanVote(vt, vt.last_voting_executed_epoch),
         CanMarkEpochExecuted(vt, e),
         \A f \in vt.executable_epoch_queue : ReadyEpoch(vt, f, total)
  PROVE  LET n == MarkEpochExecuted(vt, e)
         IN  /\ \A f \in n.executable_epoch_queue : ReadyEpoch(n, f, total)
             /\ EpochCanVote(n, n.last_voting_executed_epoch)
  <1> DEFINE n == MarkEpochExecuted(vt, e)
  <1>1. /\ n.genesis_epoch = vt.genesis_epoch
        /\ n.submission_period = vt.submission_period
        /\ n.last_voting_executed_epoch = e
        /\ n.executable_epoch_queue = vt.executable_epoch_queue \ {e}
        /\ n.epoch_vote_submissions
             = [vt.epoch_vote_submissions EXCEPT ![e] = NewSubmission]
    BY MarkEpochExecutedFields
  <1>2. /\ vt.genesis_epoch \in Nat
        /\ vt.submission_period \in Nat \ {0}
        /\ vt.last_voting_executed_epoch \in Nat
        /\ vt.executable_epoch_queue \subseteq Epochs
        /\ vt.epoch_vote_submissions \in [Epochs -> Submission]
    BY DEF VotingType
  <1> HIDE DEF n
  <1>3. \A f \in Epochs : EpochCanVote(vt, f) <=> EpochCanVote(n, f)
    BY <1>1 DEF EpochCanVote
  <1>4. ASSUME NEW f \in vt.executable_epoch_queue \ {e}
        PROVE  f > e
    <2> DEFINE g == vt.genesis_epoch
               p == vt.submission_period
               last == vt.last_voting_executed_epoch
    <2>1. f \in Nat /\ e = last + p /\ f > last /\ EpochCanVote(vt, f)
      BY <1>2, EpochsAssumption DEF ReadyEpoch, CanMarkEpochExecuted, IsNextExecutableEpoch
    <2>2. (f - g) % p = 0 /\ (last - g) % p = 0
      BY <2>1 DEF EpochCanVote
    <2> HIDE DEF g, p, last
    <2>3. g \in Nat /\ p \in Nat \ {0} /\ last \in Nat
      BY <1>2 DEF g, p, last
    <2>4. f - g \in Int /\ last - g \in Int /\ last - g < f - g
      BY <2>1, <2>3
    <2>5. (last - g) + p <= f - g
      BY <2>2, <2>3, <2>4, MultiplesApart
    <2>6. QED
      BY <2>1, <2>3, <2>5
  <1>5. ASSUME NEW f \in n.executable_epoch_queue
        PROVE  ReadyEpoch(n, f, total)
    <2>1. f \in vt.executable_epoch_queue /\ f # e /\ f \in Epochs
      BY <1>1, <1>2
    <2>2. n.epoch_vote_submissions[f] = vt.epoch_vote_submissions[f]
      BY <1>1, <1>2, <2>1
    <2>3. QED
      BY <1>1, <1>3, <1>4, <2>1, <2>2 DEF ReadyEpoch
  <1>6. QED
    BY <1>1, <1>3, <1>5 DEF n
=============================================================================
