------------------------ MODULE TopDownVoting_proofs ------------------------
(***************************************************************************)
(* Proofs about TopDownVoting, for every set of validators, epochs,        *)
(* checkpoints and memberships.                                            *)
(***************************************************************************)
EXTENDS TopDownLog, Voting_proofs, SequenceTheorems

\* What one run of a handler may do, whichever of its branches it takes: execute a
\* run of epochs that starts right after the last one, and apply a run of messages
\* that starts at the next nonce.
GoodOutcome(vt, nonce, out) ==
  /\ out.voting \in VotingType
  /\ SoundVoting(out.voting)
  /\ out.voting.genesis_epoch = vt.genesis_epoch
  /\ out.voting.submission_period = vt.submission_period
  /\ out.runs \in Seq(Executions)
  /\ \A i \in DOMAIN out.runs :
       out.runs[i].ch.epoch = vt.last_voting_executed_epoch + i * vt.submission_period
  /\ out.voting.last_voting_executed_epoch
       = vt.last_voting_executed_epoch + Len(out.runs) * vt.submission_period
  /\ out.msgs \in Seq(Nat)
  /\ CanApply(nonce, out.msgs)

\* How many checkpoints a handler executes, and whose messages it applies: none, one, or
\* one without messages and the one behind it.
OneOrTwo(out) ==
  \/ out.runs = <<>> /\ out.msgs = <<>>
  \/ \E x \in Executions : out.runs = <<x>> /\ out.msgs = x.ch.top_down_msgs
  \/ \E x, y \in Executions :
       /\ out.runs = <<x, y>>
       /\ x.ch.top_down_msgs = <<>> /\ out.msgs = y.ch.top_down_msgs

\* What every submission comes to.
SubmissionEnds(out) ==
  /\ initialized
  /\ GoodOutcome(voting, applied_topdown_nonce, out)
  /\ OneOrTwo(out)
  /\ Finish(out)
  /\ UNCHANGED <<initialized, validators>>
  /\ ballots' \in [Epochs -> [Voters -> Votes \cup {NoVote}]]

\* The inductive invariant: no epoch is executed before the genesis epoch is known, from
\* then on the period is the clamped one, submissions are sound, and the two histories
\* are in order.
IInv ==
  /\ TypeOK
  /\ SoundVoting(voting)
  /\ initialized => voting.submission_period = TopdownCheckPeriod
  /\ ~initialized => executed = <<>>
  /\ ExecutedInOrder
  /\ DeliveredInOrder

-----------------------------------------------------------------------------

(* The period *)

\* The constructor never stores a period below the default, which is positive.
LEMMA PeriodPositive == TopdownCheckPeriod \in Nat \ {0}
  BY PeriodAssumption DEF TopdownCheckPeriod

-----------------------------------------------------------------------------

(* The parts of a handler *)

\* Executing one checkpoint of the next epoch is a good outcome.
LEMMA ExecuteOne ==
  ASSUME NEW vt \in VotingType, SoundVoting(vt), NEW ch \in Checkpoints,
         NEW weight \in Nat, NEW nonce \in Nat, validators.total_weight \in Nat,
         CanMarkEpochExecuted(vt, ch.epoch), CanApply(nonce, ch.top_down_msgs)
  PROVE  GoodOutcome(vt, nonce, Outcome(MarkEpochExecuted(vt, ch.epoch),
                                        <<Execution(ch, weight)>>, ch.top_down_msgs))
  <1> DEFINE n == MarkEpochExecuted(vt, ch.epoch)
             x == Execution(ch, weight)
             out == Outcome(n, <<x>>, ch.top_down_msgs)
  <1>1. ch.epoch \in Epochs /\ ch.top_down_msgs \in Seq(Nat)
    BY CheckpointsAssumption
  <1>2. /\ n \in VotingType
        /\ n.genesis_epoch = vt.genesis_epoch
        /\ n.submission_period = vt.submission_period
        /\ n.last_voting_executed_epoch = ch.epoch
        /\ SoundVoting(n)
    BY <1>1, MarkEpochExecutedFields, MarkSound
  <1>3. x \in Executions /\ x.ch = ch
    BY DEF Execution, Executions
  <1>4. ch.epoch = vt.last_voting_executed_epoch + vt.submission_period
    BY DEF CanMarkEpochExecuted, IsNextExecutableEpoch
  <1>5. vt.last_voting_executed_epoch \in Nat /\ vt.submission_period \in Nat
    BY DEF VotingType
  <1>6. out.voting = n /\ out.runs = <<x>> /\ out.msgs = ch.top_down_msgs
    BY DEF Outcome
  <1> HIDE DEF n, x, out
  <1>7. /\ out.runs \in Seq(Executions)
        /\ DOMAIN out.runs = {1}
        /\ Len(out.runs) = 1
        /\ out.runs[1] = x
    BY <1>3, <1>6
  <1>8. GoodOutcome(vt, nonce, out)
    BY <1>1, <1>2, <1>3, <1>4, <1>5, <1>6, <1>7 DEF GoodOutcome
  <1>9. QED
    BY <1>8 DEF out, n, x

\* The head of a queue that has one is a submission of that epoch.
LEMMA DueEpoch ==
  ASSUME NEW vt \in VotingType, HasDueEpoch(vt)
  PROVE  /\ Min(vt.executable_epoch_queue) \in vt.executable_epoch_queue
         /\ DueSubmission(vt) \in Submission
         /\ LoadMostVotedWeight(DueSubmission(vt)) \in Nat
         /\ NextExecutableVote(vt) \in Votes \cup {NoVote}
  <1>1. vt.executable_epoch_queue \in SUBSET Nat /\ vt.executable_epoch_queue # {}
    BY EpochsAssumption DEF VotingType, HasDueEpoch
  <1>2. Min(vt.executable_epoch_queue) \in vt.executable_epoch_queue
    BY <1>1, MinIsFirst
  <1>3. DueSubmission(vt) \in Submission
    BY <1>2 DEF DueSubmission, VotingType
  <1>4. LoadMostVotedWeight(DueSubmission(vt)) \in Nat
    BY <1>3 DEF LoadMostVotedWeight, Submission
  <1>5. NextExecutableVote(vt) \in Votes \cup {NoVote}
    BY <1>3 DEF NextExecutableVote, DueSubmission, LoadMostVotedSubmission, Submission
  <1>6. QED
    BY <1>2, <1>3, <1>4, <1>5

\* Doing nothing is a good outcome.
LEMMA ExecuteNone ==
  ASSUME NEW vt \in VotingType, SoundVoting(vt), NEW nonce \in Nat
  PROVE  GoodOutcome(vt, nonce, Outcome(vt, <<>>, <<>>))
  <1>1. vt.last_voting_executed_epoch \in Nat /\ vt.submission_period \in Nat
    BY DEF VotingType
  <1> DEFINE out == Outcome(vt, <<>>, <<>>)
  <1>2. out.voting = vt /\ out.runs = <<>> /\ out.msgs = <<>>
    BY DEF Outcome
  <1> HIDE DEF out
  <1>3. GoodOutcome(vt, nonce, out)
    BY <1>1, <1>2 DEF GoodOutcome, CanApply
  <1>4. QED
    BY <1>3 DEF out

\* execute_next_topdown_epoch has a good outcome.
LEMMA ExecuteNextGood ==
  ASSUME NEW vt \in VotingType, SoundVoting(vt), NEW nonce \in Nat,
         validators.total_weight \in Nat, CanExecuteNext(vt, nonce)
  PROVE  GoodOutcome(vt, nonce, ExecuteNext(vt))
  <1>1. CASE HasDueEpoch(vt)
    <2> DEFINE ch == NextExecutableVote(vt)
               w == LoadMostVotedWeight(DueSubmission(vt))
    <2>1. ch \in Checkpoints /\ w \in Nat
      BY <1>1, DueEpoch DEF CanExecuteNext, Checkpoints
    <2>2. CanMarkEpochExecuted(vt, ch.epoch) /\ CanApply(nonce, ch.top_down_msgs)
      BY <1>1 DEF CanExecuteNext
    <2>3. ExecuteNext(vt) = Outcome(MarkEpochExecuted(vt, ch.epoch),
                                    <<Execution(ch, w)>>, ch.top_down_msgs)
      BY <1>1 DEF ExecuteNext
    <2> HIDE DEF ch, w
    <2>4. QED
      BY <2>1, <2>2, <2>3, ExecuteOne
  <1>2. CASE ~HasDueEpoch(vt)
    BY <1>2, ExecuteNone DEF ExecuteNext
  <1>3. QED
    BY <1>1, <1>2

\* An entry of the history of executions.
LEMMA ExecutionFields ==
  ASSUME NEW ch \in Checkpoints, NEW weight \in Nat, validators.total_weight \in Nat
  PROVE  Execution(ch, weight) \in Executions /\ Execution(ch, weight).ch = ch
  BY DEF Execution, Executions

\* execute_next_topdown_epoch executes one checkpoint and applies its messages, or
\* does nothing.
LEMMA ExecuteNextShape ==
  ASSUME NEW vt \in VotingType, NEW nonce \in Nat, validators.total_weight \in Nat,
         CanExecuteNext(vt, nonce)
  PROVE  LET out == ExecuteNext(vt)
         IN  \/ out.runs = <<>> /\ out.msgs = <<>>
             \/ \E x \in Executions :
                  out.runs = <<x>> /\ out.msgs = x.ch.top_down_msgs
  <1>1. CASE HasDueEpoch(vt)
    <2> DEFINE ch == NextExecutableVote(vt)
               w == LoadMostVotedWeight(DueSubmission(vt))
               x == Execution(ch, w)
    <2>1. ch \in Checkpoints /\ w \in Nat
      BY <1>1, DueEpoch DEF CanExecuteNext, Checkpoints
    <2>2. x \in Executions /\ x.ch = ch
      BY <2>1, ExecutionFields
    <2>3. ExecuteNext(vt).runs = <<x>> /\ ExecuteNext(vt).msgs = ch.top_down_msgs
      BY <1>1 DEF ExecuteNext, Outcome
    <2>4. QED
      BY <2>2, <2>3
  <1>2. CASE ~HasDueEpoch(vt)
    BY <1>2 DEF ExecuteNext, Outcome
  <1>3. QED
    BY <1>1, <1>2

\* b periods and then c more.
LEMMA Periods ==
  ASSUME NEW x \in Int, NEW b \in Int, NEW c \in Int, NEW p \in Int
  PROVE  (x + b * p) + c * p = x + (b + c) * p
  OBVIOUS

\* Concatenation, index by index.
LEMMA ConcatIndices ==
  ASSUME NEW S, NEW s \in Seq(S), NEW t \in Seq(S)
  PROVE  /\ s \o t \in Seq(S)
         /\ Len(s \o t) = Len(s) + Len(t)
         /\ DOMAIN (s \o t) = 1..(Len(s) + Len(t))
         /\ \A i \in 1..(Len(s) + Len(t)) :
              (s \o t)[i] = IF i <= Len(s) THEN s[i] ELSE t[i - Len(s)]
         /\ Len(s) \in Nat /\ Len(t) \in Nat
         /\ DOMAIN s = 1..Len(s) /\ DOMAIN t = 1..Len(t)
  BY ConcatProperties

\* A sequence of two.
LEMMA TwoEntries ==
  ASSUME NEW S, NEW x \in S, NEW y \in S
  PROVE  <<x>> \o <<y>> = <<x, y>>
  <1> DEFINE s == <<x>> \o <<y>>
             t == <<x, y>>
  <1>1. s \in Seq(S) /\ t \in Seq(S)
    OBVIOUS
  <1>2. Len(s) = 2 /\ Len(t) = 2
    OBVIOUS
  <1>3. s[1] = x /\ s[2] = y
    BY ConcatProperties
  <1>4. t[1] = x /\ t[2] = y
    OBVIOUS
  <1> HIDE DEF s, t
  <1>5. \A i \in 1..Len(s) : s[i] = t[i]
    BY <1>2, <1>3, <1>4
  <1>6. s = t
    BY <1>1, <1>2, <1>5, SeqEqual
  <1>7. QED
    BY <1>6 DEF s, t

\* A checkpoint without messages and what is executed after it, together.
LEMMA ExecuteBoth ==
  ASSUME NEW vt \in VotingType, NEW nonce \in Nat, NEW one, NEW two,
         GoodOutcome(vt, nonce, one), GoodOutcome(one.voting, nonce, two)
  PROVE  GoodOutcome(vt, nonce, Outcome(two.voting, one.runs \o two.runs, two.msgs))
  <1> DEFINE out == Outcome(two.voting, one.runs \o two.runs, two.msgs)
             last == vt.last_voting_executed_epoch
             p == vt.submission_period
             k == Len(one.runs)
             j == Len(two.runs)
  <1>1. /\ out.voting = two.voting
        /\ out.runs = one.runs \o two.runs
        /\ out.msgs = two.msgs
    BY DEF Outcome
  <1>2. last \in Nat /\ p \in Nat
    BY DEF VotingType
  <1>3. /\ one.runs \in Seq(Executions)
        /\ \A i \in DOMAIN one.runs : one.runs[i].ch.epoch = last + i * p
        /\ one.voting.last_voting_executed_epoch = last + k * p
        /\ one.voting.submission_period = p
        /\ one.voting.genesis_epoch = vt.genesis_epoch
    BY DEF GoodOutcome
  <1>4. /\ two.runs \in Seq(Executions)
        /\ \A i \in DOMAIN two.runs : two.runs[i].ch.epoch = (last + k * p) + i * p
        /\ two.voting.last_voting_executed_epoch = (last + k * p) + j * p
        /\ two.voting.submission_period = p
        /\ two.voting.genesis_epoch = vt.genesis_epoch
        /\ two.voting \in VotingType
        /\ SoundVoting(two.voting)
        /\ two.msgs \in Seq(Nat)
        /\ CanApply(nonce, two.msgs)
    BY <1>3 DEF GoodOutcome
  <1> HIDE DEF out, last, p
  <1>5. /\ out.runs \in Seq(Executions)
        /\ Len(out.runs) = k + j
        /\ DOMAIN out.runs = 1..(k + j)
        /\ \A i \in 1..(k + j) :
             out.runs[i] = IF i <= k THEN one.runs[i] ELSE two.runs[i - k]
        /\ k \in Nat /\ j \in Nat
        /\ DOMAIN one.runs = 1..k /\ DOMAIN two.runs = 1..j
    <2> DEFINE a == one.runs
               b == two.runs
    <2>1. a \in Seq(Executions) /\ b \in Seq(Executions) /\ out.runs = a \o b
      BY <1>1, <1>3, <1>4
    <2> HIDE DEF a, b
    <2>2. /\ a \o b \in Seq(Executions)
          /\ Len(a \o b) = Len(a) + Len(b)
          /\ DOMAIN (a \o b) = 1..(Len(a) + Len(b))
          /\ \A i \in 1..(Len(a) + Len(b)) :
               (a \o b)[i] = IF i <= Len(a) THEN a[i] ELSE b[i - Len(a)]
          /\ Len(a) \in Nat /\ Len(b) \in Nat
          /\ DOMAIN a = 1..Len(a) /\ DOMAIN b = 1..Len(b)
      BY <2>1, ConcatIndices
    <2>3. QED
      BY <2>1, <2>2, Zenon DEF a, b
  <1> HIDE DEF k, j
  <1>6. ASSUME NEW i \in DOMAIN out.runs
        PROVE  out.runs[i].ch.epoch = last + i * p
    <2>1. CASE i <= k
      <3>1. i \in DOMAIN one.runs /\ out.runs[i] = one.runs[i]
        BY <1>5, <2>1
      <3>2. QED
        BY <1>3, <3>1
    <2>2. CASE i > k
      <3>1. i \in Int /\ i - k \in 1..j /\ out.runs[i] = two.runs[i - k]
        BY <1>5, <2>2
      <3>2. out.runs[i].ch.epoch = (last + k * p) + (i - k) * p
        BY <1>4, <1>5, <3>1
      <3>3. (last + k * p) + (i - k) * p = last + i * p
        BY <1>2, <1>5, <3>1
      <3>4. QED
        BY <3>2, <3>3
    <2>3. QED
      BY <1>5, <2>1, <2>2
  <1>7. (last + k * p) + j * p = last + Len(out.runs) * p
    BY <1>2, <1>5, Periods
  <1>8. GoodOutcome(vt, nonce, out)
    BY <1>1, <1>4, <1>5, <1>6, <1>7 DEF GoodOutcome, last, p
  <1>9. QED
    BY <1>8 DEF out

\* What Finish makes of a good outcome: both histories grow in order.
LEMMA FinishGood ==
  ASSUME IInv, initialized, NEW out, GoodOutcome(voting, applied_topdown_nonce, out),
         Finish(out), UNCHANGED <<initialized, validators>>,
         ballots' \in [Epochs -> [Voters -> Votes \cup {NoVote}]]
  PROVE  IInv'
  <1> DEFINE n == Len(executed)
             k == Len(out.runs)
             g == voting.genesis_epoch
             p == TopdownCheckPeriod
             last == voting.last_voting_executed_epoch
  <1>1. /\ topdown_checkpoint_voting' = out.voting
        /\ applied_topdown_nonce' = applied_topdown_nonce + Len(out.msgs)
        /\ executed' = executed \o out.runs
        /\ delivered' = delivered \o out.msgs
        /\ initialized' = initialized
        /\ validators' = validators
    BY DEF Finish
  <1>2. /\ executed \in Seq(Executions)
        /\ delivered \in Seq(Nat)
        /\ applied_topdown_nonce \in Nat
        /\ g \in Nat /\ last \in Nat /\ p \in Nat
    BY PeriodPositive DEF IInv, TypeOK, VotingType, voting
  <1>3. /\ \A i \in DOMAIN executed : executed[i].ch.epoch = g + i * p
        /\ last = g + n * p
        /\ voting.submission_period = p
    BY DEF IInv, ExecutedInOrder
  <1>4. /\ out.voting \in VotingType
        /\ SoundVoting(out.voting)
        /\ out.voting.genesis_epoch = g
        /\ out.voting.submission_period = p
        /\ out.runs \in Seq(Executions)
        /\ \A i \in DOMAIN out.runs : out.runs[i].ch.epoch = last + i * p
        /\ out.voting.last_voting_executed_epoch = last + k * p
        /\ out.msgs \in Seq(Nat)
        /\ CanApply(applied_topdown_nonce, out.msgs)
    BY <1>3 DEF GoodOutcome
  <1> HIDE DEF g, last, p
  <1>5. /\ executed' \in Seq(Executions)
        /\ Len(executed') = n + k
        /\ DOMAIN executed' = 1..(n + k)
        /\ \A i \in 1..(n + k) :
             executed'[i] = IF i <= n THEN executed[i] ELSE out.runs[i - n]
        /\ n \in Nat /\ k \in Nat
        /\ DOMAIN executed = 1..n /\ DOMAIN out.runs = 1..k
    <2> DEFINE a == executed
               b == out.runs
               c == executed'
    <2>1. a \in Seq(Executions) /\ b \in Seq(Executions) /\ c = a \o b
      BY <1>1, <1>2, <1>4
    <2> HIDE DEF a, b, c
    <2>2. /\ a \o b \in Seq(Executions)
          /\ Len(a \o b) = Len(a) + Len(b)
          /\ DOMAIN (a \o b) = 1..(Len(a) + Len(b))
          /\ \A i \in 1..(Len(a) + Len(b)) :
               (a \o b)[i] = IF i <= Len(a) THEN a[i] ELSE b[i - Len(a)]
          /\ Len(a) \in Nat /\ Len(b) \in Nat
          /\ DOMAIN a = 1..Len(a) /\ DOMAIN b = 1..Len(b)
      BY <2>1, ConcatIndices
    <2>3. QED
      BY <2>1, <2>2, Zenon DEF a, b, c
  <1> HIDE DEF n, k
  <1>6. ASSUME NEW i \in DOMAIN executed'
        PROVE  executed'[i].ch.epoch = g + i * p
    <2>1. CASE i <= n
      BY <1>3, <1>5, <2>1
    <2>2. CASE i > n
      <3>1. i \in Int /\ i - n \in 1..k /\ executed'[i] = out.runs[i - n]
        BY <1>5, <2>2
      <3>2. executed'[i].ch.epoch = (g + n * p) + (i - n) * p
        BY <1>3, <1>4, <1>5, <3>1
      <3>3. (g + n * p) + (i - n) * p = g + i * p
        BY <1>2, <1>5, <3>1
      <3>4. QED
        BY <3>2, <3>3
    <2>3. QED
      BY <1>5, <2>1, <2>2
  <1>7. out.voting.last_voting_executed_epoch = g + Len(executed') * p
    BY <1>2, <1>3, <1>4, <1>5
  <1>8. ExecutedInOrder'
    BY <1>1, <1>4, <1>6, <1>7 DEF ExecutedInOrder, voting, p
  <1>9. DeliveredInOrder'
    <2> DEFINE m == Len(delivered)
               j == Len(out.msgs)
    <2>1. m = applied_topdown_nonce /\ \A i \in DOMAIN delivered : delivered[i] = i - 1
      BY DEF IInv, DeliveredInOrder
    <2>2. /\ delivered' \in Seq(Nat)
          /\ Len(delivered') = m + j
          /\ DOMAIN delivered' = 1..(m + j)
          /\ \A i \in 1..(m + j) :
               delivered'[i] = IF i <= m THEN delivered[i] ELSE out.msgs[i - m]
          /\ m \in Nat /\ j \in Nat
          /\ DOMAIN delivered = 1..m /\ DOMAIN out.msgs = 1..j
      BY <1>1, <1>2, <1>4, ConcatProperties
    <2>3. \A i \in 1..j : out.msgs[i] = m + i - 1
      BY <1>4, <2>1, <2>2 DEF CanApply
    <2> HIDE DEF m, j
    <2>4. ASSUME NEW i \in DOMAIN delivered'
          PROVE  delivered'[i] = i - 1
      <3>1. CASE i <= m
        BY <2>1, <2>2, <3>1
      <3>2. CASE i > m
        <4>1. i - m \in 1..j /\ delivered'[i] = out.msgs[i - m]
          BY <2>2, <3>2
        <4>2. QED
          BY <2>2, <2>3, <4>1
      <3>3. QED
        BY <2>2, <3>1, <3>2
    <2>5. applied_topdown_nonce' = m + j
      BY <1>1, <2>1 DEF j
    <2>6. QED
      BY <2>2, <2>4, <2>5 DEF DeliveredInOrder
  <1>10. TypeOK'
    <2>1. delivered' \in Seq(Nat)
      BY <1>1, <1>2, <1>4, ConcatProperties
    <2>2. applied_topdown_nonce' \in Nat
      BY <1>1, <1>2, <1>4
    <2>3. QED
      BY <1>1, <1>4, <1>5, <2>1, <2>2 DEF TypeOK, IInv
  <1>11. QED
    BY <1>1, <1>4, <1>8, <1>9, <1>10 DEF IInv, voting, p

-----------------------------------------------------------------------------

(* submit_topdown_check *)

\* What a ballot finds: typed arguments for submit_vote.
LEMMA BallotTypes ==
  ASSUME TypeOK, initialized, NEW who \in Voters, NEW ch \in Ballots[who]
  PROVE  /\ ch \in Votes
         /\ ch.epoch \in Epochs
         /\ validators.weights[who] \in Nat
         /\ validators.total_weight \in Nat
         /\ voting \in VotingType
         /\ applied_topdown_nonce \in Nat
  BY CheckpointsAssumption, BallotsAssumption DEF TypeOK, Checkpoints, voting

\* The history of the rounds keeps its type.
LEMMA RecordBallotType ==
  ASSUME TypeOK, initialized, NEW who \in Voters, NEW ch \in Ballots[who], RecordBallot(who, ch)
  PROVE  ballots' \in [Epochs -> [Voters -> Votes \cup {NoVote}]]
  <1> DEFINE e == ch.epoch
             in == who \in topdown_checkpoint_voting'.epoch_vote_submissions[e].submitters
             row == IF in THEN [ballots[e] EXCEPT ![who] = ch]
                    ELSE [a \in Voters |-> NoVote]
  <1>1. ch \in Votes /\ e \in Epochs
    BY BallotTypes
  <1>2. ballots \in [Epochs -> [Voters -> Votes \cup {NoVote}]]
    BY DEF TypeOK
  <1>3. ballots' = [ballots EXCEPT ![e] = row]
    BY DEF RecordBallot
  <1> HIDE DEF e, in
  <1>4. row \in [Voters -> Votes \cup {NoVote}]
    BY <1>1, <1>2
  <1> HIDE DEF row
  <1>5. QED
    BY <1>1, <1>2, <1>3, <1>4

\* submit_vote, as submit_topdown_check calls it.
LEMMA VoteGood ==
  ASSUME IInv, initialized, NEW who \in Voters, NEW ch \in Ballots[who]
  PROVE  LET r == Vote(who, ch)
         IN  /\ r.voting \in VotingType
             /\ SoundVoting(r.voting)
             /\ r.voting.genesis_epoch = voting.genesis_epoch
             /\ r.voting.submission_period = voting.submission_period
             /\ r.voting.last_voting_executed_epoch = voting.last_voting_executed_epoch
             /\ r.to_execute \in Votes \cup {NoVote}
             /\ r.to_execute # NoVote =>
                  /\ r.voting = voting
                  /\ r.to_execute.epoch = ch.epoch
                  /\ LeaderWeight(who, ch) \in Nat
                  /\ TwoThirds(LeaderWeight(who, ch), validators.total_weight)
  <1> DEFINE w == validators.weights[who]
             total == validators.total_weight
             r == SubmitVote(voting, ch, ch.epoch, who, w, total)
             s == Counted(voting, ch, ch.epoch, who, w)
  <1>1. /\ ch \in Votes /\ ch.epoch \in Epochs /\ w \in Nat /\ total \in Nat
        /\ voting \in VotingType /\ SoundVoting(voting)
    BY BallotTypes DEF IInv
  <1>2. Vote(who, ch) = r /\ LeaderWeight(who, ch) = LoadMostVotedWeight(s)
    BY DEF Vote, LeaderWeight, Counted
  <1> HIDE DEF w, total
  <1>3. /\ r.voting \in VotingType
        /\ SoundVoting(r.voting)
        /\ r.voting.genesis_epoch = voting.genesis_epoch
        /\ r.voting.submission_period = voting.submission_period
        /\ r.voting.last_voting_executed_epoch = voting.last_voting_executed_epoch
        /\ r.to_execute \in Votes \cup {NoVote}
        /\ r.to_execute # NoVote =>
             /\ r.voting = voting
             /\ r.to_execute.epoch = ch.epoch
             /\ LoadMostVotedWeight(s) \in Nat
             /\ TwoThirds(LoadMostVotedWeight(s), total)
    BY <1>1, SubmitVoteSound
  <1> HIDE DEF r, s
  <1>4. QED
    BY <1>2, <1>3 DEF total

\* A submission that decides nothing executes at most the head of the queue.
LEMMA SubmitWithoutExecutionEnds ==
  ASSUME IInv, NEW who \in Voters, NEW ch \in Ballots[who],
         SubmitWithoutExecution(who, ch)
  PROVE  \E out : SubmissionEnds(out)
  <1> DEFINE r == Vote(who, ch)
             out == ExecuteNext(r.voting)
  <1>1. /\ CanExecuteNext(r.voting, applied_topdown_nonce)
        /\ Finish(out)
        /\ RecordBallot(who, ch)
        /\ initialized
        /\ UNCHANGED <<initialized, validators>>
    BY DEF SubmitWithoutExecution, Accepted
  <1>2. /\ r.voting \in VotingType
        /\ SoundVoting(r.voting)
        /\ r.voting.genesis_epoch = voting.genesis_epoch
        /\ r.voting.submission_period = voting.submission_period
        /\ r.voting.last_voting_executed_epoch = voting.last_voting_executed_epoch
    BY <1>1, VoteGood
  <1>3. applied_topdown_nonce \in Nat /\ validators.total_weight \in Nat /\ TypeOK
    BY <1>1, BallotTypes DEF IInv
  <1> HIDE DEF r
  <1>4. GoodOutcome(r.voting, applied_topdown_nonce, out)
    BY <1>1, <1>2, <1>3, ExecuteNextGood
  <1>5. OneOrTwo(out)
    BY <1>1, <1>2, <1>3, ExecuteNextShape DEF OneOrTwo
  <1> HIDE DEF out
  <1>6. GoodOutcome(voting, applied_topdown_nonce, out)
    BY <1>2, <1>4 DEF GoodOutcome
  <1>7. ballots' \in [Epochs -> [Voters -> Votes \cup {NoVote}]]
    BY <1>1, <1>3, RecordBallotType
  <1>8. QED
    BY <1>1, <1>6, <1>7, <1>5 DEF SubmissionEnds

\* A submission that decides the next epoch executes its checkpoint.
LEMMA SubmitWithMessagesEnds ==
  ASSUME IInv, NEW who \in Voters, NEW ch \in Ballots[who],
         SubmitWithMessages(who, ch)
  PROVE  \E out : SubmissionEnds(out)
  <1> DEFINE r == Vote(who, ch)
             won == r.to_execute
             w == LeaderWeight(who, ch)
             out == Outcome(MarkEpochExecuted(voting, won.epoch),
                            <<Execution(won, w)>>, won.top_down_msgs)
  <1>1. /\ won # NoVote
        /\ CanMarkEpochExecuted(r.voting, ch.epoch)
        /\ CanApply(applied_topdown_nonce, won.top_down_msgs)
        /\ Finish(Outcome(MarkEpochExecuted(r.voting, ch.epoch),
                          <<Execution(won, w)>>, won.top_down_msgs))
        /\ RecordBallot(who, ch)
        /\ initialized
        /\ UNCHANGED <<initialized, validators>>
    BY DEF SubmitWithMessages, Accepted
  <1>2. r.voting = voting /\ won \in Checkpoints /\ won.epoch = ch.epoch /\ w \in Nat
    BY <1>1, VoteGood DEF Checkpoints
  <1>3. /\ applied_topdown_nonce \in Nat /\ validators.total_weight \in Nat /\ TypeOK
        /\ voting \in VotingType /\ SoundVoting(voting)
    BY <1>1, BallotTypes DEF IInv
  <1>4. Finish(out) /\ CanMarkEpochExecuted(voting, won.epoch)
    BY <1>1, <1>2
  <1> HIDE DEF r, won, w
  <1>5. GoodOutcome(voting, applied_topdown_nonce, out)
    BY <1>1, <1>2, <1>3, <1>4, ExecuteOne
  <1>6. OneOrTwo(out)
    BY <1>2, <1>3, ExecutionFields DEF Outcome, OneOrTwo
  <1> HIDE DEF out
  <1>7. ballots' \in [Epochs -> [Voters -> Votes \cup {NoVote}]]
    BY <1>1, <1>3, RecordBallotType
  <1>8. QED
    BY <1>1, <1>4, <1>5, <1>7, <1>6 DEF SubmissionEnds

\* A submission that decides the next epoch for a checkpoint without messages executes
\* it and then at most the head of the queue.
LEMMA SubmitEmptyEnds ==
  ASSUME IInv, NEW who \in Voters, NEW ch \in Ballots[who], SubmitEmpty(who, ch)
  PROVE  \E out : SubmissionEnds(out)
  <1> DEFINE r == Vote(who, ch)
             won == r.to_execute
             w == LeaderWeight(who, ch)
             marked == MarkEpochExecuted(r.voting, ch.epoch)
             one == Outcome(marked, <<Execution(won, w)>>, won.top_down_msgs)
             two == ExecuteNext(marked)
             out == Outcome(two.voting, <<Execution(won, w)>> \o two.runs, two.msgs)
  <1>1. /\ won # NoVote
        /\ won.top_down_msgs = <<>>
        /\ CanMarkEpochExecuted(r.voting, ch.epoch)
        /\ CanExecuteNext(marked, applied_topdown_nonce)
        /\ Finish(out)
        /\ RecordBallot(who, ch)
        /\ initialized
        /\ UNCHANGED <<initialized, validators>>
    BY DEF SubmitEmpty, Accepted
  <1>2. r.voting = voting /\ won \in Checkpoints /\ won.epoch = ch.epoch /\ w \in Nat
    BY <1>1, VoteGood DEF Checkpoints
  <1>3. /\ applied_topdown_nonce \in Nat /\ validators.total_weight \in Nat /\ TypeOK
        /\ voting \in VotingType /\ SoundVoting(voting)
    BY <1>1, BallotTypes DEF IInv
  <1>4. marked = MarkEpochExecuted(voting, won.epoch)
        /\ CanMarkEpochExecuted(voting, won.epoch)
    BY <1>1, <1>2
  <1>5. one.voting = marked /\ one.runs = <<Execution(won, w)>>
    BY DEF Outcome
  <1> HIDE DEF r, won, w, marked
  <1>6. CanApply(applied_topdown_nonce, won.top_down_msgs)
    BY <1>1 DEF CanApply
  <1>7. GoodOutcome(voting, applied_topdown_nonce, one)
    BY <1>2, <1>3, <1>4, <1>6, ExecuteOne
  <1> HIDE DEF one
  <1>8. marked \in VotingType /\ SoundVoting(marked)
    BY <1>5, <1>7 DEF GoodOutcome
  <1>9. GoodOutcome(marked, applied_topdown_nonce, two)
    BY <1>1, <1>3, <1>8, ExecuteNextGood
  <1>10. out = Outcome(two.voting, one.runs \o two.runs, two.msgs)
    BY <1>5
  <1>11. OneOrTwo(out)
    <2> DEFINE x == Execution(won, w)
    <2>1. x \in Executions /\ x.ch = won
      BY <1>2, <1>3, ExecutionFields
    <2>2. out.runs = <<x>> \o two.runs /\ out.msgs = two.msgs
      BY DEF Outcome
    <2>3. \/ two.runs = <<>> /\ two.msgs = <<>>
          \/ \E y \in Executions : two.runs = <<y>> /\ two.msgs = y.ch.top_down_msgs
      BY <1>1, <1>3, <1>8, ExecuteNextShape
    <2> HIDE DEF x, two, out
    <2>4. CASE two.runs = <<>> /\ two.msgs = <<>>
      BY <1>1, <2>1, <2>2, <2>4 DEF OneOrTwo
    <2>5. ASSUME NEW y \in Executions, two.runs = <<y>>, two.msgs = y.ch.top_down_msgs
          PROVE  OneOrTwo(out)
      <3>1. out.runs = <<x, y>>
        BY <2>1, <2>2, <2>5, TwoEntries
      <3>2. QED
        BY <1>1, <2>1, <2>2, <2>5, <3>1 DEF OneOrTwo
    <2>6. QED
      BY <2>3, <2>4, <2>5
  <1> HIDE DEF two, out
  <1>12. GoodOutcome(voting, applied_topdown_nonce, out)
    BY <1>3, <1>5, <1>7, <1>9, <1>10, ExecuteBoth
  <1>13. ballots' \in [Epochs -> [Voters -> Votes \cup {NoVote}]]
    BY <1>1, <1>3, RecordBallotType
  <1>14. QED
    BY <1>1, <1>12, <1>13, <1>11 DEF SubmissionEnds

\* Every submission ends that way, and keeps the invariant.
LEMMA SubmitEnds ==
  ASSUME IInv, NEW who \in Voters, NEW ch \in Ballots[who], SubmitTopdownCheck(who, ch)
  PROVE  \E out : SubmissionEnds(out)
  BY SubmitWithoutExecutionEnds, SubmitWithMessagesEnds, SubmitEmptyEnds
     DEF SubmitTopdownCheck

\* So every submission keeps the invariant.
LEMMA SubmitGood ==
  ASSUME IInv, NEW who \in Voters, NEW ch \in Ballots[who], SubmitTopdownCheck(who, ch)
  PROVE  IInv'
  BY SubmitEnds, FinishGood DEF SubmissionEnds

-----------------------------------------------------------------------------

(* The invariant *)

\* The constructor establishes the invariant.
LEMMA InitGood == Init => IInv
  <1> SUFFICES ASSUME Init PROVE IInv
    OBVIOUS
  <1> DEFINE vt == NewVoting(0, CheckPeriodParam)
  <1>1. SoundVoting(vt)
    BY NewVotingEmpty
  <1>2. voting = vt
    BY DEF Init, voting, vt
  <1>3. NoMembership \in [Voters -> Nat]
    BY DEF NoMembership
  <1>4. TypeOK
    <2>1. validators \in [weights : [Voters -> Nat], total_weight : Nat]
      BY <1>3 DEF Init
    <2>2. ballots \in [Epochs -> [Voters -> Votes \cup {NoVote}]]
      BY DEF Init
    <2>3. executed \in Seq(Executions) /\ delivered \in Seq(Nat)
      BY DEF Init
    <2>4. initialized \in BOOLEAN /\ applied_topdown_nonce \in Nat
      BY DEF Init
    <2>5. QED
      BY <2>1, <2>2, <2>3, <2>4 DEF TypeOK, Init
  <1>5. QED
    BY <1>1, <1>2, <1>4 DEF Init, IInv, ExecutedInOrder, DeliveredInOrder

\* init_genesis_epoch replaces the voting while nothing was executed.
LEMMA InitGenesisEpochGood ==
  ASSUME IInv, NEW genesis \in GenesisEpochs, InitGenesisEpoch(genesis)
  PROVE  IInv'
  <1> DEFINE vt == NewVoting(genesis, TopdownCheckPeriod)
  <1>1. /\ vt \in VotingType
        /\ SoundVoting(vt)
        /\ vt.genesis_epoch = genesis
        /\ vt.submission_period = TopdownCheckPeriod
        /\ vt.last_voting_executed_epoch = genesis
    BY GenesisAssumption, PeriodPositive, NewVotingSound
  <1> HIDE DEF vt
  <1>2. /\ topdown_checkpoint_voting' = vt
        /\ initialized' = TRUE
        /\ UNCHANGED <<validators, applied_topdown_nonce, executed, delivered, ballots>>
        /\ executed = <<>>
    BY DEF InitGenesisEpoch, IInv, vt
  <1>3. TypeOK'
    BY <1>1, <1>2 DEF IInv, TypeOK
  <1>4. genesis \in Nat /\ TopdownCheckPeriod \in Nat
    BY GenesisAssumption, PeriodPositive
  <1>5. ExecutedInOrder'
    BY <1>1, <1>2, <1>4 DEF ExecutedInOrder, voting
  <1>6. DeliveredInOrder'
    BY <1>2 DEF IInv, DeliveredInOrder
  <1>7. QED
    BY <1>1, <1>2, <1>3, <1>5, <1>6 DEF IInv, voting

\* set_membership touches the weights only.
LEMMA SetMembershipGood ==
  ASSUME IInv, NEW m \in Memberships, SetMembership(m)
  PROVE  IInv'
  <1>1. validators' \in [weights : [Voters -> Nat], total_weight : Nat]
    <2>1. m \in [Voters -> Nat] /\ TotalWeight(m) \in Nat
      BY MembershipsAssumption, VotersAssumption, LedgerTotal DEF TotalWeight
    <2>2. QED
      BY <2>1 DEF SetMembership
  <1>2. TypeOK'
    BY <1>1 DEF SetMembership, IInv, TypeOK
  <1>3. QED
    BY <1>2 DEF SetMembership, IInv, ExecutedInOrder, DeliveredInOrder, voting

\* Every step keeps the invariant.
LEMMA NextGood == IInv /\ [Next]_vars => IInv'
  <1> SUFFICES ASSUME IInv, [Next]_vars PROVE IInv'
    OBVIOUS
  <1>1. ASSUME NEW genesis \in GenesisEpochs, InitGenesisEpoch(genesis) PROVE IInv'
    BY <1>1, InitGenesisEpochGood
  <1>2. ASSUME NEW m \in Memberships, SetMembership(m) PROVE IInv'
    BY <1>2, SetMembershipGood
  <1>3. ASSUME NEW who \in Voters, NEW ch \in Ballots[who], SubmitTopdownCheck(who, ch)
        PROVE  IInv'
    BY <1>3, SubmitGood
  <1>4. CASE UNCHANGED vars
    BY <1>4 DEF vars, state, IInv, TypeOK, ExecutedInOrder, DeliveredInOrder, voting
  <1>5. QED
    BY <1>1, <1>2, <1>3, <1>4 DEF Next

\* The invariant holds in every reachable state.
LEMMA InvariantHolds == Spec => []IInv
  BY InitGood, NextGood, PTL DEF Spec

\* Every variable keeps its type, whatever the period the constructor was given, whatever
\* the validators submit and however the memberships change: the constructor's placeholder
\* voting stays as it is until init_genesis_epoch replaces it by one with a positive
\* period, and no branch of submit_topdown_check leaves a malformed submission, queue or
\* history behind.
THEOREM TypeCorrect == Spec => []TypeOK
  <1>1. IInv => TypeOK
    BY DEF IInv
  <1>2. QED
    BY <1>1, InvariantHolds, PTL

\* Epochs are executed one by one from the genesis epoch on, with no gap and no
\* repeat, for any number of validators, any weights and any reconfigurations.
THEOREM EpochsInOrder == Spec => []ExecutedInOrder
  <1>1. IInv => ExecutedInOrder
    BY DEF IInv
  <1>2. QED
    BY <1>1, InvariantHolds, PTL

\* The parent's messages are applied exactly once and in the order of their nonces,
\* for any number of validators, any weights and any reconfigurations.
THEOREM MessagesInOrder == Spec => []DeliveredInOrder
  <1>1. IInv => DeliveredInOrder
    BY DEF IInv
  <1>2. QED
    BY <1>1, InvariantHolds, PTL

-----------------------------------------------------------------------------

(* Quorums, when the total weight of the validators does not change *)

\* A reconfiguration may exchange the validators and shift their weights, but not
\* change the total.  A subnet that is never reconfigured is a special case.
FixedTotal == \A m, n \in Memberships : TotalWeight(m) = TotalWeight(n)

\* The queue is empty until the first membership is installed.
MembershipKnown ==
  \/ validators.weights = NoMembership /\ voting.executable_epoch_queue = {}
  \/ \E m \in Memberships : validators.total_weight = TotalWeight(m)

\* The inductive invariant for the quorums: what waits in the queue keeps its quorum, and
\* epochs are aligned once there is a period to align them with.
QInv ==
  /\ IInv
  /\ initialized => EpochCanVote(voting, voting.last_voting_executed_epoch)
  /\ MembershipKnown
  /\ QueueReady
  /\ QuorumExecuted

\* What a handler may do to the queue, and what it may execute.
ReadyOutcome(out, total) ==
  /\ EpochCanVote(out.voting, out.voting.last_voting_executed_epoch)
  /\ \A f \in out.voting.executable_epoch_queue : ReadyEpoch(out.voting, f, total)
  /\ \A i \in DOMAIN out.runs : TwoThirds(out.runs[i].weight, out.runs[i].total)

\* Executing a checkpoint that has a quorum at the next, aligned epoch.
LEMMA ExecuteOneReady ==
  ASSUME NEW vt \in VotingType, NEW ch \in Checkpoints, NEW weight \in Nat,
         validators.total_weight \in Nat,
         EpochCanVote(vt, vt.last_voting_executed_epoch),
         EpochCanVote(vt, ch.epoch), CanMarkEpochExecuted(vt, ch.epoch),
         \A f \in vt.executable_epoch_queue : ReadyEpoch(vt, f, validators.total_weight),
         TwoThirds(weight, validators.total_weight)
  PROVE  ReadyOutcome(Outcome(MarkEpochExecuted(vt, ch.epoch),
                              <<Execution(ch, weight)>>, ch.top_down_msgs),
                      validators.total_weight)
  <1> DEFINE n == MarkEpochExecuted(vt, ch.epoch)
             x == Execution(ch, weight)
             out == Outcome(n, <<x>>, ch.top_down_msgs)
             total == validators.total_weight
  <1>1. ch.epoch \in Epochs
    BY CheckpointsAssumption
  <1>2. /\ \A f \in n.executable_epoch_queue : ReadyEpoch(n, f, total)
        /\ EpochCanVote(n, n.last_voting_executed_epoch)
    BY <1>1, MarkReady
  <1>3. x.weight = weight /\ x.total = total
    BY DEF Execution
  <1>4. out.voting = n /\ out.runs = <<x>>
    BY DEF Outcome
  <1> HIDE DEF n, x, out, total
  <1>5. \A i \in DOMAIN out.runs : out.runs[i] = x
    BY <1>4
  <1>6. ReadyOutcome(out, total)
    BY <1>2, <1>3, <1>4, <1>5 DEF ReadyOutcome, total
  <1>7. QED
    BY <1>6 DEF out, n, x, total

\* execute_next_topdown_epoch executes a quorum, or nothing.
LEMMA ExecuteNextReady ==
  ASSUME NEW vt \in VotingType, NEW nonce \in Nat, validators.total_weight \in Nat,
         EpochCanVote(vt, vt.last_voting_executed_epoch),
         \A f \in vt.executable_epoch_queue : ReadyEpoch(vt, f, validators.total_weight),
         CanExecuteNext(vt, nonce)
  PROVE  ReadyOutcome(ExecuteNext(vt), validators.total_weight)
  <1>1. CASE HasDueEpoch(vt)
    <2> DEFINE ch == NextExecutableVote(vt)
               w == LoadMostVotedWeight(DueSubmission(vt))
               e == Min(vt.executable_epoch_queue)
    <2>1. ch \in Checkpoints /\ w \in Nat /\ e \in vt.executable_epoch_queue
      BY <1>1, DueEpoch DEF CanExecuteNext, Checkpoints
    <2>2. CanMarkEpochExecuted(vt, ch.epoch)
      BY <1>1 DEF CanExecuteNext
    <2>3. ExecuteNext(vt) = Outcome(MarkEpochExecuted(vt, ch.epoch),
                                    <<Execution(ch, w)>>, ch.top_down_msgs)
      BY <1>1 DEF ExecuteNext
    <2>4. ReadyEpoch(vt, e, validators.total_weight)
      BY <2>1
    <2>5. ch.epoch = e /\ EpochCanVote(vt, e) /\ TwoThirds(w, validators.total_weight)
      BY <2>4 DEF ReadyEpoch, NextExecutableVote, LoadMostVotedSubmission, DueSubmission
    <2> HIDE DEF ch, w, e
    <2>6. QED
      BY <2>1, <2>2, <2>3, <2>5, ExecuteOneReady
  <1>2. CASE ~HasDueEpoch(vt)
    <2> DEFINE out == Outcome(vt, <<>>, <<>>)
    <2>1. ExecuteNext(vt) = out
      BY <1>2 DEF ExecuteNext
    <2>2. out.voting = vt /\ out.runs = <<>>
      BY DEF Outcome
    <2> HIDE DEF out
    <2>3. QED
      BY <2>1, <2>2 DEF ReadyOutcome
  <1>3. QED
    BY <1>1, <1>2

\* The ballot itself keeps the queue ready.
LEMMA VoteReady ==
  ASSUME QInv, NEW who \in Voters, NEW ch \in Ballots[who], Accepted(who, ch)
  PROVE  LET r == Vote(who, ch)
         IN  /\ EpochCanVote(r.voting, r.voting.last_voting_executed_epoch)
             /\ \A f \in r.voting.executable_epoch_queue :
                  ReadyEpoch(r.voting, f, validators.total_weight)
  <1> DEFINE w == validators.weights[who]
             total == validators.total_weight
             r == SubmitVote(voting, ch, ch.epoch, who, w, total)
  <1>1. /\ ch \in Votes /\ ch.epoch \in Epochs /\ w \in Nat /\ total \in Nat
        /\ voting \in VotingType /\ SoundVoting(voting)
    BY BallotTypes DEF QInv, IInv, Accepted
  <1>2. EpochCanVote(voting, ch.epoch) /\ ~IsEpochExecuted(voting, ch.epoch)
    BY DEF Accepted, CanSubmitVote
  <1>3. Vote(who, ch) = r
    BY DEF Vote
  <1>4. \A f \in voting.executable_epoch_queue : ReadyEpoch(voting, f, total)
    BY DEF QInv, QueueReady
  <1> HIDE DEF w, total
  <1>5. \A f \in r.voting.executable_epoch_queue : ReadyEpoch(r.voting, f, total)
    BY <1>1, <1>2, <1>4, SubmitVoteReady
  <1>6. /\ r.voting.genesis_epoch = voting.genesis_epoch
        /\ r.voting.submission_period = voting.submission_period
        /\ r.voting.last_voting_executed_epoch = voting.last_voting_executed_epoch
    BY <1>1, SubmitVoteSound
  <1> HIDE DEF r
  <1>7. EpochCanVote(r.voting, r.voting.last_voting_executed_epoch)
    BY <1>6 DEF QInv, EpochCanVote, Accepted
  <1>8. QED
    BY <1>3, <1>5, <1>7 DEF total

\* Executions with a quorum, one run of them after the other.
LEMMA ConcatQuorum ==
  ASSUME NEW s \in Seq(Executions), NEW t \in Seq(Executions),
         \A i \in DOMAIN s : TwoThirds(s[i].weight, s[i].total),
         \A i \in DOMAIN t : TwoThirds(t[i].weight, t[i].total)
  PROVE  /\ s \o t \in Seq(Executions)
         /\ \A i \in DOMAIN (s \o t) :
              TwoThirds((s \o t)[i].weight, (s \o t)[i].total)
  <1> DEFINE all == s \o t
             n == Len(s)
             m == Len(t)
  <1>1. /\ all \in Seq(Executions)
        /\ DOMAIN all = 1..(n + m)
        /\ \A i \in 1..(n + m) : all[i] = IF i <= n THEN s[i] ELSE t[i - n]
        /\ n \in Nat /\ m \in Nat
        /\ DOMAIN s = 1..n /\ DOMAIN t = 1..m
    BY ConcatIndices
  <1> HIDE DEF all, n, m
  <1>2. ASSUME NEW i \in DOMAIN all
        PROVE  TwoThirds(all[i].weight, all[i].total)
    <2>1. CASE i <= n
      BY <1>1, <2>1
    <2>2. CASE i > n
      <3>1. i - n \in DOMAIN t /\ all[i] = t[i - n]
        BY <1>1, <2>2
      <3>2. QED
        BY <3>1
    <2>3. QED
      BY <1>1, <2>1, <2>2
  <1>3. QED
    BY <1>1, <1>2 DEF all

\* What Finish makes of a ready outcome.
LEMMA FinishReady ==
  ASSUME QInv, IInv', NEW who \in Voters, validators.weights[who] > 0,
         NEW out, out.runs \in Seq(Executions),
         ReadyOutcome(out, validators.total_weight),
         Finish(out), UNCHANGED <<initialized, validators>>
  PROVE  QInv'
  <1>1. /\ topdown_checkpoint_voting' = out.voting
        /\ executed' = executed \o out.runs
        /\ validators' = validators
    BY DEF Finish
  <1>2. validators.weights # NoMembership
    BY DEF NoMembership
  <1>3. MembershipKnown'
    BY <1>1, <1>2 DEF QInv, MembershipKnown
  <1>4. QueueReady'
    BY <1>1 DEF ReadyOutcome, QueueReady, voting
  <1>5. (initialized => EpochCanVote(voting, voting.last_voting_executed_epoch))'
    BY <1>1 DEF ReadyOutcome, voting
  <1>6. QuorumExecuted'
    <2>1. executed \in Seq(Executions)
      BY DEF QInv, IInv, TypeOK
    <2>2. \A i \in DOMAIN executed : TwoThirds(executed[i].weight, executed[i].total)
      BY DEF QInv, QuorumExecuted
    <2>3. \A i \in DOMAIN out.runs : TwoThirds(out.runs[i].weight, out.runs[i].total)
      BY DEF ReadyOutcome
    <2> DEFINE runs == out.runs
    <2>4. executed' = executed \o runs
      BY <1>1
    <2>5. runs \in Seq(Executions)
      OBVIOUS
    <2>6. \A i \in DOMAIN runs : TwoThirds(runs[i].weight, runs[i].total)
      BY <2>3
    <2> HIDE DEF runs
    <2>7. QED
      BY <2>1, <2>2, <2>4, <2>5, <2>6, ConcatQuorum DEF QuorumExecuted
  <1>7. QED
    BY <1>3, <1>4, <1>5, <1>6 DEF QInv

\* A submission that decides nothing: the head of the queue has a quorum.
LEMMA SubmitWithoutExecutionReady ==
  ASSUME QInv, NEW who \in Voters, NEW ch \in Ballots[who],
         SubmitWithoutExecution(who, ch)
  PROVE  QInv'
  <1> DEFINE r == Vote(who, ch)
             out == ExecuteNext(r.voting)
  <1>1. /\ Accepted(who, ch)
        /\ CanExecuteNext(r.voting, applied_topdown_nonce)
        /\ Finish(out)
        /\ UNCHANGED <<initialized, validators>>
    BY DEF SubmitWithoutExecution
  <1>2. IInv /\ IInv' /\ validators.weights[who] > 0 /\ initialized
    BY <1>1, SubmitGood DEF QInv, Accepted, SubmitTopdownCheck
  <1>3. r.voting \in VotingType /\ SoundVoting(r.voting)
    BY <1>1, <1>2, VoteGood
  <1>4. applied_topdown_nonce \in Nat /\ validators.total_weight \in Nat
    BY <1>1, <1>2, BallotTypes DEF IInv
  <1>5. /\ EpochCanVote(r.voting, r.voting.last_voting_executed_epoch)
        /\ \A f \in r.voting.executable_epoch_queue :
             ReadyEpoch(r.voting, f, validators.total_weight)
    BY <1>1, VoteReady
  <1> HIDE DEF r
  <1>6. ReadyOutcome(out, validators.total_weight)
    BY <1>1, <1>3, <1>4, <1>5, ExecuteNextReady
  <1>7. GoodOutcome(r.voting, applied_topdown_nonce, out)
    BY <1>1, <1>3, <1>4, ExecuteNextGood
  <1> HIDE DEF out
  <1>8. out.runs \in Seq(Executions)
    BY <1>7 DEF GoodOutcome
  <1>9. QED
    BY <1>1, <1>2, <1>6, <1>8, FinishReady

\* A submission that decides the next epoch: the ballot just counted makes the quorum.
LEMMA SubmitWithMessagesReady ==
  ASSUME QInv, NEW who \in Voters, NEW ch \in Ballots[who],
         SubmitWithMessages(who, ch)
  PROVE  QInv'
  <1> DEFINE r == Vote(who, ch)
             won == r.to_execute
             w == LeaderWeight(who, ch)
             out == Outcome(MarkEpochExecuted(voting, won.epoch),
                            <<Execution(won, w)>>, won.top_down_msgs)
  <1>1. /\ Accepted(who, ch)
        /\ won # NoVote
        /\ CanMarkEpochExecuted(r.voting, ch.epoch)
        /\ CanApply(applied_topdown_nonce, won.top_down_msgs)
        /\ Finish(Outcome(MarkEpochExecuted(r.voting, ch.epoch),
                          <<Execution(won, w)>>, won.top_down_msgs))
        /\ UNCHANGED <<initialized, validators>>
    BY DEF SubmitWithMessages
  <1>2. IInv /\ IInv' /\ validators.weights[who] > 0 /\ initialized
    BY <1>1, SubmitGood DEF QInv, Accepted, SubmitTopdownCheck
  <1>3. /\ r.voting = voting /\ won \in Checkpoints /\ won.epoch = ch.epoch /\ w \in Nat
        /\ TwoThirds(w, validators.total_weight)
    BY <1>1, <1>2, VoteGood DEF Checkpoints
  <1>4. /\ applied_topdown_nonce \in Nat /\ validators.total_weight \in Nat
        /\ voting \in VotingType /\ SoundVoting(voting)
    BY <1>1, <1>2, BallotTypes DEF IInv
  <1>5. /\ EpochCanVote(voting, won.epoch)
        /\ EpochCanVote(voting, voting.last_voting_executed_epoch)
        /\ \A f \in voting.executable_epoch_queue :
             ReadyEpoch(voting, f, validators.total_weight)
    BY <1>1, <1>3 DEF Accepted, CanSubmitVote, QInv, QueueReady
  <1>6. Finish(out) /\ CanMarkEpochExecuted(voting, won.epoch)
    BY <1>1, <1>3
  <1> HIDE DEF r, won, w
  <1>7. ReadyOutcome(out, validators.total_weight)
    BY <1>3, <1>4, <1>5, <1>6, ExecuteOneReady
  <1>8. GoodOutcome(voting, applied_topdown_nonce, out)
    BY <1>1, <1>3, <1>4, <1>6, ExecuteOne
  <1> HIDE DEF out
  <1>9. out.runs \in Seq(Executions)
    BY <1>8 DEF GoodOutcome
  <1>10. QED
    BY <1>1, <1>2, <1>6, <1>7, <1>9, FinishReady

\* A submission that decides the next epoch for a checkpoint without messages: both the
\* checkpoint and the head of the queue have a quorum.
LEMMA SubmitEmptyReady ==
  ASSUME QInv, NEW who \in Voters, NEW ch \in Ballots[who], SubmitEmpty(who, ch)
  PROVE  QInv'
  <1> DEFINE r == Vote(who, ch)
             won == r.to_execute
             w == LeaderWeight(who, ch)
             marked == MarkEpochExecuted(r.voting, ch.epoch)
             one == Outcome(marked, <<Execution(won, w)>>, won.top_down_msgs)
             two == ExecuteNext(marked)
             out == Outcome(two.voting, <<Execution(won, w)>> \o two.runs, two.msgs)
             total == validators.total_weight
  <1>1. /\ Accepted(who, ch)
        /\ won # NoVote
        /\ CanMarkEpochExecuted(r.voting, ch.epoch)
        /\ CanExecuteNext(marked, applied_topdown_nonce)
        /\ Finish(out)
        /\ UNCHANGED <<initialized, validators>>
    BY DEF SubmitEmpty
  <1>2. IInv /\ IInv' /\ validators.weights[who] > 0 /\ initialized
    BY <1>1, SubmitGood DEF QInv, Accepted, SubmitTopdownCheck
  <1>3. /\ r.voting = voting /\ won \in Checkpoints /\ won.epoch = ch.epoch /\ w \in Nat
        /\ TwoThirds(w, total)
    BY <1>1, <1>2, VoteGood DEF Checkpoints
  <1>4. /\ applied_topdown_nonce \in Nat /\ total \in Nat
        /\ voting \in VotingType /\ SoundVoting(voting)
    BY <1>1, <1>2, BallotTypes DEF IInv
  <1>5. /\ EpochCanVote(voting, won.epoch)
        /\ EpochCanVote(voting, voting.last_voting_executed_epoch)
        /\ \A f \in voting.executable_epoch_queue : ReadyEpoch(voting, f, total)
    BY <1>1, <1>3 DEF Accepted, CanSubmitVote, QInv, QueueReady
  <1>6. /\ marked = MarkEpochExecuted(voting, won.epoch)
        /\ CanMarkEpochExecuted(voting, won.epoch)
    BY <1>1, <1>3
  <1>7. Execution(won, w) \in Executions /\ Execution(won, w).weight = w
        /\ Execution(won, w).total = total
    BY <1>3, <1>4 DEF Execution, Executions
  <1> HIDE DEF r, won, w, marked
  <1>8. ReadyOutcome(one, total)
    BY <1>3, <1>4, <1>5, <1>6, ExecuteOneReady
  <1>9. marked \in VotingType /\ SoundVoting(marked)
    BY <1>3, <1>4, <1>6, CheckpointsAssumption, MarkEpochExecutedFields, MarkSound
  <1>10. one.voting = marked
    BY DEF Outcome
  <1> HIDE DEF one, total
  <1>11. ReadyOutcome(two, total) /\ GoodOutcome(marked, applied_topdown_nonce, two)
    BY <1>1, <1>4, <1>8, <1>9, <1>10, ExecuteNextReady, ExecuteNextGood
       DEF ReadyOutcome, total
  <1> HIDE DEF two
  <1>12. /\ out.voting = two.voting
         /\ out.runs = <<Execution(won, w)>> \o two.runs
    BY DEF Outcome
  <1> DEFINE x == Execution(won, w)
             first == <<x>>
             rest == two.runs
  <1>13. /\ x \in Executions /\ TwoThirds(x.weight, x.total)
         /\ rest \in Seq(Executions)
         /\ \A i \in DOMAIN rest : TwoThirds(rest[i].weight, rest[i].total)
    BY <1>3, <1>7, <1>11 DEF GoodOutcome, ReadyOutcome
  <1> HIDE DEF x, out
  <1>14. /\ first \in Seq(Executions)
         /\ \A i \in DOMAIN first : TwoThirds(first[i].weight, first[i].total)
         /\ out.runs = first \o rest
    BY <1>12, <1>13 DEF x
  <1> HIDE DEF first, rest
  <1>15. /\ out.runs \in Seq(Executions)
         /\ \A i \in DOMAIN out.runs : TwoThirds(out.runs[i].weight, out.runs[i].total)
    BY <1>13, <1>14, ConcatQuorum
  <1>16. ReadyOutcome(out, total)
    BY <1>11, <1>12, <1>15 DEF ReadyOutcome
  <1>17. QED
    BY <1>1, <1>2, <1>15, <1>16, FinishReady DEF total

\* Every step keeps the invariant of the quorums.
LEMMA NextReady ==
  ASSUME FixedTotal
  PROVE  QInv /\ [Next]_vars => QInv'
  <1> SUFFICES ASSUME QInv, [Next]_vars PROVE QInv'
    OBVIOUS
  <1>1. IInv'
    BY NextGood DEF QInv
  <1>2. ASSUME NEW genesis \in GenesisEpochs, InitGenesisEpoch(genesis) PROVE QInv'
    <2> DEFINE vt == NewVoting(genesis, TopdownCheckPeriod)
    <2>1. /\ vt.genesis_epoch = genesis
          /\ vt.submission_period = TopdownCheckPeriod
          /\ vt.last_voting_executed_epoch = genesis
          /\ vt.executable_epoch_queue = {}
      BY GenesisAssumption, PeriodPositive, NewVotingSound
    <2> HIDE DEF vt
    <2>2. voting' = vt /\ validators' = validators /\ executed' = executed
      BY <1>2 DEF InitGenesisEpoch, voting, vt
    <2>3. (initialized => EpochCanVote(voting, voting.last_voting_executed_epoch))'
      BY <2>1, <2>2, GenesisAssumption, PeriodPositive DEF EpochCanVote
    <2>4. QueueReady' /\ MembershipKnown' /\ QuorumExecuted'
      BY <2>1, <2>2 DEF QueueReady, MembershipKnown, QuorumExecuted, QInv
    <2>5. QED
      BY <1>1, <2>3, <2>4 DEF QInv
  <1>3. ASSUME NEW m \in Memberships, SetMembership(m) PROVE QInv'
    <2>1. /\ voting' = voting /\ executed' = executed /\ initialized' = initialized
          /\ validators' = [weights |-> m, total_weight |-> TotalWeight(m)]
      BY <1>3 DEF SetMembership, voting
    <2>2. validators'.total_weight = TotalWeight(m)
      BY <2>1
    <2>3. QueueReady'
      <3>1. CASE voting.executable_epoch_queue = {}
        BY <2>1, <3>1 DEF QueueReady
      <3>2. CASE \E k \in Memberships : validators.total_weight = TotalWeight(k)
        <4>1. validators'.total_weight = validators.total_weight
          BY <2>2, <3>2 DEF FixedTotal
        <4>2. QED
          BY <2>1, <4>1 DEF QueueReady, QInv
      <3>3. QED
        BY <3>1, <3>2 DEF QInv, MembershipKnown
    <2>4. (initialized => EpochCanVote(voting, voting.last_voting_executed_epoch))'
      BY <2>1 DEF QInv
    <2>5. MembershipKnown' /\ QuorumExecuted'
      BY <2>1, <2>2 DEF QInv, MembershipKnown, QuorumExecuted
    <2>6. QED
      BY <1>1, <2>3, <2>4, <2>5 DEF QInv
  <1>4. ASSUME NEW who \in Voters, NEW ch \in Ballots[who], SubmitTopdownCheck(who, ch)
        PROVE  QInv'
    <2>1. CASE SubmitWithoutExecution(who, ch)
      BY <2>1, SubmitWithoutExecutionReady
    <2>2. CASE SubmitWithMessages(who, ch)
      BY <2>2, SubmitWithMessagesReady
    <2>3. CASE SubmitEmpty(who, ch)
      BY <2>3, SubmitEmptyReady
    <2>4. QED
      BY <1>4, <2>1, <2>2, <2>3 DEF SubmitTopdownCheck
  <1>5. CASE UNCHANGED vars
    BY <1>1, <1>5 DEF vars, state, QInv, MembershipKnown, QueueReady, QuorumExecuted, voting
  <1>6. QED
    BY <1>2, <1>3, <1>4, <1>5 DEF Next

\* The constructor establishes the invariant of the quorums.
LEMMA InitReady == Init => QInv
  <1> SUFFICES ASSUME Init PROVE QInv
    OBVIOUS
  <1> DEFINE vt == NewVoting(0, CheckPeriodParam)
  <1>1. vt.executable_epoch_queue = {}
    BY NewVotingEmpty
  <1> HIDE DEF vt
  <1>2. /\ voting = vt /\ validators.weights = NoMembership /\ executed = <<>>
        /\ ~initialized
    BY DEF Init, voting, vt
  <1>3. QED
    BY <1>1, <1>2, InitGood DEF QInv, MembershipKnown, QueueReady, QuorumExecuted

\* As long as the total weight does not change, every epoch in the queue stays ready:
\* its leader is stored and keeps a quorum, and no ballot for it can abort its round,
\* so get_next_executable_vote never reaches its unwrap on None.  Without FixedTotal
\* this is false: a queued epoch may lose its leader.
THEOREM QueueStaysReady == FixedTotal => (Spec => []QueueReady)
  <1> SUFFICES ASSUME FixedTotal PROVE Spec => []QueueReady
    OBVIOUS
  <1>1. QInv /\ [Next]_vars => QInv'
    BY NextReady
  <1>2. QInv => QueueReady
    BY DEF QInv
  <1>3. QED
    BY <1>1, <1>2, InitReady, PTL DEF Spec

\* As long as the total weight does not change, no checkpoint is executed without
\* more than two thirds of the total weight behind it, also not one from the queue,
\* whose weight is not looked at again.
THEOREM QuorumBehindExecution == FixedTotal => (Spec => []QuorumExecuted)
  <1> SUFFICES ASSUME FixedTotal PROVE Spec => []QuorumExecuted
    OBVIOUS
  <1>1. QInv /\ [Next]_vars => QInv'
    BY NextReady
  <1>2. QInv => QuorumExecuted
    BY DEF QInv
  <1>3. QED
    BY <1>1, <1>2, InitReady, PTL DEF Spec

-----------------------------------------------------------------------------

(* TopDownVoting implements CheckpointLog *)

CheckpointsOf(runs) == [i \in DOMAIN runs |-> runs[i].ch]

\* One more execution is one more entry of the log.
LEMMA LogAppend ==
  ASSUME NEW runs \in Seq(Executions), NEW x \in Executions
  PROVE  /\ runs \o <<x>> \in Seq(Executions)
         /\ Len(CheckpointsOf(runs)) = Len(runs)
         /\ CheckpointsOf(runs) \in Seq(Checkpoints)
         /\ CheckpointsOf(runs \o <<x>>) = Append(CheckpointsOf(runs), x.ch)
  <1> DEFINE n == Len(runs)
             both == runs \o <<x>>
  <1>1. /\ both \in Seq(Executions) /\ n \in Nat
        /\ DOMAIN runs = 1..n /\ DOMAIN both = 1..(n + 1)
        /\ \A i \in 1..n : both[i] = runs[i]
        /\ both[n + 1] = x
    <2>1. both = Append(runs, x)
      OBVIOUS
    <2>2. QED
      BY <2>1
  <1>2. \A i \in 1..n : runs[i].ch \in Checkpoints
    <2>1. \A i \in 1..n : runs[i] \in Executions
      BY <1>1
    <2>2. QED
      BY <2>1 DEF Executions
  <1>3. x.ch \in Checkpoints
    BY DEF Executions
  <1> DEFINE l == CheckpointsOf(runs)
             k == CheckpointsOf(both)
  <1>4. /\ DOMAIN l = 1..n /\ \A i \in 1..n : l[i] = runs[i].ch
        /\ l = [i \in 1..n |-> runs[i].ch]
        /\ k = [i \in 1..(n + 1) |-> both[i].ch]
    BY <1>1 DEF CheckpointsOf
  <1>5. l \in Seq(Checkpoints) /\ Len(l) = n
    BY <1>1, <1>2, <1>4
  <1>6. Append(l, x.ch) = [i \in 1..(n + 1) |-> IF i = n + 1 THEN x.ch ELSE l[i]]
    BY <1>3, <1>5
  <1> HIDE DEF both, n, l, k
  <1>7. k = Append(l, x.ch)
    <2>1. \A i \in 1..(n + 1) : both[i].ch = IF i = n + 1 THEN x.ch ELSE l[i]
      BY <1>1, <1>4
    <2>2. QED
      BY <1>4, <1>6, <2>1
  <1>8. QED
    BY <1>1, <1>5, <1>7 DEF l, k, both, n

\* A submission is a step of the log: none, one or two entries more.
LEMMA SubmissionDecides ==
  ASSUME IInv, NEW out, SubmissionEnds(out)
  PROVE  [Log!Next]_(Log!vars)
  <1> DEFINE n == Len(executed)
             g == voting.genesis_epoch
             p == TopdownCheckPeriod
             l == CheckpointsOf(executed)
             a == applied_topdown_nonce
  <1>1. /\ initialized /\ initialized' = initialized
        /\ GoodOutcome(voting, a, out) /\ OneOrTwo(out)
        /\ voting' = out.voting
        /\ executed' = executed \o out.runs
        /\ applied_topdown_nonce' = a + Len(out.msgs)
    BY DEF SubmissionEnds, Finish, voting
  <1>2. /\ executed \in Seq(Executions) /\ n \in Nat /\ g \in Nat /\ p \in Nat /\ a \in Nat
        /\ voting.submission_period = p
        /\ voting.last_voting_executed_epoch = g + n * p
    BY <1>1, PeriodPositive DEF IInv, TypeOK, ExecutedInOrder, VotingType, voting
  <1>3. /\ voting'.genesis_epoch = g
        /\ \A i \in DOMAIN out.runs : out.runs[i].ch.epoch = (g + n * p) + i * p
        /\ CanApply(a, out.msgs)
    BY <1>1, <1>2 DEF GoodOutcome
  <1>4. /\ g + (n + 1) * p = (g + n * p) + 1 * p
        /\ g + ((n + 1) + 1) * p = (g + n * p) + 2 * p
    BY <1>2
  <1>5. CASE out.runs = <<>> /\ out.msgs = <<>>
    <2>1. executed' = executed /\ applied_topdown_nonce' = a
      BY <1>1, <1>2, <1>5
    <2>2. QED
      BY <1>1, <1>3, <2>1 DEF Log!vars
  <1>6. ASSUME NEW x \in Executions, out.runs = <<x>>, out.msgs = x.ch.top_down_msgs
        PROVE  \E ch \in Checkpoints : Log!Decide(ch)
    <2>1. x.ch \in Checkpoints
      BY DEF Executions
    <2>2. Len(l) = n /\ CheckpointsOf(executed') = Append(l, x.ch)
      BY <1>1, <1>2, <1>6, LogAppend
    <2>3. x.ch.epoch = g + (n + 1) * p
      BY <1>3, <1>4, <1>6
    <2>4. \A i \in DOMAIN x.ch.top_down_msgs : x.ch.top_down_msgs[i] = a + i - 1
      BY <1>3, <1>6 DEF CanApply
    <2>5. Log!Extends(l, x.ch)
      BY <2>2, <2>3, <2>4
         DEF Log!Extends, EpochOfCheckpoint, AnyFollows, NoncesOfCheckpoint
    <2>6. Log!Decide(x.ch)
      BY <1>1, <1>3, <1>6, <2>2, <2>5
         DEF Log!Decide, CheckpointsOf, NoncesOfCheckpoint
    <2>7. QED
      BY <2>1, <2>6
  <1>7. ASSUME NEW x \in Executions, NEW y \in Executions, out.runs = <<x, y>>,
               x.ch.top_down_msgs = <<>>, out.msgs = y.ch.top_down_msgs
        PROVE  \E empty, ch \in Checkpoints : Log!DecideTwo(empty, ch)
    <2> DEFINE k == Append(l, x.ch)
    <2>1. x.ch \in Checkpoints /\ y.ch \in Checkpoints
      BY DEF Executions
    <2>2. /\ executed \o <<x>> \in Seq(Executions) /\ CheckpointsOf(executed \o <<x>>) = k
          /\ Len(l) = n /\ l \in Seq(Checkpoints)
      BY <1>2, LogAppend
    <2>3. executed' = (executed \o <<x>>) \o <<y>>
      <3>1. executed' = executed \o (<<x>> \o <<y>>)
        BY <1>1, <1>7, TwoEntries
      <3>2. <<x>> \in Seq(Executions) /\ <<y>> \in Seq(Executions)
        OBVIOUS
      <3>3. QED
        BY <1>2, <3>1, <3>2, ConcatAssociative
    <2>4. Len(k) = n + 1 /\ CheckpointsOf(executed') = Append(k, y.ch)
      <3>1. CheckpointsOf(executed') = Append(k, y.ch)
        BY <2>2, <2>3, LogAppend
      <3>2. QED
        BY <2>1, <2>2, <3>1
    <2>5. Append(k, y.ch) = l \o <<x.ch, y.ch>>
      BY <2>1, <2>2
    <2>6. x.ch.epoch = g + (n + 1) * p /\ y.ch.epoch = g + ((n + 1) + 1) * p
      BY <1>3, <1>4, <1>7
    <2>7. \A i \in DOMAIN y.ch.top_down_msgs : y.ch.top_down_msgs[i] = a + i - 1
      BY <1>3, <1>7 DEF CanApply
    <2>8. Log!Extends(l, x.ch)
      BY <1>7, <2>2, <2>6
         DEF Log!Extends, EpochOfCheckpoint, AnyFollows, NoncesOfCheckpoint
    <2>9. Log!Extends(k, y.ch)
      BY <2>4, <2>6, <2>7
         DEF Log!Extends, EpochOfCheckpoint, AnyFollows, NoncesOfCheckpoint
    <2>10. Log!DecideTwo(x.ch, y.ch)
      BY <1>1, <1>3, <1>7, <2>4, <2>5, <2>8, <2>9
         DEF Log!DecideTwo, CheckpointsOf, NoncesOfCheckpoint
    <2>11. QED
      BY <2>1, <2>10
  <1>8. QED
    BY <1>1, <1>5, <1>6, <1>7 DEF OneOrTwo, Log!Next

\* What the gateway executes is one log of checkpoints: every handler is a step of
\* CheckpointLog or leaves the log alone, for any validators, memberships, ballots and
\* order of decisions.
THEOREM Implementation == Spec => ImplementsLog
  <1>1. Init => Log!Init
    <2> SUFFICES ASSUME Init PROVE Log!Init
      OBVIOUS
    <2>1. voting.genesis_epoch = 0
      BY DEF Init, voting, NewVoting
    <2>2. [i \in DOMAIN executed |-> executed[i].ch] = <<>>
      BY DEF Init
    <2>3. initialized \in BOOLEAN /\ applied_topdown_nonce = 0
      BY DEF Init
    <2>4. QED
      BY <2>1, <2>2, <2>3 DEF Log!Init
  <1>2. IInv /\ [Next]_vars => [Log!Next]_(Log!vars)
    <2> SUFFICES ASSUME IInv, [Next]_vars PROVE [Log!Next]_(Log!vars)
      OBVIOUS
    <2>1. ASSUME NEW genesis \in GenesisEpochs, InitGenesisEpoch(genesis)
          PROVE  Log!Start
      <3>1. voting'.genesis_epoch \in Nat
        BY <2>1, GenesisAssumption DEF InitGenesisEpoch, voting, NewVoting
      <3>2. QED
        BY <2>1, <3>1 DEF InitGenesisEpoch, Log!Start
    <2>2. ASSUME NEW m \in Memberships, SetMembership(m) PROVE UNCHANGED Log!vars
      BY <2>2 DEF SetMembership, Log!vars, voting
    <2>3. ASSUME NEW who \in Voters, NEW ch \in Ballots[who], SubmitTopdownCheck(who, ch)
          PROVE  [Log!Next]_(Log!vars)
      BY <2>3, SubmitEnds, SubmissionDecides
    <2>4. CASE UNCHANGED vars
      BY <2>4 DEF vars, state, Log!vars, voting
    <2>5. QED
      BY <2>1, <2>2, <2>3, <2>4 DEF Next, Log!Next
  <1>3. QED
    BY <1>1, <1>2, InvariantHolds, PTL DEF Spec, ImplementsLog, Log!Spec


-----------------------------------------------------------------------------

(* One round *)

\* A submission s counts the ballots in row, with the weights w: who voted, the weight
\* behind each checkpoint, the turnout, and a leader that nobody outweighs.
RoundExact(w, s, row) ==
  /\ s.submitters = {a \in Voters : row[a] # NoVote}
  /\ \A v \in Votes :
       s.submission_weights[v] = SumFunctionOnSet(w, {a \in Voters : row[a] = v})
  /\ s.total_submission_weight = SumFunctionOnSet(w, s.submitters)
  /\ s.most_voted_key = NoVote => s.submitters = {}
  /\ s.submitters # {} =>
       \A v \in Votes : s.submission_weights[v] <= s.submission_weights[s.most_voted_key]

EmptyRow == [a \in Voters |-> NoVote]

\* A new round counts nothing.
LEMMA EmptyRoundExact ==
  ASSUME NEW w \in [Voters -> Nat], NEW s, NEW row, \A a \in Voters : row[a] = NoVote,
         s.submitters = {}, s.total_submission_weight = 0,
         \A v \in Votes : s.submission_weights[v] = 0
  PROVE  RoundExact(w, s, row)
  <1>1. SumFunctionOnSet(w, {}) = 0
    BY FS_EmptySet, SumRecursion
  <1>2. \A v \in Votes : {a \in Voters : row[a] = v} = {}
    BY NoVoteAssumption
  <1>3. {a \in Voters : row[a] # NoVote} = {}
    OBVIOUS
  <1>4. QED
    BY <1>1, <1>2, <1>3 DEF RoundExact

\* submit counts one ballot more.
LEMMA SubmitRoundExact ==
  ASSUME NEW w \in [Voters -> Nat], NEW s \in Submission,
         NEW row \in [Voters -> Votes \cup {NoVote}], RoundExact(w, s, row),
         NEW who \in Voters, who \notin s.submitters, NEW vote \in Votes,
         NEW x \in Nat, x = w[who]
  PROVE  RoundExact(w, Submit(s, who, x, vote), [row EXCEPT ![who] = vote])
  <1> DEFINE t == Submit(s, who, x, vote)
             now == [row EXCEPT ![who] = vote]
             For(r, v) == {a \in Voters : r[a] = v}
             sum(S) == SumFunctionOnSet(w, S)
  <1>1. w[who] \in Nat
    OBVIOUS
  <1> HIDE DEF t
  <1>2. /\ t \in Submission
        /\ t.submitters = s.submitters \cup {who}
        /\ t.total_submission_weight = s.total_submission_weight + x
        /\ t.submission_weights[vote] = s.submission_weights[vote] + x
        /\ \A v \in Votes : v # vote => t.submission_weights[v] = s.submission_weights[v]
        /\ Leads(s, vote, t.submission_weights[vote]) => t.most_voted_key = vote
        /\ ~Leads(s, vote, t.submission_weights[vote]) =>
             t.most_voted_key = s.most_voted_key
    BY SubmitEffect DEF t
  <1>3. /\ s.submitters \in SUBSET Voters /\ s.total_submission_weight \in Nat
        /\ s.submission_weights \in [Votes -> Nat]
        /\ s.most_voted_key \in Votes \cup {NoVote}
    BY DEF Submission
  <1>4. /\ s.submitters = {a \in Voters : row[a] # NoVote}
        /\ \A v \in Votes : s.submission_weights[v] = sum(For(row, v))
        /\ s.total_submission_weight = sum(s.submitters)
        /\ s.most_voted_key = NoVote => s.submitters = {}
        /\ s.submitters # {} =>
             \A v \in Votes :
               s.submission_weights[v] <= s.submission_weights[s.most_voted_key]
    BY DEF RoundExact
  <1>5. row[who] = NoVote /\ now[who] = vote /\ \A a \in Voters : a # who => now[a] = row[a]
    BY <1>4
  <1>6. t.submitters = {a \in Voters : now[a] # NoVote}
    BY <1>2, <1>4, <1>5, NoVoteAssumption
  <1>7. ASSUME NEW S \in SUBSET Voters, who \notin S
        PROVE  sum(S \cup {who}) = w[who] + sum(S) /\ sum(S) \in Nat
    <2>1. IsFiniteSet(S) /\ \A a \in S \cup {who} : w[a] \in Int
      BY <1>7, VotersAssumption, FS_Subset
    <2>2. sum(S \cup {who}) = w[who] + sum(S)
      BY <1>7, <2>1, SumAdd
    <2>3. \A a \in Voters : w[a] \in Nat
      OBVIOUS
    <2>4. sum(S) \in Nat
      BY <2>3, VotersAssumption, SumNat
    <2>5. QED
      BY <2>2, <2>4
  <1>8. t.total_submission_weight = sum(t.submitters)
    <2>1. /\ sum(s.submitters \cup {who}) = w[who] + sum(s.submitters)
          /\ sum(s.submitters) \in Nat
      BY <1>3, <1>7
    <2> HIDE DEF sum
    <2>2. QED
      BY <1>1, <1>2, <1>3, <1>4, <2>1
  <1>9. ASSUME NEW v \in Votes
        PROVE  t.submission_weights[v] = sum(For(now, v))
    <2>1. CASE v = vote
      <3>1. For(now, v) = For(row, v) \cup {who} /\ who \notin For(row, v)
        BY <1>5, <2>1, NoVoteAssumption
      <3>2. For(row, v) \in SUBSET Voters
        OBVIOUS
      <3> HIDE DEF For
      <3>3. sum(For(now, v)) = w[who] + sum(For(row, v)) /\ sum(For(row, v)) \in Nat
        BY <1>7, <3>1, <3>2
      <3> HIDE DEF sum
      <3>4. QED
        BY <1>1, <1>2, <1>3, <1>4, <2>1, <3>3
    <2>2. CASE v # vote
      <3>1. For(now, v) = For(row, v)
        BY <1>5, <2>2, NoVoteAssumption
      <3>2. QED
        BY <1>2, <1>3, <1>4, <2>2, <3>1
    <2>3. QED
      BY <2>1, <2>2
  <1>10. t.most_voted_key # NoVote
    BY <1>2, NoVoteAssumption DEF Leads
  <1>11. ASSUME NEW v \in Votes
         PROVE  t.submission_weights[v] <= t.submission_weights[t.most_voted_key]
    <2> DEFINE f == s.submission_weights
               g == t.submission_weights
               k == s.most_voted_key
    <2>1. /\ f \in [Votes -> Nat] /\ g[vote] = f[vote] + w[who]
          /\ \A u \in Votes : u # vote => g[u] = f[u]
      BY <1>1, <1>2, <1>3
    <2>2. CASE k = NoVote
      <3>1. t.most_voted_key = vote
        BY <1>2, <2>2 DEF Leads
      <3>2. \A u \in Votes : f[u] = 0
        <4>1. \A u \in Votes : For(row, u) = {}
          BY <1>4, <2>2, NoVoteAssumption
        <4>2. sum({}) = 0
          BY FS_EmptySet, SumRecursion
        <4>3. QED
          BY <1>4, <4>1, <4>2
      <3> HIDE DEF f, g
      <3>3. QED
        BY <1>1, <2>1, <3>1, <3>2 DEF g
    <2>3. CASE k # NoVote /\ s.submitters # {}
      <3>1. k \in Votes /\ \A u \in Votes : f[u] <= f[k]
        BY <1>3, <1>4, <2>3
      <3>2. t.most_voted_key = IF k = vote \/ g[vote] > f[k] THEN vote ELSE k
        BY <1>2, <2>3 DEF Leads
      <3> HIDE DEF f, g, k
      <3>3. QED
        BY <1>1, <2>1, <3>1, <3>2 DEF g
    <2>4. CASE k # NoVote /\ s.submitters = {}
      <3>1. \A u \in Votes : f[u] = 0
        <4>1. \A u \in Votes : For(row, u) = {}
          BY <1>4, <2>4, NoVoteAssumption
        <4>2. sum({}) = 0
          BY FS_EmptySet, SumRecursion
        <4>3. QED
          BY <1>4, <4>1, <4>2
      <3>2. k \in Votes /\ \A u \in Votes : f[u] <= f[k]
        BY <1>3, <2>4, <3>1
      <3>3. t.most_voted_key = IF k = vote \/ g[vote] > f[k] THEN vote ELSE k
        BY <1>2, <2>4 DEF Leads
      <3> HIDE DEF f, g, k
      <3>4. QED
        BY <1>1, <2>1, <3>2, <3>3 DEF g
    <2>5. QED
      BY <2>2, <2>3, <2>4
  <1>12. RoundExact(w, t, now)
    BY <1>6, <1>8, <1>9, <1>10, <1>11 DEF RoundExact
  <1>13. QED
    BY <1>12 DEF t

\* The turnout of a round that is neither decided nor given up is not everybody's.
LEMMA StatusFacts ==
  ASSUME NEW s \in Submission, NEW total \in Nat, LoadMostVotedWeight(s) \in Nat
  PROVE  /\ VoteStatus(s, total) = RoundAbort =>
              Threshold(total) - LoadMostVotedWeight(s) >= total - s.total_submission_weight
         /\ total > 0 /\ VoteStatus(s, total) \notin {RoundAbort, ConsensusReached} =>
              s.total_submission_weight < total
  <1>1. s.total_submission_weight \in Nat
    BY DEF Submission
  <1>2. Threshold(total) \in Nat /\ (total > 0 => Threshold(total) < total)
    BY DEF Threshold, RatioNum, RatioDen
  <1> DEFINE most == LoadMostVotedWeight(s)
             turnout == s.total_submission_weight
             limit == Threshold(total)
  <1>3. VoteStatus(s, total)
          = IF turnout <= limit THEN ThresholdNotReached
            ELSE IF most > limit THEN ConsensusReached
            ELSE IF limit - most >= total - turnout THEN RoundAbort
            ELSE ReachingConsensus
    BY DEF VoteStatus, DeriveExecutionStatus
  <1>4. most \in Nat /\ limit \in Nat /\ turnout \in Nat /\ (total > 0 => limit < total)
    BY <1>1, <1>2
  <1> HIDE DEF most, turnout, limit
  <1>5. CASE turnout <= limit
    BY <1>3, <1>4, <1>5
       DEF ThresholdNotReached, ConsensusReached, RoundAbort, ReachingConsensus, most, turnout,
           limit
  <1>6. CASE turnout > limit
    BY <1>3, <1>4, <1>6
       DEF ThresholdNotReached, ConsensusReached, RoundAbort, ReachingConsensus, most, turnout,
           limit
  <1>7. QED
    BY <1>4, <1>5, <1>6

-----------------------------------------------------------------------------

(* What a submission leaves of the rounds *)

\* The epochs after the last executed one: what submit_vote did not touch is as it was.
SameRound(vt, n, e) ==
  /\ n.epoch_vote_submissions[e] = vt.epoch_vote_submissions[e]
  /\ e \in n.executable_epoch_queue <=> e \in vt.executable_epoch_queue

\* The round of the ballot's own epoch, when nothing is executed for it.
CountedRound(vt, n, e, s, total) ==
  /\ n.epoch_vote_submissions[e] = IF VoteStatus(s, total) = RoundAbort THEN Abort(s) ELSE s
  /\ VoteStatus(s, total) = ConsensusReached => e \in n.executable_epoch_queue

\* submit_vote touches the round of its epoch only.
LEMMA SubmitVoteRounds ==
  ASSUME NEW vt \in VotingType, SoundVoting(vt), NEW vote \in Votes,
         vote.epoch \in Epochs, NEW who \in Voters, NEW w \in Nat, NEW total \in Nat
  PROVE  LET s == Counted(vt, vote, vote.epoch, who, w)
             r == SubmitVote(vt, vote, vote.epoch, who, w, total)
         IN  /\ \A e \in Epochs : e # vote.epoch => SameRound(vt, r.voting, e)
             /\ r.to_execute = NoVote => CountedRound(vt, r.voting, vote.epoch, s, total)
  <1> DEFINE f == vote.epoch
             s == Counted(vt, vote, f, who, w)
             t == IF VoteStatus(s, total) = RoundAbort THEN Abort(s) ELSE s
             m == StoreSubmission(vt, f, t)
             q == InsertExecutableEpoch(m, f)
             r == SubmitVote(vt, vote, f, who, w, total)
  <1>1. s \in Submission /\ LoadMostVotedSubmission(s) \in Votes
    BY CountedSound
  <1>2. \/ /\ VoteStatus(s, total) = ConsensusReached
           /\ r = [voting |-> vt, to_execute |-> LoadMostVotedSubmission(s)]
        \/ /\ VoteStatus(s, total) = ConsensusReached
           /\ r = [voting |-> q, to_execute |-> NoVote]
        \/ /\ VoteStatus(s, total) # ConsensusReached
           /\ r = [voting |-> m, to_execute |-> NoVote]
    BY DEF SubmitVote, RoundAbort, ConsensusReached
  <1> HIDE DEF s, r
  <1>3. t \in Submission
    BY <1>1, AbortFields
  <1> HIDE DEF t
  <1>4. /\ m \in VotingType
        /\ m.executable_epoch_queue = vt.executable_epoch_queue
        /\ m.epoch_vote_submissions = [vt.epoch_vote_submissions EXCEPT ![f] = t]
    BY <1>3, StoreSubmissionFields
  <1> HIDE DEF m
  <1>5. /\ q.executable_epoch_queue = vt.executable_epoch_queue \cup {f}
        /\ q.epoch_vote_submissions = [vt.epoch_vote_submissions EXCEPT ![f] = t]
    BY <1>4, InsertExecutableEpochFields
  <1> HIDE DEF q
  <1>6. vt.epoch_vote_submissions \in [Epochs -> Submission]
    BY DEF VotingType
  <1>7. CASE r = [voting |-> vt, to_execute |-> LoadMostVotedSubmission(s)]
    BY <1>1, <1>7, NoVoteAssumption DEF SameRound, r, s
  <1>8. CASE /\ VoteStatus(s, total) = ConsensusReached
             /\ r = [voting |-> q, to_execute |-> NoVote]
    BY <1>5, <1>6, <1>8 DEF SameRound, CountedRound, r, s, t
  <1>9. CASE /\ VoteStatus(s, total) # ConsensusReached
             /\ r = [voting |-> m, to_execute |-> NoVote]
    BY <1>4, <1>6, <1>9 DEF SameRound, CountedRound, r, s, t
  <1>10. QED
    BY <1>2, <1>7, <1>8, <1>9

\* mark_epoch_executed touches no later round.
LEMMA MarkRounds ==
  ASSUME NEW vt \in VotingType, NEW f \in Epochs
  PROVE  LET n == MarkEpochExecuted(vt, f)
         IN  \A e \in Epochs :
               e > n.last_voting_executed_epoch => SameRound(vt, n, e)
  <1> DEFINE n == MarkEpochExecuted(vt, f)
  <1>1. /\ n.last_voting_executed_epoch = f
        /\ n.executable_epoch_queue = vt.executable_epoch_queue \ {f}
        /\ n.epoch_vote_submissions = [vt.epoch_vote_submissions EXCEPT ![f] = NewSubmission]
    BY MarkEpochExecutedFields
  <1> HIDE DEF n
  <1>2. \A e \in Epochs : e > f => e # f
    BY EpochsAssumption
  <1>3. vt.epoch_vote_submissions \in [Epochs -> Submission]
    BY DEF VotingType
  <1>4. \A e \in Epochs : e > n.last_voting_executed_epoch => SameRound(vt, n, e)
    BY <1>1, <1>2, <1>3 DEF SameRound
  <1>5. QED
    BY <1>4 DEF n

\* Nor does execute_next_topdown_epoch.
LEMMA ExecuteNextRounds ==
  ASSUME NEW vt \in VotingType, NEW nonce \in Nat, CanExecuteNext(vt, nonce)
  PROVE  LET n == ExecuteNext(vt).voting
         IN  \A e \in Epochs :
               e > n.last_voting_executed_epoch => SameRound(vt, n, e)
  <1>1. CASE HasDueEpoch(vt)
    <2> DEFINE ch == NextExecutableVote(vt)
    <2>1. ch \in Checkpoints
      BY <1>1, DueEpoch DEF CanExecuteNext, Checkpoints
    <2>2. ch.epoch \in Epochs
      BY <2>1, CheckpointsAssumption
    <2>3. ExecuteNext(vt).voting = MarkEpochExecuted(vt, ch.epoch)
      BY <1>1 DEF ExecuteNext, Outcome
    <2> HIDE DEF ch
    <2>4. QED
      BY <2>2, <2>3, MarkRounds
  <1>2. CASE ~HasDueEpoch(vt)
    BY <1>2 DEF ExecuteNext, Outcome, SameRound
  <1>3. QED
    BY <1>1, <1>2

\* The last executed epoch never moves back.
LEMMA OutcomeAdvances ==
  ASSUME NEW vt \in VotingType, NEW nonce, NEW out, GoodOutcome(vt, nonce, out)
  PROVE  out.voting.last_voting_executed_epoch >= vt.last_voting_executed_epoch
  <1>1. vt.last_voting_executed_epoch \in Nat /\ vt.submission_period \in Nat
    BY DEF VotingType
  <1>2. Len(out.runs) \in Nat
    BY LenProperties DEF GoodOutcome
  <1>3. out.voting.last_voting_executed_epoch
          = vt.last_voting_executed_epoch + Len(out.runs) * vt.submission_period
    BY DEF GoodOutcome
  <1>4. Len(out.runs) * vt.submission_period \in Nat
    BY <1>1, <1>2
  <1>5. QED
    BY <1>1, <1>3, <1>4

\* After a submission the open epochs other than the ballot's are as they were, and the
\* ballot's epoch, if it is still open, has counted the ballot.
OpenRounds(who, ch) ==
  \A e \in Epochs :
    e > voting'.last_voting_executed_epoch =>
      /\ e > voting.last_voting_executed_epoch
      /\ e # ch.epoch => SameRound(voting, voting', e)
      /\ e = ch.epoch =>
           CountedRound(voting, voting', e,
                        Counted(voting, ch, ch.epoch, who, validators.weights[who]),
                        validators.total_weight)

\* A ballot that executes nothing itself.
LEMMA OpenWithoutExecution ==
  ASSUME IInv, NEW who \in Voters, NEW ch \in Ballots[who], SubmitWithoutExecution(who, ch)
  PROVE  OpenRounds(who, ch)
  <1> DEFINE r == Vote(who, ch)
             n == ExecuteNext(r.voting).voting
             s == Counted(voting, ch, ch.epoch, who, validators.weights[who])
             total == validators.total_weight
  <1>1. /\ r.to_execute = NoVote
        /\ CanExecuteNext(r.voting, applied_topdown_nonce)
        /\ voting' = n
        /\ initialized
    BY DEF SubmitWithoutExecution, Accepted, Finish, voting
  <1>2. /\ r.voting \in VotingType /\ SoundVoting(r.voting)
        /\ r.voting.last_voting_executed_epoch = voting.last_voting_executed_epoch
    BY <1>1, VoteGood
  <1>3. /\ ch \in Votes /\ ch.epoch \in Epochs /\ validators.weights[who] \in Nat
        /\ total \in Nat /\ voting \in VotingType /\ applied_topdown_nonce \in Nat
        /\ SoundVoting(voting)
    BY <1>1, BallotTypes DEF IInv
  <1>4. /\ \A e \in Epochs : e # ch.epoch => SameRound(voting, r.voting, e)
        /\ CountedRound(voting, r.voting, ch.epoch, s, total)
    <2> DEFINE q == SubmitVote(voting, ch, ch.epoch, who, validators.weights[who], total)
    <2>1. /\ \A e \in Epochs : e # ch.epoch => SameRound(voting, q.voting, e)
          /\ q.to_execute = NoVote => CountedRound(voting, q.voting, ch.epoch, s, total)
      BY <1>3, SubmitVoteRounds
    <2>2. q = r
      BY DEF Vote
    <2> HIDE DEF q, r, s
    <2>3. QED
      BY <1>1, <2>1, <2>2
  <1> HIDE DEF r, s
  <1>5. \A e \in Epochs : e > n.last_voting_executed_epoch => SameRound(r.voting, n, e)
    BY <1>1, <1>2, <1>3, ExecuteNextRounds
  <1>6. n.last_voting_executed_epoch >= voting.last_voting_executed_epoch
        /\ n \in VotingType
    BY <1>1, <1>2, <1>3, ExecuteNextGood, OutcomeAdvances DEF GoodOutcome
  <1>7. voting.last_voting_executed_epoch \in Nat /\ n.last_voting_executed_epoch \in Nat
    BY <1>3, <1>6 DEF VotingType
  <1> HIDE DEF n
  <1>8. \A e \in Epochs : e > n.last_voting_executed_epoch =>
                            e > voting.last_voting_executed_epoch
    BY <1>6, <1>7, EpochsAssumption
  <1>9. ASSUME NEW e \in Epochs, e > n.last_voting_executed_epoch
        PROVE  /\ e # ch.epoch => SameRound(voting, n, e)
               /\ e = ch.epoch => CountedRound(voting, n, e, s, total)
    BY <1>4, <1>5, <1>9 DEF SameRound, CountedRound
  <1>10. QED
    BY <1>1, <1>8, <1>9 DEF OpenRounds, s

\* A ballot that decides its epoch: every epoch still open is a later one.
LEMMA OpenWithMessages ==
  ASSUME IInv, NEW who \in Voters, NEW ch \in Ballots[who], SubmitWithMessages(who, ch)
  PROVE  OpenRounds(who, ch)
  <1> DEFINE n == MarkEpochExecuted(voting, ch.epoch)
  <1>1. voting' = n /\ IsNextExecutableEpoch(voting, ch.epoch) /\ initialized
    <2>1. /\ Vote(who, ch).to_execute # NoVote
          /\ CanMarkEpochExecuted(Vote(who, ch).voting, ch.epoch)
          /\ voting' = MarkEpochExecuted(Vote(who, ch).voting, ch.epoch)
          /\ initialized
      BY DEF SubmitWithMessages, Accepted, Finish, Outcome, voting
    <2>2. Vote(who, ch).voting = voting
      BY <2>1, VoteGood
    <2>3. QED
      BY <2>1, <2>2 DEF CanMarkEpochExecuted
  <1>2. ch.epoch \in Epochs /\ voting \in VotingType
    BY <1>1, BallotTypes DEF IInv
  <1>3. n.last_voting_executed_epoch = ch.epoch
    BY <1>2, MarkEpochExecutedFields
  <1>4. \A e \in Epochs : e > n.last_voting_executed_epoch => SameRound(voting, n, e)
    BY <1>2, MarkRounds
  <1>5. /\ voting.last_voting_executed_epoch \in Nat /\ voting.submission_period \in Nat
        /\ ch.epoch = voting.last_voting_executed_epoch + voting.submission_period
    BY <1>1, <1>2 DEF VotingType, IsNextExecutableEpoch
  <1> HIDE DEF n
  <1>6. ASSUME NEW e \in Epochs, e > ch.epoch
        PROVE  e > voting.last_voting_executed_epoch /\ e # ch.epoch
    <2>1. e \in Nat /\ ch.epoch \in Nat /\ ch.epoch >= voting.last_voting_executed_epoch
      BY <1>5, EpochsAssumption
    <2>2. QED
      BY <1>5, <1>6, <2>1
  <1>7. QED
    BY <1>1, <1>3, <1>4, <1>6 DEF OpenRounds

\* The same, with the head of the queue executed on top of it.
LEMMA OpenEmpty ==
  ASSUME IInv, NEW who \in Voters, NEW ch \in Ballots[who], SubmitEmpty(who, ch)
  PROVE  OpenRounds(who, ch)
  <1> DEFINE marked == MarkEpochExecuted(voting, ch.epoch)
             n == ExecuteNext(marked).voting
  <1>1. /\ voting' = n /\ IsNextExecutableEpoch(voting, ch.epoch)
        /\ CanExecuteNext(marked, applied_topdown_nonce)
        /\ initialized
    <2>1. /\ Vote(who, ch).to_execute # NoVote
          /\ CanMarkEpochExecuted(Vote(who, ch).voting, ch.epoch)
          /\ CanExecuteNext(MarkEpochExecuted(Vote(who, ch).voting, ch.epoch),
                            applied_topdown_nonce)
          /\ voting' = ExecuteNext(MarkEpochExecuted(Vote(who, ch).voting, ch.epoch)).voting
          /\ initialized
      BY DEF SubmitEmpty, Accepted, Finish, Outcome, voting
    <2>2. Vote(who, ch).voting = voting
      BY <2>1, VoteGood
    <2>3. QED
      BY <2>1, <2>2 DEF CanMarkEpochExecuted
  <1>2. /\ ch.epoch \in Epochs /\ voting \in VotingType /\ SoundVoting(voting)
        /\ applied_topdown_nonce \in Nat /\ validators.total_weight \in Nat
    BY <1>1, BallotTypes DEF IInv
  <1>3. /\ marked.last_voting_executed_epoch = ch.epoch /\ marked \in VotingType
        /\ SoundVoting(marked)
    BY <1>2, MarkEpochExecutedFields, MarkSound
  <1>4. \A e \in Epochs :
          e > marked.last_voting_executed_epoch => SameRound(voting, marked, e)
    BY <1>2, MarkRounds
  <1> HIDE DEF marked
  <1>5. \A e \in Epochs : e > n.last_voting_executed_epoch => SameRound(marked, n, e)
    BY <1>1, <1>2, <1>3, ExecuteNextRounds
  <1>6. n.last_voting_executed_epoch >= ch.epoch /\ n \in VotingType
    BY <1>1, <1>2, <1>3, ExecuteNextGood, OutcomeAdvances DEF GoodOutcome
  <1>7. /\ voting.last_voting_executed_epoch \in Nat /\ voting.submission_period \in Nat
        /\ ch.epoch = voting.last_voting_executed_epoch + voting.submission_period
        /\ n.last_voting_executed_epoch \in Nat
    BY <1>1, <1>2, <1>6 DEF VotingType, IsNextExecutableEpoch
  <1> HIDE DEF n
  <1>8. ASSUME NEW e \in Epochs, e > n.last_voting_executed_epoch
        PROVE  e > ch.epoch /\ e > voting.last_voting_executed_epoch /\ e # ch.epoch
    <2>1. e \in Nat /\ ch.epoch \in Nat /\ ch.epoch >= voting.last_voting_executed_epoch
      BY <1>7, EpochsAssumption
    <2>2. e > ch.epoch
      BY <1>6, <1>7, <1>8, <2>1
    <2>3. QED
      BY <1>7, <2>1, <2>2
  <1>9. \A e \in Epochs : e > n.last_voting_executed_epoch => SameRound(voting, n, e)
    BY <1>3, <1>4, <1>5, <1>8 DEF SameRound
  <1>10. QED
    BY <1>1, <1>8, <1>9 DEF OpenRounds

\* Whatever becomes of the ballot.
LEMMA OpenAfterVote ==
  ASSUME IInv, NEW who \in Voters, NEW ch \in Ballots[who], SubmitTopdownCheck(who, ch)
  PROVE  OpenRounds(who, ch)
  BY OpenWithoutExecution, OpenWithMessages, OpenEmpty DEF SubmitTopdownCheck
-----------------------------------------------------------------------------

(* Exact counting, when the validators do not change *)

\* set_membership may be called again, but installs the same weights.
OneMembership == \A m, n \in Memberships : m = n

\* Nobody has voted yet.
NoBallots == \A e \in Epochs : \A a \in Voters : ballots[e][a] = NoVote

\* The inductive invariant: before the genesis epoch and the membership are known there
\* are no ballots, and every open round counts its ballots with the current weights.
TallyInv ==
  /\ IInv
  /\ validators.weights = NoMembership \/ validators.weights \in Memberships
  /\ validators.total_weight = TotalWeight(validators.weights)
  /\ ~initialized \/ validators.weights = NoMembership => NoBallots
  /\ \A e \in OpenEpochs :
       RoundExact(validators.weights, voting.epoch_vote_submissions[e], ballots[e])
  /\ NoWedgedRound

\* The parts of a submission's new round.
RoundAfter(who, ch) ==
  [ballots[ch.epoch] EXCEPT ![who] = ch]

\* The round of the ballot's epoch once the ballot is counted, before it is looked at.
LEMMA CountedExact ==
  ASSUME TallyInv, NEW who \in Voters, NEW ch \in Ballots[who], Accepted(who, ch)
  PROVE  LET s == Counted(voting, ch, ch.epoch, who, validators.weights[who])
         IN  /\ s \in Submission
             /\ s.submitters = voting.epoch_vote_submissions[ch.epoch].submitters \cup {who}
             /\ LoadMostVotedWeight(s) \in Nat
             /\ RoundExact(validators.weights, s, RoundAfter(who, ch))
  <1> DEFINE e == ch.epoch
             old == voting.epoch_vote_submissions[e]
             w == validators.weights
             s == Counted(voting, ch, e, who, w[who])
  <1>1. /\ ch \in Votes /\ e \in Epochs /\ w[who] \in Nat /\ voting \in VotingType
        /\ SoundVoting(voting) /\ w \in [Voters -> Nat]
        /\ ballots[e] \in [Voters -> Votes \cup {NoVote}]
    BY BallotTypes DEF TallyInv, IInv, TypeOK, Accepted
  <1>2. old \in Submission
    BY <1>1 DEF VotingType
  <1>3. e \in OpenEpochs /\ who \notin old.submitters
    <2>1. ~IsEpochExecuted(voting, e) /\ ~HasSubmitted(old, who)
      BY DEF Accepted, CanSubmitVote
    <2>2. voting.last_voting_executed_epoch \in Nat /\ e \in Nat
      BY <1>1, EpochsAssumption DEF VotingType
    <2>3. QED
      BY <1>1, <2>1, <2>2 DEF IsEpochExecuted, HasSubmitted, OpenEpochs
  <1>4. RoundExact(w, old, ballots[e])
    BY <1>3 DEF TallyInv
  <1>5. s = Submit(old, who, w[who], ch)
    BY DEF Counted
  <1>6. s \in Submission /\ LoadMostVotedWeight(s) \in Nat
    BY <1>1, CountedSound
  <1> HIDE DEF old, e, w, s
  <1>7. s.submitters = old.submitters \cup {who}
    BY <1>1, <1>2, <1>5, SubmitEffect
  <1>8. RoundExact(w, Submit(old, who, w[who], ch), [ballots[e] EXCEPT ![who] = ch])
    BY <1>1, <1>2, <1>3, <1>4, SubmitRoundExact
  <1>9. RoundExact(w, s, [ballots[e] EXCEPT ![who] = ch])
    BY <1>5, <1>8
  <1>10. QED
    BY <1>6, <1>7, <1>9 DEF RoundAfter, s, e, old, w

\* When every validator has voted, the turnout is the total.
LEMMA FullTurnout ==
  ASSUME NEW w \in [Voters -> Nat], NEW S \in SUBSET Voters,
         {a \in Voters : w[a] > 0} \subseteq S
  PROVE  SumFunctionOnSet(w, S) = TotalWeight(w)
  <1>1. TotalWeight(w) = SumFunctionOnSet(w, Voters)
    BY VotersAssumption, LedgerTotal DEF TotalWeight
  <1>2. \A a \in Voters : w[a] \in Int
    OBVIOUS
  <1>3. \A a \in Voters \ S : w[a] = 0
    OBVIOUS
  <1>4. QED
    BY <1>1, <1>2, <1>3, VotersAssumption, SumSupport

\* A submission keeps the invariant.
LEMMA VoteTally ==
  ASSUME TallyInv, NEW who \in Voters, NEW ch \in Ballots[who], SubmitTopdownCheck(who, ch)
  PROVE  TallyInv'
  <1> DEFINE f == ch.epoch
             w == validators.weights
             total == validators.total_weight
             s == Counted(voting, ch, f, who, w[who])
             evs == voting.epoch_vote_submissions
             new == voting'.epoch_vote_submissions
  <1>1. IInv /\ IInv'
    BY SubmitGood DEF TallyInv
  <1>2. /\ Accepted(who, ch) /\ RecordBallot(who, ch)
        /\ initialized' = initialized /\ validators' = validators
    BY DEF SubmitTopdownCheck, SubmitWithoutExecution, SubmitWithMessages, SubmitEmpty
  <1>3. /\ ch \in Votes /\ f \in Epochs /\ w[who] \in Nat /\ total \in Nat
        /\ w \in [Voters -> Nat] /\ ballots \in [Epochs -> [Voters -> Votes \cup {NoVote}]]
    BY <1>1, <1>2, BallotTypes DEF IInv, TypeOK, Accepted
  <1>4. initialized /\ w[who] > 0 /\ w # NoMembership
    BY <1>2, <1>3 DEF Accepted, NoMembership
  <1>5. /\ s \in Submission /\ who \in s.submitters /\ LoadMostVotedWeight(s) \in Nat
        /\ RoundExact(w, s, RoundAfter(who, ch))
    BY <1>2, CountedExact
  <1>6. OpenRounds(who, ch)
    BY <1>1, OpenAfterVote
  <1>7. total = TotalWeight(w) /\ total > 0
    <2>1. total = TotalWeight(w)
      BY DEF TallyInv
    <2>2. TotalWeight(w) = SumFunctionOnSet(w, Voters)
      BY <1>3, VotersAssumption, LedgerTotal DEF TotalWeight
    <2>3. w[who] <= SumFunctionOnSet(w, Voters)
      <3>1. \A a \in Voters : w[a] \in Nat
        BY <1>3
      <3>2. QED
        BY <3>1, VotersAssumption, SumTerm
    <2>4. QED
      BY <1>3, <1>4, <2>1, <2>2, <2>3
  <1>8. /\ \A e \in Epochs : e # f => ballots'[e] = ballots[e]
        /\ who \in new[f].submitters => ballots'[f] = RoundAfter(who, ch)
        /\ who \notin new[f].submitters => ballots'[f] = EmptyRow
    BY <1>2, <1>3 DEF RecordBallot, RoundAfter, EmptyRow, voting
  <1> HIDE DEF s
  <1>9. ASSUME NEW e \in Epochs, e > voting'.last_voting_executed_epoch
        PROVE  /\ RoundExact(w, new[e], ballots'[e])
               /\ e \notin voting'.executable_epoch_queue =>
                    LET members == {a \in Voters : w[a] > 0}
                    IN  members # {} => ~(members \subseteq new[e].submitters)
    <2>1. CASE e # f
      <3>1. SameRound(voting, voting', e) /\ e \in OpenEpochs
        BY <1>6, <1>9, <2>1 DEF OpenRounds, OpenEpochs
      <3>2. RoundExact(w, evs[e], ballots[e])
        BY <3>1 DEF TallyInv
      <3>3. e \notin voting.executable_epoch_queue =>
              LET members == {a \in Voters : w[a] > 0}
              IN  members # {} => ~(members \subseteq evs[e].submitters)
        BY <3>1 DEF TallyInv, NoWedgedRound
      <3>4. QED
        BY <1>8, <2>1, <3>1, <3>2, <3>3 DEF SameRound
    <2>2. CASE e = f /\ VoteStatus(s, total) = RoundAbort
      <3>1. new[e] = Abort(s)
        BY <1>6, <1>9, <2>2 DEF OpenRounds, CountedRound, s
      <3>2. /\ new[e].submitters = {} /\ new[e].total_submission_weight = 0
            /\ \A v \in Votes : new[e].submission_weights[v] = 0
        BY <1>5, <3>1, AbortFields
      <3>3. ballots'[e] = EmptyRow
        BY <1>8, <2>2, <3>2
      <3>4. \A a \in Voters : ballots'[e][a] = NoVote
        BY <3>3 DEF EmptyRow
      <3> HIDE DEF w, new
      <3>5. RoundExact(w, new[e], ballots'[e])
        BY <1>3, <3>2, <3>4, EmptyRoundExact
      <3>6. QED
        BY <3>2, <3>5
    <2>3. CASE e = f /\ VoteStatus(s, total) # RoundAbort
      <3>1. /\ new[e] = s
            /\ VoteStatus(s, total) = ConsensusReached => e \in voting'.executable_epoch_queue
        BY <1>6, <1>9, <2>3 DEF OpenRounds, CountedRound, s
      <3>2. ballots'[e] = RoundAfter(who, ch)
        BY <1>5, <1>8, <2>3, <3>1
      <3>3. RoundExact(w, new[e], ballots'[e])
        BY <1>5, <3>1, <3>2
      <3>4. ASSUME e \notin voting'.executable_epoch_queue,
                   {a \in Voters : w[a] > 0} \subseteq new[e].submitters
            PROVE  FALSE
        <4>1. s.total_submission_weight < total
          BY <1>3, <1>5, <1>7, <2>3, <3>1, <3>4, StatusFacts
        <4>2. s.total_submission_weight = SumFunctionOnSet(w, s.submitters)
          BY <1>5 DEF RoundExact
        <4>3. s.submitters \in SUBSET Voters /\ {a \in Voters : w[a] > 0} \subseteq s.submitters
          BY <1>5, <3>1, <3>4 DEF Submission
        <4>4. SumFunctionOnSet(w, s.submitters) = TotalWeight(w)
          BY <1>3, <4>3, FullTurnout
        <4>5. QED
          BY <1>3, <1>7, <4>1, <4>2, <4>4
      <3>5. QED
        BY <3>3, <3>4
    <2>4. QED
      BY <2>1, <2>2, <2>3
  <1>10. \A e \in OpenEpochs' : RoundExact(w, new[e], ballots'[e])
    BY <1>9 DEF OpenEpochs
  <1>11. NoWedgedRound'
    BY <1>2, <1>9 DEF NoWedgedRound, OpenEpochs
  <1>12. /\ (validators.weights = NoMembership \/ validators.weights \in Memberships)'
         /\ (validators.total_weight = TotalWeight(validators.weights))'
         /\ (~initialized \/ validators.weights = NoMembership => NoBallots)'
    BY <1>2, <1>4 DEF TallyInv, TotalWeight, NoMembership
  <1>13. QED
    BY <1>1, <1>2, <1>10, <1>11, <1>12 DEF TallyInv

\* Without ballots every open round is empty, whatever the weights.
LEMMA NoBallotsTally ==
  ASSUME TallyInv, NoBallots, NEW w \in [Voters -> Nat], NEW e \in OpenEpochs
  PROVE  /\ RoundExact(w, voting.epoch_vote_submissions[e], ballots[e])
         /\ voting.epoch_vote_submissions[e].submitters = {}
  <1> DEFINE s == voting.epoch_vote_submissions[e]
  <1>1. RoundExact(validators.weights, s, ballots[e])
    BY DEF TallyInv
  <1>2. e \in Epochs
    BY DEF OpenEpochs
  <1>3. \A a \in Voters : ballots[e][a] = NoVote
    BY <1>2 DEF NoBallots
  <1>4. s.submitters = {}
    BY <1>1, <1>3 DEF RoundExact
  <1>5. SumFunctionOnSet(validators.weights, {}) = 0
    BY FS_EmptySet, SumRecursion
  <1>6. s.total_submission_weight = 0
    BY <1>1, <1>4, <1>5 DEF RoundExact
  <1>7. \A v \in Votes : s.submission_weights[v] = 0
    <2>1. \A v \in Votes : {a \in Voters : ballots[e][a] = v} = {}
      BY <1>3, NoVoteAssumption
    <2>2. QED
      BY <1>1, <1>5, <2>1 DEF RoundExact
  <1> HIDE DEF s
  <1>8. RoundExact(w, s, ballots[e])
    BY <1>3, <1>4, <1>6, <1>7, EmptyRoundExact
  <1>9. QED
    BY <1>4, <1>8 DEF s

\* A new voting has empty rounds.
LEMMA NewVotingTally ==
  ASSUME NEW w \in [Voters -> Nat], NEW row, \A a \in Voters : row[a] = NoVote,
         NEW g, NEW p, NEW e \in Epochs
  PROVE  /\ RoundExact(w, NewVoting(g, p).epoch_vote_submissions[e], row)
         /\ NewVoting(g, p).epoch_vote_submissions[e].submitters = {}
  <1> DEFINE s == NewVoting(g, p).epoch_vote_submissions[e]
  <1>1. /\ s.submitters = {} /\ s.total_submission_weight = 0
        /\ \A v \in Votes : s.submission_weights[v] = 0
    BY DEF NewVoting, NewSubmission
  <1> HIDE DEF s
  <1>2. RoundExact(w, s, row)
    BY <1>1, EmptyRoundExact
  <1>3. QED
    BY <1>1, <1>2 DEF s

\* At the start nobody has voted.
LEMMA InitTally == Init => TallyInv
  <1> SUFFICES ASSUME Init PROVE TallyInv
    OBVIOUS
  <1>1. IInv
    BY InitGood
  <1>2. NoMembership \in [Voters -> Nat]
    BY DEF NoMembership
  <1>3. validators.weights = NoMembership /\ validators.total_weight = 0
    BY DEF Init
  <1>4. TotalWeight(NoMembership) = 0
    BY VotersAssumption, LedgerZero DEF TotalWeight, NoMembership
  <1>5. NoBallots
    BY DEF Init, NoBallots
  <1>6. voting = NewVoting(0, CheckPeriodParam)
    BY DEF Init, voting
  <1>7. \A e \in Epochs :
          /\ RoundExact(NoMembership, voting.epoch_vote_submissions[e], ballots[e])
          /\ voting.epoch_vote_submissions[e].submitters = {}
    BY <1>2, <1>5, <1>6, NewVotingTally DEF NoBallots
  <1>8. NoWedgedRound
    BY <1>7 DEF NoWedgedRound, OpenEpochs
  <1>9. QED
    BY <1>1, <1>3, <1>4, <1>5, <1>7, <1>8 DEF TallyInv, OpenEpochs

\* init_genesis_epoch keeps the invariant: nobody can have voted before.
LEMMA GenesisTally ==
  ASSUME TallyInv, NEW genesis \in GenesisEpochs, InitGenesisEpoch(genesis)
  PROVE  TallyInv'
  <1>1. IInv'
    BY InitGenesisEpochGood DEF TallyInv
  <1>2. /\ ~initialized /\ validators' = validators /\ ballots' = ballots
        /\ voting' = NewVoting(genesis, TopdownCheckPeriod)
    BY DEF InitGenesisEpoch, voting
  <1>3. NoBallots /\ validators.weights \in [Voters -> Nat]
    BY <1>2 DEF TallyInv, IInv, TypeOK
  <1>4. \A e \in Epochs :
          /\ RoundExact(validators.weights, voting'.epoch_vote_submissions[e], ballots[e])
          /\ voting'.epoch_vote_submissions[e].submitters = {}
    BY <1>2, <1>3, NewVotingTally DEF NoBallots
  <1>5. NoWedgedRound'
    BY <1>2, <1>4 DEF NoWedgedRound, OpenEpochs
  <1>6. NoBallots'
    BY <1>2, <1>3 DEF NoBallots
  <1>7. /\ (validators.weights = NoMembership \/ validators.weights \in Memberships)'
        /\ (validators.total_weight = TotalWeight(validators.weights))'
    BY <1>2 DEF TallyInv
  <1>8. \A e \in OpenEpochs' :
          RoundExact(validators.weights', voting'.epoch_vote_submissions[e], ballots'[e])
    BY <1>2, <1>4 DEF OpenEpochs
  <1>9. QED
    BY <1>1, <1>5, <1>6, <1>7, <1>8 DEF TallyInv

\* set_membership keeps the invariant: it installs the first membership, before anybody
\* could vote, or the one there already is.
LEMMA MembershipTally ==
  ASSUME OneMembership, TallyInv, NEW m \in Memberships, SetMembership(m)
  PROVE  TallyInv'
  <1>1. IInv'
    BY SetMembershipGood DEF TallyInv
  <1>2. /\ validators' = [weights |-> m, total_weight |-> TotalWeight(m)]
        /\ voting' = voting /\ ballots' = ballots /\ initialized' = initialized
    BY DEF SetMembership, voting
  <1>3. validators'.weights = m /\ validators'.total_weight = TotalWeight(m)
    BY <1>2
  <1>4. m \in [Voters -> Nat]
    BY MembershipsAssumption
  <1>5. CASE validators.weights = m
    <2>1. validators'.weights = validators.weights
      BY <1>3, <1>5
    <2>2. NoWedgedRound'
      BY <1>2, <2>1 DEF TallyInv, NoWedgedRound, OpenEpochs
    <2>3. (~initialized \/ validators.weights = NoMembership => NoBallots)'
      BY <1>2, <2>1 DEF TallyInv, NoBallots
    <2>4. \A e \in OpenEpochs' :
            RoundExact(validators'.weights, voting'.epoch_vote_submissions[e], ballots'[e])
      BY <1>2, <2>1 DEF TallyInv, OpenEpochs
    <2>5. QED
      BY <1>1, <1>3, <2>2, <2>3, <2>4 DEF TallyInv
  <1>6. CASE validators.weights = NoMembership
    <2>1. NoBallots
      BY <1>6 DEF TallyInv
    <2>2. \A e \in OpenEpochs :
            /\ RoundExact(m, voting.epoch_vote_submissions[e], ballots[e])
            /\ voting.epoch_vote_submissions[e].submitters = {}
      BY <1>4, <2>1, NoBallotsTally
    <2>3. OpenEpochs' = OpenEpochs
      BY <1>2 DEF OpenEpochs
    <2>4. NoWedgedRound'
      BY <1>2, <2>2, <2>3 DEF NoWedgedRound
    <2>5. NoBallots'
      BY <1>2, <2>1 DEF NoBallots
    <2>6. \A e \in OpenEpochs' :
            RoundExact(validators'.weights, voting'.epoch_vote_submissions[e], ballots'[e])
      BY <1>2, <1>3, <2>2, <2>3
    <2>7. QED
      BY <1>1, <1>3, <2>4, <2>5, <2>6 DEF TallyInv
  <1>7. QED
    BY <1>5, <1>6 DEF TallyInv, OneMembership

\* Every step keeps the invariant.
LEMMA NextTally ==
  ASSUME OneMembership
  PROVE  TallyInv /\ [Next]_vars => TallyInv'
  <1> SUFFICES ASSUME TallyInv, [Next]_vars PROVE TallyInv'
    OBVIOUS
  <1>1. ASSUME NEW genesis \in GenesisEpochs, InitGenesisEpoch(genesis)
        PROVE  TallyInv'
    BY <1>1, GenesisTally
  <1>2. ASSUME NEW m \in Memberships, SetMembership(m)
        PROVE  TallyInv'
    BY <1>2, MembershipTally
  <1>3. ASSUME NEW who \in Voters, NEW ch \in Ballots[who], SubmitTopdownCheck(who, ch)
        PROVE  TallyInv'
    BY <1>3, VoteTally
  <1>4. CASE UNCHANGED vars
    <2>1. IInv'
      BY <1>4, NextGood DEF TallyInv
    <2>2. /\ voting' = voting /\ ballots' = ballots /\ validators' = validators
          /\ initialized' = initialized
      BY <1>4 DEF vars, state, voting
    <2>3. NoWedgedRound'
      BY <2>2 DEF TallyInv, NoWedgedRound, OpenEpochs
    <2>4. (~initialized \/ validators.weights = NoMembership => NoBallots)'
      BY <2>2 DEF TallyInv, NoBallots
    <2>5. \A e \in OpenEpochs' :
            RoundExact(validators'.weights, voting'.epoch_vote_submissions[e], ballots'[e])
      BY <2>2 DEF TallyInv, OpenEpochs
    <2>6. /\ (validators.weights = NoMembership \/ validators.weights \in Memberships)'
          /\ (validators.total_weight = TotalWeight(validators.weights))'
      BY <2>2 DEF TallyInv
    <2>7. QED
      BY <2>1, <2>3, <2>4, <2>5, <2>6 DEF TallyInv
  <1>5. QED
    BY <1>1, <1>2, <1>3, <1>4 DEF Next

\* So it always holds.
LEMMA TallyInvariant ==
  ASSUME OneMembership
  PROVE  Spec => []TallyInv
  <1>1. Init => TallyInv
    BY InitTally
  <1>2. TallyInv /\ [Next]_vars => TallyInv'
    BY NextTally
  <1>3. QED
    BY <1>1, <1>2, PTL DEF Spec

\* While the validators keep their weights, what an open round records is what was really
\* cast in it: submit, the replacement of the leader and abort never miscount.
THEOREM CountedExactly == OneMembership => (Spec => []TallyExact)
  <1> SUFFICES ASSUME OneMembership PROVE Spec => []TallyExact
    OBVIOUS
  <1>1. TallyInv => TallyExact
    BY DEF TallyInv, TallyExact, RoundExact, WeightOf, Supporters
  <1>2. QED
    BY <1>1, TallyInvariant, PTL

\* While the validators keep their weights, no round ends with every ballot cast and
\* nothing decided: derive_execution_status gives up in time.
THEOREM NeverWedged == OneMembership => (Spec => []NoWedgedRound)
  <1> SUFFICES ASSUME OneMembership PROVE Spec => []NoWedgedRound
    OBVIOUS
  <1>1. TallyInv => NoWedgedRound
    BY DEF TallyInv
  <1>2. QED
    BY <1>1, TallyInvariant, PTL

\* A round that is given up could not have been won by any checkpoint.
LEMMA AbortedIsHopeless ==
  ASSUME TallyInv, NEW who \in Voters, NEW ch \in Ballots[who], SubmitTopdownCheck(who, ch),
         voting'.last_voting_executed_epoch < ch.epoch,
         voting'.epoch_vote_submissions[ch.epoch].submitters = {},
         NEW v \in Votes
  PROVE  LET cast == [ballots[ch.epoch] EXCEPT ![who] = ch]
             silent == {a \in Voters : cast[a] = NoVote}
         IN  ~TwoThirds(WeightOf({a \in Voters : cast[a] = v} \cup silent),
                        validators.total_weight)
  <1> DEFINE f == ch.epoch
             w == validators.weights
             total == validators.total_weight
             s == Counted(voting, ch, f, who, w[who])
             cast == [ballots[f] EXCEPT ![who] = ch]
             silent == {a \in Voters : cast[a] = NoVote}
             for == {a \in Voters : cast[a] = v}
             sum(S) == SumFunctionOnSet(w, S)
             most == LoadMostVotedWeight(s)
             turnout == s.total_submission_weight
  <1>1. IInv /\ Accepted(who, ch) /\ initialized /\ initialized' = initialized
    BY DEF TallyInv, SubmitTopdownCheck, SubmitWithoutExecution, SubmitWithMessages,
           SubmitEmpty, Accepted
  <1>2. /\ f \in Epochs /\ total \in Nat /\ w \in [Voters -> Nat]
        /\ voting' \in VotingType
    BY <1>1, BallotTypes, SubmitGood DEF IInv, TypeOK, voting
  <1>3. /\ s \in Submission /\ who \in s.submitters /\ most \in Nat
        /\ RoundExact(w, s, cast)
    BY <1>1, CountedExact DEF RoundAfter
  <1>4. VoteStatus(s, total) = RoundAbort
    <2>1. voting'.last_voting_executed_epoch \in Nat /\ f \in Nat
      BY <1>2, EpochsAssumption DEF VotingType
    <2>2. f > voting'.last_voting_executed_epoch
      BY <2>1
    <2>3. CountedRound(voting, voting', f, s, total)
      BY <1>1, <1>2, <2>2, OpenAfterVote DEF OpenRounds
    <2> HIDE DEF s
    <2>4. QED
      BY <1>3, <2>3 DEF CountedRound
  <1> HIDE DEF s, cast
  <1>5. /\ s.submitters = {a \in Voters : cast[a] # NoVote}
        /\ s.submission_weights[v] = sum(for)
        /\ turnout = sum(s.submitters)
        /\ s.submission_weights[v] <= s.submission_weights[s.most_voted_key]
        /\ s.most_voted_key # NoVote
    BY <1>3 DEF RoundExact
  <1>6. most = s.submission_weights[s.most_voted_key]
    BY <1>5 DEF LoadMostVotedWeight
  <1>7. turnout \in Nat /\ s.submission_weights[v] \in Nat
    BY <1>3 DEF Submission
  <1>8. Threshold(total) - most >= total - turnout
    BY <1>2, <1>3, <1>4, StatusFacts
  <1>9. sum(silent) = total - turnout
    <2>1. silent = Voters \ s.submitters /\ s.submitters \in SUBSET Voters
      BY <1>5
    <2>2. total = sum(Voters)
      BY <1>2, VotersAssumption, LedgerTotal DEF TallyInv, TotalWeight
    <2>3. \A a \in Voters : w[a] \in Nat
      BY <1>2
    <2> HIDE DEF silent
    <2>4. sum(Voters \ s.submitters) = sum(Voters) - sum(s.submitters)
      BY <2>1, <2>3, VotersAssumption, SumPart
    <2>5. QED
      BY <1>5, <2>1, <2>2, <2>4
  <1>10. sum(for \cup silent) = sum(for) + sum(silent) /\ sum(for \cup silent) \in Nat
    <2>1. for \cap silent = {} /\ for \in SUBSET Voters /\ silent \in SUBSET Voters
      BY NoVoteAssumption
    <2>2. \A a \in Voters : w[a] \in Nat
      BY <1>2
    <2> HIDE DEF for, silent
    <2>3. IsFiniteSet(for) /\ IsFiniteSet(silent)
      BY <2>1, VotersAssumption, FS_Subset
    <2>4. \A a \in for \cup silent : w[a] \in Int
      BY <2>1, <2>2
    <2>5. sum(for \cup silent) = sum(for) + sum(silent)
      BY <2>1, <2>3, <2>4, SumUnion
    <2>6. for \cup silent \in SUBSET Voters
      BY <2>1
    <2>7. sum(for \cup silent) \in Nat
      BY <2>2, <2>6, VotersAssumption, SumNat
    <2>8. QED
      BY <2>5, <2>7
  <1> HIDE DEF sum, for, silent, most, turnout
  <1>11. sum(for \cup silent) <= Threshold(total) /\ Threshold(total) \in Nat
    <2>1. Threshold(total) \in Nat
      BY <1>2, ThresholdExact
    <2>2. QED
      BY <1>2, <1>3, <1>5, <1>6, <1>7, <1>8, <1>9, <1>10, <2>1
  <1>12. ~TwoThirds(sum(for \cup silent), total)
    BY <1>2, <1>10, <1>11, ThresholdExact
  <1>13. QED
    BY <1>12 DEF WeightOf, sum, for, silent, cast

\* While the validators keep their weights, derive_execution_status gives a round up only
\* when no checkpoint could still reach two thirds, were all outstanding ballots for it.
THEOREM HopelessAborts == OneMembership => (Spec => AbortOnlyWhenHopeless)
  <1> SUFFICES ASSUME OneMembership PROVE Spec => AbortOnlyWhenHopeless
    OBVIOUS
  <1> DEFINE A == \A who \in Voters : \A ch \in Ballots[who] :
       LET e      == ch.epoch
           cast   == [ballots[e] EXCEPT ![who] = ch]
           silent == {a \in Voters : cast[a] = NoVote}
       IN  (/\ voting'.last_voting_executed_epoch < e
            /\ voting.epoch_vote_submissions[e].submitters # {}
            /\ voting'.epoch_vote_submissions[e].submitters = {}
            /\ SubmitTopdownCheck(who, ch))
           => \A v \in Votes :
                ~TwoThirds(WeightOf({a \in Voters : cast[a] = v} \cup silent),
                           validators.total_weight)
  <1>1. TallyInv => A
    BY AbortedIsHopeless
  <1>2. Spec => []TallyInv
    BY TallyInvariant
  <1>3. QED
    BY <1>1, <1>2, PTL DEF AbortOnlyWhenHopeless

-----------------------------------------------------------------------------

(* Consistent counting, whatever the reconfigurations *)

\* The weights of a round add up to its turnout and none exceeds the leader's.
RoundConsistent(s) ==
  /\ s.total_submission_weight = SumFunction(s.submission_weights)
  /\ s.most_voted_key = NoVote =>
       s.submitters = {} /\ \A v \in Votes : s.submission_weights[v] = 0
  /\ s.most_voted_key # NoVote =>
       \A v \in Votes : s.submission_weights[v] <= s.submission_weights[s.most_voted_key]

\* The inductive invariant.
ConsistentInv ==
  /\ IInv
  /\ \A e \in OpenEpochs : RoundConsistent(voting.epoch_vote_submissions[e])

\* submit adds the same weight to the turnout and to one checkpoint, and moves the lead
\* to that checkpoint when it overtakes.
LEMMA SubmitConsistent ==
  ASSUME IsFiniteSet(Votes), NEW s \in Submission, RoundConsistent(s), NEW who \in Voters,
         NEW vote \in Votes, NEW x \in Nat, NEW t, t = Submit(s, who, x, vote)
  PROVE  RoundConsistent(t)
  <1> DEFINE f == s.submission_weights
             g == t.submission_weights
             k == s.most_voted_key
             l == t.most_voted_key
  <1>1. /\ t \in Submission
        /\ t.total_submission_weight = s.total_submission_weight + x
        /\ g[vote] = f[vote] + x
        /\ \A v \in Votes : v # vote => g[v] = f[v]
        /\ Leads(s, vote, g[vote]) => l = vote
        /\ ~Leads(s, vote, g[vote]) => l = k
    BY SubmitEffect
  <1>2. /\ f \in [Votes -> Nat] /\ g \in [Votes -> Nat] /\ k \in Votes \cup {NoVote}
        /\ s.total_submission_weight \in Nat
    BY <1>1 DEF Submission
  <1>3. /\ s.total_submission_weight = SumFunction(f)
        /\ k = NoVote => \A v \in Votes : f[v] = 0
        /\ k # NoVote => \A v \in Votes : f[v] <= f[k]
    BY DEF RoundConsistent
  <1>4. Leads(s, vote, g[vote]) <=> k = NoVote \/ k = vote \/ g[vote] > f[k]
    BY DEF Leads
  <1> HIDE DEF f, g, k, l
  <1>5. /\ SumFunction(g) = SumFunction(f) - f[vote] + g[vote]
        /\ SumFunction(f) \in Nat /\ f[vote] \in Nat
    BY <1>1, <1>2, LedgerUpdateNat
  <1>6. t.total_submission_weight = SumFunction(g)
    BY <1>1, <1>2, <1>3, <1>5
  <1>7. l # NoVote
    BY <1>1, <1>4, NoVoteAssumption
  <1>8. ASSUME NEW v \in Votes
        PROVE  g[v] <= g[l]
    <2>1. CASE k = NoVote
      BY <1>1, <1>2, <1>3, <1>4, <2>1
    <2>2. CASE k # NoVote /\ (k = vote \/ g[vote] > f[k])
      BY <1>1, <1>2, <1>3, <1>4, <2>2
    <2>3. CASE k # NoVote /\ ~(k = vote \/ g[vote] > f[k])
      BY <1>1, <1>2, <1>3, <1>4, <2>3
    <2>4. QED
      BY <2>1, <2>2, <2>3
  <1>9. QED
    BY <1>6, <1>7, <1>8 DEF RoundConsistent, g, l

\* A round that nobody voted in.
LEMMA EmptyConsistent ==
  ASSUME IsFiniteSet(Votes), NEW s, s.total_submission_weight = 0, s.submitters = {},
         s.most_voted_key = NoVote, s.submission_weights = [v \in Votes |-> 0]
  PROVE  RoundConsistent(s)
  BY LedgerZero DEF RoundConsistent

\* A new voting is consistent.
LEMMA NewVotingConsistent ==
  ASSUME IsFiniteSet(Votes), NEW g, NEW p, NEW e \in Epochs
  PROVE  RoundConsistent(NewVoting(g, p).epoch_vote_submissions[e])
  <1> DEFINE s == NewVoting(g, p).epoch_vote_submissions[e]
  <1>1. /\ s.submitters = {} /\ s.total_submission_weight = 0 /\ s.most_voted_key = NoVote
        /\ s.submission_weights = [v \in Votes |-> 0]
    BY DEF NewVoting, NewSubmission
  <1> HIDE DEF s
  <1>2. RoundConsistent(s)
    BY <1>1, EmptyConsistent
  <1>3. QED
    BY <1>2 DEF s

\* A submission keeps the rounds consistent.
LEMMA VoteConsistent ==
  ASSUME IsFiniteSet(Votes), ConsistentInv, NEW who \in Voters, NEW ch \in Ballots[who],
         SubmitTopdownCheck(who, ch)
  PROVE  ConsistentInv'
  <1> DEFINE f == ch.epoch
             x == validators.weights[who]
             s == Counted(voting, ch, f, who, x)
             old == voting.epoch_vote_submissions[f]
             new == voting'.epoch_vote_submissions
  <1>1. IInv /\ IInv' /\ OpenRounds(who, ch) /\ initialized
    BY SubmitGood, OpenAfterVote DEF ConsistentInv, SubmitTopdownCheck,
       SubmitWithoutExecution, SubmitWithMessages, SubmitEmpty, Accepted
  <1>2. /\ ch \in Votes /\ f \in Epochs /\ x \in Nat /\ voting \in VotingType
        /\ SoundVoting(voting)
    BY <1>1, BallotTypes DEF IInv
  <1>3. s \in Submission /\ old \in Submission /\ s = Submit(old, who, x, ch)
    BY <1>2, CountedSound DEF VotingType, Counted
  <1>4. ASSUME NEW e \in Epochs, e > voting'.last_voting_executed_epoch
        PROVE  RoundConsistent(new[e])
    <2>1. e \in OpenEpochs
      BY <1>1, <1>4 DEF OpenRounds, OpenEpochs
    <2>2. RoundConsistent(voting.epoch_vote_submissions[e])
      BY <2>1 DEF ConsistentInv
    <2>3. CASE e # f
      BY <1>1, <1>4, <2>2, <2>3 DEF OpenRounds, SameRound
    <2>4. CASE e = f
      <3>1. new[e] = s \/ new[e] = Abort(s)
        BY <1>1, <1>4, <2>4 DEF OpenRounds, CountedRound
      <3> HIDE DEF s, old
      <3>2. RoundConsistent(s)
        BY <1>2, <1>3, <2>2, <2>4, SubmitConsistent DEF old
      <3>3. RoundConsistent(Abort(s))
        BY <1>3, AbortFields, EmptyConsistent
      <3>4. QED
        BY <3>1, <3>2, <3>3
    <2>5. QED
      BY <2>3, <2>4
  <1>5. QED
    BY <1>1, <1>4 DEF ConsistentInv, OpenEpochs

\* Every step keeps the rounds consistent.
LEMMA NextConsistent ==
  ASSUME IsFiniteSet(Votes)
  PROVE  ConsistentInv /\ [Next]_vars => ConsistentInv'
  <1> SUFFICES ASSUME ConsistentInv, [Next]_vars PROVE ConsistentInv'
    OBVIOUS
  <1>1. IInv'
    BY NextGood DEF ConsistentInv
  <1>2. ASSUME NEW genesis \in GenesisEpochs, InitGenesisEpoch(genesis)
        PROVE  ConsistentInv'
    <2>1. voting' = NewVoting(genesis, TopdownCheckPeriod)
      BY <1>2 DEF InitGenesisEpoch, voting
    <2>2. QED
      BY <1>1, <2>1, NewVotingConsistent DEF ConsistentInv, OpenEpochs
  <1>3. ASSUME voting' = voting
        PROVE  ConsistentInv'
    BY <1>1, <1>3 DEF ConsistentInv, OpenEpochs
  <1>4. ASSUME NEW m \in Memberships, SetMembership(m)
        PROVE  ConsistentInv'
    BY <1>3, <1>4 DEF SetMembership, voting
  <1>5. ASSUME NEW who \in Voters, NEW ch \in Ballots[who], SubmitTopdownCheck(who, ch)
        PROVE  ConsistentInv'
    BY <1>5, VoteConsistent
  <1>6. CASE UNCHANGED vars
    BY <1>3, <1>6 DEF vars, state, voting
  <1>7. QED
    BY <1>2, <1>4, <1>5, <1>6 DEF Next

\* Also when set_membership changes the weights between two ballots of a round, so that
\* weights of different memberships meet in it: the turnout is the sum of the weights
\* behind the checkpoints (of which there are finitely many), and none outweighs the leader.
THEOREM CountedConsistently == IsFiniteSet(Votes) => (Spec => []TallyConsistent)
  <1> SUFFICES ASSUME IsFiniteSet(Votes) PROVE Spec => []TallyConsistent
    OBVIOUS
  <1>1. Init => ConsistentInv
    <2> SUFFICES ASSUME Init PROVE ConsistentInv
      OBVIOUS
    <2>1. voting = NewVoting(0, CheckPeriodParam)
      BY DEF Init, voting
    <2>2. QED
      BY <2>1, InitGood, NewVotingConsistent DEF ConsistentInv, OpenEpochs
  <1>2. ConsistentInv /\ [Next]_vars => ConsistentInv'
    BY NextConsistent
  <1>3. ConsistentInv => TallyConsistent
    BY DEF ConsistentInv, TallyConsistent, RoundConsistent
  <1>4. QED
    BY <1>1, <1>2, <1>3, PTL DEF Spec
=============================================================================
