--------------------------- MODULE CheckpointLog ---------------------------
(***************************************************************************)
(* What voting on checkpoints promises, whoever votes and in whatever      *)
(* order: one log of checkpoints that only grows, at consecutive           *)
(* submission epochs from the genesis epoch on, each following from the    *)
(* one before, and whose messages are numbered 0, 1, 2, ... through the    *)
(* whole log.  TopDownLog and SubnetLog show that the two users of Voting  *)
(* implement it; the ballots, the rounds and the queue have no counterpart *)
(* here.                                                                   *)
(***************************************************************************)
EXTENDS Naturals, Sequences

CONSTANTS
  Entries,          \* the checkpoints there are
  Period,           \* the epochs between two of them
  Pairs,            \* whether a step may append an empty checkpoint and the next
  EpochOf(_),       \* the epoch of a checkpoint
  NoncesOf(_),      \* the nonces of its messages
  Follows(_, _)     \* whether a checkpoint can extend a log

VARIABLES
  started,          \* whether the genesis epoch has been set
  genesis,          \* the genesis epoch
  log,              \* the checkpoints decided so far
  applied           \* the number of messages in them

vars == <<started, genesis, log, applied>>

Init == /\ started \in BOOLEAN /\ genesis \in Nat
        /\ log = <<>> /\ applied = 0

\* ch is a legal next entry of the log l.
Extends(l, ch) ==
  /\ EpochOf(ch) = genesis + (Len(l) + 1) * Period
  /\ Follows(l, ch)
  /\ \A i \in DOMAIN NoncesOf(ch) : NoncesOf(ch)[i] = applied + i - 1

Start == /\ ~started /\ started' = TRUE
         /\ genesis' \in Nat
         /\ UNCHANGED <<log, applied>>

Decide(ch) ==
  /\ started /\ Extends(log, ch)
  /\ log' = Append(log, ch)
  /\ applied' = applied + Len(NoncesOf(ch))
  /\ UNCHANGED <<started, genesis>>

\* An empty checkpoint leaves room for the one behind it, in the same step.
DecideTwo(empty, ch) ==
  /\ Pairs /\ started
  /\ Extends(log, empty) /\ NoncesOf(empty) = <<>>
  /\ Extends(Append(log, empty), ch)
  /\ log' = log \o <<empty, ch>>
  /\ applied' = applied + Len(NoncesOf(ch))
  /\ UNCHANGED <<started, genesis>>

Next == \/ Start
        \/ \E ch \in Entries : Decide(ch)
        \/ \E empty, ch \in Entries : DecideTwo(empty, ch)

Spec == Init /\ [][Next]_vars
=============================================================================
