------------------------------ MODULE RouteWalk ------------------------------
(***************************************************************************)
(* One cross-message on its way through the tree of subnets, with nothing  *)
(* but the rule by which commit_cross_message and commit_topdown_msg       *)
(* (gateway/src) choose the next subnet, checked against a definition of   *)
(* the path that uses neither common_parent nor down.                      *)
(***************************************************************************)
EXTENDS SubnetPath

CONSTANTS Root,       \* the chain id of the root network
          Addresses,  \* the addresses of subnet actors
          MaxDepth    \* bound: the levels below the root

ASSUME DepthAssumption == MaxDepth \in Nat

VARIABLES from, to,   \* origin and destination of the message
          at          \* the network it has reached

vars == <<from, to, at>>

Networks ==
  UNION {{SubnetID(Root, r) : r \in [1..n -> Addresses]} : n \in 0..MaxDepth}

\* What is left of the way: the networks on the path, by the reference definition.
Path(x, y) == {n \in Networks : OnPath(n, x, y)}

Init == /\ from \in Networks /\ to \in Networks
        /\ at = from

\* The gateway of the network puts the message into its checkpoint for the parent.
HopUp == /\ at # to /\ GoesUp(from, to, at)
         /\ Parent(at) # None
         /\ at' = Parent(at)
         /\ UNCHANGED <<from, to>>

\* The gateway of the network queues the message for the next subnet below.
HopDown == /\ at # to /\ ~GoesUp(from, to, at)
           /\ Down(to, at) # None
           /\ at' = Down(to, at)
           /\ UNCHANGED <<from, to>>

\* A message that has arrived stays.
Next == HopUp \/ HopDown \/ (at = to /\ UNCHANGED vars)

Spec == Init /\ [][Next]_vars
FairSpec == Spec /\ WF_vars(HopUp) /\ WF_vars(HopDown)

-----------------------------------------------------------------------------

\* apply_type, common_parent and down agree with the tree: a message climbs no higher
\* than the nearest common parent of its ends and never strays into another branch.
StaysOnPath == OnPath(at, from, to)

\* No hop turns back: every hop shortens the path that is left by exactly one network.
HopsCloser ==
  [][Cardinality(Path(at', to)) = Cardinality(Path(at, to)) - 1]_vars

\* Whatever the two ends, the chain of hops reaches the destination.
Arrives == <>(at = to)

\* "In the path determined by the current subnet id, it moves up in the path from the
\* subnet id given as argument" (subnet_id.rs): from a network on the route of `to`,
\* up leads to its parent, and from the root, which has none, nowhere.
UpFollowsPath == Above(at, to) => Up(to, at) = Parent(at)
=============================================================================
