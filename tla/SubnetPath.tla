----------------------------- MODULE SubnetPath -----------------------------
(***************************************************************************)
(* Subnet identifiers (sdk/src/subnet_id.rs) and the direction of a        *)
(* cross-message (sdk/src/cross.rs).  An identifier is the chain id of the *)
(* root network and the route from the root: the address of the subnet     *)
(* actor at every level.  It is a node of the tree of subnets, and a       *)
(* message travels along the path between two nodes: from its origin up to *)
(* the nearest common parent, then down.                                   *)
(*                                                                         *)
(* Pure operators, without state; RouteWalk walks them, Gateway routes     *)
(* with them.  Parsing, formatting and the two spellings of an address     *)
(* (f0 and f2) are left out: an address is an atom.                        *)
(***************************************************************************)
EXTENDS Naturals, Sequences, FiniteSets

\* What an Option<SubnetID> without a subnet is, and the outcome of a call that
\* panics instead of returning.
None  == [none |-> TRUE]
Panic == [panic |-> TRUE]

SubnetID(root, children) == [root |-> root, children |-> children]

\* The subnet whose actor has address subnet_act in the network parent.
NewFromParent(parent, subnet_act) ==
  SubnetID(parent.root, Append(parent.children, subnet_act))

IsRoot(id) == id.children = <<>>

\* The address of the subnet's actor in the parent; only asked of subnets with one.
SubnetActorOf(id) == id.children[Len(id.children)]

\* The first n levels of a route: children()[..n].
Prefix(id, n) == SubnetID(id.root, SubSeq(id.children, 1, n))

Parent(id) == IF IsRoot(id) THEN None ELSE Prefix(id, Len(id.children) - 1)

\* A plausible slip: levels that agree are counted past the first difference.
CommonChildrenAnywhere(a, b) ==
  Cardinality({k \in 1..Len(a.children) :
                 k <= Len(b.children) /\ a.children[k] = b.children[k]})

\* The number of leading levels on which the routes agree: zip, take_while, count.
CommonChildren(a, b) ==
  Cardinality({k \in 1..Len(a.children) :
                 /\ k <= Len(b.children)
                 /\ \A j \in 1..k : a.children[j] = b.children[j]})

\* The nearest common parent, and None for networks of different roots.
CommonParent(a, b) ==
  IF a.root # b.root THEN None
  ELSE [index |-> CommonChildren(a, b), id |-> Prefix(a, CommonChildren(a, b))]

\* A plausible slip: the step stops at the common parent.
DownStays(id, from) ==
  IF Len(id.children) <= Len(from.children) \/ id.root # from.root THEN None
  ELSE Prefix(id, CommonChildren(id, from))

\* On the route of id, one level below from.
Down(id, from) ==
  IF Len(id.children) <= Len(from.children) \/ id.root # from.root THEN None
  ELSE Prefix(id, CommonChildren(id, from) + 1)

\* On the route of id, one level above from.  The index is unsigned: where the routes
\* have no level in common, i - 1 is below zero and the call panics.
Up(id, from) ==
  IF Len(id.children) < Len(from.children) \/ id.root # from.root THEN None
  ELSE IF CommonChildren(id, from) = 0 THEN Panic
  ELSE Prefix(id, CommonChildren(id, from) - 1)

BottomUp == "BottomUp"
TopDown  == "TopDown"

\* The origin lies below the common parent: the message has to climb first.
IsBottomUp(from, to) ==
  from.root = to.root /\ Len(from.children) > CommonChildren(from, to)

IpcType(from, to) == IF IsBottomUp(from, to) THEN BottomUp ELSE TopDown

\* A plausible slip: the direction of a message is the one it started with.
ApplyTypeAtOrigin(from, to, curr) == IpcType(from, to)

\* How the network curr sees a message: it stays bottom-up until it has passed the
\* common parent of its origin and its destination.
ApplyType(from, to, curr) ==
  IF CommonParent(curr, to) = CommonParent(from, to) /\ IpcType(from, to) = BottomUp
  THEN BottomUp ELSE TopDown

\* A plausible slip: a message does not turn round at the common parent.
GoesUpPastTurn(from, to, curr) ==
  ApplyType(from, to, curr) = BottomUp /\ ~IsRoot(curr)

\* Whether the gateway of curr passes a message on to its parent, in a checkpoint, or
\* to the next subnet below: a bottom-up message turns round at the common parent.
GoesUp(from, to, curr) ==
  /\ ApplyType(from, to, curr) = BottomUp
  /\ CommonParent(to, from).id # curr

-----------------------------------------------------------------------------
(* A reference for the tree, used by properties: it needs neither CommonParent nor Down. *)

\* x is y or one of its ancestors.
Above(x, y) ==
  /\ x.root = y.root /\ Len(x.children) <= Len(y.children)
  /\ \A k \in 1..Len(x.children) : x.children[k] = y.children[k]

\* n lies on the path between x and y: above one of them and below whatever is above
\* both.
OnPath(n, x, y) ==
  /\ Above(n, x) \/ Above(n, y)
  /\ \A k \in 0..Len(x.children) : Above(Prefix(x, k), y) => Above(Prefix(x, k), n)

=============================================================================
