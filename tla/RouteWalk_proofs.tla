-------------------------- MODULE RouteWalk_proofs --------------------------
(***************************************************************************)
(* Proofs about RouteWalk, for every set of addresses and every depth.     *)
(***************************************************************************)
EXTENDS RouteWalk, Lemmas

All == IDs(Root, Addresses)

\* The networks are the identifiers up to the greatest depth.
LEMMA NetworksAre ==
  \A x : x \in Networks <=> x \in All /\ Depth(x) <= MaxDepth
  <1>1. ASSUME NEW x \in Networks
        PROVE  x \in All /\ Depth(x) <= MaxDepth
    <2>1. PICK n \in 0..MaxDepth : \E c \in [1..n -> Addresses] : x = SubnetID(Root, c)
      BY DEF Networks
    <2>2. PICK c \in [1..n -> Addresses] : x = SubnetID(Root, c)
      BY <2>1
    <2>3. n \in Nat /\ n <= MaxDepth
      BY DepthAssumption
    <2>4. c \in Seq(Addresses) /\ Len(c) = n
      BY <2>3
    <2>5. QED
      BY <2>2, <2>3, <2>4 DEF All, IDs, SubnetID, Depth
  <1>2. ASSUME NEW x \in All, Depth(x) <= MaxDepth
        PROVE  x \in Networks
    <2>1. Depth(x) \in 0..MaxDepth /\ x = SubnetID(Root, x.children)
      BY <1>2, IDParts, DepthAssumption DEF All
    <2>2. x.children \in [1..Depth(x) -> Addresses]
      BY IDParts, LenProperties DEF All, Depth
    <2>3. QED
      BY <2>1, <2>2 DEF Networks
  <1>3. QED
    BY <1>1, <1>2

\* The parent of a network is a network.
LEMMA ParentNetwork ==
  ASSUME NEW x \in Networks, Depth(x) # 0
  PROVE  Parent(x) \in Networks
  <1>1. x \in All /\ Depth(x) \in Nat /\ Depth(x) <= MaxDepth
    BY NetworksAre, IDParts DEF All
  <1>2. Parent(x) \in All /\ Depth(Parent(x)) = Depth(x) - 1
    BY <1>1, ParentIs DEF All
  <1>3. Depth(x) - 1 <= MaxDepth
    BY <1>1, DepthAssumption
  <1>4. QED
    BY <1>2, <1>3, NetworksAre

\* The inductive invariant.
WalkInv == from \in Networks /\ to \in Networks /\ at \in Networks /\ OnPath(at, from, to)

\* A hop up leads to the parent, which is no higher than the common parent.
LEMMA HopUpStays ==
  ASSUME WalkInv, HopUp
  PROVE  /\ WalkInv' /\ Depth(at) # 0 /\ at' = Parent(at)
         /\ CommonChildren(at, to) < Depth(at)
         /\ CommonChildren(at', to) = CommonChildren(at, to)
  <1>1. /\ from \in All /\ to \in All /\ at \in All /\ OnPath(at, from, to)
        /\ at \in Networks /\ GoesUp(from, to, at)
        /\ at' = Parent(at) /\ from' = from /\ to' = to
    BY NetworksAre DEF WalkInv, HopUp
  <1>2. /\ Depth(at) # 0 /\ CommonChildren(at, to) < Depth(at)
        /\ CommonChildren(Parent(at), to) = CommonChildren(at, to)
        /\ OnPath(Parent(at), from, to)
    BY <1>1, UpStaysOnPath DEF All
  <1>3. Parent(at) \in Networks
    BY <1>1, <1>2, ParentNetwork
  <1>4. QED
    BY <1>1, <1>2, <1>3 DEF WalkInv

\* A hop down leads from a network above the destination one level closer to it.
LEMMA HopDownStays ==
  ASSUME WalkInv, HopDown
  PROVE  /\ WalkInv' /\ Above(at, to) /\ Above(at', to) /\ Depth(at') = Depth(at) + 1
  <1>1. /\ from \in All /\ to \in All /\ at \in All /\ OnPath(at, from, to)
        /\ at' = Down(to, at) /\ Down(to, at) # None /\ ~GoesUp(from, to, at)
        /\ from' = from /\ to' = to
    BY NetworksAre DEF WalkInv, HopDown
  <1>2. Above(at, to)
    BY <1>1, ClimbsBelowTurn DEF All
  <1>3. at' \in All /\ Depth(at') = Depth(at) + 1 /\ Above(at', to) /\ OnPath(at', from, to)
    BY <1>1, <1>2, DownIs, DownStaysOnPath DEF All
  <1>4. at' \in Networks
    <2>1. Depth(at') <= Depth(to) /\ Depth(to) <= MaxDepth
      BY <1>1, <1>3, AboveIs, NetworksAre DEF WalkInv, All
    <2>2. Depth(at') \in Nat /\ Depth(to) \in Nat
      BY <1>1, <1>3, IDParts DEF All
    <2>3. Depth(at') <= MaxDepth
      BY <2>1, <2>2, DepthAssumption
    <2>4. QED
      BY <1>3, <2>3, NetworksAre
  <1>5. QED
    BY <1>1, <1>2, <1>3, <1>4 DEF WalkInv

\* The invariant is inductive.
LEMMA AlwaysOnPath == Spec => []WalkInv
  <1>1. Init => WalkInv
    <2> SUFFICES ASSUME Init PROVE WalkInv
      OBVIOUS
    <2>1. from \in Networks /\ to \in Networks /\ at = from /\ from \in All /\ to \in All
      BY NetworksAre DEF Init
    <2>2. OnPath(from, from, to)
      BY <2>1, PathStarts DEF All
    <2>3. QED
      BY <2>1, <2>2 DEF WalkInv
  <1>2. WalkInv /\ [Next]_vars => WalkInv'
    <2> SUFFICES ASSUME WalkInv, [Next]_vars PROVE WalkInv'
      OBVIOUS
    <2>1. CASE HopUp
      BY <2>1, HopUpStays
    <2>2. CASE HopDown
      BY <2>2, HopDownStays
    <2>3. CASE UNCHANGED vars
      BY <2>3 DEF vars, WalkInv
    <2>4. QED
      BY <2>1, <2>2, <2>3 DEF Next
  <1>3. QED
    BY <1>1, <1>2, PTL DEF Spec

\* A message never leaves the path between its origin and its destination, however deep
\* the hierarchy and however many subnets it has.
THEOREM NeverStrays == Spec => []StaysOnPath
  <1>1. WalkInv => StaysOnPath
    BY DEF WalkInv, StaysOnPath
  <1>2. QED
    BY <1>1, AlwaysOnPath, PTL

\* The ancestors of a network, itself included, are finitely many.
LEMMA FewAncestors ==
  ASSUME NEW x \in All
  PROVE  IsFiniteSet({n \in All : Above(n, x)})
  <1> DEFINE d == Depth(x)
             Ancestors == {n \in All : Above(n, x)}
             f == [k \in 0..d |-> Prefix(x, k)]
  <1>1. d \in Nat
    BY IDParts DEF All
  <1>2. IsFiniteSet(0..d)
    BY <1>1, FS_Interval
  <1>3. ASSUME NEW k \in 0..d
        PROVE  Prefix(x, k) \in Ancestors
    <2>1. Prefix(x, k) \in All /\ Depth(Prefix(x, k)) = k /\ Agree(Prefix(x, k), x, k)
      BY PrefixFields DEF All
    <2>2. k <= d
      BY <1>1
    <2>3. QED
      BY <2>1, <2>2, AboveIs DEF All
  <1>4. ASSUME NEW n \in Ancestors
        PROVE  \E k \in 0..d : f[k] = n
    <2>1. Depth(n) \in Nat /\ Depth(n) <= d /\ Agree(n, x, Depth(n))
      BY IDParts, AboveIs DEF All
    <2>2. Depth(n) \in 0..d
      BY <1>1, <2>1
    <2>3. /\ Prefix(x, Depth(n)) \in All /\ Depth(Prefix(x, Depth(n))) = Depth(n)
          /\ Agree(Prefix(x, Depth(n)), x, Depth(n))
      BY <2>2, PrefixFields DEF All
    <2>4. Agree(n, Prefix(x, Depth(n)), Depth(n))
      BY <2>1, <2>3 DEF Agree
    <2>5. n = Prefix(x, Depth(n))
      BY <2>3, <2>4, SameID DEF All
    <2>6. QED
      BY <2>2, <2>5
  <1>5. f \in Surjection(0..d, Ancestors)
    BY <1>3, <1>4 DEF Surjection
  <1> HIDE DEF Ancestors, d, f
  <1>6. IsFiniteSet(Ancestors)
    BY <1>2, <1>5, FS_Surjection
  <1>7. QED
    BY <1>6 DEF Ancestors

\* So is the way that is left.
LEMMA PathFinite ==
  ASSUME NEW x \in Networks, NEW y \in Networks
  PROVE  IsFiniteSet(Path(x, y))
  <1> DEFINE A == {n \in All : Above(n, x)}
             B == {n \in All : Above(n, y)}
  <1>1. x \in All /\ y \in All
    BY NetworksAre
  <1>2. IsFiniteSet(A) /\ IsFiniteSet(B)
    BY <1>1, FewAncestors
  <1>3. Path(x, y) \subseteq A \cup B
    BY NetworksAre DEF Path, OnPath
  <1> HIDE DEF A, B
  <1>4. IsFiniteSet(A \cup B)
    BY <1>2, FS_Union
  <1>5. QED
    BY <1>3, <1>4, FS_Subset

\* A hop that takes its network, and nothing else, off the way that is left.
LEMMA OneCloser ==
  ASSUME NEW x \in Networks, NEW y \in Networks, NEW next,
         Path(next, y) = Path(x, y) \ {x}
  PROVE  Cardinality(Path(next, y)) = Cardinality(Path(x, y)) - 1
  <1>1. x \in All /\ y \in All
    BY NetworksAre
  <1>2. Depth(x) \in Nat /\ CommonChildren(x, y) <= Depth(x)
    BY <1>1, IDParts, CommonLevels DEF All
  <1>3. Above(x, x)
    BY <1>1, AboveSelf DEF All
  <1>4. x \in Path(x, y)
    BY <1>1, <1>2, <1>3, PathIs DEF All, Path
  <1>5. IsFiniteSet(Path(x, y))
    BY PathFinite
  <1>6. QED
    BY <1>4, <1>5, FS_RemoveElement

\* What is above a network is the network itself or above its parent.
LEMMA AboveParent ==
  ASSUME NEW x \in Networks, Depth(x) # 0, NEW n \in Networks
  PROVE  Above(n, x) <=> n = x \/ Above(n, Parent(x))
  <1> DEFINE p == Parent(x)
  <1>1. p \in Networks /\ Depth(p) = Depth(x) - 1 /\ Agree(p, x, Depth(x) - 1)
    BY NetworksAre, ParentNetwork, ParentIs DEF All
  <1>2. x \in All /\ p \in All /\ n \in All
    BY <1>1, NetworksAre
  <1>3. Depth(x) \in Nat /\ Depth(n) \in Nat
    BY <1>2, IDParts DEF All
  <1> HIDE DEF p
  <1>4. ASSUME Above(n, x), n # x
        PROVE  Above(n, p)
    <2>1. Depth(n) <= Depth(x) /\ Agree(n, x, Depth(n))
      BY <1>2, <1>4, AboveIs DEF All
    <2>2. Depth(n) # Depth(x)
      BY <1>2, <1>4, <2>1, SameID DEF All
    <2>3. Depth(n) <= Depth(p) /\ 1..Depth(n) \subseteq 1..(Depth(x) - 1)
      BY <1>1, <1>3, <2>1, <2>2
    <2>4. Agree(n, p, Depth(n))
      BY <1>1, <2>1, <2>3 DEF Agree
    <2>5. QED
      BY <1>2, <2>3, <2>4, AboveIs DEF All
  <1>5. ASSUME Above(n, p)
        PROVE  Above(n, x)
    <2>1. Depth(n) <= Depth(p) /\ Agree(n, p, Depth(n))
      BY <1>2, <1>5, AboveIs DEF All
    <2>2. Depth(n) <= Depth(x) /\ 1..Depth(n) \subseteq 1..(Depth(x) - 1)
      BY <1>1, <1>3, <2>1
    <2>3. Agree(n, x, Depth(n))
      BY <1>1, <2>1, <2>2 DEF Agree
    <2>4. QED
      BY <1>2, <2>2, <2>3, AboveIs DEF All
  <1>6. Above(x, x)
    BY <1>2, AboveSelf DEF All
  <1>7. QED
    BY <1>4, <1>5, <1>6 DEF p

\* Up: the way from the parent is the way from the network without the network.
LEMMA UpCloser ==
  ASSUME NEW x \in Networks, NEW y \in Networks, Depth(x) # 0,
         CommonChildren(x, y) < Depth(x), CommonChildren(Parent(x), y) = CommonChildren(x, y)
  PROVE  Path(Parent(x), y) = Path(x, y) \ {x}
  <1> DEFINE p == Parent(x)
             m == CommonChildren(x, y)
  <1>1. p \in Networks /\ Depth(p) = Depth(x) - 1
    BY NetworksAre, ParentNetwork, ParentIs DEF All
  <1>2. x \in All /\ y \in All /\ p \in All
    BY <1>1, NetworksAre
  <1>3. Depth(x) \in Nat
    BY <1>2, IDParts DEF All
  <1>4. m \in Nat
    BY <1>2, CommonLevels DEF All
  <1>5. ~Above(x, y)
    BY <1>2, <1>3, <1>4, AboveCommon DEF All
  <1>6. ASSUME NEW n \in Networks
        PROVE  OnPath(n, p, y) <=> OnPath(n, x, y) /\ n # x
    <2>1. n \in All
      BY NetworksAre
    <2>2. Above(n, x) <=> n = x \/ Above(n, p)
      BY AboveParent
    <2>3. ~Above(x, p)
      <3>1. ~(Depth(x) <= Depth(p))
        BY <1>1, <1>3
      <3>2. QED
        BY <1>2, <3>1, AboveIs DEF All
    <2>4. /\ OnPath(n, p, y) <=> (Above(n, p) \/ Above(n, y)) /\ m <= Depth(n)
          /\ OnPath(n, x, y) <=> (Above(n, x) \/ Above(n, y)) /\ m <= Depth(n)
      BY <1>2, <2>1, PathIs DEF All
    <2>5. QED
      BY <1>5, <2>2, <2>3, <2>4
  <1>7. QED
    BY <1>6 DEF Path

\* Down: likewise for a network above the destination and the next one below.
LEMMA DownCloser ==
  ASSUME NEW x \in Networks, NEW y \in Networks, NEW z \in Networks,
         Above(x, y), Above(z, y), Depth(z) = Depth(x) + 1
  PROVE  Path(z, y) = Path(x, y) \ {x}
  <1>1. x \in All /\ y \in All /\ z \in All
    BY NetworksAre
  <1>2. Depth(x) \in Nat
    BY <1>1, IDParts DEF All
  <1>3. CommonChildren(x, y) = Depth(x) /\ CommonChildren(z, y) = Depth(x) + 1
    BY <1>1, AboveCommon DEF All
  <1>4. ASSUME NEW n \in All, NEW w \in All, Above(n, w), Above(w, y)
        PROVE  Above(n, y)
    <2>1. /\ Depth(n) <= Depth(w) /\ Agree(n, w, Depth(n))
          /\ Depth(w) <= Depth(y) /\ Agree(w, y, Depth(w))
      BY <1>1, <1>4, AboveIs DEF All
    <2>2. Depth(n) \in Nat /\ Depth(w) \in Nat /\ Depth(y) \in Nat
      BY <1>1, IDParts DEF All
    <2>3. Depth(n) <= Depth(y) /\ 1..Depth(n) \subseteq 1..Depth(w)
      BY <2>1, <2>2
    <2>4. Agree(n, y, Depth(n))
      BY <2>1, <2>3 DEF Agree
    <2>5. QED
      BY <1>1, <2>3, <2>4, AboveIs DEF All
  <1>5. ASSUME NEW n \in Networks
        PROVE  OnPath(n, z, y) <=> OnPath(n, x, y) /\ n # x
    <2>1. n \in All /\ Depth(n) \in Nat
      BY NetworksAre, IDParts DEF All
    <2>2. /\ OnPath(n, z, y) <=> Above(n, y) /\ Depth(x) + 1 <= Depth(n)
          /\ OnPath(n, x, y) <=> Above(n, y) /\ Depth(x) <= Depth(n)
      BY <1>1, <1>3, <1>4, <2>1, PathIs DEF All
    <2>3. ASSUME Above(n, y), Depth(n) = Depth(x)
          PROVE  n = x
      <3>1. Agree(n, y, Depth(n)) /\ Agree(x, y, Depth(x))
        BY <1>1, <2>1, <2>3, AboveIs DEF All
      <3>2. Agree(n, x, Depth(n))
        BY <2>3, <3>1 DEF Agree
      <3>3. QED
        BY <1>1, <2>1, <2>3, <3>2, SameID DEF All
    <2>4. Depth(x) + 1 <= Depth(n) <=> Depth(x) <= Depth(n) /\ Depth(n) # Depth(x)
      BY <1>2, <2>1
    <2>5. QED
      BY <2>2, <2>3, <2>4
  <1>6. QED
    BY <1>5 DEF Path

\* Every hop shortens the way that is left by exactly one network: no message is sent back
\* or in a circle, whatever its ends.
THEOREM EveryHopCloser == Spec => HopsCloser
  <1>1. WalkInv /\ [Next]_vars =>
          [Cardinality(Path(at', to)) = Cardinality(Path(at, to)) - 1]_vars
    <2> SUFFICES ASSUME WalkInv, Next
                 PROVE  \/ Cardinality(Path(at', to)) = Cardinality(Path(at, to)) - 1
                        \/ UNCHANGED vars
      OBVIOUS
    <2>1. at \in Networks /\ to \in Networks
      BY DEF WalkInv
    <2>2. CASE HopUp
      <3>1. /\ Depth(at) # 0 /\ at' = Parent(at) /\ CommonChildren(at, to) < Depth(at)
            /\ CommonChildren(at', to) = CommonChildren(at, to)
        BY <2>2, HopUpStays
      <3>2. Path(at', to) = Path(at, to) \ {at}
        BY <2>1, <3>1, UpCloser
      <3>3. QED
        BY <2>1, <3>2, OneCloser
    <2>3. CASE HopDown
      <3>1. Above(at, to) /\ Above(at', to) /\ Depth(at') = Depth(at) + 1 /\ at' \in Networks
        BY <2>3, HopDownStays DEF WalkInv
      <3>2. Path(at', to) = Path(at, to) \ {at}
        BY <2>1, <3>1, DownCloser
      <3>3. QED
        BY <2>1, <3>2, OneCloser
    <2>4. QED
      BY <2>2, <2>3 DEF Next
  <1>2. QED
    BY <1>1, AlwaysOnPath, PTL DEF Spec, HopsCloser
=============================================================================
