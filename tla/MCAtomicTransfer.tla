--------------------------- MODULE MCAtomicTransfer ---------------------------
(* Instances of AtomicTransfer for TLC. *)
EXTENDS AtomicTransfer, TLC

CONSTANTS p, q, a, b, c

\* What the accounts of each token own: two with unequal amounts, or three with one
\* token where there is any.
MCBalances == [t \in Tokens |-> (a :> 2) @@ (b :> 1)]
MCSingles == [t \in Tokens |-> (a :> 1) @@ (b :> 0) @@ (c :> 1)]

\* Every execution of one transfer at each token.
MCExecutions == [Tokens -> InputIds]

\* Of these, one for the first transfers and two rivals for the second transfer of q.
MCRivals == {(p :> 0) @@ (q :> 0), (p :> 1) @@ (q :> 1), (p :> 0) @@ (q :> 1)}

Tr(from, to, amount) == [from |-> from, to |-> to, amount |-> amount]

\* From a to b, and back: either account may be locked when the other one's transfer
\* is committed.
MCBothWays == {Tr(a, b, 1), Tr(b, a, 2)}

\* From a to b, and back with a negative amount: both move tokens from a to b, the second
\* also when a has none.
MCSigned == {Tr(a, b, 1), Tr(b, a, -1)}

\* From a and from c to b: two transfers may be pending at one token, and the receiver
\* is never locked.  The second amount is negative: it takes a token from b.
MCToOne == {Tr(a, b, 1), Tr(c, b, -1)}

\* From a to b only: the receiver is never locked.
MCOneWay == {Tr(a, b, 1), Tr(a, b, 2)}

\* A transfer to oneself.
MCToSelf == {Tr(a, a, 1)}
=============================================================================
