----------------------------- MODULE MCGateway -----------------------------
(* Instances of Gateway for TLC: a root with the subnets A and C, and A with B. *)
EXTENDS Gateway, TLC

R == SubnetID(1, <<>>)
A == NewFromParent(R, "a")
B == NewFromParent(A, "b")
C == NewFromParent(R, "c")

MCNetworks == {R, A, B, C}
MCChain == {R, A, B}

NoGrant == [c \in NonRoot |-> 0]

\* Tree: every kind of route there is in the tree, among them to a subnet that does not
\* exist, with two messages, first funds for the validators of A, and B or C killed.
MCTreeFund == {<<R, A>>, <<A, B>>}
MCTreeSend == {<<R, B>>, <<A, B>>, <<B, C>>, <<B, R>>, <<C, NewFromParent(A, "x")>>}
MCTreeEndowment == (A :> 7) @@ (B :> 3) @@ (C :> 2)
MCTreeGrant == (A :> 1) @@ (B :> 0) @@ (C :> 0)
MCTreeKill == {B, C}

\* Long: three messages on routes that share hops through A and the root, with the
\* first funds of the validators of A and B.
MCLongFund == {<<R, A>>}
MCLongSend == {<<R, B>>, <<B, C>>, <<B, R>>}
MCLongRelease == {A, B}
MCLongEndowment == (A :> 4) @@ (B :> 2) @@ (C :> 0)
MCLongGrant == (A :> 1) @@ (B :> 1) @@ (C :> 0)

\* Routes on which the code falls short of its documentation.
MCUpRelease == {B}
MCUpSend == {<<B, R>>}
MCUpEndowment == (A :> 4) @@ (B :> 4)

MCFailSend == {<<B, A>>}

MCDownFund == {<<R, A>>}
MCDownSend == {<<A, B>>}
MCDownEndowment == (A :> 2) @@ (B :> 0)

MCGrant == (A :> 2) @@ (B :> 0)
NoEndowment == [c \in NonRoot |-> 0]

\* A fund for a descendant further down, with a subnet of the same name below the root.
MCDeepNetworks == {R, A, B, NewFromParent(R, "b")}
MCDeepFund == {<<R, B>>}
MCDeepEndowment == (A :> 3) @@ (B :> 0) @@ (NewFromParent(R, "b") :> 0)

D == NewFromParent(B, "d")
MCDeepKillNetworks == {R, A, B, D, NewFromParent(R, "d")}
MCDeepKillFund == {<<R, D>>}
MCDeepKill == {A}
=============================================================================
