------------------------------- MODULE Lemmas -------------------------------
(***************************************************************************)
(* Lemmas on the operators without state that the theorems of several      *)
(* modules rest on.                                                        *)
(*                                                                         *)
(* First, what SumFunctionOnSet and SumFunction compute: the facts about   *)
(* sums over finite sets behind the accounts of the models (stakes,        *)
(* weights, balances, message counts).  The library's fold is a recursive  *)
(* function over the subsets of a set, that is, a CHOOSE.  The lemmas show *)
(* that the chosen function exists (SumRecursion), that any element may be *)
(* taken out first (SumRemove), and everything else from that, by          *)
(* induction over the subsets of a finite set.  The induction principle    *)
(* takes the property as a set, not as an operator.                        *)
(*                                                                         *)
(* Second, what the operators of SubnetPath compute: common_parent, down   *)
(* and the direction of a message, in terms of the levels of the routes,   *)
(* for identifiers of any depth.                                           *)
(***************************************************************************)
EXTENDS SubnetPath, Functions, Integers, FiniteSetTheorems, WellFoundedInduction,
        SequenceTheorems, TLAPS

\* Every nonempty set of naturals has a least element.
LEMMA LeastNatural ==
  ASSUME NEW N \in SUBSET Nat, N # {}
  PROVE  \E x \in N : \A y \in N : x <= y
  <1>1. PICK x \in N : \A y \in N : ~(<<y, x>> \in OpToRel(<, Nat))
    BY WFMin, NatLessThanWellFounded
  <1>2. ASSUME NEW y \in N, y < x PROVE FALSE
    BY <1>1, <1>2 DEF OpToRel
  <1>3. QED
    BY <1>2

\* Induction over the subsets of a finite set: what holds of a set whenever it holds
\* of the set without any one of its elements holds of all subsets.
LEMMA SubsetInduction ==
  ASSUME NEW S, IsFiniteSet(S), NEW P,
         \A T \in SUBSET S : (\A x \in T : T \ {x} \in P) => T \in P
  PROVE  \A T \in SUBSET S : T \in P
  <1> DEFINE Bad == {T \in SUBSET S : T \notin P}
             Sizes == {Cardinality(T) : T \in Bad}
  <1>1. SUFFICES ASSUME Bad # {} PROVE FALSE
    OBVIOUS
  <1>2. \A T \in SUBSET S : IsFiniteSet(T) /\ Cardinality(T) \in Nat
    BY FS_Subset, FS_CardinalityType
  <1>3. Sizes \in SUBSET Nat /\ Sizes # {}
    BY <1>1, <1>2
  <1>4. PICK n \in Sizes : \A m \in Sizes : n <= m
    BY <1>3, LeastNatural
  <1>5. PICK T \in Bad : n = Cardinality(T)
    OBVIOUS
  <1>6. ASSUME NEW x \in T PROVE T \ {x} \in P
    <2>1. Cardinality(T \ {x}) = n - 1
      BY <1>2, <1>5, FS_RemoveElement
    <2>2. n \in Nat
      BY <1>3
    <2>3. Cardinality(T \ {x}) \notin Sizes
      BY <2>1, <2>2, <1>3, <1>4
    <2>4. T \ {x} \in SUBSET S
      OBVIOUS
    <2>5. QED
      BY <2>3, <2>4
  <1>7. QED
    BY <1>6

\* One unfolding of the fold behind SumFunctionOnSet.
SumStep(f, g, s) ==
  IF s = {} THEN 0
  ELSE f[CHOOSE x \in s : TRUE] + g[s \ {CHOOSE x \in s : TRUE}]

\* The fold, with its operators in place.
LEMMA SumUnfold ==
  ASSUME NEW f, NEW S
  PROVE  SumFunctionOnSet(f, S)
           = (CHOOSE g : g = [s \in SUBSET S |-> SumStep(f, g, s)])[S]
  BY DEF SumFunctionOnSet, FoldFunctionOnSet, MapThenFoldSet, SumStep

\* A nonempty set's chosen element is in it.
LEMMA ChosenElement ==
  ASSUME NEW s, s # {}
  PROVE  (CHOOSE x \in s : TRUE) \in s
  OBVIOUS

\* Induction over the naturals, with the property as a set.
LEMMA NatSetInduction ==
  ASSUME NEW P, 0 \in P, \A n \in Nat : n \in P => n + 1 \in P
  PROVE  \A n \in Nat : n \in P
  <1> DEFINE Bad == {n \in Nat : n \notin P}
  <1>1. SUFFICES ASSUME Bad # {} PROVE FALSE
    OBVIOUS
  <1>2. PICK n \in Bad : \A m \in Bad : n <= m
    BY <1>1, LeastNatural
  <1>3. n - 1 \in Nat /\ n - 1 \notin Bad
    BY <1>2
  <1>4. QED
    BY <1>3

\* The function the fold chooses exists, for every finite set.
LEMMA SumFunctionExists ==
  ASSUME NEW f, NEW S, IsFiniteSet(S)
  PROVE  \E g : g = [s \in SUBSET S |-> SumStep(f, g, s)]
  <1> DEFINE Level(n) == {s \in SUBSET S : Cardinality(s) <= n}
             Good(g, n) == g = [s \in Level(n) |-> SumStep(f, g, s)]
             P == {n \in Nat : \E g : Good(g, n)}
  <1>1. \A s \in SUBSET S : /\ IsFiniteSet(s) /\ Cardinality(s) \in Nat
                            /\ Cardinality(s) <= Cardinality(S)
    BY FS_Subset, FS_CardinalityType
  <1>2. 0 \in P
    <2> DEFINE g == [s \in Level(0) |-> 0]
    <2>1. ASSUME NEW s \in Level(0) PROVE SumStep(f, g, s) = 0
      <3>1. s = {}
        BY <1>1, FS_EmptySet
      <3>2. QED
        BY <3>1 DEF SumStep
    <2>2. Good(g, 0)
      BY <2>1
    <2>3. QED
      BY <2>2
  <1>3. ASSUME NEW n \in Nat, n \in P PROVE n + 1 \in P
    <2>1. PICK g : Good(g, n)
      BY <1>3
    <2> DEFINE h == [s \in Level(n + 1) |-> SumStep(f, g, s)]
    <2>2. ASSUME NEW s \in Level(n + 1) PROVE SumStep(f, g, s) = SumStep(f, h, s)
      <3>1. CASE s = {}
        BY <3>1 DEF SumStep
      <3>2. CASE s # {}
        <4> DEFINE x == CHOOSE x \in s : TRUE
                   t == s \ {x}
        <4>1. x \in s
          BY <3>2, ChosenElement
        <4> HIDE DEF x
        <4>2. t \in SUBSET S /\ Cardinality(t) = Cardinality(s) - 1
          BY <4>1, <1>1, FS_RemoveElement
        <4>3. t \in Level(n) /\ t \in Level(n + 1)
          BY <4>2, <1>1
        <4>4. g[t] = SumStep(f, g, t)
          BY <2>1, <4>3
        <4>5. h[t] = g[t]
          BY <4>3, <4>4
        <4> HIDE DEF t, h
        <4>6. SumStep(f, g, s) = f[x] + g[t] /\ SumStep(f, h, s) = f[x] + h[t]
          BY <3>2 DEF SumStep, x, t
        <4>7. QED
          BY <4>5, <4>6
      <3>3. QED
        BY <3>1, <3>2
    <2>3. Good(h, n + 1)
      BY <2>2
    <2>4. \E k : Good(k, n + 1)
      BY <2>3
    <2> HIDE DEF Good
    <2>5. QED
      BY <2>4
  <1> HIDE DEF Good
  <1>4. Cardinality(S) \in P
    <2>1. Cardinality(S) \in Nat
      BY FS_CardinalityType
    <2> HIDE DEF P
    <2>2. QED
      BY <1>2, <1>3, <2>1, NatSetInduction
  <1>5. PICK g : Good(g, Cardinality(S))
    BY <1>4
  <1>6. Level(Cardinality(S)) = SUBSET S
    BY <1>1
  <1>7. QED
    BY <1>5, <1>6 DEF Good

\* The recursion of the fold, on every subset of a finite set.
LEMMA SumIsFold ==
  ASSUME NEW f, NEW S, IsFiniteSet(S)
  PROVE  \E g : /\ g = [s \in SUBSET S |-> SumStep(f, g, s)]
                /\ SumFunctionOnSet(f, S) = g[S]
  <1> DEFINE g == CHOOSE g : g = [s \in SUBSET S |-> SumStep(f, g, s)]
  <1>1. g = [s \in SUBSET S |-> SumStep(f, g, s)]
    BY SumFunctionExists
  <1>2. SumFunctionOnSet(f, S) = g[S]
    BY SumUnfold
  <1> HIDE DEF g
  <1>3. QED
    BY <1>1, <1>2

\* Such a function takes the sum of a subset as its value there.
LEMMA FoldAgrees ==
  ASSUME NEW f, NEW S, IsFiniteSet(S), NEW g,
         g = [s \in SUBSET S |-> SumStep(f, g, s)]
  PROVE  \A T \in SUBSET S : g[T] = SumFunctionOnSet(f, T)
  <1>1. SUFFICES ASSUME NEW T \in SUBSET S PROVE g[T] = SumFunctionOnSet(f, T)
    OBVIOUS
  <1>2. IsFiniteSet(T)
    BY FS_Subset
  <1>3. PICK h : /\ h = [s \in SUBSET T |-> SumStep(f, h, s)]
                 /\ SumFunctionOnSet(f, T) = h[T]
    BY <1>2, SumIsFold
  <1> DEFINE P == {s \in SUBSET T : g[s] = h[s]}
  <1>4. ASSUME NEW s \in SUBSET T, \A x \in s : s \ {x} \in P PROVE s \in P
    <2>1. g[s] = SumStep(f, g, s)
      OBVIOUS
    <2>2. h[s] = SumStep(f, h, s)
      BY <1>3
    <2>3. CASE s = {}
      BY <2>1, <2>2, <2>3 DEF SumStep
    <2>4. CASE s # {}
      <3> DEFINE x == CHOOSE x \in s : TRUE
      <3>1. x \in s
        BY <2>4, ChosenElement
      <3>2. g[s \ {x}] = h[s \ {x}]
        BY <1>4, <3>1
      <3>3. SumStep(f, g, s) = f[x] + g[s \ {x}] /\ SumStep(f, h, s) = f[x] + h[s \ {x}]
        BY <2>4 DEF SumStep
      <3>4. QED
        BY <2>1, <2>2, <3>2, <3>3
    <2>5. QED
      BY <2>3, <2>4
  <1> HIDE DEF P
  <1>5. \A s \in SUBSET T : s \in P
    BY <1>2, <1>4, SubsetInduction
  <1>6. QED
    BY <1>3, <1>5 DEF P

\* The sum over the empty set, and over a nonempty one by its chosen element.
LEMMA SumRecursion ==
  ASSUME NEW f, NEW S, IsFiniteSet(S)
  PROVE  /\ SumFunctionOnSet(f, {}) = 0
         /\ S # {} => \E x \in S :
              SumFunctionOnSet(f, S) = f[x] + SumFunctionOnSet(f, S \ {x})
  <1>1. PICK g : g = [s \in SUBSET S |-> SumStep(f, g, s)]
    BY SumFunctionExists
  <1>2. \A T \in SUBSET S : g[T] = SumFunctionOnSet(f, T)
    BY <1>1, FoldAgrees, ZenonT(60)
  <1>3. \A T \in SUBSET S : g[T] = SumStep(f, g, T)
    BY <1>1
  <1>4. SumFunctionOnSet(f, {}) = 0
    BY <1>2, <1>3 DEF SumStep
  <1>5. ASSUME S # {}
        PROVE  \E x \in S : SumFunctionOnSet(f, S) = f[x] + SumFunctionOnSet(f, S \ {x})
    <2> DEFINE x == CHOOSE x \in S : TRUE
    <2>1. x \in S
      BY <1>5, ChosenElement
    <2>2. SumStep(f, g, S) = f[x] + g[S \ {x}]
      BY <1>5 DEF SumStep
    <2> HIDE DEF x
    <2>3. SumFunctionOnSet(f, S) = f[x] + SumFunctionOnSet(f, S \ {x})
      BY <1>2, <1>3, <2>2
    <2>4. QED
      BY <2>1, <2>3
  <1>6. QED
    BY <1>4, <1>5

\* Sums of integers are integers.
LEMMA SumInt ==
  ASSUME NEW S, IsFiniteSet(S), NEW f, \A x \in S : f[x] \in Int
  PROVE  \A T \in SUBSET S : SumFunctionOnSet(f, T) \in Int
  <1> DEFINE P == {T \in SUBSET S : SumFunctionOnSet(f, T) \in Int}
  <1>1. ASSUME NEW T \in SUBSET S, \A x \in T : T \ {x} \in P PROVE T \in P
    <2>1. IsFiniteSet(T)
      BY FS_Subset
    <2>2. CASE T = {}
      BY <2>1, <2>2, SumRecursion
    <2>3. CASE T # {}
      <3>1. PICK x \in T : SumFunctionOnSet(f, T) = f[x] + SumFunctionOnSet(f, T \ {x})
        BY <2>1, <2>3, SumRecursion
      <3>2. T \ {x} \in P
        BY <1>1
      <3>3. QED
        BY <3>1, <3>2
    <2>4. QED
      BY <2>2, <2>3
  <1> HIDE DEF P
  <1>2. \A T \in SUBSET S : T \in P
    BY <1>1, SubsetInduction
  <1>3. QED
    BY <1>2 DEF P

\* Sums of naturals are naturals.
LEMMA SumNat ==
  ASSUME NEW S, IsFiniteSet(S), NEW f, \A x \in S : f[x] \in Nat
  PROVE  \A T \in SUBSET S : SumFunctionOnSet(f, T) \in Nat
  <1> DEFINE P == {T \in SUBSET S : SumFunctionOnSet(f, T) \in Nat}
  <1>1. ASSUME NEW T \in SUBSET S, \A x \in T : T \ {x} \in P PROVE T \in P
    <2>1. IsFiniteSet(T)
      BY FS_Subset
    <2>2. CASE T = {}
      BY <2>1, <2>2, SumRecursion
    <2>3. CASE T # {}
      <3>1. PICK x \in T : SumFunctionOnSet(f, T) = f[x] + SumFunctionOnSet(f, T \ {x})
        BY <2>1, <2>3, SumRecursion
      <3>2. T \ {x} \in P
        BY <1>1
      <3>3. QED
        BY <3>1, <3>2
    <2>4. QED
      BY <2>2, <2>3
  <1> HIDE DEF P
  <1>2. \A T \in SUBSET S : T \in P
    BY <1>1, SubsetInduction
  <1>3. QED
    BY <1>2 DEF P

\* The order does not matter: any element may be taken out of a sum.
LEMMA SumRemove ==
  ASSUME NEW S, IsFiniteSet(S), NEW f, \A x \in S : f[x] \in Int, NEW a \in S
  PROVE  SumFunctionOnSet(f, S) = f[a] + SumFunctionOnSet(f, S \ {a})
  <1> DEFINE sum(T) == SumFunctionOnSet(f, T)
             P == {T \in SUBSET S : \A x \in T : sum(T) = f[x] + sum(T \ {x})}
  <1>1. \A T \in SUBSET S : sum(T) \in Int
    BY SumInt
  <1>2. ASSUME NEW T \in SUBSET S, \A x \in T : T \ {x} \in P, NEW x \in T
        PROVE  sum(T) = f[x] + sum(T \ {x})
    <2>1. IsFiniteSet(T)
      BY FS_Subset
    <2>2. PICK y \in T : sum(T) = f[y] + sum(T \ {y})
      BY <2>1, SumRecursion
    <2> HIDE DEF sum
    <2>3. CASE x = y
      BY <2>2, <2>3
    <2>4. CASE x # y
      <3>1. sum(T \ {y}) = f[x] + sum((T \ {y}) \ {x})
        BY <1>2, <2>4
      <3>2. sum(T \ {x}) = f[y] + sum((T \ {x}) \ {y})
        BY <1>2, <2>4
      <3> DEFINE rest == (T \ {x}) \ {y}
      <3>3. (T \ {y}) \ {x} = rest
        OBVIOUS
      <3>4. sum(rest) \in Int /\ f[x] \in Int /\ f[y] \in Int
        BY <1>1
      <3>5. sum(T) = f[y] + (f[x] + sum(rest)) /\ sum(T \ {x}) = f[y] + sum(rest)
        BY <2>2, <3>1, <3>2, <3>3
      <3> HIDE DEF rest
      <3>6. f[y] + (f[x] + sum(rest)) = f[x] + (f[y] + sum(rest))
        BY <3>4
      <3>7. QED
        BY <3>5, <3>6
    <2>5. QED
      BY <2>3, <2>4
  <1> HIDE DEF sum
  <1>3. ASSUME NEW T \in SUBSET S, \A x \in T : T \ {x} \in P PROVE T \in P
    BY <1>2, <1>3
  <1> HIDE DEF P
  <1>4. \A T \in SUBSET S : T \in P
    BY <1>3, SubsetInduction
  <1>5. QED
    BY <1>4 DEF P, sum

\* A sum looks at the function on the summed set only.
LEMMA SumSame ==
  ASSUME NEW S, IsFiniteSet(S), NEW f, NEW g, \A x \in S : f[x] = g[x]
  PROVE  SumFunctionOnSet(f, S) = SumFunctionOnSet(g, S)
  <1> DEFINE Fold(k, h) == h = [s \in SUBSET S |-> SumStep(k, h, s)]
  <1>1. PICK h : Fold(f, h)
    BY SumFunctionExists
  <1>2. \A T \in SUBSET S : h[T] = SumFunctionOnSet(f, T)
    BY <1>1, FoldAgrees, SMTT(60)
  <1>3. ASSUME NEW T \in SUBSET S PROVE SumStep(f, h, T) = SumStep(g, h, T)
    <2>1. CASE T = {}
      BY <2>1 DEF SumStep
    <2>2. CASE T # {}
      <3> DEFINE x == CHOOSE x \in T : TRUE
      <3>1. x \in S
        BY <2>2, ChosenElement
      <3>2. SumStep(f, h, T) = f[x] + h[T \ {x}] /\ SumStep(g, h, T) = g[x] + h[T \ {x}]
        BY <2>2 DEF SumStep
      <3> HIDE DEF x
      <3>3. QED
        BY <3>1, <3>2
    <2>3. QED
      BY <2>1, <2>2
  <1>4. Fold(g, h)
    BY <1>1, <1>3
  <1>5. \A T \in SUBSET S : h[T] = SumFunctionOnSet(g, T)
    <2>1. ASSUME NEW k, NEW m, Fold(k, m)
          PROVE  \A T \in SUBSET S : m[T] = SumFunctionOnSet(k, T)
      BY <2>1, FoldAgrees
    <2> HIDE DEF Fold
    <2>2. QED
      BY <1>4, <2>1
  <1>6. QED
    BY <1>2, <1>5

\* Putting an element into the set adds its value.
LEMMA SumAdd ==
  ASSUME NEW S, IsFiniteSet(S), NEW a, a \notin S,
         NEW f, \A x \in S \cup {a} : f[x] \in Int
  PROVE  SumFunctionOnSet(f, S \cup {a}) = f[a] + SumFunctionOnSet(f, S)
  <1>1. IsFiniteSet(S \cup {a}) /\ (S \cup {a}) \ {a} = S
    BY FS_AddElement
  <1>2. QED
    BY <1>1, SumRemove

\* Changing one value changes the sum by the difference.
LEMMA SumExcept ==
  ASSUME NEW S, IsFiniteSet(S), NEW f, \A x \in S : f[x] \in Int,
         NEW g, NEW a \in S, g[a] \in Int, \A x \in S \ {a} : g[x] = f[x]
  PROVE  SumFunctionOnSet(g, S) = SumFunctionOnSet(f, S) - f[a] + g[a]
  <1>1. \A x \in S : g[x] \in Int
    OBVIOUS
  <1>2. IsFiniteSet(S \ {a})
    BY FS_RemoveElement
  <1>3. SumFunctionOnSet(g, S \ {a}) = SumFunctionOnSet(f, S \ {a})
    BY <1>2, SumSame
  <1>4. SumFunctionOnSet(g, S) = g[a] + SumFunctionOnSet(g, S \ {a})
    BY <1>1, SumRemove
  <1>5. SumFunctionOnSet(f, S) = f[a] + SumFunctionOnSet(f, S \ {a})
    BY SumRemove
  <1>6. SumFunctionOnSet(f, S \ {a}) \in Int
    BY SumInt
  <1>7. QED
    BY <1>3, <1>4, <1>5, <1>6

\* The sum of a sum of two functions.
LEMMA SumPlus ==
  ASSUME NEW S, IsFiniteSet(S), NEW f, \A x \in S : f[x] \in Int,
         NEW g, \A x \in S : g[x] \in Int, NEW h, \A x \in S : h[x] = f[x] + g[x]
  PROVE  SumFunctionOnSet(h, S) = SumFunctionOnSet(f, S) + SumFunctionOnSet(g, S)
  <1> DEFINE P == {T \in SUBSET S : SumFunctionOnSet(h, T)
                                      = SumFunctionOnSet(f, T) + SumFunctionOnSet(g, T)}
  <1>1. \A T \in SUBSET S : /\ SumFunctionOnSet(f, T) \in Int
                            /\ SumFunctionOnSet(g, T) \in Int
    BY SumInt
  <1>2. ASSUME NEW T \in SUBSET S, \A x \in T : T \ {x} \in P PROVE T \in P
    <2>1. IsFiniteSet(T)
      BY FS_Subset
    <2>2. CASE T = {}
      BY <2>1, <2>2, SumRecursion
    <2>3. CASE T # {}
      <3>1. PICK x \in T : TRUE
        BY <2>3
      <3>2. SumFunctionOnSet(f, T) = f[x] + SumFunctionOnSet(f, T \ {x})
        BY <2>1, SumRemove
      <3>3. SumFunctionOnSet(g, T) = g[x] + SumFunctionOnSet(g, T \ {x})
        BY <2>1, SumRemove
      <3>4. SumFunctionOnSet(h, T) = h[x] + SumFunctionOnSet(h, T \ {x})
        <4>1. \A y \in T : h[y] \in Int
          OBVIOUS
        <4>2. QED
          BY <2>1, <4>1, SumRemove
      <3>5. T \ {x} \in P
        BY <1>2
      <3>6. T \ {x} \in SUBSET S
        OBVIOUS
      <3>7. QED
        BY <1>1, <3>2, <3>3, <3>4, <3>5, <3>6
    <2>4. QED
      BY <2>2, <2>3
  <1> HIDE DEF P
  <1>3. \A T \in SUBSET S : T \in P
    BY <1>2, SubsetInduction
  <1>4. QED
    BY <1>3 DEF P

\* Sums over disjoint sets add up.
LEMMA SumUnion ==
  ASSUME NEW S, IsFiniteSet(S), NEW T, IsFiniteSet(T), S \cap T = {},
         NEW f, \A x \in S \cup T : f[x] \in Int
  PROVE  SumFunctionOnSet(f, S \cup T) = SumFunctionOnSet(f, S) + SumFunctionOnSet(f, T)
  <1> DEFINE P == {U \in SUBSET T : SumFunctionOnSet(f, S \cup U)
                                      = SumFunctionOnSet(f, S) + SumFunctionOnSet(f, U)}
  <1>1. SumFunctionOnSet(f, S) \in Int /\ \A U \in SUBSET T : SumFunctionOnSet(f, U) \in Int
    BY SumInt
  <1>2. ASSUME NEW U \in SUBSET T, \A x \in U : U \ {x} \in P PROVE U \in P
    <2>1. IsFiniteSet(U) /\ IsFiniteSet(S \cup U)
      BY FS_Subset, FS_Union
    <2>2. CASE U = {}
      <3>1. S \cup U = S
        BY <2>2
      <3>2. SumFunctionOnSet(f, U) = 0
        BY <2>1, <2>2, SumRecursion
      <3>3. SumFunctionOnSet(f, S \cup U) = SumFunctionOnSet(f, S)
        BY <3>1
      <3>4. SumFunctionOnSet(f, S) = SumFunctionOnSet(f, S) + SumFunctionOnSet(f, U)
        BY <1>1, <3>2
      <3>5. QED
        BY <3>3, <3>4
    <2>3. CASE U # {}
      <3>1. PICK x \in U : TRUE
        BY <2>3
      <3>2. SumFunctionOnSet(f, U) = f[x] + SumFunctionOnSet(f, U \ {x})
        BY <2>1, SumRemove
      <3>3. SumFunctionOnSet(f, S \cup U) = f[x] + SumFunctionOnSet(f, (S \cup U) \ {x})
        BY <2>1, SumRemove
      <3>4. (S \cup U) \ {x} = S \cup (U \ {x})
        OBVIOUS
      <3>5. U \ {x} \in P /\ U \ {x} \in SUBSET T
        BY <1>2
      <3>6. f[x] \in Int
        OBVIOUS
      <3>7. QED
        BY <1>1, <3>2, <3>3, <3>4, <3>5, <3>6
    <2>4. QED
      BY <2>2, <2>3
  <1> HIDE DEF P
  <1>3. \A U \in SUBSET T : U \in P
    BY <1>2, SubsetInduction
  <1>4. QED
    BY <1>3 DEF P

\* A sum of naturals bounds the sum over a part of the set.
LEMMA SumPart ==
  ASSUME NEW S, IsFiniteSet(S), NEW f, \A x \in S : f[x] \in Nat, NEW T \in SUBSET S
  PROVE  /\ SumFunctionOnSet(f, T) <= SumFunctionOnSet(f, S)
         /\ SumFunctionOnSet(f, S \ T)
              = SumFunctionOnSet(f, S) - SumFunctionOnSet(f, T)
  <1>1. IsFiniteSet(T) /\ IsFiniteSet(S \ T) /\ T \cap (S \ T) = {} /\ T \cup (S \ T) = S
    BY FS_Subset
  <1>2. SumFunctionOnSet(f, S) = SumFunctionOnSet(f, T) + SumFunctionOnSet(f, S \ T)
    BY <1>1, SumUnion
  <1>3. SumFunctionOnSet(f, T) \in Nat /\ SumFunctionOnSet(f, S \ T) \in Nat
    BY SumNat
  <1>4. QED
    BY <1>2, <1>3

\* Each term of a sum of naturals is at most the sum.
LEMMA SumTerm ==
  ASSUME NEW S, IsFiniteSet(S), NEW f, \A x \in S : f[x] \in Nat, NEW a \in S
  PROVE  f[a] <= SumFunctionOnSet(f, S)
  <1>1. SumFunctionOnSet(f, S) = f[a] + SumFunctionOnSet(f, S \ {a})
    BY SumRemove
  <1>2. SumFunctionOnSet(f, S \ {a}) \in Nat
    BY SumNat
  <1>3. QED
    BY <1>1, <1>2

\* The same value for all elements.
LEMMA SumConstant ==
  ASSUME NEW S, IsFiniteSet(S), NEW f, NEW k \in Int, \A x \in S : f[x] = k
  PROVE  SumFunctionOnSet(f, S) = k * Cardinality(S)
  <1> DEFINE P == {T \in SUBSET S : SumFunctionOnSet(f, T) = k * Cardinality(T)}
  <1>1. ASSUME NEW T \in SUBSET S, \A x \in T : T \ {x} \in P PROVE T \in P
    <2>1. IsFiniteSet(T) /\ Cardinality(T) \in Nat
      BY FS_Subset, FS_CardinalityType
    <2>2. CASE T = {}
      BY <2>1, <2>2, SumRecursion, FS_EmptySet
    <2>3. CASE T # {}
      <3>1. PICK x \in T : TRUE
        BY <2>3
      <3>2. SumFunctionOnSet(f, T) = f[x] + SumFunctionOnSet(f, T \ {x})
        BY <2>1, SumRemove
      <3>3. Cardinality(T \ {x}) = Cardinality(T) - 1
        BY <2>1, FS_RemoveElement
      <3>4. T \ {x} \in P
        BY <1>1
      <3>5. f[x] = k
        OBVIOUS
      <3>6. SumFunctionOnSet(f, T) = k + k * (Cardinality(T) - 1)
        BY <3>2, <3>3, <3>4, <3>5
      <3> DEFINE n == Cardinality(T)
      <3> HIDE DEF n
      <3>7. n \in Nat => k + k * (n - 1) = k * n
        OBVIOUS
      <3>8. QED
        BY <2>1, <3>6, <3>7 DEF n
    <2>4. QED
      BY <2>2, <2>3
  <1> HIDE DEF P
  <1>2. \A T \in SUBSET S : T \in P
    BY <1>1, SubsetInduction
  <1>3. QED
    BY <1>2 DEF P

\* Where a function vanishes outside a part, its sum is the sum over the part.
LEMMA SumSupport ==
  ASSUME NEW S, IsFiniteSet(S), NEW f, NEW T \in SUBSET S, \A x \in S : f[x] \in Int,
         \A x \in S \ T : f[x] = 0
  PROVE  SumFunctionOnSet(f, S) = SumFunctionOnSet(f, T)
  <1>1. IsFiniteSet(T) /\ IsFiniteSet(S \ T) /\ T \cap (S \ T) = {} /\ T \cup (S \ T) = S
    BY FS_Subset
  <1>2. SumFunctionOnSet(f, S) = SumFunctionOnSet(f, T) + SumFunctionOnSet(f, S \ T)
    BY <1>1, SumUnion
  <1>3. SumFunctionOnSet(f, S \ T) = 0 * Cardinality(S \ T)
    BY <1>1, SumConstant
  <1>4. Cardinality(S \ T) \in Nat
    BY <1>1, FS_CardinalityType
  <1>5. SumFunctionOnSet(f, T) \in Int
    BY SumInt
  <1>6. QED
    BY <1>2, <1>3, <1>4, <1>5

\* Summing what is filed under each key, over the keys, sums it all: k[i] is the key
\* of i, file[v] the elements with key v, and h[v] the sum of f over them.
LEMMA SumByKey ==
  ASSUME NEW M, IsFiniteSet(M), NEW V, IsFiniteSet(V),
         NEW f, \A i \in M : f[i] \in Int, NEW k, \A i \in M : k[i] \in V,
         NEW file, \A v \in V : /\ file[v] \in SUBSET M
                                /\ \A i \in M : i \in file[v] <=> k[i] = v,
         NEW h, \A v \in V : h[v] = SumFunctionOnSet(f, file[v])
  PROVE  SumFunctionOnSet(h, V) = SumFunctionOnSet(f, M)
  <1> DEFINE Of(W) == {i \in M : k[i] \in W}
             P == {W \in SUBSET V : SumFunctionOnSet(h, W) = SumFunctionOnSet(f, Of(W))}
  <1>1. \A v \in V : h[v] \in Int
    <2>1. ASSUME NEW v \in V PROVE SumFunctionOnSet(f, file[v]) \in Int
      BY SumInt
    <2>2. QED
      BY <2>1
  <1>2. ASSUME NEW W \in SUBSET V, \A x \in W : W \ {x} \in P PROVE W \in P
    <2>1. IsFiniteSet(W)
      BY FS_Subset
    <2>2. CASE W = {}
      <3>1. Of(W) = {}
        BY <2>2
      <3>2. QED
        BY <2>1, <2>2, <3>1, SumRecursion
    <2>3. CASE W # {}
      <3>1. PICK x \in W : TRUE
        BY <2>3
      <3>2. SumFunctionOnSet(h, W) = h[x] + SumFunctionOnSet(h, W \ {x})
        BY <1>1, <2>1, SumRemove
      <3> DEFINE here == file[x]
                 rest == Of(W \ {x})
      <3>3. /\ IsFiniteSet(here) /\ IsFiniteSet(rest)
            /\ here \cap rest = {} /\ here \cup rest = Of(W) /\ here \cup rest \in SUBSET M
        <4>1. here \in SUBSET M /\ rest \in SUBSET M
          OBVIOUS
        <4>2. IsFiniteSet(here) /\ IsFiniteSet(rest)
          BY <4>1, FS_Subset
        <4>3. QED
          BY <4>2
      <3>4. h[x] = SumFunctionOnSet(f, here)
        OBVIOUS
      <3>5. SumFunctionOnSet(h, W \ {x}) = SumFunctionOnSet(f, rest)
        BY <1>2
      <3> HIDE DEF here, rest
      <3>6. SumFunctionOnSet(f, here \cup rest)
              = SumFunctionOnSet(f, here) + SumFunctionOnSet(f, rest)
        BY <3>3, SumUnion
      <3>7. SumFunctionOnSet(h, W) = SumFunctionOnSet(f, Of(W))
        BY <3>2, <3>3, <3>4, <3>5, <3>6
      <3>8. QED
        BY <3>7
    <2>4. QED
      BY <2>2, <2>3
  <1> HIDE DEF P
  <1>3. \A W \in SUBSET V : W \in P
    BY <1>2, SubsetInduction
  <1>4. V \in P /\ Of(V) = M
    BY <1>3
  <1>5. QED
    BY <1>4 DEF P

-----------------------------------------------------------------------------

(* Sums over the whole domain of a function: ledgers. *)

\* A ledger's total is the sum over its accounts, and has their type.
LEMMA LedgerTotal ==
  ASSUME NEW S, IsFiniteSet(S)
  PROVE  /\ \A f \in [S -> Int] : /\ SumFunction(f) = SumFunctionOnSet(f, S)
                                  /\ SumFunction(f) \in Int
         /\ \A f \in [S -> Nat] : /\ SumFunction(f) = SumFunctionOnSet(f, S)
                                  /\ SumFunction(f) \in Nat
  <1>1. ASSUME NEW f, DOMAIN f = S PROVE SumFunction(f) = SumFunctionOnSet(f, S)
    BY <1>1 DEF SumFunction
  <1>2. ASSUME NEW f \in [S -> Int] PROVE SumFunctionOnSet(f, S) \in Int
    BY SumInt
  <1>3. ASSUME NEW f \in [S -> Nat] PROVE SumFunctionOnSet(f, S) \in Nat
    BY SumNat
  <1>4. QED
    BY <1>1, <1>2, <1>3

\* A ledger of zeros.
LEMMA LedgerZero ==
  ASSUME NEW S, IsFiniteSet(S)
  PROVE  SumFunction([x \in S |-> 0]) = 0
  <1> DEFINE f == [x \in S |-> 0]
  <1>1. f \in [S -> Int] /\ \A x \in S : f[x] = 0
    OBVIOUS
  <1> HIDE DEF f
  <1>2. SumFunctionOnSet(f, S) = 0 * Cardinality(S)
    BY <1>1, SumConstant
  <1>3. Cardinality(S) \in Nat
    BY FS_CardinalityType
  <1>4. SumFunction(f) = 0
    BY <1>1, <1>2, <1>3, LedgerTotal
  <1>5. QED
    BY <1>4 DEF f

\* Changing one account.
LEMMA LedgerUpdate ==
  ASSUME NEW S, IsFiniteSet(S), NEW f \in [S -> Int], NEW g \in [S -> Int], NEW a \in S,
         \A x \in S : x # a => g[x] = f[x]
  PROVE  SumFunction(g) = SumFunction(f) - f[a] + g[a]
  <1>1. g[a] \in Int /\ \A x \in S \ {a} : g[x] = f[x]
    OBVIOUS
  <1>2. SumFunctionOnSet(g, S) = SumFunctionOnSet(f, S) - f[a] + g[a]
    BY <1>1, SumExcept
  <1>3. QED
    BY <1>2, LedgerTotal

\* The same, between ledgers of naturals.
LEMMA LedgerUpdateNat ==
  ASSUME NEW S, IsFiniteSet(S), NEW f \in [S -> Nat], NEW g \in [S -> Nat], NEW a \in S,
         \A x \in S : x # a => g[x] = f[x]
  PROVE  /\ SumFunction(g) = SumFunction(f) - f[a] + g[a]
         /\ SumFunction(f) \in Nat /\ f[a] \in Nat /\ g[a] \in Nat
  <1>1. f \in [S -> Int] /\ g \in [S -> Int]
    OBVIOUS
  <1>2. QED
    BY <1>1, LedgerUpdate, LedgerTotal

\* Adding two ledgers account by account.
LEMMA LedgerPlus ==
  ASSUME NEW S, IsFiniteSet(S), NEW f \in [S -> Int], NEW g \in [S -> Int],
         NEW h \in [S -> Int], \A x \in S : h[x] = f[x] + g[x]
  PROVE  SumFunction(h) = SumFunction(f) + SumFunction(g)
  BY SumPlus, LedgerTotal

\* An entry that is new, or grows.
LEMMA LedgerPut ==
  ASSUME NEW S, IsFiniteSet(S), NEW T, NEW w, T = S \cup {w},
         NEW f \in [S -> Nat], NEW g \in [T -> Nat], \A x \in S : x # w => g[x] = f[x],
         NEW v \in Nat, g[w] = (IF w \in S THEN f[w] ELSE 0) + v
  PROVE  /\ SumFunction(f) \in Nat /\ SumFunction(g) \in Nat
         /\ SumFunction(g) = SumFunction(f) + v
  <1>1. IsFiniteSet(T)
    BY FS_AddElement
  <1>2. /\ SumFunction(f) = SumFunctionOnSet(f, S) /\ SumFunction(f) \in Nat
        /\ SumFunction(g) = SumFunctionOnSet(g, T) /\ SumFunction(g) \in Nat
    BY <1>1, LedgerTotal
  <1>3. CASE w \in S
    <2>1. T = S /\ f \in [S -> Nat] /\ g \in [S -> Nat]
      BY <1>3
    <2>2. /\ SumFunction(g) = SumFunction(f) - f[w] + g[w]
          /\ SumFunction(f) \in Nat /\ f[w] \in Nat /\ g[w] \in Nat
      BY <1>3, <2>1, LedgerUpdateNat
    <2>3. g[w] = f[w] + v
      BY <1>3
    <2>4. QED
      BY <1>2, <2>2, <2>3
  <1>4. CASE w \notin S
    <2>1. \A x \in S \cup {w} : g[x] \in Int
      OBVIOUS
    <2>2. SumFunctionOnSet(g, S \cup {w}) = g[w] + SumFunctionOnSet(g, S)
      BY <1>4, <2>1, SumAdd
    <2>3. SumFunctionOnSet(g, S) = SumFunctionOnSet(f, S)
      BY <1>4, SumSame
    <2>4. g[w] = v
      BY <1>4
    <2>5. QED
      BY <1>2, <2>2, <2>3, <2>4
  <1>5. QED
    BY <1>3, <1>4

\* One entry less.
LEMMA LedgerDrop ==
  ASSUME NEW S, IsFiniteSet(S), NEW T, NEW w \in S, w \notin T, S = T \cup {w},
         NEW f \in [S -> Nat], NEW g \in [T -> Nat], \A x \in T : g[x] = f[x]
  PROVE  /\ SumFunction(f) \in Nat /\ SumFunction(g) \in Nat
         /\ SumFunction(f) = SumFunction(g) + f[w]
  <1>1. IsFiniteSet(T)
    BY FS_Subset
  <1>2. \A x \in T : x # w => f[x] = g[x]
    OBVIOUS
  <1>3. f[w] \in Nat /\ f[w] = (IF w \in T THEN g[w] ELSE 0) + f[w]
    OBVIOUS
  <1>4. QED
    BY <1>1, <1>2, <1>3, LedgerPut

-----------------------------------------------------------------------------
(* Subnet identifiers. *)

\* The identifiers of a hierarchy with root r and actor addresses in S.
IDs(r, S) == [root : {r}, children : Seq(S)]

Depth(x) == Len(x.children)

\* The routes of x and y agree on the first k levels.
Agree(x, y, k) == \A j \in 1..k : x.children[j] = y.children[j]

\* The parts of an identifier.
LEMMA IDParts ==
  ASSUME NEW r, NEW S, NEW x \in IDs(r, S)
  PROVE  /\ x.root = r /\ x.children \in Seq(S) /\ Depth(x) \in Nat
         /\ x = SubnetID(r, x.children)
         /\ \A j \in 1..Depth(x) : x.children[j] \in S
  <1>1. x.root = r /\ x.children \in Seq(S) /\ x = SubnetID(r, x.children)
    BY DEF IDs, SubnetID
  <1>2. Len(x.children) \in Nat /\ \A j \in 1..Len(x.children) : x.children[j] \in S
    BY <1>1, LenProperties
  <1>3. QED
    BY <1>1, <1>2 DEF Depth

\* Identifiers with the same route are the same.
LEMMA SameID ==
  ASSUME NEW r, NEW S, NEW x \in IDs(r, S), NEW y \in IDs(r, S),
         Depth(x) = Depth(y), Agree(x, y, Depth(x))
  PROVE  x = y
  <1>1. x.children \in Seq(S) /\ y.children \in Seq(S)
    BY IDParts
  <1>2. x.children = y.children
    BY <1>1, SeqEqual DEF Agree, Depth
  <1>3. QED
    BY <1>2, IDParts

\* children()[..k]: the identifier of the ancestor at depth k.
LEMMA PrefixFields ==
  ASSUME NEW r, NEW S, NEW x \in IDs(r, S), NEW k \in 0..Depth(x)
  PROVE  /\ Prefix(x, k) \in IDs(r, S) /\ Depth(Prefix(x, k)) = k
         /\ Agree(Prefix(x, k), x, k)
  <1>1. /\ x.root = r /\ Depth(x) \in Nat /\ k \in Int /\ 1 \in Int
        /\ \A j \in 1..k : x.children[j] \in S
    BY IDParts
  <1>2. /\ SubSeq(x.children, 1, k) \in Seq(S)
        /\ Len(SubSeq(x.children, 1, k)) = IF 1 <= k THEN k - 1 + 1 ELSE 0
        /\ \A j \in 1 .. k - 1 + 1 : SubSeq(x.children, 1, k)[j] = x.children[1 + j - 1]
    BY <1>1, SubSeqProperties
  <1>3. Len(SubSeq(x.children, 1, k)) = k
    BY <1>1, <1>2
  <1>4. ASSUME NEW j \in 1..k
        PROVE  SubSeq(x.children, 1, k)[j] = x.children[j]
    <2>1. j \in 1 .. k - 1 + 1 /\ 1 + j - 1 = j
      BY <1>1
    <2>2. SubSeq(x.children, 1, k)[j] = x.children[1 + j - 1]
      BY <1>2, <2>1
    <2>3. QED
      BY <2>1, <2>2
  <1>5. /\ Prefix(x, k).root = r /\ Prefix(x, k).children = SubSeq(x.children, 1, k)
        /\ Prefix(x, k) \in IDs(r, S)
    BY <1>1, <1>2 DEF Prefix, SubnetID, IDs
  <1>6. QED
    BY <1>3, <1>4, <1>5 DEF Depth, Agree

\* common_parent's index is the number of leading levels two routes share.
LEMMA CommonLevels ==
  ASSUME NEW r, NEW S, NEW x \in IDs(r, S), NEW y \in IDs(r, S),
         NEW m, m = CommonChildren(x, y)
  PROVE  /\ m \in Nat /\ m <= Depth(x) /\ m <= Depth(y) /\ Agree(x, y, m)
         /\ m < Depth(x) /\ m < Depth(y) => x.children[m + 1] # y.children[m + 1]
  <1> DEFINE a == x.children
             b == y.children
             d == Depth(x)
             e == Depth(y)
             Stop == {k \in Nat : k = d \/ k = e \/ a[k + 1] # b[k + 1]}
             Shared == {k \in 1..d : k <= e /\ \A j \in 1..k : a[j] = b[j]}
  <1>1. d \in Nat /\ e \in Nat
    BY IDParts
  <1> HIDE DEF d, e, a, b
  <1>2. Stop \in SUBSET Nat /\ d \in Stop /\ e \in Stop
    BY <1>1
  <1>3. PICK q \in Stop : \A k \in Stop : q <= k
    BY <1>2, LeastNatural
  <1>4. q \in Nat /\ q <= d /\ q <= e
    BY <1>2, <1>3
  <1>5. \A j \in 1..q : a[j] = b[j]
    <2> TAKE j \in 1..q
    <2>1. j - 1 \in Nat /\ ~(q <= j - 1) /\ (j - 1) + 1 = j
      BY <1>4
    <2>2. j - 1 \notin Stop
      BY <1>3, <2>1
    <2>3. QED
      BY <2>1, <2>2
  <1>6. Shared = 1..q
    <2>1. ASSUME NEW k \in 1..q
          PROVE  k \in Shared
      <3>1. k \in 1..d /\ k <= e /\ \A j \in 1..k : j \in 1..q
        BY <1>1, <1>4
      <3>2. QED
        BY <1>5, <3>1
    <2>2. ASSUME NEW k \in Shared, k \notin 1..q
          PROVE  FALSE
      <3>1. k \in 1..d /\ k <= e /\ \A j \in 1..k : a[j] = b[j]
        OBVIOUS
      <3>2. q < k
        BY <1>1, <1>4, <2>2, <3>1
      <3>3. q # d /\ q # e /\ q + 1 \in 1..k
        BY <1>1, <1>4, <3>1, <3>2
      <3>4. a[q + 1] = b[q + 1]
        BY <3>1, <3>3
      <3>5. QED
        BY <1>3, <3>3, <3>4
    <2>3. QED
      BY <2>1, <2>2
  <1>7. m = Cardinality(Shared)
    BY DEF CommonChildren, Depth, a, b, d, e
  <1>8. Cardinality(1..q) = q
    BY <1>4, FS_Interval
  <1>9. m = q
    BY <1>6, <1>7, <1>8
  <1>10. m < d /\ m < e => a[m + 1] # b[m + 1]
    BY <1>1, <1>3, <1>4, <1>9
  <1>11. QED
    BY <1>4, <1>5, <1>9, <1>10 DEF a, b, d, e, Agree

\* It is the only number with that property.
LEMMA CommonIs ==
  ASSUME NEW r, NEW S, NEW x \in IDs(r, S), NEW y \in IDs(r, S),
         NEW k \in Nat, k <= Depth(x), k <= Depth(y), Agree(x, y, k),
         k < Depth(x) /\ k < Depth(y) => x.children[k + 1] # y.children[k + 1]
  PROVE  CommonChildren(x, y) = k
  <1> DEFINE m == CommonChildren(x, y)
             d == Depth(x)
             e == Depth(y)
  <1>1. d \in Nat /\ e \in Nat
    BY IDParts
  <1>2. /\ m \in Nat /\ m <= d /\ m <= e /\ Agree(x, y, m)
        /\ m < d /\ m < e => x.children[m + 1] # y.children[m + 1]
    BY CommonLevels
  <1> HIDE DEF m, d, e
  <1>3. ~(k < m)
    <2> SUFFICES ASSUME k < m PROVE FALSE
      OBVIOUS
    <2>1. k < d /\ k < e /\ k + 1 \in 1..m
      BY <1>1, <1>2
    <2>2. QED
      BY <1>2, <2>1 DEF Agree, d, e
  <1>4. ~(m < k)
    <2> SUFFICES ASSUME m < k PROVE FALSE
      OBVIOUS
    <2>1. k <= d /\ k <= e
      BY DEF d, e
    <2>2. m < d /\ m < e /\ m + 1 \in 1..k
      BY <1>1, <1>2, <2>1
    <2>3. QED
      BY <1>2, <2>2 DEF Agree
  <1>5. m = k
    BY <1>2, <1>3, <1>4
  <1>6. QED
    BY <1>5 DEF m

\* Two routes share the same levels whichever is asked.
LEMMA CommonSymmetric ==
  ASSUME NEW r, NEW S, NEW x \in IDs(r, S), NEW y \in IDs(r, S)
  PROVE  CommonChildren(x, y) = CommonChildren(y, x)
  <1> DEFINE m == CommonChildren(x, y)
  <1>1. /\ m \in Nat /\ m <= Depth(x) /\ m <= Depth(y) /\ Agree(x, y, m)
        /\ m < Depth(x) /\ m < Depth(y) => x.children[m + 1] # y.children[m + 1]
    BY CommonLevels
  <1> HIDE DEF m
  <1>2. Agree(y, x, m)
    BY <1>1 DEF Agree
  <1>3. CommonChildren(y, x) = m
    BY <1>1, <1>2, CommonIs
  <1>4. QED
    BY <1>3 DEF m

\* Above, in terms of depths.
LEMMA AboveIs ==
  ASSUME NEW r, NEW S, NEW x \in IDs(r, S), NEW y \in IDs(r, S)
  PROVE  Above(x, y) <=> Depth(x) <= Depth(y) /\ Agree(x, y, Depth(x))
  BY IDParts DEF Above, Agree, Depth

\* One network is above another when all levels of its route are shared.
LEMMA AboveCommon ==
  ASSUME NEW r, NEW S, NEW x \in IDs(r, S), NEW y \in IDs(r, S)
  PROVE  Above(x, y) <=> CommonChildren(x, y) = Depth(x)
  <1>1. Depth(x) \in Nat /\ Depth(y) \in Nat
    BY IDParts
  <1>2. ASSUME Above(x, y)
        PROVE  CommonChildren(x, y) = Depth(x)
    <2>1. Depth(x) <= Depth(y) /\ Agree(x, y, Depth(x))
      BY <1>2, AboveIs
    <2>2. Depth(x) <= Depth(x) /\ ~(Depth(x) < Depth(x))
      BY <1>1
    <2>3. QED
      BY <1>1, <2>1, <2>2, CommonIs
  <1>3. ASSUME CommonChildren(x, y) = Depth(x)
        PROVE  Above(x, y)
    BY <1>3, CommonLevels, AboveIs
  <1>4. QED
    BY <1>2, <1>3

\* The path between two networks: the networks above one of them, from the depth of their
\* common parent on.
LEMMA PathIs ==
  ASSUME NEW r, NEW S, NEW n \in IDs(r, S), NEW x \in IDs(r, S), NEW y \in IDs(r, S)
  PROVE  OnPath(n, x, y) <=> /\ Above(n, x) \/ Above(n, y)
                             /\ CommonChildren(x, y) <= Depth(n)
  <1> DEFINE m == CommonChildren(x, y)
  <1>1. Depth(x) \in Nat /\ Depth(y) \in Nat /\ Depth(n) \in Nat
    BY IDParts
  <1>2. m \in Nat /\ m <= Depth(x) /\ m <= Depth(y) /\ Agree(x, y, m)
    BY CommonLevels
  <1>3. /\ m < Depth(x) /\ m < Depth(y) => x.children[m + 1] # y.children[m + 1]
    BY CommonLevels
  <1> HIDE DEF m
  <1>4. ASSUME NEW k \in 0..Depth(x)
        PROVE  /\ Prefix(x, k) \in IDs(r, S) /\ Depth(Prefix(x, k)) = k
               /\ Agree(Prefix(x, k), x, k)
    BY PrefixFields
  <1>5. ASSUME OnPath(n, x, y)
        PROVE  m <= Depth(n)
    <2>1. m \in 0..Depth(x)
      BY <1>1, <1>2
    <2>2. Prefix(x, m) \in IDs(r, S) /\ Depth(Prefix(x, m)) = m
      BY <1>4, <2>1
    <2>3. Agree(Prefix(x, m), y, m)
      BY <1>2, <1>4, <2>1 DEF Agree
    <2>4. Above(Prefix(x, m), y)
      BY <1>2, <2>2, <2>3, AboveIs
    <2>5. Above(Prefix(x, m), n)
      BY <1>5, <2>1, <2>4 DEF OnPath, Depth
    <2>6. QED
      BY <2>2, <2>5, AboveIs
  <1>6. ASSUME Above(n, x) \/ Above(n, y), m <= Depth(n),
               NEW k \in 0..Depth(x), Above(Prefix(x, k), y)
        PROVE  Above(Prefix(x, k), n)
    <2>1. Prefix(x, k) \in IDs(r, S) /\ Depth(Prefix(x, k)) = k /\ k \in Nat
      BY <1>1, <1>4
    <2>2. k <= Depth(y) /\ Agree(Prefix(x, k), y, k)
      BY <1>6, <2>1, AboveIs
    <2>3. Agree(x, y, k)
      BY <1>4, <2>2 DEF Agree
    <2>4. k <= m
      <3> SUFFICES ASSUME m < k PROVE FALSE
        BY <1>2, <2>1
      <3>1. m < Depth(x) /\ m < Depth(y) /\ m + 1 \in 1..k
        BY <1>1, <1>2, <2>1, <2>2
      <3>2. QED
        BY <1>3, <2>3, <3>1 DEF Agree
    <2>5. k <= Depth(n) /\ 1..k \subseteq 1..Depth(n)
      BY <1>1, <1>2, <1>6, <2>1, <2>4
    <2>6. Agree(n, x, Depth(n)) \/ Agree(n, y, Depth(n))
      BY <1>6, AboveIs
    <2>7. Agree(Prefix(x, k), n, k)
      BY <1>4, <2>2, <2>5, <2>6 DEF Agree
    <2>8. QED
      BY <2>1, <2>5, <2>7, AboveIs
  <1>7. QED
    BY <1>5, <1>6 DEF OnPath, m, Depth
\* The parent of a network that has one.
LEMMA ParentIs ==
  ASSUME NEW r, NEW S, NEW x \in IDs(r, S)
  PROVE  /\ IsRoot(x) <=> Depth(x) = 0
         /\ Parent(x) # None => Depth(x) # 0
         /\ Depth(x) # 0 => /\ Parent(x) \in IDs(r, S) /\ Depth(Parent(x)) = Depth(x) - 1
                            /\ Agree(Parent(x), x, Depth(x) - 1)
  <1>1. x \in IDs(r, S) /\ Depth(x) \in Nat /\ x.children \in Seq(S)
    BY IDParts
  <1>2. IsRoot(x) <=> Depth(x) = 0
    BY <1>1, EmptySeq DEF IsRoot, Depth
  <1>3. Parent(x) # None => Depth(x) # 0
    BY <1>2 DEF Parent
  <1>4. ASSUME Depth(x) # 0
        PROVE  /\ Parent(x) \in IDs(r, S) /\ Depth(Parent(x)) = Depth(x) - 1
               /\ Agree(Parent(x), x, Depth(x) - 1)
    <2>1. Parent(x) = Prefix(x, Depth(x) - 1)
      BY <1>2, <1>4 DEF Parent, Depth
    <2>2. Depth(x) - 1 \in 0..Depth(x)
      BY <1>1, <1>4
    <2>3. QED
      BY <2>1, <2>2, PrefixFields
  <1>5. QED
    BY <1>2, <1>3, <1>4

\* A network is above itself.
LEMMA AboveSelf ==
  ASSUME NEW r, NEW S, NEW x \in IDs(r, S)
  PROVE  Above(x, x)
  <1>1. Agree(x, x, Depth(x)) /\ Depth(x) <= Depth(x)
    BY IDParts DEF Agree
  <1>2. QED
    BY <1>1, AboveIs

\* A message starts on its path.
LEMMA PathStarts ==
  ASSUME NEW r, NEW S, NEW x \in IDs(r, S), NEW y \in IDs(r, S)
  PROVE  OnPath(x, x, y)
  BY CommonLevels, AboveSelf, PathIs

\* A message on its path still has to climb exactly where its network is below the common
\* parent of its ends, on the side of its origin.
LEMMA ClimbsBelowTurn ==
  ASSUME NEW r, NEW S, NEW n \in IDs(r, S), NEW x \in IDs(r, S), NEW y \in IDs(r, S),
         OnPath(n, x, y)
  PROVE  /\ GoesUp(x, y, n) =>
              /\ Above(n, x) /\ CommonChildren(x, y) < Depth(n)
              /\ CommonChildren(n, y) = CommonChildren(x, y)
         /\ ~GoesUp(x, y, n) => Above(n, y)
  <1> DEFINE m == CommonChildren(x, y)
             d == Depth(n)
  <1>1. /\ Depth(x) \in Nat /\ Depth(y) \in Nat /\ d \in Nat
        /\ m \in Nat /\ m <= d
        /\ Above(n, x) \/ Above(n, y)
        /\ CommonChildren(y, x) = m
        /\ x.root = r /\ y.root = r /\ n.root = r
    BY IDParts, CommonLevels, CommonSymmetric, PathIs
  <1>2. /\ m <= Depth(x) /\ m <= Depth(y) /\ Agree(x, y, m)
        /\ m < Depth(x) /\ m < Depth(y) => x.children[m + 1] # y.children[m + 1]
    BY CommonLevels
  <1>3. /\ CommonParent(x, y) = [index |-> m, id |-> Prefix(x, m)]
        /\ CommonParent(y, x) = [index |-> m, id |-> Prefix(y, m)]
        /\ CommonParent(n, y) =
             [index |-> CommonChildren(n, y), id |-> Prefix(n, CommonChildren(n, y))]
    BY <1>1 DEF CommonParent
  <1>4. /\ Prefix(y, m) \in IDs(r, S) /\ Depth(Prefix(y, m)) = m
        /\ Agree(Prefix(y, m), y, m)
        /\ Prefix(x, m) \in IDs(r, S) /\ Depth(Prefix(x, m)) = m
        /\ Agree(Prefix(x, m), x, m)
        /\ Prefix(n, m) \in IDs(r, S) /\ Depth(Prefix(n, m)) = m
        /\ Agree(Prefix(n, m), n, m)
    <2>1. m \in 0..Depth(y) /\ m \in 0..Depth(x) /\ m \in 0..Depth(n)
      BY <1>1, <1>2
    <2>2. QED
      BY <2>1, PrefixFields
  <1>5. GoesUp(x, y, n) <=>
          /\ Depth(x) > m
          /\ CommonParent(n, y) = CommonParent(x, y)
          /\ Prefix(y, m) # n
    BY <1>1, <1>3 DEF GoesUp, ApplyType, IpcType, IsBottomUp, BottomUp, TopDown, Depth
  <1> HIDE DEF m, d
  <1>6. ASSUME d = m
        PROVE  n = Prefix(y, m) /\ Above(n, y)
    <2>1. Agree(n, x, d) \/ Agree(n, y, d)
      BY <1>1, AboveIs DEF d
    <2>2. Agree(n, y, d)
      BY <1>2, <1>6, <2>1 DEF Agree
    <2>3. Agree(n, Prefix(y, m), d)
      BY <1>4, <1>6, <2>2 DEF Agree
    <2>4. n = Prefix(y, m)
      BY <1>4, <1>6, <2>3, SameID DEF d
    <2>5. Above(n, y)
      BY <1>2, <1>6, <2>2, AboveIs DEF d
    <2>6. QED
      BY <2>4, <2>5
  <1>7. ASSUME GoesUp(x, y, n)
        PROVE  Above(n, x) /\ m < d /\ CommonChildren(n, y) = m
    <2>1. CommonChildren(n, y) = m
      BY <1>3, <1>5, <1>7
    <2>2. d # m
      BY <1>5, <1>6, <1>7
    <2>3. ~Above(n, y)
      BY <2>1, <2>2, AboveCommon DEF d
    <2>4. QED
      BY <1>1, <2>1, <2>2, <2>3
  <1>8. ASSUME ~Above(n, y)
        PROVE  GoesUp(x, y, n)
    <2>1. Above(n, x) /\ m < d /\ d <= Depth(x) /\ Agree(n, x, d)
      BY <1>1, <1>6, <1>8, AboveIs DEF d
    <2>2. m < Depth(x)
      BY <1>1, <2>1
    <2>3. Agree(n, y, m) /\ m + 1 \in 1..d /\ 1..m \subseteq 1..d
      <3>1. m + 1 \in 1..d /\ 1..m \subseteq 1..d
        BY <1>1, <2>1
      <3>2. QED
        BY <1>2, <2>1, <3>1 DEF Agree
    <2>4. m < Depth(n) /\ m < Depth(y) => n.children[m + 1] # y.children[m + 1]
      BY <1>2, <2>1, <2>2, <2>3 DEF Agree, d
    <2>5. CommonChildren(n, y) = m
      BY <1>1, <1>2, <2>3, <2>4, CommonIs DEF d
    <2>6. Agree(Prefix(n, m), Prefix(x, m), m)
      BY <1>4, <2>1, <2>3 DEF Agree
    <2>7. Prefix(n, m) = Prefix(x, m)
      BY <1>4, <2>6, SameID
    <2>8. Prefix(y, m) # n
      BY <1>1, <1>4, <2>1 DEF d
    <2>9. QED
      BY <1>1, <1>3, <1>5, <2>2, <2>5, <2>7, <2>8
  <1>9. QED
    BY <1>7, <1>8 DEF m, d

\* A hop up leads to the parent, which is no higher than the common parent.
LEMMA UpStaysOnPath ==
  ASSUME NEW r, NEW S, NEW n \in IDs(r, S), NEW x \in IDs(r, S), NEW y \in IDs(r, S),
         OnPath(n, x, y), GoesUp(x, y, n)
  PROVE  /\ Depth(n) # 0 /\ CommonChildren(n, y) < Depth(n)
         /\ CommonChildren(Parent(n), y) = CommonChildren(n, y)
         /\ OnPath(Parent(n), x, y)
  <1> DEFINE m == CommonChildren(x, y)
             d == Depth(n)
             p == Parent(n)
  <1>1. Above(n, x) /\ m < d /\ CommonChildren(n, y) = m
    BY ClimbsBelowTurn
  <1>2. d \in Nat /\ m \in Nat /\ Depth(x) \in Nat /\ Depth(y) \in Nat
    BY IDParts, CommonLevels
  <1>3. d # 0
    BY <1>1, <1>2
  <1>4. p \in IDs(r, S) /\ Depth(p) = d - 1 /\ Agree(p, n, d - 1)
    BY <1>3, ParentIs
  <1>5. /\ m <= Depth(y) /\ Agree(n, y, m)
        /\ m < d /\ m < Depth(y) => n.children[m + 1] # y.children[m + 1]
    BY <1>1, CommonLevels
  <1>6. d <= Depth(x) /\ Agree(n, x, d)
    BY <1>1, AboveIs
  <1> HIDE DEF m, d, p
  <1>7. /\ m <= d - 1 /\ d - 1 <= Depth(x) /\ 1..(d - 1) \subseteq 1..d
        /\ 1..m \subseteq 1..(d - 1)
        /\ m < d - 1 => m + 1 \in 1..(d - 1)
    BY <1>1, <1>2, <1>6
  <1>8. Above(p, x)
    <2>1. Agree(p, x, d - 1)
      BY <1>4, <1>6, <1>7 DEF Agree
    <2>2. QED
      BY <1>4, <1>7, <2>1, AboveIs
  <1>9. OnPath(p, x, y)
    BY <1>4, <1>7, <1>8, PathIs DEF m
  <1>10. CommonChildren(p, y) = m
    <2>1. Agree(p, y, m)
      BY <1>4, <1>5, <1>7 DEF Agree
    <2>2. m < Depth(p) /\ m < Depth(y) => p.children[m + 1] # y.children[m + 1]
      BY <1>1, <1>4, <1>5, <1>7 DEF Agree
    <2>3. QED
      BY <1>2, <1>4, <1>5, <1>7, <2>1, <2>2, CommonIs
  <1>11. QED
    BY <1>1, <1>3, <1>9, <1>10 DEF m, d, p

\* down leads from a network above y one level closer to it.
LEMMA DownIs ==
  ASSUME NEW r, NEW S, NEW n \in IDs(r, S), NEW y \in IDs(r, S), Above(n, y),
         Down(y, n) # None
  PROVE  /\ Down(y, n) \in IDs(r, S) /\ Depth(Down(y, n)) = Depth(n) + 1
         /\ Above(Down(y, n), y) /\ Parent(Down(y, n)) = n
  <1> DEFINE d == Depth(n)
             c == Down(y, n)
  <1>1. CommonChildren(y, n) = d /\ d \in Nat /\ Depth(y) \in Nat
    BY AboveCommon, CommonSymmetric, IDParts
  <1>2. d < Depth(y) /\ c = Prefix(y, d + 1)
    <2>1. ~(Depth(y) <= d) /\ c = Prefix(y, d + 1)
      BY <1>1 DEF Down, Depth
    <2>2. QED
      BY <1>1, <2>1
  <1>3. d + 1 \in 0..Depth(y)
    BY <1>1, <1>2
  <1>4. c \in IDs(r, S) /\ Depth(c) = d + 1 /\ Agree(c, y, d + 1)
    BY <1>2, <1>3, PrefixFields
  <1>5. d <= Depth(y) /\ Agree(n, y, d)
    BY AboveIs
  <1> HIDE DEF c, d
  <1>6. Above(c, y)
    <2>1. d + 1 <= Depth(y)
      BY <1>3
    <2>2. QED
      BY <1>4, <2>1, AboveIs
  <1>7. Parent(c) = n
    <2>1. /\ Parent(c) \in IDs(r, S) /\ Depth(Parent(c)) = d /\ Agree(Parent(c), c, d)
      <3>1. Depth(c) # 0 /\ Depth(c) - 1 = d
        BY <1>1, <1>4
      <3>2. QED
        BY <1>4, <3>1, ParentIs
    <2>2. 1..d \subseteq 1..(d + 1)
      BY <1>1
    <2>3. Agree(Parent(c), n, d)
      BY <1>4, <1>5, <2>1, <2>2 DEF Agree
    <2>4. QED
      BY <2>1, <2>3, SameID DEF d
  <1>8. QED
    BY <1>4, <1>6, <1>7 DEF c, d

\* A hop down stays on the path, and the message arrives as a top-down message.
LEMMA DownStaysOnPath ==
  ASSUME NEW r, NEW S, NEW n \in IDs(r, S), NEW x \in IDs(r, S), NEW y \in IDs(r, S),
         OnPath(n, x, y), Above(n, y), Down(y, n) # None
  PROVE  /\ OnPath(Down(y, n), x, y) /\ ApplyType(x, y, Down(y, n)) = TopDown
  <1> DEFINE c == Down(y, n)
             m == CommonChildren(x, y)
  <1>1. c \in IDs(r, S) /\ Depth(c) = Depth(n) + 1 /\ Above(c, y)
    BY DownIs
  <1>2. m \in Nat /\ m <= Depth(n) /\ Depth(n) \in Nat
    BY IDParts, CommonLevels, PathIs
  <1>3. CommonChildren(c, y) = Depth(n) + 1
    BY <1>1, AboveCommon
  <1>4. x.root = r /\ y.root = r /\ c.root = r
    BY <1>1, IDParts
  <1>5. CommonChildren(c, y) # m
    BY <1>2, <1>3
  <1>6. CommonParent(c, y) # CommonParent(x, y)
    <2>1. CommonParent(c, y).index = CommonChildren(c, y) /\ CommonParent(x, y).index = m
      BY <1>4 DEF CommonParent
    <2>2. QED
      BY <1>5, <2>1
  <1>7. ApplyType(x, y, c) = TopDown
    BY <1>6 DEF ApplyType
  <1>8. m <= Depth(c)
    BY <1>1, <1>2
  <1>9. OnPath(c, x, y)
    BY <1>1, <1>8, PathIs
  <1>10. QED
    BY <1>7, <1>9
=============================================================================
