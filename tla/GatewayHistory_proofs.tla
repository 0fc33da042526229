------------------------ MODULE GatewayHistory_proofs ------------------------
(***************************************************************************)
(* Proofs about Gateway that relate what was sent to what was delivered,   *)
(* for every tree of subnets: messages name the chain they come from,      *)
(* those between neighbours arrive in the order in which they were sent,   *)
(* and no message is lost or doubled.                                      *)
(***************************************************************************)
EXTENDS Gateway_proofs

\* A set of sequences with the empty one, and with every sequence all longer by one
\* element, has them all.
LEMMA SeqSetInduction ==
  ASSUME NEW M, NEW Q, <<>> \in Q,
         \A q \in Seq(M), x \in M : q \in Q => Append(q, x) \in Q
  PROVE  \A q \in Seq(M) : q \in Q
  <1> DEFINE P == {n \in Nat : \A q \in Seq(M) : Len(q) = n => q \in Q}
  <1>1. 0 \in P
    BY EmptySeq
  <1>2. ASSUME NEW n \in Nat, n \in P PROVE n + 1 \in P
    <2>1. SUFFICES ASSUME NEW q \in Seq(M), Len(q) = n + 1 PROVE q \in Q
      OBVIOUS
    <2>2. q # <<>>
      BY <2>1, EmptySeq
    <2>3. PICK r \in Seq(M), x \in M : q = Append(r, x)
      BY <2>2, SequenceEmptyOrAppend
    <2>4. Len(r) = n
      BY <2>1, <2>3, LenProperties, AppendProperties
    <2>5. QED
      BY <1>2, <2>3, <2>4
  <1> HIDE DEF P
  <1>3. \A n \in Nat : n \in P
    BY <1>1, <1>2, NatSetInduction
  <1>4. QED
    BY <1>3, LenProperties DEF P

Selects(f, S, q, L) == \A n \in 0..L : f[n] = OnlyStep(f, S, q, n)

\* Recursions over two sequences that agree for a while agree for as long.
LEMMA OnlyAgree ==
  ASSUME NEW L \in Nat, NEW f, NEW S, NEW q, Selects(f, S, q, L),
         NEW g, NEW r, Selects(g, S, r, L),
         \A n \in 1..L : q[n] = r[n]
  PROVE  f[L] = g[L]
  <1> DEFINE P == {n \in Nat : n <= L => f[n] = g[n]}
  <1>1. 0 \in P
    <2>1. f[0] = <<>> /\ g[0] = <<>>
      BY DEF OnlyStep, Selects
    <2>2. QED
      BY <2>1
  <1>2. ASSUME NEW n \in Nat, n \in P PROVE n + 1 \in P
    <2> SUFFICES ASSUME n + 1 <= L PROVE f[n + 1] = g[n + 1]
      OBVIOUS
    <2>1. n + 1 \in 0..L /\ n + 1 \in 1..L /\ n + 1 # 0 /\ n + 1 - 1 = n /\ f[n] = g[n]
      BY <1>2
    <2>2. QED
      BY <2>1 DEF OnlyStep, Selects
  <1> HIDE DEF P
  <1>3. \A n \in Nat : n \in P
    BY <1>1, <1>2, NatSetInduction
  <1>4. QED
    BY <1>3 DEF P

\* Only takes messages of the kind it is given.
LEMMA OnlyType ==
  ASSUME NEW M, NEW q \in Seq(M), NEW S
  PROVE  Only(q, S) \in Seq(M)
  <1>1. Len(q) \in 0..Len(q)
    BY LenProperties
  <1>2. QED
    BY <1>1, OnlySteps

\* There is nothing to select from in an empty sequence.
LEMMA OnlyEmpty ==
  ASSUME NEW S
  PROVE  Only(<<>>, S) = <<>>
  <1>1. <<>> \in Seq({}) /\ Len(<<>>) = 0
    BY EmptySeq
  <1>2. PICK f : /\ \A n \in 0..0 : f[n] = OnlyStep(f, S, <<>>, n)
                 /\ Only(<<>>, S) = f[0]
    <2>1. ASSUME NEW q \in Seq({}), Len(q) = 0
          PROVE  \E f : /\ \A n \in 0..0 : f[n] = OnlyStep(f, S, q, n)
                        /\ Only(q, S) = f[0]
      BY <2>1, OnlySteps
    <2>2. QED
      BY <1>1, <2>1
  <1>3. QED
    BY <1>1, <1>2 DEF OnlyStep

\* A selection looks at the elements one by one.
LEMMA OnlyAppend ==
  ASSUME NEW M, NEW q \in Seq(M), NEW x \in M, NEW S
  PROVE  Only(Append(q, x), S) = IF x \in S THEN Append(Only(q, S), x) ELSE Only(q, S)
  <1> DEFINE L == Len(q)
             r == Append(q, x)
  <1>1. /\ L \in Nat /\ r \in Seq(M) /\ Len(r) = L + 1 /\ r[L + 1] = x
        /\ \A n \in 1..L : r[n] = q[n]
    BY LenProperties, AppendProperties
  <1>2. PICK f : (\A n \in 0..L : f[n] = OnlyStep(f, S, q, n)) /\ Only(q, S) = f[L]
    BY OnlySteps
  <1> HIDE DEF r
  <1>3. PICK g : (\A n \in 0..Len(r) : g[n] = OnlyStep(g, S, r, n)) /\ Only(r, S) = g[Len(r)]
    BY <1>1, OnlySteps
  <1>4. \A n \in 0..L + 1 : g[n] = OnlyStep(g, S, r, n)
    BY <1>1, <1>3
  <1> HIDE DEF L
  <1>5. f[L] = g[L]
    <2>1. Selects(f, S, q, L) /\ Selects(g, S, r, L)
      BY <1>1, <1>2, <1>4 DEF Selects
    <2>2. \A n \in 1..L : q[n] = r[n]
      BY <1>1
    <2>3. QED
      BY <1>1, <2>1, <2>2, OnlyAgree
  <1>6. g[L + 1] = IF x \in S THEN Append(g[L], x) ELSE g[L]
    <2>1. L + 1 \in 0..L + 1 /\ L + 1 # 0 /\ L + 1 - 1 = L
      BY <1>1
    <2>2. QED
      BY <1>1, <1>4, <2>1 DEF OnlyStep
  <1>7. QED
    BY <1>1, <1>2, <1>3, <1>5, <1>6 DEF r

\* Appending commutes with putting something before.
LEMMA ConcatAppend ==
  ASSUME NEW M, NEW q \in Seq(M), NEW r \in Seq(M), NEW x \in M
  PROVE  q \o Append(r, x) = Append(q \o r, x)
  <1>1. /\ Append(r, x) = r \o <<x>> /\ <<x>> \in Seq(M) /\ q \o r \in Seq(M)
    BY AppendIsConcat, ConcatProperties
  <1>2. Append(q \o r, x) = (q \o r) \o <<x>>
    BY <1>1, AppendIsConcat
  <1>3. (q \o r) \o <<x>> = q \o (r \o <<x>>)
    BY <1>1, ConcatAssociative
  <1>4. QED
    BY <1>1, <1>2, <1>3

\* What is selected from two sequences one after the other.
LEMMA OnlyConcat ==
  ASSUME NEW M, NEW q \in Seq(M), NEW r \in Seq(M), NEW S
  PROVE  Only(q \o r, S) = Only(q, S) \o Only(r, S)
  <1> DEFINE Q == {t \in Seq(M) : Only(q \o t, S) = Only(q, S) \o Only(t, S)}
  <1>1. <<>> \in Q
    <2>1. <<>> \in Seq(M) /\ q \o <<>> = q /\ Only(q, S) \o <<>> = Only(q, S)
      BY EmptySeq, ConcatEmptySeq, OnlyType
    <2>2. QED
      BY <2>1, OnlyEmpty
  <1>2. ASSUME NEW t \in Seq(M), NEW x \in M, t \in Q PROVE Append(t, x) \in Q
    <2>1. /\ Append(t, x) \in Seq(M) /\ q \o t \in Seq(M)
          /\ Only(q, S) \in Seq(M) /\ Only(t, S) \in Seq(M)
      BY AppendProperties, ConcatProperties, OnlyType
    <2>2. q \o Append(t, x) = Append(q \o t, x)
      BY ConcatAppend
    <2>3. Only(Append(q \o t, x), S)
            = IF x \in S THEN Append(Only(q \o t, S), x) ELSE Only(q \o t, S)
      BY <2>1, OnlyAppend
    <2>4. Only(Append(t, x), S) = IF x \in S THEN Append(Only(t, S), x) ELSE Only(t, S)
      BY OnlyAppend
    <2>5. Only(q, S) \o Append(Only(t, S), x) = Append(Only(q, S) \o Only(t, S), x)
      BY <2>1, ConcatAppend
    <2>6. QED
      BY <1>2, <2>1, <2>2, <2>3, <2>4, <2>5
  <1> HIDE DEF Q
  <1>3. r \in Q
    BY <1>1, <1>2, SeqSetInduction
  <1>4. QED
    BY <1>3 DEF Q

\* Sets that agree on a sequence select the same from it.
LEMMA OnlySame ==
  ASSUME NEW M, NEW q \in Seq(M), NEW S, NEW T, \A x \in Range(q) : x \in S <=> x \in T
  PROVE  Only(q, S) = Only(q, T)
  <1> DEFINE Q == {t \in Seq(M) : (\A x \in Range(t) : x \in S <=> x \in T)
                                     => Only(t, S) = Only(t, T)}
  <1>1. <<>> \in Q
    BY EmptySeq, OnlyEmpty
  <1>2. ASSUME NEW t \in Seq(M), NEW x \in M, t \in Q PROVE Append(t, x) \in Q
    <2>1. Append(t, x) \in Seq(M)
      BY AppendProperties
    <2>2. SUFFICES ASSUME \A y \in Range(Append(t, x)) : y \in S <=> y \in T
                   PROVE  Only(Append(t, x), S) = Only(Append(t, x), T)
      BY <2>1
    <2>3. Range(Append(t, x)) = Range(t) \union {x}
      BY AppendRange
    <2>4. Only(t, S) = Only(t, T) /\ (x \in S <=> x \in T)
      BY <1>2, <2>2, <2>3
    <2>5. /\ Only(Append(t, x), S) = IF x \in S THEN Append(Only(t, S), x) ELSE Only(t, S)
          /\ Only(Append(t, x), T) = IF x \in T THEN Append(Only(t, T), x) ELSE Only(t, T)
      BY OnlyAppend
    <2>6. QED
      BY <2>4, <2>5
  <1> HIDE DEF Q
  <1>3. q \in Q
    BY <1>1, <1>2, SeqSetInduction
  <1>4. QED
    BY <1>3 DEF Q

\* What is not there is not selected.
LEMMA OnlyNone ==
  ASSUME NEW M, NEW q \in Seq(M), NEW S, \A x \in Range(q) : x \notin S
  PROVE  Only(q, S) = <<>>
  <1> DEFINE Q == {t \in Seq(M) : Only(t, {}) = <<>>}
  <1>1. <<>> \in Q
    BY EmptySeq, OnlyEmpty
  <1>2. ASSUME NEW t \in Seq(M), NEW x \in M, t \in Q PROVE Append(t, x) \in Q
    <2>1. Append(t, x) \in Seq(M)
      BY AppendProperties
    <2>2. Only(Append(t, x), {}) = IF x \in {} THEN Append(Only(t, {}), x) ELSE Only(t, {})
      BY OnlyAppend
    <2>3. QED
      BY <1>2, <2>1, <2>2
  <1> HIDE DEF Q
  <1>3. q \in Q
    BY <1>1, <1>2, SeqSetInduction
  <1>4. Only(q, S) = Only(q, {})
    BY OnlySame
  <1>5. QED
    BY <1>3, <1>4 DEF Q

\* The messages of a sequence whatever their nonces.
Contents(q) == [i \in DOMAIN q |-> Content(q[i])]

\* The content of a message has its ends, and putting it in a place does not change it.
LEMMA ContentFields ==
  ASSUME NEW m \in Message
  PROVE  /\ Content(m) \in Message /\ Content(m).nonce = 0
         /\ Content(m).from = m.from /\ Content(m).to = m.to
         /\ m.nonce = 0 => Content(m) = m
         /\ \A n \in Nat : Placed(m, n) \in Message /\ Content(Placed(m, n)) = Content(m)
  <1>1. ASSUME m.nonce = 0 PROVE Content(m) = m
    BY <1>1 DEF Content, Message
  <1>2. QED
    BY <1>1 DEF Content, Message, Placed

\* The contents of messages are messages.
LEMMA ContentsType ==
  ASSUME NEW q \in Seq(Message)
  PROVE  /\ Contents(q) \in Seq(Message) /\ Len(Contents(q)) = Len(q)
         /\ \A i \in 1..Len(q) : Contents(q)[i] = Content(q[i])
         /\ \A x \in Range(Contents(q)) : \E y \in Range(q) : x = Content(y)
  <1> DEFINE L == Len(q)
             f == [i \in 1..L |-> Content(q[i])]
  <1>1. L \in Nat /\ DOMAIN q = 1..L /\ \A i \in 1..L : q[i] \in Message
    BY LenProperties, ElementOfSeq
  <1>2. Contents(q) = f
    BY <1>1 DEF Contents
  <1>3. \A i \in 1..L : f[i] \in Message /\ f[i] = Content(q[i])
    BY <1>1, ContentFields
  <1>4. f \in Seq(Message) /\ Len(f) = L
    BY <1>1, <1>3
  <1>5. ASSUME NEW x \in Range(Contents(q))
        PROVE  \E y \in Range(q) : x = Content(y)
    <2>1. PICK i \in 1..L : x = Contents(q)[i]
      BY <1>2 DEF Range
    <2>2. x = Content(q[i]) /\ q[i] \in Range(q)
      BY <1>1, <1>2, <1>3, <2>1 DEF Range
    <2>3. QED
      BY <2>2
  <1> HIDE DEF f
  <1>6. QED
    BY <1>2, <1>3, <1>4, <1>5

\* Contents of a longer sequence.
LEMMA ContentsAppend ==
  ASSUME NEW q \in Seq(Message), NEW x \in Message
  PROVE  Contents(Append(q, x)) = Append(Contents(q), Content(x))
  <1> DEFINE L == Len(q)
             a == Append(q, x)
             b == Append(Contents(q), Content(x))
  <1>1. /\ a \in Seq(Message) /\ Len(a) = L + 1 /\ a[L + 1] = x /\ L \in Nat
        /\ \A i \in 1..L : a[i] = q[i]
    BY LenProperties, AppendProperties
  <1>2. /\ Contents(q) \in Seq(Message) /\ Content(x) \in Message /\ Len(Contents(q)) = L
        /\ \A i \in 1..L : Contents(q)[i] = Content(q[i])
    BY ContentsType, ContentFields
  <1>3. /\ b \in Seq(Message) /\ Len(b) = L + 1 /\ b[L + 1] = Content(x)
        /\ \A i \in 1..L : b[i] = Content(q[i])
    BY <1>2, AppendProperties
  <1> HIDE DEF a, b
  <1>4. /\ Contents(a) \in Seq(Message) /\ Len(Contents(a)) = L + 1
        /\ \A i \in 1..L + 1 : Contents(a)[i] = Content(a[i])
    BY <1>1, ContentsType
  <1>5. \A i \in 1..L + 1 : Contents(a)[i] = b[i]
    BY <1>1, <1>3, <1>4
  <1>6. Contents(a) = b
    BY <1>1, <1>3, <1>4, <1>5, SeqEqual
  <1>7. QED
    BY <1>6 DEF a, b

\* Contents of two sequences in a row.
LEMMA ContentsConcat ==
  ASSUME NEW q \in Seq(Message), NEW r \in Seq(Message)
  PROVE  Contents(q \o r) = Contents(q) \o Contents(r)
  <1> DEFINE Q == {t \in Seq(Message) : Contents(q \o t) = Contents(q) \o Contents(t)}
  <1>1. <<>> \in Q
    <2>1. Contents(<<>>) = <<>>
      BY EmptySeq, ContentsType
    <2>2. QED
      BY <2>1, EmptySeq, ConcatEmptySeq, ContentsType
  <1>2. ASSUME NEW t \in Seq(Message), NEW x \in Message, t \in Q PROVE Append(t, x) \in Q
    <2>1. /\ Append(t, x) \in Seq(Message) /\ q \o t \in Seq(Message) /\ Content(x) \in Message
          /\ Contents(q) \in Seq(Message) /\ Contents(t) \in Seq(Message)
      BY AppendProperties, ConcatProperties, ContentsType, ContentFields
    <2>2. /\ Contents(q \o Append(t, x)) = Append(Contents(q \o t), Content(x))
          /\ Contents(Append(t, x)) = Append(Contents(t), Content(x))
      <3>1. q \o Append(t, x) = Append(q \o t, x)
        BY ConcatAppend
      <3>2. Contents(Append(q \o t, x)) = Append(Contents(q \o t), Content(x))
        BY <2>1, ContentsAppend
      <3>3. Contents(Append(t, x)) = Append(Contents(t), Content(x))
        BY ContentsAppend
      <3>4. QED
        BY <3>1, <3>2, <3>3
    <2>3. Contents(q) \o Append(Contents(t), Content(x))
            = Append(Contents(q) \o Contents(t), Content(x))
      BY <2>1, ConcatAppend
    <2>4. QED
      BY <1>2, <2>1, <2>2, <2>3
  <1> HIDE DEF Q
  <1>3. r \in Q
    BY <1>1, <1>2, SeqSetInduction
  <1>4. QED
    BY <1>3 DEF Q

\* A selection of a wider selection, whatever the nonces, is a selection.
LEMMA OnlyContents ==
  ASSUME NEW q \in Seq(Message), NEW S, NEW T, \A x \in Range(q) : Content(x) \in S => x \in T
  PROVE  Only(Contents(Only(q, T)), S) = Only(Contents(q), S)
  <1> DEFINE Q == {t \in Seq(Message) : (\A x \in Range(t) : Content(x) \in S => x \in T)
                     => Only(Contents(Only(t, T)), S) = Only(Contents(t), S)}
  <1>1. <<>> \in Q
    BY EmptySeq, OnlyEmpty
  <1>2. ASSUME NEW t \in Seq(Message), NEW x \in Message, t \in Q PROVE Append(t, x) \in Q
    <2>1. /\ Append(t, x) \in Seq(Message) /\ Only(t, T) \in Seq(Message)
          /\ Content(x) \in Message /\ Contents(t) \in Seq(Message)
          /\ Contents(Only(t, T)) \in Seq(Message)
      BY AppendProperties, ContentsType, ContentFields, OnlyType
    <2>2. SUFFICES ASSUME \A y \in Range(Append(t, x)) : Content(y) \in S => y \in T
                   PROVE  Only(Contents(Only(Append(t, x), T)), S)
                            = Only(Contents(Append(t, x)), S)
      BY <2>1
    <2>3. Range(Append(t, x)) = Range(t) \union {x}
      BY AppendRange
    <2>4. /\ Only(Contents(Only(t, T)), S) = Only(Contents(t), S)
          /\ Content(x) \in S => x \in T
      BY <1>2, <2>2, <2>3
    <2>5. Only(Append(t, x), T) = IF x \in T THEN Append(Only(t, T), x) ELSE Only(t, T)
      BY OnlyAppend
    <2>6. /\ Contents(Append(Only(t, T), x)) = Append(Contents(Only(t, T)), Content(x))
          /\ Contents(Append(t, x)) = Append(Contents(t), Content(x))
      BY <2>1, ContentsAppend
    <2>7. \A r \in Seq(Message) :
            Only(Append(r, Content(x)), S)
              = IF Content(x) \in S THEN Append(Only(r, S), Content(x)) ELSE Only(r, S)
      BY <2>1, OnlyAppend
    <2>8. QED
      BY <2>1, <2>4, <2>5, <2>6, <2>7
  <1> HIDE DEF Q
  <1>3. q \in Q
    BY <1>1, <1>2, SeqSetInduction
  <1>4. QED
    BY <1>3 DEF Q

-----------------------------------------------------------------------------
(* Counting the copies of a message. *)

NumCopies(X, m) == Cardinality({x \in X : Content(x) = m})
TimesIn(q, m) == Len(Only(q, {m}))
One(x, m) == IF x = m THEN 1 ELSE 0

\* There are finitely many copies in a finite set.
LEMMA CopiesType ==
  ASSUME NEW X, IsFiniteSet(X), NEW m
  PROVE  NumCopies(X, m) \in Nat
  BY FS_Subset, FS_CardinalityType DEF NumCopies

\* Copies in disjoint sets are counted apart.
LEMMA CopiesUnion ==
  ASSUME NEW X, IsFiniteSet(X), NEW Y, IsFiniteSet(Y), X \cap Y = {}, NEW m
  PROVE  /\ NumCopies(X \union Y, m) = NumCopies(X, m) + NumCopies(Y, m)
         /\ NumCopies(X, m) \in Nat /\ NumCopies(Y, m) \in Nat
  <1> DEFINE A == {x \in X : Content(x) = m}
             B == {x \in Y : Content(x) = m}
  <1>1. IsFiniteSet(A) /\ IsFiniteSet(B) /\ A \cap B = {}
    BY FS_Subset
  <1>2. {x \in X \union Y : Content(x) = m} = A \union B
    OBVIOUS
  <1> HIDE DEF A, B
  <1>3. /\ Cardinality(A \union B) = Cardinality(A) + Cardinality(B)
        /\ Cardinality(A) \in Nat /\ Cardinality(B) \in Nat
    <2>1. Cardinality(A \union B) = Cardinality(A) + Cardinality(B) - Cardinality(A \cap B)
      BY <1>1, FS_Union
    <2>2. Cardinality(A) \in Nat /\ Cardinality(B) \in Nat /\ Cardinality(A \cap B) = 0
      BY <1>1, FS_CardinalityType, FS_EmptySet
    <2>3. QED
      BY <2>1, <2>2
  <1>4. QED
    BY <1>2, <1>3 DEF NumCopies, A, B

\* A set of one message has one copy of it, and none of any other.
LEMMA CopiesOfOne ==
  ASSUME NEW x, NEW m
  PROVE  IsFiniteSet({x}) /\ NumCopies({x}, m) = One(Content(x), m)
  <1>1. CASE Content(x) = m
    <2>1. {y \in {x} : Content(y) = m} = {x}
      BY <1>1
    <2>2. QED
      BY <1>1, <2>1, FS_Singleton DEF NumCopies, One
  <1>2. CASE Content(x) # m
    <2>1. {y \in {x} : Content(y) = m} = {}
      BY <1>2
    <2>2. QED
      BY <1>2, <2>1, FS_EmptySet, FS_Singleton DEF NumCopies, One
  <1>3. QED
    BY <1>1, <1>2

\* A message at the end of a sequence is one more.
LEMMA TimesAppend ==
  ASSUME NEW q \in Seq(Message), NEW x \in Message, NEW m
  PROVE  /\ TimesIn(Append(q, x), m) = TimesIn(q, m) + One(x, m)
         /\ TimesIn(q, m) \in Nat
  <1>1. Only(q, {m}) \in Seq(Message)
    BY OnlyType
  <1>2. Only(Append(q, x), {m}) = IF x = m THEN Append(Only(q, {m}), x) ELSE Only(q, {m})
    BY OnlyAppend
  <1>3. Len(Append(Only(q, {m}), x)) = Len(Only(q, {m})) + 1 /\ Len(Only(q, {m})) \in Nat
    BY <1>1, LenProperties, AppendProperties
  <1>4. QED
    BY <1>2, <1>3 DEF TimesIn, One

\* Sequences in a row are counted apart.
LEMMA TimesConcat ==
  ASSUME NEW q \in Seq(Message), NEW r \in Seq(Message), NEW m
  PROVE  /\ TimesIn(q \o r, m) = TimesIn(q, m) + TimesIn(r, m)
         /\ TimesIn(q, m) \in Nat /\ TimesIn(r, m) \in Nat
  BY OnlyType, OnlyConcat, ConcatProperties, LenProperties DEF TimesIn

\* Of distinct messages, there are as many alike as the sequence has places for them.
LEMMA DistinctCopies ==
  ASSUME NEW q \in Seq(Message), \A i, j \in DOMAIN q : q[i] = q[j] => i = j, NEW m
  PROVE  IsFiniteSet(Range(q)) /\ NumCopies(Range(q), m) = TimesIn(Contents(q), m)
  <1> DEFINE Distinct(t) == \A i, j \in DOMAIN t : t[i] = t[j] => i = j
             Good(t) == IsFiniteSet(Range(t)) /\ NumCopies(Range(t), m) = TimesIn(Contents(t), m)
             Q == {t \in Seq(Message) : Distinct(t) => Good(t)}
  <1>1. <<>> \in Q
    <2>1. Range(<<>>) = {}
      BY DEF Range
    <2>2. Contents(<<>>) = <<>> /\ TimesIn(<<>>, m) = 0
      BY EmptySeq, ContentsType, OnlyEmpty DEF TimesIn
    <2>3. IsFiniteSet({}) /\ NumCopies({}, m) = 0
      BY FS_EmptySet DEF NumCopies
    <2>4. QED
      BY <2>1, <2>2, <2>3, EmptySeq
  <1>2. ASSUME NEW t \in Seq(Message), NEW x \in Message, t \in Q PROVE Append(t, x) \in Q
    <2> DEFINE r == Append(t, x)
               L == Len(t)
    <2>1. /\ r \in Seq(Message) /\ Len(r) = L + 1 /\ r[L + 1] = x /\ L \in Nat
          /\ DOMAIN t = 1..L /\ DOMAIN r = 1..L + 1
          /\ \A i \in 1..L : r[i] = t[i]
      <3>1. r \in Seq(Message) /\ L \in Nat /\ DOMAIN t = 1..L
        BY LenProperties, AppendProperties
      <3>2. Len(r) = L + 1 /\ r[L + 1] = x /\ \A i \in 1..L : r[i] = t[i]
        BY AppendProperties
      <3> HIDE DEF r
      <3>3. DOMAIN r = 1..Len(r)
        BY <3>1, LenProperties
      <3>4. QED
        BY <3>1, <3>2, <3>3
    <2>2. Range(r) = Range(t) \union {x} /\ Contents(r) = Append(Contents(t), Content(x))
      BY AppendRange, ContentsAppend
    <2> HIDE DEF r, L
    <2>3. SUFFICES ASSUME Distinct(r) PROVE Good(r)
      BY <2>1 DEF r
    <2>4. Distinct(t) /\ x \notin Range(t)
      <3>1. \A i \in 1..L : i \in 1..L + 1 /\ r[i] # r[L + 1]
        BY <2>1, <2>3
      <3>2. x \notin Range(t)
        BY <2>1, <3>1 DEF Range
      <3>3. \A i, j \in 1..L : t[i] = t[j] => i = j
        BY <2>1, <2>3
      <3>4. QED
        BY <2>1, <3>2, <3>3
    <2>5. IsFiniteSet(Range(t)) /\ NumCopies(Range(t), m) = TimesIn(Contents(t), m)
      BY <1>2, <2>4
    <2>6. IsFiniteSet(Range(r))
      <3>1. IsFiniteSet(Range(t) \union {x})
        BY <2>5, FS_AddElement
      <3>2. QED
        BY <2>2, <3>1
    <2>7. /\ NumCopies(Range(t) \union {x}, m) = NumCopies(Range(t), m) + One(Content(x), m)
      <3>1. Range(t) \cap {x} = {}
        BY <2>4
      <3>2. NumCopies({x}, m) = One(Content(x), m) /\ IsFiniteSet({x})
        BY CopiesOfOne, FS_Singleton
      <3>3. QED
        BY <2>5, <3>1, <3>2, CopiesUnion
    <2>8. TimesIn(Append(Contents(t), Content(x)), m)
            = TimesIn(Contents(t), m) + One(Content(x), m)
      BY ContentsType, ContentFields, TimesAppend
    <2>9. QED
      BY <2>2, <2>5, <2>6, <2>7, <2>8
  <1> HIDE DEF Q
  <1>3. q \in Q
    BY <1>1, <1>2, SeqSetInduction
  <1>4. QED
    BY <1>3 DEF Q

-----------------------------------------------------------------------------
(* What a step does to the messages. *)

\* A message goes into the current checkpoint of s, or into the queue of a child of s.
Pushed(s, m) ==
  \/ /\ \E fee \in Nat : CommitBottomupMsg(s, m, fee)
     /\ GoesUp(m.from, m.to, s) /\ UNCHANGED subnets
  \/ CommitTopdownMsg(s, m) /\ UNCHANGED bottomUp

SendsOne(s, m) ==
  /\ Pushed(s, m) /\ m.nonce = 0 /\ (FundsToChildren => m.from = s)
  /\ sent' = [sent EXCEPT ![s] = Append(@, m)]
  /\ UNCHANGED <<epoch, postbox, carried, delivered>>

PassesOn(s, i) ==
  /\ Pushed(s, i.msg)
  /\ postbox' = [postbox EXCEPT ![s] = @ \ {i}]
  /\ UNCHANGED <<epoch, carried, sent, delivered>>

\* Every message a call sends is pushed, once, and recorded as sent.
LEMMA SendingIs ==
  ASSUME TypeInv, FundAny \/ ReleaseAny \/ SendCrossAny
  PROVE  \E s \in Networks, m \in Message : SendsOne(s, m)
  <1>0. CrossMsgFee \in Nat
    BY AmountsAssumption
  <1>1. CASE FundAny
    <2>1. PICK r \in FundRoutes, a \in Senders, v \in Amounts : Fund(r[1], r[2], a, v)
      BY <1>1 DEF FundAny
    <2> DEFINE s == r[1]
               c == r[2]
               m == NewFundMsg(c, a, CollectCrossFee(v))
    <2>2. c \in NonRoot /\ s \in Networks
      BY <2>1, RoutesAssumption DEF Fund, NonRoot
    <2>3. m \in Message
      BY <2>1, <2>2, SentMessages DEF Fund
    <2>4. m.from = Parent(c) /\ m.to = c /\ m.nonce = 0
      BY DEF NewFundMsg, Msg
    <2>5. /\ CommitTopdownMsg(s, m) /\ UNCHANGED bottomUp
          /\ sent' = [sent EXCEPT ![s] = Append(@, m)]
          /\ UNCHANGED <<epoch, postbox, carried, delivered>>
      BY <2>1, <2>2 DEF Fund, Sends
    <2>6. FundsToChildren => s = Parent(c)
      BY DEF FundsToChildren, Children
    <2> HIDE DEF m, c, s
    <2>7. QED
      BY <2>2, <2>3, <2>4, <2>5, <2>6 DEF SendsOne, Pushed
  <1>2. CASE ReleaseAny
    <2>1. PICK s \in Releasing, a \in Senders, v \in Amounts : Release(s, a, v)
      BY <1>2 DEF ReleaseAny
    <2> DEFINE m == NewReleaseMsg(s, a, CollectCrossFee(v))
    <2>2. s \in Networks /\ s \in NonRoot
      BY RoutesAssumption, NetworksAreIDs
    <2>3. m \in Message
      BY <2>1, <2>2, SentMessages DEF Release
    <2>4. m.from = s /\ m.to = Parent(s) /\ m.nonce = 0
      BY DEF NewReleaseMsg, Msg
    <2>5. /\ CommitBottomupMsg(s, m, CrossMsgFee) /\ UNCHANGED subnets
          /\ sent' = [sent EXCEPT ![s] = Append(@, m)]
          /\ UNCHANGED <<epoch, postbox, carried, delivered>>
      BY <2>1 DEF Release, Sends
    <2>6. GoesUp(m.from, m.to, s)
      BY <2>2, <2>4, NeighbourPath
    <2> HIDE DEF m
    <2>7. QED
      BY <1>0, <2>2, <2>3, <2>4, <2>5, <2>6 DEF SendsOne, Pushed
  <1>3. CASE SendCrossAny
    <2>1. PICK r \in SendRoutes, a \in Senders, v \in Amounts, p \in Payloads :
            SendCross(r[1], r[2], a, v, p)
      BY <1>3 DEF SendCrossAny
    <2> DEFINE s == r[1]
               m == Msg(s, r[2], a, CollectCrossFee(v), p)
    <2>2. s \in Networks /\ r[2] \in Destinations
      BY RoutesAssumption DEF Destinations
    <2>3. m \in Message
      BY <2>1, <2>2, SentMessages DEF SendCross
    <2>4. m.from = s /\ m.nonce = 0
      BY DEF Msg
    <2>5. /\ CommitCrossMessage(s, m, CrossMsgFee)
          /\ sent' = [sent EXCEPT ![s] = Append(@, m)]
          /\ UNCHANGED <<epoch, postbox, carried, delivered>>
      BY <2>1 DEF SendCross, Sends
    <2> HIDE DEF m, s
    <2>6. Pushed(s, m)
      BY <1>0, <2>5 DEF Pushed, CommitCrossMessage, CommitUp, CommitTurn, CommitDown
    <2>7. QED
      BY <2>2, <2>3, <2>4, <2>5, <2>6 DEF SendsOne
  <1>4. QED
    BY <1>1, <1>2, <1>3

\* Every item that is propagated is pushed, once, and taken out of the postbox.
LEMMA PassingIs ==
  ASSUME TypeInv, NEW s \in Networks, PropagateAny(s)
  PROVE  \E i \in postbox[s] : PassesOn(s, i) /\ i.msg \in Message
  <1>0. CrossMsgFee \in Nat
    BY AmountsAssumption
  <1>1. PICK i \in postbox[s], o \in Accounts : Propagate(s, i, o)
    BY DEF PropagateAny
  <1>2. i.msg \in Message
    BY DEF TypeInv, PostboxTyped, Item
  <1>3. Pushed(s, i.msg)
    BY <1>0, <1>1 DEF Propagate, Pushed, CommitCrossMessage, CommitUp, CommitTurn, CommitDown
  <1>4. QED
    BY <1>1, <1>2, <1>3 DEF Propagate, PassesOn

\* What is selected was there before and belongs to the selection.
LEMMA OnlyRange ==
  ASSUME NEW M, NEW q \in Seq(M), NEW S
  PROVE  Range(Only(q, S)) \subseteq Range(q) \cap S
  <1> DEFINE Q == {t \in Seq(M) : Range(Only(t, S)) \subseteq Range(t) \cap S}
  <1>1. <<>> \in Q
    <2>1. Range(<<>>) = {}
      BY DEF Range
    <2>2. QED
      BY <2>1, EmptySeq, OnlyEmpty
  <1>2. ASSUME NEW t \in Seq(M), NEW x \in M, t \in Q PROVE Append(t, x) \in Q
    <2>1. Append(t, x) \in Seq(M) /\ Only(t, S) \in Seq(M)
      BY AppendProperties, OnlyType
    <2>2. /\ Range(Append(t, x)) = Range(t) \union {x}
          /\ Range(Append(Only(t, S), x)) = Range(Only(t, S)) \union {x}
      BY <2>1, AppendRange
    <2>3. Only(Append(t, x), S) = IF x \in S THEN Append(Only(t, S), x) ELSE Only(t, S)
      BY OnlyAppend
    <2>4. QED
      BY <1>2, <2>1, <2>2, <2>3
  <1> HIDE DEF Q
  <1>3. q \in Q
    BY <1>1, <1>2, SeqSetInduction
  <1>4. QED
    BY <1>3 DEF Q

\* The messages that have arrived at s are addressed to s.
LEMMA OwnRange ==
  ASSUME NEW msgs \in Seq(Message), NEW s
  PROVE  \A m \in Range(Own(s, msgs)) : m \in Range(msgs) /\ m.to = s
  BY OnlyRange DEF Own

\* What the execution of a checkpoint appends to the messages delivered.
LEMMA ApplyDelivers ==
  ASSUME NEW s \in Networks, NEW msgs \in Seq(Message), NEW fee, Apply(s, msgs, fee)
  PROVE  /\ delivered' = [delivered EXCEPT ![s] = @ \o Contents(Own(s, msgs))]
         /\ sent' = sent
         /\ Own(s, msgs) \in Seq(Message) /\ Contents(Own(s, msgs)) \in Seq(Message)
         /\ \A m \in Range(Own(s, msgs)) : m \in Range(msgs) /\ m.to = s
         /\ \A m \in Range(Contents(Own(s, msgs))) :
              m.nonce = 0 /\ m.to = s /\ \E x \in Range(msgs) : x \in Message /\ m = Content(x)
  <1> DEFINE own == Own(s, msgs)
  <1>1. own \in Seq(Message)
    BY OwnType
  <1>2. \A m \in Range(own) : m \in Range(msgs) /\ m.to = s
    BY OwnRange
  <1>3. Contents(own) \in Seq(Message)
    BY <1>1, ContentsType
  <1>4. ASSUME NEW m \in Range(Contents(own))
        PROVE  m.nonce = 0 /\ m.to = s /\ \E x \in Range(msgs) : x \in Message /\ m = Content(x)
    <2>1. PICK x \in Range(own) : m = Content(x)
      BY <1>4 DEF Contents, Range
    <2>2. x \in Message
      BY <1>1, <2>1 DEF Range
    <2>3. m.nonce = 0 /\ m.to = x.to
      BY <2>1, <2>2, ContentFields
    <2>4. QED
      BY <1>2, <2>1, <2>2, <2>3
  <1>5. delivered' = [delivered EXCEPT ![s] = @ \o Contents(own)] /\ sent' = sent
    BY DEF Apply, Contents
  <1> HIDE DEF own
  <1>6. QED
    BY <1>1, <1>2, <1>3, <1>4, <1>5 DEF own

\* A parent is a network of its own.
LEMMA ParentIsNear ==
  ASSUME NEW c \in NonRoot
  PROVE  /\ c \in ID /\ Parent(c) \in ID /\ Depth(c) \in Nat /\ Depth(c) # 0
         /\ Depth(Parent(c)) = Depth(c) - 1
  BY NetworksAreIDs, IDParts, ParentIs DEF ID, NonRoot

\* A message that climbs through c has started at c or below.
LEMMA ClimbingFrom ==
  ASSUME NEW c \in NonRoot, NEW m \in Message, Climbing(c, m)
  PROVE  /\ Above(c, m.from) /\ m.from # Parent(c)
         /\ \A d \in NonRoot : Parent(d) = Parent(c) /\ m.from = d => d = c
  <1>1. m.from \in ID /\ m.to \in ID
    BY DEF Message
  <1>2. Above(c, m.from)
    BY <1>1, ParentIsNear, ClimbsBelowTurn DEF Climbing, ID
  <1>3. Depth(c) <= Depth(m.from) /\ Agree(c, m.from, Depth(c))
    BY <1>1, <1>2, ParentIsNear, AboveIs DEF ID
  <1>4. m.from # Parent(c)
    BY <1>3, ParentIsNear
  <1>5. ASSUME NEW d \in NonRoot, Parent(d) = Parent(c), m.from = d PROVE d = c
    <2>1. Depth(d) = Depth(c) /\ Agree(c, d, Depth(c))
      BY <1>3, <1>5, ParentIsNear
    <2>2. c \in ID /\ d \in ID
      BY ParentIsNear
    <2>3. QED
      BY <2>1, <2>2, SameID DEF ID
  <1>6. QED
    BY <1>2, <1>4, <1>5

\* A message that comes down to c has started neither at c nor, when it stays, below.
LEMMA DescendingFrom ==
  ASSUME FundsToChildren, NEW c \in NonRoot, NEW m \in Message, Descending(c, m)
  PROVE  /\ m.from # c
         /\ m.to = c => \A d \in NonRoot : Parent(d) = c => m.from # d
  <1>1. /\ OnPath(Parent(c), m.from, m.to) /\ ApplyType(m.from, m.to, c) = TopDown
        /\ m.from \in ID /\ m.to \in ID
    BY DEF Descending, Misnamed, Message
  <1>2. CommonChildren(m.from, m.to) <= Depth(c) - 1
    BY <1>1, ParentIsNear, PathIs DEF ID
  <1>3. ASSUME m.from = c PROVE FALSE
    <2>1. CommonChildren(m.from, m.to) \in Nat
      BY <1>1, CommonLevels DEF ID
    <2>2. Depth(c) > CommonChildren(c, m.to) /\ c.root = m.to.root
      BY <1>1, <1>2, <1>3, <2>1, ParentIsNear, IDParts DEF ID
    <2>3. IsBottomUp(c, m.to)
      BY <2>2 DEF IsBottomUp, Depth
    <2>4. ApplyType(c, m.to, c) = BottomUp
      BY <2>3 DEF ApplyType, IpcType
    <2>5. QED
      BY <1>1, <1>3, <2>4 DEF TopDown, BottomUp
  <1>4. ASSUME m.to = c, NEW d \in NonRoot, Parent(d) = c, m.from = d PROVE FALSE
    <2>1. Depth(c) = Depth(d) - 1 /\ Agree(c, d, Depth(c)) /\ Depth(c) \in Nat
          /\ c \in ID /\ d \in ID /\ Depth(d) \in Nat
      <3>1. c \in ID /\ d \in ID /\ Depth(d) # 0 /\ Depth(c) \in Nat /\ Depth(d) \in Nat
        BY ParentIsNear
      <3>2. QED
        BY <1>4, <3>1, ParentIs DEF ID
    <2>2. Above(c, d)
      BY <2>1, AboveIs DEF ID
    <2>3. CommonChildren(c, d) = Depth(c)
      BY <2>1, <2>2, AboveCommon DEF ID
    <2>4. CommonChildren(d, c) = Depth(c)
      BY <2>1, <2>3, CommonSymmetric DEF ID
    <2>5. QED
      BY <1>2, <1>4, <2>1, <2>4
  <1>5. QED
    BY <1>3, <1>4

\* What goes up is not for a child, what goes down not for the parent.
LEMMA PushedApart ==
  ASSUME NEW c \in NonRoot, NEW m \in Message
  PROVE  /\ m.from = Parent(c) /\ m.to = c => ~GoesUp(m.from, m.to, Parent(c))
         /\ m.to = Parent(c) => ~CommitTopdownMsg(c, m)
         /\ m.to = c /\ CommitTopdownMsg(Parent(c), m) => Down(m.to, Parent(c)) = c
  <1>1. ASSUME m.from = Parent(c), m.to = c, GoesUp(m.from, m.to, Parent(c)) PROVE FALSE
    <2>1. ~IsBottomUp(m.from, m.to)
      BY <1>1, NeighbourPath
    <2>2. QED
      BY <1>1, <2>1 DEF GoesUp, ApplyType, IpcType, TopDown, BottomUp
  <1>2. ASSUME m.to = Parent(c), CommitTopdownMsg(c, m) PROVE FALSE
    <2>1. Down(m.to, c) = None
      BY <1>2, ParentIsNear DEF Down, Depth
    <2>2. QED
      BY <1>2, <2>1 DEF CommitTopdownMsg
  <1>3. ASSUME m.to = c, CommitTopdownMsg(Parent(c), m) PROVE Down(m.to, Parent(c)) = c
    BY <1>3, DownToChild DEF CommitTopdownMsg
  <1>4. QED
    BY <1>1, <1>2, <1>3

-----------------------------------------------------------------------------
(* The histories. *)

Histories ==
  /\ sent \in [Networks -> Seq(Message)] /\ delivered \in [Networks -> Seq(Message)]
  /\ \A s \in Networks : \A m \in Range(sent[s]) :
       m.nonce = 0 /\ (FundsToChildren => m.from = s)
  /\ \A s \in Networks : \A m \in Range(delivered[s]) : m.nonce = 0 /\ m.to = s

\* A postbox holds no message of its own gateway.
Abroad == FundsToChildren => \A s \in Networks : \A i \in postbox[s] : i.msg.from # s

\* The histories when a gateway executes a checkpoint,
LEMMA DeliveredGrows ==
  ASSUME Histories, NEW s \in Networks, NEW q \in Seq(Message),
         delivered' = [delivered EXCEPT ![s] = @ \o q]
  PROVE  /\ delivered' \in [Networks -> Seq(Message)] /\ delivered'[s] = delivered[s] \o q
         /\ Range(delivered'[s]) = Range(delivered[s]) \union Range(q)
         /\ \A t \in Networks : t # s => delivered'[t] = delivered[t]
  <1>1. delivered \in [Networks -> Seq(Message)]
    BY DEF Histories
  <1>2. /\ delivered[s] \o q \in Seq(Message)
        /\ Range(delivered[s] \o q) = Range(delivered[s]) \union Range(q)
    BY <1>1, ConcatProperties, RangeConcatenation
  <1>3. delivered' \in [Networks -> Seq(Message)]
    BY <1>1, <1>2
  <1>4. delivered'[s] = delivered[s] \o q
    BY <1>1
  <1>5. \A t \in Networks : t # s => delivered'[t] = delivered[t]
    BY <1>1
  <1>6. QED
    BY <1>2, <1>3, <1>4, <1>5

\* and when one sends a message.
LEMMA SentGrows ==
  ASSUME Histories, NEW s \in Networks, NEW m \in Message,
         sent' = [sent EXCEPT ![s] = Append(@, m)]
  PROVE  /\ sent' \in [Networks -> Seq(Message)] /\ sent'[s] = Append(sent[s], m)
         /\ Range(sent'[s]) = Range(sent[s]) \union {m}
         /\ \A t \in Networks : t # s => sent'[t] = sent[t]
  <1>1. sent \in [Networks -> Seq(Message)]
    BY DEF Histories
  <1>2. /\ Append(sent[s], m) \in Seq(Message)
        /\ Range(Append(sent[s], m)) = Range(sent[s]) \union {m}
    BY <1>1, AppendProperties, AppendRange
  <1>3. sent' \in [Networks -> Seq(Message)]
    BY <1>1, <1>2
  <1>4. sent'[s] = Append(sent[s], m)
    BY <1>1
  <1>5. \A t \in Networks : t # s => sent'[t] = sent[t]
    BY <1>1
  <1>6. QED
    BY <1>2, <1>3, <1>4, <1>5

\* The messages a checkpoint of c, or the queue of c, has for the gateway that executes it.
LEMMA ChildMessages ==
  ASSUME TypeInv, RouteInv, NEW c \in NonRoot, NEW k
  PROVE  \A m \in Range(CheckpointAt(c, k).msgs) : m \in Message /\ Climbing(c, m)
  <1>1. c \in Networks
    BY NetworksAreIDs
  <1>2. CheckpointAt(c, k).msgs \in Seq(Message)
    BY <1>1, CheckpointTyped DEF TypeInv, Checkpoint
  <1>3. \A m \in Range(CheckpointAt(c, k).msgs) : Climbing(c, m)
    BY <1>1 DEF RouteInv, CheckpointsRouted, CheckpointAt, EmptyCheckpoint, Range
  <1>4. QED
    BY <1>2, <1>3 DEF Range

\* The messages of a top-down checkpoint have come down to c.
LEMMA NextMessages ==
  ASSUME TypeInv, RouteInv, NEW c \in NonRoot, NEW n, TakesNext(c, n)
  PROVE  /\ NextMsgs(c, n) \in Seq(Message)
         /\ \A m \in Range(NextMsgs(c, n)) : m \in Message /\ Descending(c, m)
         /\ carried[c] + n <= subnets[c].topdown_nonce
         /\ n \in Nat /\ c \in Networks /\ Apply(c, NextMsgs(c, n), 0)
         /\ carried' = [carried EXCEPT ![c] = @ + n] /\ UNCHANGED <<epoch, bottomUp, subnets>>
  <1>1. n \in Nat /\ n # 0 /\ c \in Networks
    BY AmountsAssumption, NetworksAreIDs DEF TakesNext
  <1>2. /\ NextMsgs(c, n) \in Seq(Message)
        /\ \A m \in Range(NextMsgs(c, n)) :
              \E k \in DOMAIN subnets[c].top_down_msgs : m = subnets[c].top_down_msgs[k]
        /\ carried[c] + n <= subnets[c].topdown_nonce
    BY <1>1, TopdownMessages DEF TypeInv, TakesNext, NextMsgs
  <1>3. \A m \in Range(NextMsgs(c, n)) : m \in Message
    BY <1>2 DEF Range
  <1>4. /\ Apply(c, NextMsgs(c, n), 0)
        /\ carried' = [carried EXCEPT ![c] = @ + n] /\ UNCHANGED <<epoch, bottomUp, subnets>>
    BY DEF TakesNext, ExecuteTopdown, NextMsgs
  <1>5. QED
    BY <1>1, <1>2, <1>3, <1>4 DEF RouteInv, QueuesRouted, TakesNext

\* Every step, by what it does to the messages.
LEMMA StepKinds ==
  ASSUME TypeInv, [Next]_vars
  PROVE  \/ \E s \in Networks, m \in Message : SendsOne(s, m)
         \/ \E s \in Networks : \E i \in postbox[s] : PassesOn(s, i) /\ i.msg \in Message
         \/ \E c \in NonRoot : \E n : TakesNext(c, n)
         \/ \E c \in NonRoot : CommitChildCheck(c)
         \/ \E s \in Networks : WhitelistAny(s) \/ Tick(s)
         \/ \E c \in NonRoot : SetMembership(c)
         \/ \E c \in Killable : Kill(c)
         \/ UNCHANGED vars
  <1>1. CASE FundAny \/ ReleaseAny \/ SendCrossAny
    BY <1>1, SendingIs
  <1>2. ASSUME NEW s \in Networks, PropagateAny(s)
        PROVE  \E i \in postbox[s] : PassesOn(s, i) /\ i.msg \in Message
    BY <1>2, PassingIs
  <1>3. ASSUME NEW c \in NonRoot, ExecuteTopdownAny(c) PROVE \E n : TakesNext(c, n)
    BY <1>3 DEF ExecuteTopdownAny, TakesNext
  <1>4. QED
    BY <1>1, <1>2, <1>3 DEF Next

\* Every step keeps the histories,
LEMMA NextHistories ==
  ASSUME TypeInv, RouteInv, Histories, [Next]_vars
  PROVE  Histories'
  <1>1. ASSUME NEW s \in Networks, NEW m \in Message, SendsOne(s, m) PROVE Histories'
    <2>1. /\ sent' = [sent EXCEPT ![s] = Append(@, m)] /\ delivered' = delivered
          /\ m.nonce = 0 /\ (FundsToChildren => m.from = s)
      BY <1>1 DEF SendsOne
    <2>2. /\ sent' \in [Networks -> Seq(Message)]
          /\ Range(sent'[s]) = Range(sent[s]) \union {m}
          /\ \A t \in Networks : t # s => sent'[t] = sent[t]
      BY <2>1, SentGrows
    <2>3. \A t \in Networks : \A x \in Range(sent'[t]) :
            x.nonce = 0 /\ (FundsToChildren => x.from = t)
      BY <2>1, <2>2 DEF Histories
    <2>4. QED
      BY <2>1, <2>2, <2>3 DEF Histories
  <1>2. ASSUME NEW s \in Networks, NEW msgs \in Seq(Message), NEW fee, Apply(s, msgs, fee)
        PROVE  Histories'
    <2>1. /\ sent' = sent /\ Contents(Own(s, msgs)) \in Seq(Message)
          /\ \A m \in Range(Contents(Own(s, msgs))) : m.nonce = 0 /\ m.to = s
      BY <1>2, ApplyDelivers
    <2>0. delivered' = [delivered EXCEPT ![s] = @ \o Contents(Own(s, msgs))]
      BY <1>2 DEF Apply, Contents
    <2>2. /\ delivered' \in [Networks -> Seq(Message)]
          /\ Range(delivered'[s]) = Range(delivered[s]) \union Range(Contents(Own(s, msgs)))
          /\ \A t \in Networks : t # s => delivered'[t] = delivered[t]
      BY <2>0, <2>1, DeliveredGrows
    <2>3. \A t \in Networks : \A m \in Range(delivered'[t]) : m.nonce = 0 /\ m.to = t
      BY <2>1, <2>2 DEF Histories
    <2>4. QED
      BY <2>1, <2>2, <2>3 DEF Histories
  <1>3. ASSUME UNCHANGED <<sent, delivered>> PROVE Histories'
    BY <1>3 DEF Histories
  <1>4. ASSUME NEW c \in NonRoot, NEW n, TakesNext(c, n) PROVE Histories'
    BY <1>2, <1>4, NextMessages
  <1>5. ASSUME NEW c \in NonRoot, CommitChildCheck(c) PROVE Histories'
    <2> DEFINE p == Parent(c)
               k == subnets[c].prev_epoch + CheckPeriod
               ch == CheckpointAt(c, k)
    <2>1. p \in Networks /\ ch \in Checkpoint /\ Apply(p, ch.msgs, ch.fee)
      BY <1>5, ChildCheckIs
    <2>2. ch.msgs \in Seq(Message)
      BY <2>1 DEF Checkpoint
    <2> HIDE DEF p, k, ch
    <2>3. QED
      BY <1>2, <2>1, <2>2
  <1>6. QED
    BY <1>1, <1>3, <1>4, <1>5, StepKinds
       DEF PassesOn, WhitelistAny, WhitelistPropagator, Tick, SetMembership, Kill, vars

\* and keeps the messages of a gateway out of its own postbox.
LEMMA NextAbroad ==
  ASSUME TypeInv, RouteInv, Abroad, [Next]_vars
  PROVE  Abroad'
  <1> SUFFICES ASSUME FundsToChildren
               PROVE  \A s \in Networks : \A i \in postbox'[s] : i.msg.from # s
    BY DEF Abroad, FundsToChildren, Children
  <1>1. \A s \in Networks : \A i \in postbox[s] : i.msg.from # s
    BY DEF Abroad
  <1>2. ASSUME NEW s \in Networks, NEW msgs, NEW fee, Apply(s, msgs, fee),
               \A m \in Range(msgs) : m.from # s
        PROVE  \A t \in Networks : \A i \in postbox'[t] : i.msg.from # t
    <2>1. postbox' = [postbox EXCEPT ![s] = @ \union InTransit(s, msgs)]
      BY <1>2 DEF Apply
    <2>2. \A i \in InTransit(s, msgs) : i.msg \in Range(msgs)
      BY DEF InTransit, PostBoxItem
    <2>3. postbox \in [Networks -> SUBSET Item]
      BY DEF TypeInv, PostboxTyped
    <2>4. \A t \in Networks : \A i \in postbox'[t] :
            i \in postbox[t] \/ (t = s /\ i \in InTransit(s, msgs))
      BY <2>1, <2>3
    <2>5. QED
      BY <1>1, <1>2, <2>2, <2>4
  <1>3. ASSUME NEW c \in NonRoot, NEW n, TakesNext(c, n)
        PROVE  \A t \in Networks : \A i \in postbox'[t] : i.msg.from # t
    <2>1. /\ \A m \in Range(NextMsgs(c, n)) : m \in Message /\ Descending(c, m)
          /\ Apply(c, NextMsgs(c, n), 0) /\ c \in Networks
      BY <1>3, NextMessages
    <2>2. \A m \in Range(NextMsgs(c, n)) : m.from # c
      BY <2>1, DescendingFrom
    <2>3. QED
      BY <1>2, <2>1, <2>2
  <1>4. ASSUME NEW c \in NonRoot, CommitChildCheck(c)
        PROVE  \A t \in Networks : \A i \in postbox'[t] : i.msg.from # t
    <2> DEFINE p == Parent(c)
               k == subnets[c].prev_epoch + CheckPeriod
               ch == CheckpointAt(c, k)
    <2>1. p \in Networks /\ Apply(p, ch.msgs, ch.fee)
      BY <1>4, ChildCheckIs
    <2>2. \A m \in Range(ch.msgs) : m.from # p
      BY ChildMessages, ClimbingFrom
    <2> HIDE DEF p, k, ch
    <2>3. QED
      BY <1>2, <2>1, <2>2
  <1>5. ASSUME NEW s \in Networks, WhitelistAny(s)
        PROVE  \A t \in Networks : \A i \in postbox'[t] : i.msg.from # t
    <2>1. PICK i \in postbox[s], o \in Accounts, added \in Accounts :
            WhitelistPropagator(s, i, o, added)
      BY <1>5 DEF WhitelistAny
    <2> DEFINE new == PostBoxItem(i.msg, i.owners \union {added})
    <2>2. new.msg = i.msg
      BY DEF PostBoxItem
    <2>3. /\ postbox'[s] \subseteq postbox[s] \union {new}
          /\ \A t \in Networks : t # s => postbox'[t] = postbox[t]
      BY <2>1 DEF WhitelistPropagator, SwapPostboxItem, TypeInv, PostboxTyped
    <2> HIDE DEF new
    <2>4. QED
      BY <1>1, <2>2, <2>3
  <1>6. ASSUME NEW s \in Networks, NEW i \in postbox[s], PassesOn(s, i)
        PROVE  \A t \in Networks : \A j \in postbox'[t] : j.msg.from # t
    <2>1. \A t \in Networks : postbox'[t] \subseteq postbox[t]
      BY <1>6 DEF PassesOn, TypeInv, PostboxTyped
    <2>2. QED
      BY <1>1, <2>1
  <1>7. CASE UNCHANGED postbox
    BY <1>1, <1>7
  <1>8. QED
    BY <1>3, <1>4, <1>5, <1>6, <1>7, StepKinds
       DEF SendsOne, Tick, SetMembership, Kill, vars

\* Both hold in every behaviour.
LEMMA HistoriesHold == Spec => [](Histories /\ Abroad)
  <1>1. Init => Histories /\ Abroad
    <2> SUFFICES ASSUME Init PROVE Histories /\ Abroad
      OBVIOUS
    <2>1. sent = [s \in Networks |-> <<>>] /\ delivered = [s \in Networks |-> <<>>]
          /\ postbox = [s \in Networks |-> {}]
      BY DEF Init
    <2>2. Range(<<>>) = {} /\ <<>> \in Seq(Message)
      BY EmptySeq DEF Range
    <2>3. QED
      BY <2>1, <2>2 DEF Histories, Abroad
  <1>2. QED
    BY <1>1, NextHistories, NextAbroad, RouteInvHolds, PTL DEF Spec

\* Where fund is called for children only, a message names the chain it was sent from.
THEOREM OriginsAreHonest == FundsToChildren => (Spec => []OriginHonest)
  <1> SUFFICES ASSUME FundsToChildren PROVE Spec => []OriginHonest
    OBVIOUS
  <1>1. Histories => OriginHonest
    BY DEF Histories, OriginHonest
  <1>2. QED
    BY <1>1, HistoriesHold, PTL

\* An executed checkpoint appends what it has for the network, and nothing else changes
\* in the histories.
LEMMA ApplyHistory ==
  ASSUME Histories, NEW s \in Networks, NEW msgs \in Seq(Message), NEW fee,
         Apply(s, msgs, fee)
  PROVE  /\ delivered'[s] = delivered[s] \o Contents(Own(s, msgs))
         /\ \A t \in Networks : t # s => delivered'[t] = delivered[t]
         /\ UNCHANGED sent
  <1>1. Contents(Own(s, msgs)) \in Seq(Message) /\ UNCHANGED sent
    BY ApplyDelivers
  <1>2. delivered' = [delivered EXCEPT ![s] = @ \o Contents(Own(s, msgs))]
    BY DEF Apply, Contents
  <1>3. QED
    BY <1>1, <1>2, DeliveredGrows

-----------------------------------------------------------------------------
(* Order on the way down to a child. *)

Between(a, b) == {m \in Message : m.from = a /\ m.to = b}

\* The messages of a queue from the d-th on.
LineOf(q, d, n) == [i \in 1..n - d |-> q[d + i - 1]]

\* The messages of the queue of c that no checkpoint has carried yet.
Line(c) == LineOf(subnets[c].top_down_msgs, carried[c], subnets[c].topdown_nonce)

\* What the parent of c sends to c has arrived or waits in the queue, in order.
DownOrder(c) ==
  \E rest \in Seq(Message) :
    /\ Only(sent[Parent(c)], Between(Parent(c), c))
         = Only(delivered[c], Between(Parent(c), c)) \o rest
    /\ Registered(c) => rest = Only(Contents(Line(c)), Between(Parent(c), c))

\* The line of a queue is a sequence of messages.
LEMMA LineTyped ==
  ASSUME NEW q, NEW n, IsQueue(q, n), NEW d \in Nat, d <= n,
         NEW line, line = LineOf(q, d, n)
  PROVE  /\ line \in Seq(Message) /\ Len(line) = n - d /\ n \in Nat
         /\ \A i \in 1..n - d : line[i] = q[d + i - 1]
  <1>1. n \in Nat /\ DOMAIN q = 0..n - 1 /\ \A k \in DOMAIN q : q[k] \in Message
    BY DEF IsQueue
  <1>2. n - d \in Nat /\ \A i \in 1..n - d : d + i - 1 \in 0..n - 1
    BY <1>1
  <1>3. \A i \in 1..n - d : q[d + i - 1] \in Message
    BY <1>1, <1>2
  <1>4. line = [i \in 1..n - d |-> q[d + i - 1]]
    BY DEF LineOf
  <1>5. line \in [1..n - d -> Message] /\ \A i \in 1..n - d : line[i] = q[d + i - 1]
    BY <1>3, <1>4
  <1> DEFINE L == n - d
  <1>6. L \in Nat /\ line \in [1..L -> Message]
    BY <1>2, <1>5
  <1> HIDE DEF L
  <1>7. line \in Seq(Message) /\ Len(line) = L
    BY <1>6
  <1>8. QED
    BY <1>1, <1>5, <1>7 DEF L

\* A message that is put last comes after the line.
LEMMA LineGrows ==
  ASSUME NEW q, NEW n, IsQueue(q, n), NEW x \in Message, x.nonce = n,
         NEW r, PutLast(q, n, x, r), NEW d \in Nat, d <= n
  PROVE  IsQueue(r, n + 1) /\ LineOf(r, d, n + 1) = Append(LineOf(q, d, n), x)
  <1>1. /\ n \in Nat /\ DOMAIN q = 0..n - 1
        /\ \A k \in DOMAIN q : q[k] \in Message /\ q[k].nonce = k
    BY DEF IsQueue
  <1>2. DOMAIN r = 0..n - 1 \union {n} /\ r[n] = x /\ \A k \in 0..n - 1 : r[k] = q[k]
    BY <1>1 DEF PutLast
  <1>3. DOMAIN r = 0..(n + 1) - 1
    BY <1>1, <1>2
  <1>4. \A k \in DOMAIN r : r[k] \in Message /\ r[k].nonce = k
    BY <1>1, <1>2
  <1>5. IsQueue(r, n + 1)
    BY <1>1, <1>3, <1>4 DEF IsQueue
  <1> DEFINE line == LineOf(q, d, n)
             next == LineOf(r, d, n + 1)
             app == Append(line, x)
  <1>6. /\ line \in Seq(Message) /\ Len(line) = n - d
        /\ \A i \in 1..n - d : line[i] = q[d + i - 1]
    BY LineTyped
  <1>7. /\ next \in Seq(Message) /\ Len(next) = (n + 1) - d
        /\ \A i \in 1..(n + 1) - d : next[i] = r[d + i - 1]
    <2>1. d <= n + 1
      BY <1>1
    <2>2. QED
      BY <1>5, <2>1, LineTyped
  <1> HIDE DEF line, next
  <1>8. /\ app \in Seq(Message) /\ Len(app) = Len(line) + 1 /\ app[Len(line) + 1] = x
        /\ \A i \in 1..Len(line) : app[i] = line[i]
    BY <1>6, AppendProperties
  <1> HIDE DEF app
  <1>9. ASSUME NEW i \in 1..Len(next) PROVE next[i] = app[i]
    <2>1. CASE i <= n - d
      <3>1. i \in 1..n - d /\ d + i - 1 \in 0..n - 1 /\ i \in 1..(n + 1) - d
        BY <1>1, <1>7, <2>1
      <3>2. r[d + i - 1] = q[d + i - 1] /\ app[i] = line[i]
        BY <1>2, <1>6, <1>8, <3>1
      <3>3. QED
        BY <1>6, <1>7, <3>1, <3>2
    <2>2. CASE ~(i <= n - d)
      <3>1. i = n - d + 1 /\ i \in 1..(n + 1) - d /\ d + i - 1 = n
        BY <1>1, <1>7, <2>2
      <3>2. next[i] = r[n]
        BY <1>7, <3>1
      <3>3. QED
        BY <1>2, <1>6, <1>8, <3>1, <3>2
    <2>3. QED
      BY <2>1, <2>2
  <1>10. Len(next) = Len(app)
    BY <1>1, <1>6, <1>7, <1>8
  <1>11. next = app
    BY <1>7, <1>8, <1>9, <1>10, SeqEqual
  <1>12. QED
    BY <1>5, <1>11 DEF next, app, line

\* A checkpoint takes the front of the line.
LEMMA LineTaken ==
  ASSUME NEW q, NEW top, IsQueue(q, top), NEW d \in Nat, NEW n \in Nat, d + n <= top,
         NEW msgs, msgs = [i \in 1..n |-> q[d + i - 1]]
  PROVE  LineOf(q, d, top) = msgs \o LineOf(q, d + n, top)
  <1> DEFINE line == LineOf(q, d, top)
             next == LineOf(q, d + n, top)
             cat == msgs \o next
  <1>1. /\ line \in Seq(Message) /\ Len(line) = top - d /\ top \in Nat
        /\ \A i \in 1..top - d : line[i] = q[d + i - 1]
    <2>1. top \in Nat
      BY DEF IsQueue
    <2>2. d <= top
      BY <2>1
    <2>3. QED
      BY <2>1, <2>2, LineTyped
  <1>2. /\ next \in Seq(Message) /\ Len(next) = top - (d + n)
        /\ \A i \in 1..top - (d + n) : next[i] = q[d + n + i - 1]
    BY LineTyped
  <1>3. /\ msgs \in Seq(Message) /\ Len(msgs) = n
        /\ \A i \in 1..n : msgs[i] = q[d + i - 1]
    <2>1. \A i \in 1..n : i \in 1..top - d
      BY <1>1
    <2>2. \A i \in 1..n : q[d + i - 1] = line[i]
      BY <1>1, <2>1
    <2>3. \A i \in 1..n : line[i] \in Message
      BY <1>1, <2>1
    <2>4. msgs \in [1..n -> Message]
      BY <2>2, <2>3
    <2>5. msgs \in Seq(Message) /\ Len(msgs) = n
      <3>1. \A f \in [1..n -> Message] : f \in Seq(Message) /\ Len(f) = n
        OBVIOUS
      <3>2. QED
        BY <2>4, <3>1
    <2>6. QED
      BY <2>5
  <1> HIDE DEF line, next
  <1>4. /\ cat \in Seq(Message) /\ Len(cat) = Len(msgs) + Len(next)
        /\ \A i \in 1..Len(msgs) + Len(next) :
             cat[i] = IF i <= Len(msgs) THEN msgs[i] ELSE next[i - Len(msgs)]
    BY <1>2, <1>3, ConcatProperties
  <1> HIDE DEF cat
  <1>5. Len(line) = Len(cat)
    BY <1>1, <1>2, <1>3, <1>4
  <1>6. ASSUME NEW i \in 1..Len(line) PROVE line[i] = cat[i]
    <2>0. i \in 1..top - d /\ i \in 1..Len(msgs) + Len(next) /\ Len(msgs) = n
      BY <1>1, <1>2, <1>3, <1>4, <1>5
    <2>1. CASE i <= n
      <3>1. i \in 1..n
        BY <2>0, <2>1
      <3>2. cat[i] = msgs[i]
        BY <1>4, <2>0, <2>1
      <3>3. QED
        BY <1>1, <1>3, <2>0, <3>1, <3>2
    <2>2. CASE ~(i <= n)
      <3>1. i - n \in 1..top - (d + n) /\ d + n + (i - n) - 1 = d + i - 1
        BY <1>1, <2>0, <2>2
      <3>2. cat[i] = next[i - n]
        BY <1>4, <2>0, <2>2
      <3>3. next[i - n] = q[d + i - 1]
        BY <1>2, <3>1
      <3>4. QED
        BY <1>1, <2>0, <3>2, <3>3
    <2>3. QED
      BY <2>1, <2>2
  <1>7. line = cat
    BY <1>1, <1>4, <1>5, <1>6, SeqEqual
  <1>8. QED
    BY <1>7 DEF line, next, cat

\* The queue and the line of a registered child.
LEMMA QueueLine ==
  ASSUME SubnetsTyped, QueueNumbered, NEW c \in NonRoot, Registered(c)
  PROVE  /\ IsQueue(subnets[c].top_down_msgs, subnets[c].topdown_nonce)
         /\ carried[c] \in Nat /\ carried[c] <= subnets[c].topdown_nonce
         /\ Line(c) \in Seq(Message)
  <1>1. /\ IsQueue(subnets[c].top_down_msgs, subnets[c].topdown_nonce)
        /\ carried[c] \in Nat /\ carried[c] <= subnets[c].topdown_nonce
    BY QueueIs
  <1>2. QED
    BY <1>1, LineTyped DEF Line

\* What a message does to the lines when it is queued.
LEMMA PushedDown ==
  ASSUME SubnetsTyped, QueueNumbered, NEW s \in Networks, NEW m \in Message,
         CommitTopdownMsg(s, m), UNCHANGED carried, NEW c, c = Down(m.to, s)
  PROVE  /\ c \in NonRoot /\ Parent(c) = s /\ Registered(c) /\ Registered(c)'
         /\ Contents(Line(c)') = Append(Contents(Line(c)), Content(m))
         /\ \A d \in NonRoot : d # c => subnets'[d] = subnets[d]
  <1> DEFINE n == subnets[c].topdown_nonce
             x == Placed(m, n)
             q == subnets[c].top_down_msgs
             r == subnets'[c].top_down_msgs
  <1>1. /\ c \in NonRoot /\ c \in Children(s) /\ Registered(c)
        /\ \A e \in NonRoot : e # c => subnets'[e] = subnets[e]
    BY CommitTopdownIs
  <1>2. /\ Registered(c)' /\ IsQueue(q, n) /\ x \in Message /\ x.nonce = n /\ PutLast(q, n, x, r)
    <2>1. \A i, y : i = n /\ y = Placed(m, i) =>
            /\ Registered(c)' /\ IsQueue(q, i) /\ y \in Message /\ y.nonce = i
            /\ PutLast(q, i, y, r)
      BY QueueWrites
    <2>2. QED
      BY <2>1
  <1>3. subnets'[c].topdown_nonce = n + 1
    <2>1. subnets[c] \in Subnet
      BY <1>1 DEF SubnetsTyped, Registered, NotRegistered
    <2>2. QED
      BY <1>1, <2>1 DEF CommitTopdownMsg, SubnetsTyped, Subnet
  <1>4. carried[c] \in Nat /\ carried[c] <= n /\ Line(c) \in Seq(Message)
    BY <1>1, QueueLine
  <1>5. LineOf(r, carried[c], n + 1) = Append(LineOf(q, carried[c], n), x)
    <2> HIDE DEF q, r, n, x
    <2>1. QED
      BY <1>2, <1>4, LineGrows
  <1>6. Line(c)' = Append(Line(c), x)
    <2>1. Line(c)' = LineOf(r, carried[c], n + 1)
      BY <1>3 DEF Line
    <2>2. Line(c) = LineOf(q, carried[c], n)
      BY DEF Line
    <2>3. QED
      BY <1>5, <2>1, <2>2
  <1>7. n \in Nat
    BY <1>2 DEF IsQueue
  <1> HIDE DEF x, n
  <1>8. Contents(Append(Line(c), x)) = Append(Contents(Line(c)), Content(x))
    BY <1>2, <1>4, ContentsAppend
  <1>9. Content(x) = Content(m)
    BY <1>7, ContentFields DEF x
  <1>10. QED
    BY <1>1, <1>2, <1>6, <1>8, <1>9 DEF Children

\* Steps that leave the line and the histories alone keep the order.
LEMMA DownKept ==
  ASSUME NEW c \in NonRoot, DownOrder(c),
         Only(sent'[Parent(c)], Between(Parent(c), c))
           = Only(sent[Parent(c)], Between(Parent(c), c)),
         Only(delivered'[c], Between(Parent(c), c)) = Only(delivered[c], Between(Parent(c), c)),
         Registered(c)' =>
           /\ Registered(c)
           /\ Only(Contents(Line(c)'), Between(Parent(c), c))
                = Only(Contents(Line(c)), Between(Parent(c), c))
  PROVE  DownOrder(c)'
  <1>1. PICK rest \in Seq(Message) :
          /\ Only(sent[Parent(c)], Between(Parent(c), c))
               = Only(delivered[c], Between(Parent(c), c)) \o rest
          /\ Registered(c) => rest = Only(Contents(Line(c)), Between(Parent(c), c))
    BY DEF DownOrder
  <1>2. /\ Only(sent'[Parent(c)], Between(Parent(c), c))
             = Only(delivered'[c], Between(Parent(c), c)) \o rest
        /\ Registered(c)' => rest = Only(Contents(Line(c)'), Between(Parent(c), c))
    BY <1>1
  <1>3. QED
    BY <1>2 DEF DownOrder

\* A message that is sent, and one that is passed on.
SentOrPassed(s, m) ==
  \/ sent' = [sent EXCEPT ![s] = Append(@, m)] /\ m.nonce = 0 /\ m.from = s
  \/ UNCHANGED sent /\ m.from # s

\* What the history of p selects, when a message is sent or passed on.
LEMMA SentSelection ==
  ASSUME Histories, NEW s \in Networks, NEW m \in Message, SentOrPassed(s, m),
         NEW p \in Networks, NEW c
  PROVE  Only(sent'[p], Between(p, c))
           = IF s = p /\ m.from = p /\ m.to = c THEN Append(Only(sent[p], Between(p, c)), m)
             ELSE Only(sent[p], Between(p, c))
  <1>1. CASE sent' = [sent EXCEPT ![s] = Append(@, m)] /\ m.from = s
    <2>1. sent'[s] = Append(sent[s], m) /\ \A t \in Networks : t # s => sent'[t] = sent[t]
      BY <1>1, SentGrows
    <2>2. sent[s] \in Seq(Message)
      BY DEF Histories
    <2>3. Only(Append(sent[s], m), Between(p, c))
            = IF m \in Between(p, c) THEN Append(Only(sent[s], Between(p, c)), m)
              ELSE Only(sent[s], Between(p, c))
      BY <2>2, OnlyAppend
    <2>4. m \in Between(p, c) <=> m.from = p /\ m.to = c
      BY DEF Between
    <2>5. QED
      BY <1>1, <2>1, <2>3, <2>4
  <1>2. CASE UNCHANGED sent /\ m.from # s
    BY <1>2
  <1>3. QED
    BY <1>1, <1>2 DEF SentOrPassed

\* A message that is pushed keeps the order downwards,
LEMMA PushDownOrder ==
  ASSUME TypeInv, QueueNumbered, Histories, NEW s \in Networks, NEW m \in Message,
         Pushed(s, m), SentOrPassed(s, m), UNCHANGED <<carried, delivered>>,
         NEW c \in NonRoot, DownOrder(c)
  PROVE  DownOrder(c)'
  <1> DEFINE p == Parent(c)
             S == Between(p, c)
             y == Content(m)
  <1>1. p \in Networks /\ SubnetsTyped
    BY NetworksAreIDs DEF TypeInv
  <1>2. y \in Message /\ (y \in S <=> m.from = p /\ m.to = c)
    BY ContentFields DEF Between
  <1>3. CASE s = p /\ m.from = p /\ m.to = c
    <2>1. CommitTopdownMsg(p, m) /\ Down(m.to, p) = c
      BY <1>3, PushedApart DEF Pushed
    <2>2. /\ Registered(c) /\ Registered(c)' /\ Line(c) \in Seq(Message)
          /\ Contents(Line(c)') = Append(Contents(Line(c)), y)
      BY <1>1, <2>1, PushedDown, QueueLine
    <2>3. Only(sent'[p], S) = Append(Only(sent[p], S), m)
      BY <1>1, <1>3, SentSelection
    <2>4. y = m
      BY <1>3, ContentFields DEF SentOrPassed
    <2>5. Only(Append(Contents(Line(c)), y), S) = Append(Only(Contents(Line(c)), S), y)
      BY <1>2, <1>3, <2>2, ContentsType, OnlyAppend
    <2>6. PICK rest \in Seq(Message) : /\ Only(sent[p], S) = Only(delivered[c], S) \o rest
                                       /\ rest = Only(Contents(Line(c)), S)
      BY <2>2 DEF DownOrder
    <2>7. Only(delivered[c], S) \in Seq(Message)
      <3>1. delivered[c] \in Seq(Message)
        BY NetworksAreIDs DEF Histories
      <3>2. QED
        BY <3>1, OnlyType
    <2>8. /\ Append(rest, m) \in Seq(Message)
          /\ Only(delivered[c], S) \o Append(rest, m) = Append(Only(delivered[c], S) \o rest, m)
      BY <2>7, ConcatAppend, AppendProperties
    <2>9. /\ Only(sent'[p], S) = Only(delivered'[c], S) \o Append(rest, m)
          /\ Append(rest, m) = Only(Contents(Line(c)'), S)
      BY <2>2, <2>3, <2>4, <2>5, <2>6, <2>8
    <2> HIDE DEF p, S, y
    <2>10. QED
      BY <2>8, <2>9 DEF DownOrder, p, S
  <1>4. CASE ~(s = p /\ m.from = p /\ m.to = c)
    <2>1. Only(sent'[p], S) = Only(sent[p], S)
      BY <1>1, <1>4, SentSelection
    <2>2. Registered(c)' =>
             Registered(c) /\ Only(Contents(Line(c)'), S) = Only(Contents(Line(c)), S)
      <3>1. CASE subnets' = subnets
        BY <3>1 DEF Line, Registered
      <3>2. CASE CommitTopdownMsg(s, m) /\ Down(m.to, s) # c
        <4>1. subnets'[c] = subnets[c]
          BY <1>1, <3>2, PushedDown
        <4>2. QED
          BY <4>1 DEF Line, Registered
      <3>3. CASE CommitTopdownMsg(s, m) /\ Down(m.to, s) = c
        <4>1. /\ Registered(c) /\ s = p
              /\ Contents(Line(c)') = Append(Contents(Line(c)), y)
          BY <1>1, <3>3, PushedDown
        <4>2. Contents(Line(c)) \in Seq(Message)
          BY <1>1, <4>1, QueueLine, ContentsType
        <4>3. y \notin S
          BY <1>2, <1>4, <4>1
        <4>4. Only(Append(Contents(Line(c)), y), S) = Only(Contents(Line(c)), S)
          BY <1>2, <4>2, <4>3, OnlyAppend
        <4>5. QED
          BY <4>1, <4>4
      <3>4. QED
        BY <3>1, <3>2, <3>3 DEF Pushed
    <2> HIDE DEF p, S
    <2>3. QED
      BY <2>1, <2>2, DownKept DEF p, S
  <1>5. QED
    BY <1>3, <1>4

\* What the messages of a checkpoint add to what has arrived at s from a.
LEMMA DeliveredSelection ==
  ASSUME Histories, NEW s \in Networks, NEW msgs \in Seq(Message), NEW fee,
         Apply(s, msgs, fee), NEW a
  PROVE  /\ Only(delivered'[s], Between(a, s))
              = Only(delivered[s], Between(a, s)) \o Only(Contents(msgs), Between(a, s))
         /\ Only(delivered[s], Between(a, s)) \in Seq(Message)
         /\ Only(Contents(msgs), Between(a, s)) \in Seq(Message)
         /\ (\A x \in Range(msgs) : x.to = s => x.from # a) =>
               Only(delivered'[s], Between(a, s)) = Only(delivered[s], Between(a, s))
  <1> DEFINE S == Between(a, s)
             T == {x \in Range(msgs) : x.to = s}
             own == Contents(Own(s, msgs))
  <1>1. /\ delivered'[s] = delivered[s] \o own
        /\ own \in Seq(Message) /\ delivered[s] \in Seq(Message)
        /\ Contents(msgs) \in Seq(Message)
    BY ApplyHistory, ApplyDelivers, ContentsType DEF Histories
  <1>2. Only(delivered'[s], S) = Only(delivered[s], S) \o Only(own, S)
    <2> DEFINE old == delivered[s]
    <2>0. old \in Seq(Message) /\ own \in Seq(Message)
      BY <1>1
    <2> HIDE DEF own, S, old
    <2>1. Only(old \o own, S) = Only(old, S) \o Only(own, S)
      BY <2>0, OnlyConcat
    <2>2. QED
      BY <1>1, <2>1 DEF old
  <1>3. \A x \in Range(msgs) : x \in Message /\ Content(x).to = x.to /\ Content(x).from = x.from
    BY ContentFields DEF Range
  <1>4. \A x \in Range(msgs) : Content(x) \in S => x \in T
    BY <1>3 DEF Between
  <1>5. Only(own, S) = Only(Contents(msgs), S)
    BY <1>4, OnlyContents DEF Own
  <1>6. Only(delivered[s], S) \in Seq(Message) /\ Only(Contents(msgs), S) \in Seq(Message)
    BY <1>1, OnlyType
  <1>7. ASSUME \A x \in Range(msgs) : x.to = s => x.from # a
        PROVE  Only(delivered'[s], S) = Only(delivered[s], S)
    <2>1. \A y \in Range(Contents(msgs)) : y \notin S
      BY <1>3, <1>7 DEF Contents, Range, Between
    <2>2. Only(Contents(msgs), S) = <<>>
      BY <1>1, <2>1, OnlyNone
    <2>3. QED
      BY <1>2, <1>5, <1>6, <2>2, ConcatEmptySeq
  <1> HIDE DEF S
  <1>8. QED
    BY <1>2, <1>5, <1>6, <1>7 DEF S

\* so does a top-down checkpoint, which takes the front of a line,
LEMMA TakenDownOrder ==
  ASSUME TypeInv, RouteInv, QueueNumbered, Histories, NEW e \in NonRoot, NEW n,
         TakesNext(e, n), NEW c \in NonRoot, DownOrder(c)
  PROVE  DownOrder(c)'
  <1> DEFINE p == Parent(c)
             S == Between(p, c)
             msgs == NextMsgs(e, n)
  <1>1. /\ msgs \in Seq(Message) /\ carried[e] + n <= subnets[e].topdown_nonce
        /\ n \in Nat /\ e \in Networks /\ Apply(e, msgs, 0)
        /\ carried' = [carried EXCEPT ![e] = @ + n] /\ UNCHANGED subnets
    BY NextMessages
  <1>2. sent' = sent /\ \A t \in Networks : t # e => delivered'[t] = delivered[t]
    BY <1>1, ApplyHistory
  <1>3. CASE c # e
    <2>1. delivered'[c] = delivered[c] /\ Line(c)' = Line(c)
      <3>1. carried'[c] = carried[c]
        BY <1>1, <1>3 DEF TypeInv, SubnetsTyped
      <3>2. QED
        BY <1>1, <1>2, <1>3, <3>1, NetworksAreIDs DEF Line
    <2>2. QED
      BY <1>1, <1>2, <2>1, DownKept DEF Registered
  <1>4. CASE c = e
    <2> DEFINE q == subnets[c].top_down_msgs
               d == carried[c]
               top == subnets[c].topdown_nonce
               next == LineOf(q, d + n, top)
    <2>1. Registered(c)
      BY <1>4 DEF TakesNext
    <2>2. IsQueue(q, top) /\ d \in Nat /\ top \in Nat /\ Line(c) = LineOf(q, d, top)
      BY <2>1, QueueLine DEF TypeInv, Line, IsQueue
    <2>3. Line(c)' = next
      BY <1>1, <1>4 DEF Line, TypeInv, SubnetsTyped
    <2>4. LineOf(q, d, top) = msgs \o next /\ next \in Seq(Message)
      <3>1. msgs = [i \in 1..n |-> q[d + i - 1]]
        BY <1>4 DEF NextMsgs
      <3> HIDE DEF q, top, d, msgs
      <3>2. d + n <= top /\ d + n \in Nat
        BY <1>1, <1>4, <2>2 DEF d, top
      <3>3. LineOf(q, d, top) = msgs \o LineOf(q, d + n, top)
        <4>1. n \in Nat /\ d \in Nat /\ IsQueue(q, top)
          BY <1>1, <2>2
        <4>2. QED
          BY <3>1, <3>2, <4>1, LineTaken
      <3>4. LineOf(q, d + n, top) \in Seq(Message)
        BY <2>2, <3>2, LineTyped
      <3>5. QED
        BY <3>3, <3>4
    <2> HIDE DEF next
    <2>5. Only(Contents(Line(c)), S) = Only(Contents(msgs), S) \o Only(Contents(next), S)
      <3>1. Contents(Line(c)) = Contents(msgs) \o Contents(next)
        BY <1>1, <2>2, <2>4, ContentsConcat
      <3>2. Contents(msgs) \in Seq(Message) /\ Contents(next) \in Seq(Message)
        BY <1>1, <2>4, ContentsType
      <3> HIDE DEF S, msgs
      <3>3. Only(Contents(msgs) \o Contents(next), S)
              = Only(Contents(msgs), S) \o Only(Contents(next), S)
        BY <3>2, OnlyConcat
      <3>4. QED
        BY <3>1, <3>3
    <2> HIDE DEF msgs
    <2>6. /\ Only(delivered'[c], S) = Only(delivered[c], S) \o Only(Contents(msgs), S)
          /\ Only(delivered[c], S) \in Seq(Message) /\ Only(Contents(msgs), S) \in Seq(Message)
      BY <1>1, <1>4, DeliveredSelection
    <2>7. Only(Contents(next), S) \in Seq(Message)
      BY <2>4, ContentsType, OnlyType
    <2>8. Only(sent[p], S) = Only(delivered[c], S) \o Only(Contents(Line(c)), S)
      BY <2>1 DEF DownOrder
    <2>9. Only(sent'[p], S) = Only(delivered'[c], S) \o Only(Contents(next), S)
      <3> DEFINE a == Only(delivered[c], S)
                 b == Only(Contents(msgs), S)
                 z == Only(Contents(next), S)
      <3> HIDE DEF a, b, z
      <3>1. (a \o b) \o z = a \o (b \o z)
        BY <2>6, <2>7, ConcatAssociative DEF a, b, z
      <3>2. QED
        BY <1>2, <2>5, <2>6, <2>8, <3>1 DEF a, b, z
    <2> HIDE DEF p, S
    <2>10. Only(Contents(Line(c)'), S) = Only(Contents(next), S)
      BY <2>3
    <2>11. QED
      BY <2>7, <2>9, <2>10 DEF DownOrder, p, S
  <1>5. QED
    BY <1>3, <1>4

\* and the checkpoint of a child, which brings nothing from above.
LEMMA ChildDownOrder ==
  ASSUME TypeInv, RouteInv, Histories, NEW e \in NonRoot, CommitChildCheck(e),
         NEW c \in NonRoot, DownOrder(c)
  PROVE  DownOrder(c)'
  <1> DEFINE s == Parent(e)
             k == subnets[e].prev_epoch + CheckPeriod
             ch == CheckpointAt(e, k)
  <1>1. /\ s \in Networks /\ ch \in Checkpoint /\ Apply(s, ch.msgs, ch.fee) /\ UNCHANGED carried
    BY ChildCheckIs
  <1>2. ch.msgs \in Seq(Message)
    BY <1>1 DEF Checkpoint
  <1>3. /\ Registered(e) /\ subnets'[e].registered
        /\ subnets'[e].top_down_msgs = subnets[e].top_down_msgs
        /\ \A d \in NonRoot : d # e => subnets'[d] = subnets[d]
    BY ChildCheckWrites
  <1>4. subnets'[e].topdown_nonce = subnets[e].topdown_nonce
    <2>1. subnets[e] \in Subnet
      BY <1>3 DEF TypeInv, SubnetsTyped, Registered, NotRegistered
    <2>2. QED
      BY <2>1 DEF CommitChildCheck, TypeInv, SubnetsTyped, Subnet
  <1>5. (Registered(c)' => Registered(c)) /\ Line(c)' = Line(c)
    BY <1>1, <1>3, <1>4 DEF Line, Registered
  <1>6. UNCHANGED sent /\ \A t \in Networks : t # s => delivered'[t] = delivered[t]
    BY <1>1, <1>2, ApplyHistory
  <1>7. \A x \in Range(ch.msgs) : x \in Message /\ Climbing(e, x)
    BY ChildMessages
  <1> HIDE DEF s, k, ch
  <1>8. Only(delivered'[c], Between(Parent(c), c)) = Only(delivered[c], Between(Parent(c), c))
    <2>1. CASE c # s
      BY <1>6, <2>1, NetworksAreIDs
    <2>2. CASE c = s
      <3>1. \A x \in Range(ch.msgs) : x.from # Parent(c)
        <4>1. ASSUME NEW x \in Range(ch.msgs), x.from = Parent(c) PROVE FALSE
          <5>1. Above(e, x.from) /\ x.from \in ID
            BY <1>7, <4>1, ClimbingFrom DEF Message
          <5>2. Depth(e) <= Depth(Parent(c))
            BY <4>1, <5>1, ParentIsNear, AboveIs DEF ID
          <5>3. Depth(Parent(c)) = Depth(c) - 1 /\ Depth(c) = Depth(e) - 1
                /\ Depth(c) \in Nat /\ Depth(e) \in Nat
            BY <2>2, ParentIsNear DEF s
          <5>4. QED
            BY <5>2, <5>3
        <4>2. QED
          BY <4>1
      <3>2. QED
        BY <1>1, <1>2, <2>2, <3>1, DeliveredSelection
    <2>3. QED
      BY <2>1, <2>2
  <1>9. QED
    BY <1>5, <1>6, <1>8, DownKept

\* Other steps leave the messages alone, or forget a subnet with its queue.
LEMMA QuietStep ==
  ASSUME TypeInv,
         \/ \E s \in Networks : WhitelistAny(s) \/ Tick(s)
         \/ \E c \in NonRoot : SetMembership(c)
         \/ \E c \in Killable : Kill(c)
         \/ UNCHANGED vars
  PROVE  /\ UNCHANGED <<bottomUp, carried, sent, delivered>>
         /\ \A c \in NonRoot : Registered(c)' => Registered(c) /\ subnets'[c] = subnets[c]
  <1>1. ASSUME NEW e \in Killable, Kill(e)
        PROVE  /\ UNCHANGED <<bottomUp, carried, sent, delivered>>
               /\ \A c \in NonRoot : Registered(c)' => Registered(c) /\ subnets'[c] = subnets[c]
    BY <1>1 DEF Kill, TypeInv, SubnetsTyped, NotRegistered, Registered
  <1>2. CASE UNCHANGED <<bottomUp, subnets, carried, sent, delivered>>
    BY <1>2 DEF Registered
  <1>3. QED
    BY <1>1, <1>2 DEF WhitelistAny, WhitelistPropagator, Tick, SetMembership, vars

\* A message that is sent is new in a history, and one that is passed on is not.
LEMMA StepSendsOrPasses ==
  ASSUME FundsToChildren, Abroad, NEW s \in Networks
  PROVE  /\ \A m \in Message : SendsOne(s, m) =>
              /\ Pushed(s, m) /\ SentOrPassed(s, m)
              /\ UNCHANGED <<epoch, carried, delivered>>
         /\ \A i \in postbox[s] : PassesOn(s, i) =>
              /\ Pushed(s, i.msg) /\ SentOrPassed(s, i.msg)
              /\ UNCHANGED <<epoch, carried, delivered>>
  BY DEF SendsOne, PassesOn, SentOrPassed, Abroad

\* Every step keeps the order downwards.
LEMMA NextDownOrder ==
  ASSUME FundsToChildren, TypeInv, RouteInv, QueueNumbered, Histories, Abroad, [Next]_vars,
         NEW c \in NonRoot, DownOrder(c)
  PROVE  DownOrder(c)'
  <1>1. ASSUME NEW s \in Networks, NEW m \in Message, SendsOne(s, m) PROVE DownOrder(c)'
    BY <1>1, StepSendsOrPasses, PushDownOrder
  <1>2. ASSUME NEW s \in Networks, NEW i \in postbox[s], PassesOn(s, i), i.msg \in Message
        PROVE  DownOrder(c)'
    BY <1>2, StepSendsOrPasses, PushDownOrder
  <1>3. ASSUME NEW e \in NonRoot, NEW n, TakesNext(e, n) PROVE DownOrder(c)'
    BY <1>3, TakenDownOrder
  <1>4. ASSUME NEW e \in NonRoot, CommitChildCheck(e) PROVE DownOrder(c)'
    BY <1>4, ChildDownOrder
  <1>5. CASE \/ \E s \in Networks : WhitelistAny(s) \/ Tick(s)
             \/ \E e \in NonRoot : SetMembership(e)
             \/ \E e \in Killable : Kill(e)
             \/ UNCHANGED vars
    <2>1. /\ UNCHANGED <<carried, sent, delivered>>
          /\ Registered(c)' => Registered(c) /\ subnets'[c] = subnets[c]
      BY <1>5, QuietStep
    <2>2. Registered(c)' => Registered(c) /\ Line(c)' = Line(c)
      BY <2>1 DEF Line
    <2>3. QED
      BY <2>1, <2>2, DownKept
  <1>6. QED
    BY <1>1, <1>2, <1>3, <1>4, <1>5, StepKinds

-----------------------------------------------------------------------------
(* Order on the way up to the parent. *)

\* The number of the window that is being filled at c.
Turn(c) == epoch[c] \div CheckPeriod + 1

\* What the n-th checkpoint of c has for the parent of c from c.
Batch(c, n) == Only(Contents(CheckpointAt(c, CheckPeriod * n).msgs), Between(c, Parent(c)))

Batches(c) == [n \in Nat |-> Batch(c, n)]

\* w[n] is what the first n of the batches have.
Windows(w, batches) == w[0] = <<>> /\ \A n \in Nat : w[n + 1] = w[n] \o batches[n + 1]

\* What c sends to its parent is what its windows have for the parent, one after the
\* other.  The parent has executed the first j.
UpOrder(c) ==
  \E w \in [Nat -> Seq(Message)] : \E j \in Nat :
    /\ Windows(w, Batches(c))
    /\ \A n \in Nat : n >= Turn(c) => w[n] = Only(sent[c], Between(c, Parent(c)))
    /\ j < Turn(c) /\ Only(delivered[Parent(c)], Between(c, Parent(c))) = w[j]
    /\ Registered(c) => subnets[c].prev_epoch = CheckPeriod * j

\* The arithmetic of periods.
LEMMA Periods ==
  /\ CheckPeriod \in Nat /\ CheckPeriod > 0
  /\ \A e \in Nat : e \div CheckPeriod \in Nat
  /\ \A e \in Nat : (e + 1) \div CheckPeriod >= e \div CheckPeriod
  /\ \A i, j \in Nat : CheckPeriod * i = CheckPeriod * j => i = j
  /\ \A i, j \in Nat : CheckPeriod * i <= CheckPeriod * j => i <= j
  /\ \A i \in Nat : CheckPeriod * i + CheckPeriod = CheckPeriod * (i + 1)
  <1> DEFINE P == CheckPeriod
  <1>1. P \in Nat /\ P > 0
    BY PeriodAssumption
  <1> HIDE DEF P
  <1>2. ASSUME NEW e \in Nat PROVE e \div P \in Nat
    BY <1>1
  <1>3. ASSUME NEW e \in Nat PROVE (e + 1) \div P >= e \div P
    <2> DEFINE a == e \div P
               b == (e + 1) \div P
    <2>1. a \in Nat /\ P * a <= e
      BY <1>1
    <2>2. b \in Nat /\ e + 1 < P * b + P
      BY <1>1
    <2> HIDE DEF a, b
    <2>4. ASSUME b < a PROVE FALSE
      <3>1. P * (b + 1) <= P * a /\ P * (b + 1) = P * b + P
        BY <1>1, <2>1, <2>2, <2>4
      <3>2. QED
        BY <1>1, <2>1, <2>2, <3>1
    <2>5. QED
      BY <2>1, <2>2, <2>4 DEF a, b
  <1>4. ASSUME NEW i \in Nat, NEW j \in Nat, P * i <= P * j PROVE i <= j
    <2>1. ASSUME j < i PROVE FALSE
      <3>1. P * (j + 1) <= P * i /\ P * (j + 1) = P * j + P
        BY <1>1, <2>1
      <3>2. P * j \in Nat /\ P * i \in Nat
        BY <1>1
      <3>3. QED
        BY <1>1, <1>4, <3>1, <3>2
    <2>2. QED
      BY <2>1
  <1>5. ASSUME NEW i \in Nat, NEW j \in Nat, P * i = P * j PROVE i = j
    <2>1. P * i \in Nat /\ P * j \in Nat
      BY <1>1
    <2>2. P * i <= P * j /\ P * j <= P * i
      BY <1>5, <2>1
    <2>3. i <= j /\ j <= i
      BY <1>4, <2>2
    <2>4. QED
      BY <2>3
  <1>6. ASSUME NEW i \in Nat PROVE P * i + P = P * (i + 1)
    BY <1>1
  <1>7. QED
    BY <1>1, <1>2, <1>3, <1>4, <1>5, <1>6 DEF P

\* What a checkpoint has for the parent is a sequence of messages.
LEMMA BatchTyped ==
  ASSUME BottomUpTyped, NEW c \in NonRoot, NEW n
  PROVE  /\ CheckpointAt(c, CheckPeriod * n).msgs \in Seq(Message)
         /\ Batch(c, n) \in Seq(Message)
  <1>1. CheckpointAt(c, CheckPeriod * n).msgs \in Seq(Message)
    BY NetworksAreIDs, CheckpointTyped DEF Checkpoint
  <1>2. QED
    BY <1>1, ContentsType, OnlyType DEF Batch

\* The window that is being filled, and those that are over.
LEMMA TurnIs ==
  ASSUME TypeInv, NEW c \in NonRoot
  PROVE  /\ Turn(c) \in Nat /\ Turn(c) > 0
         /\ WindowEpoch(epoch[c]) = CheckPeriod * Turn(c)
         /\ \A j \in Nat : CheckPeriod * (j + 1) <= CheckpointEpoch(epoch[c]) => j + 1 < Turn(c)
  <1> DEFINE t == epoch[c] \div CheckPeriod
  <1>1. epoch[c] \in Nat
    BY NetworksAreIDs DEF TypeInv, CountersTyped
  <1>2. t \in Nat
    BY <1>1, Periods
  <1>3. /\ WindowEpoch(epoch[c]) = CheckPeriod * (t + 1)
        /\ CheckpointEpoch(epoch[c]) = CheckPeriod * t /\ Turn(c) = t + 1
    BY DEF WindowEpoch, CheckpointEpoch, Turn
  <1> HIDE DEF t
  <1>4. ASSUME NEW j \in Nat, CheckPeriod * (j + 1) <= CheckPeriod * t PROVE j + 1 < t + 1
    <2>1. j + 1 \in Nat
      OBVIOUS
    <2>2. j + 1 <= t
      BY <1>2, <1>4, <2>1, Periods
    <2>3. QED
      BY <1>2, <2>2
  <1>5. t + 1 \in Nat /\ t + 1 > 0
    BY <1>2
  <1>6. QED
    BY <1>3, <1>4, <1>5

\* Steps that leave the windows and the histories alone keep the order.
LEMMA UpKept ==
  ASSUME NEW c \in NonRoot, UpOrder(c),
         Turn(c) \in Nat, Turn(c)' \in Nat, Turn(c)' >= Turn(c),
         Batches(c)' = Batches(c),
         Only(sent'[c], Between(c, Parent(c))) = Only(sent[c], Between(c, Parent(c))),
         Only(delivered'[Parent(c)], Between(c, Parent(c)))
           = Only(delivered[Parent(c)], Between(c, Parent(c))),
         Registered(c)' => Registered(c) /\ subnets'[c].prev_epoch = subnets[c].prev_epoch
  PROVE  UpOrder(c)'
  <1> DEFINE S == Between(c, Parent(c))
  <1>1. PICK w \in [Nat -> Seq(Message)], j \in Nat :
          /\ Windows(w, Batches(c))
          /\ \A n \in Nat : n >= Turn(c) => w[n] = Only(sent[c], S)
          /\ j < Turn(c) /\ Only(delivered[Parent(c)], S) = w[j]
          /\ Registered(c) => subnets[c].prev_epoch = CheckPeriod * j
    BY DEF UpOrder
  <1>2. Windows(w, Batches(c)')
    BY <1>1
  <1>3. \A n \in Nat : n >= Turn(c)' => w[n] = Only(sent'[c], S)
    BY <1>1
  <1>4. j < Turn(c)' /\ Only(delivered'[Parent(c)], S) = w[j]
    BY <1>1
  <1>5. Registered(c)' => subnets'[c].prev_epoch = CheckPeriod * j
    BY <1>1
  <1>6. QED
    BY <1>1, <1>2, <1>3, <1>4, <1>5 DEF UpOrder

\* What a message of c adds to what goes to the parent.
Piece(c, m) == IF Content(m) \in Between(c, Parent(c)) THEN <<Content(m)>> ELSE <<>>

\* A message that goes into the current checkpoint comes last in its window.
LEMMA BatchGrows ==
  ASSUME TypeInv, NEW c \in NonRoot, NEW m \in Message, NEW fee \in Nat,
         CommitBottomupMsg(c, m, fee), NEW J, J = Turn(c)
  PROVE  /\ Batch(c, J)' = Batch(c, J) \o Piece(c, m)
         /\ \A n \in Nat : n # J => Batch(c, n)' = Batch(c, n)
  <1>0. PICK W : W = WindowEpoch(epoch[c])
    OBVIOUS
  <1> DEFINE x == [m EXCEPT !.nonce = bottomup_nonce[c]]
             old == CheckpointAt(c, W).msgs
             S == Between(c, Parent(c))
             u == Piece(c, m)
  <1>1. c \in Networks /\ bottomup_nonce[c] \in Nat
    BY NetworksAreIDs DEF TypeInv, BottomUpTyped
  <1>2. /\ x \in Message
        /\ DOMAIN bottomup_checkpoints'[c] = DOMAIN bottomup_checkpoints[c] \union {W}
        /\ bottomup_checkpoints'[c][W].msgs = Append(old, x)
        /\ \A k \in DOMAIN bottomup_checkpoints[c] :
             k # W => bottomup_checkpoints'[c][k] = bottomup_checkpoints[c][k]
    BY <1>0, <1>1, CommitBottomupIs DEF TypeInv
  <1>3. Content(x) = Content(m)
    BY <1>1, ContentFields DEF Placed
  <1>4. W = CheckPeriod * J /\ J \in Nat
    BY <1>0, TurnIs
  <1>5. old \in Seq(Message)
    BY <1>1, CheckpointTyped DEF TypeInv, Checkpoint
  <1> HIDE DEF x, old
  <1>6. CheckpointAt(c, W)'.msgs = Append(old, x)
    BY <1>2 DEF CheckpointAt
  <1>7. \A k : k # W => CheckpointAt(c, k)' = CheckpointAt(c, k)
    BY <1>2 DEF CheckpointAt
  <1>8. Only(Contents(Append(old, x)), S) = Only(Contents(old), S) \o u
    <2>1. Contents(Append(old, x)) = Append(Contents(old), Content(x))
      BY <1>2, <1>5, ContentsAppend
    <2>2. Contents(old) \in Seq(Message) /\ Content(x) \in Message /\ Content(m) \in Message
      BY <1>2, <1>5, ContentsType, ContentFields
    <2>3. Only(Append(Contents(old), Content(x)), S)
            = IF Content(x) \in S THEN Append(Only(Contents(old), S), Content(x))
              ELSE Only(Contents(old), S)
      BY <2>2, OnlyAppend
    <2> DEFINE a == Only(Contents(old), S)
    <2>4. a \in Seq(Message)
      BY <2>2, OnlyType
    <2> HIDE DEF a
    <2>5. Append(a, Content(m)) = a \o <<Content(m)>> /\ a \o <<>> = a
      BY <2>2, <2>4, AppendIsConcat, ConcatEmptySeq
    <2>6. QED
      BY <1>3, <2>1, <2>3, <2>5 DEF a, Piece
  <1>9. Batch(c, J)' = Batch(c, J) \o u
    <2>1. Batch(c, J) = Only(Contents(old), S)
      BY <1>4 DEF Batch, old
    <2>2. Batch(c, J)' = Only(Contents(CheckpointAt(c, W)'.msgs), S)
      BY <1>4 DEF Batch
    <2>3. QED
      BY <1>6, <1>8, <2>1, <2>2
  <1>10. ASSUME NEW n \in Nat, n # J PROVE Batch(c, n)' = Batch(c, n)
    <2>1. CheckPeriod * n # W
      BY <1>4, <1>10, Periods
    <2>2. QED
      BY <1>7, <2>1 DEF Batch
  <1>11. QED
    BY <1>9, <1>10

\* Concatenation is associative,
LEMMA ConcatThree ==
  ASSUME NEW x \in Seq(Message), NEW y \in Seq(Message), NEW u \in Seq(Message)
  PROVE  (x \o y) \o u = x \o (y \o u)
  BY SMTT(30), ConcatAssociative

\* and only the empty sequence adds nothing.
LEMMA ConcatNothing ==
  ASSUME NEW x \in Seq(Message), NEW y \in Seq(Message), x \o y = x
  PROVE  y = <<>>
  <1>1. Len(x) + Len(y) = Len(x) /\ Len(y) \in Nat /\ Len(x) \in Nat
    BY ConcatProperties, LenProperties
  <1>2. Len(y) = 0
    BY <1>1
  <1>3. QED
    BY <1>2, EmptySeq

\* A message that c puts into its checkpoint keeps the order upwards.
LEMMA PushUpOrder ==
  ASSUME TypeInv, Histories, NEW c \in NonRoot, NEW m \in Message, NEW fee \in Nat,
         CommitBottomupMsg(c, m, fee), SentOrPassed(c, m),
         UNCHANGED <<epoch, subnets, delivered>>, UpOrder(c)
  PROVE  UpOrder(c)'
  <1> DEFINE S == Between(c, Parent(c))
             y == Content(m)
  <1>0. PICK J, u, out : /\ J = Turn(c) /\ out = Only(sent[c], S)
                         /\ u = Piece(c, m)
    OBVIOUS
  <1>1. c \in Networks /\ J \in Nat /\ J > 0 /\ Turn(c)' = J
    BY <1>0, NetworksAreIDs, TurnIs DEF Turn
  <1>2. y \in Message /\ (y \in S <=> m.from = c /\ m.to = Parent(c))
    BY ContentFields DEF Between
  <1>3. u \in Seq(Message)
    BY <1>0, <1>2, EmptySeq DEF Piece
  <1>4. Batch(c, J)' = Batch(c, J) \o u /\ \A n \in Nat : n # J => Batch(c, n)' = Batch(c, n)
    BY <1>0, BatchGrows
  <1>5. out \in Seq(Message)
    BY <1>0, <1>1, OnlyType DEF Histories
  <1>6. Only(sent'[c], S) = out \o u
    <2>1. Only(sent'[c], S) = IF m.from = c /\ m.to = Parent(c) THEN Append(out, m) ELSE out
      BY <1>0, <1>1, SentSelection
    <2>2. m.from = c => y = m
      BY ContentFields DEF SentOrPassed
    <2>3. Append(out, m) = out \o <<m>> /\ out \o <<>> = out
      BY <1>5, AppendIsConcat, ConcatEmptySeq
    <2>4. u = IF y \in S THEN <<y>> ELSE <<>>
      BY <1>0 DEF Piece
    <2> HIDE DEF S, y
    <2>5. QED
      BY <1>0, <1>2, <2>1, <2>2, <2>3, <2>4
  <1>7. PICK b, d : b = Batches(c) /\ d = Batches(c)'
    OBVIOUS
  <1>8. PICK w \in [Nat -> Seq(Message)], j \in Nat :
          /\ Windows(w, b)
          /\ \A n \in Nat : n >= J => w[n] = out
          /\ j < J /\ Only(delivered[Parent(c)], S) = w[j]
          /\ Registered(c) => subnets[c].prev_epoch = CheckPeriod * j
    BY <1>0, <1>7 DEF UpOrder
  <1>9. /\ b \in [Nat -> Seq(Message)] /\ d \in [Nat -> Seq(Message)]
        /\ d[J] = b[J] \o u /\ \A n \in Nat : n # J => d[n] = b[n]
    <2>1. \A n \in Nat : Batch(c, n) \in Seq(Message)
      BY BatchTyped DEF TypeInv
    <2>2. Batch(c, J) \o u \in Seq(Message)
      BY <1>1, <1>3, <2>1, ConcatProperties
    <2>3. \A n \in Nat : Batch(c, n)' \in Seq(Message)
      BY <1>4, <2>1, <2>2
    <2>4. \A n \in Nat : b[n] = Batch(c, n) /\ d[n] = Batch(c, n)'
      BY <1>7 DEF Batches
    <2>5. b \in [Nat -> Seq(Message)]
      BY <1>7, <2>1 DEF Batches
    <2>6. d \in [Nat -> Seq(Message)]
      BY <1>7, <2>3 DEF Batches
    <2>7. QED
      BY <1>1, <1>4, <2>4, <2>5, <2>6
  <1>10. PICK v : v = [n \in Nat |-> IF n < J THEN w[n] ELSE w[n] \o u]
    OBVIOUS
  <1>11. /\ v \in [Nat -> Seq(Message)] /\ Windows(v, d)
         /\ \A n \in Nat : n < J => v[n] = w[n]
         /\ \A n \in Nat : n >= J => v[n] = out \o u
    <2>1. v \in [Nat -> Seq(Message)]
      <3>1. \A n \in Nat : w[n] \o u \in Seq(Message)
        BY <1>3, <1>8, ConcatProperties
      <3>2. QED
        BY <1>8, <1>10, <3>1
    <2>2. \A n \in Nat : n < J => v[n] = w[n]
      BY <1>10
    <2>3. \A n \in Nat : n >= J => v[n] = w[n] \o u
      <3>1. ASSUME NEW n \in Nat, n >= J PROVE v[n] = w[n] \o u
        <4>1. ~(n < J)
          BY <1>1, <3>1
        <4>2. QED
          BY <1>10, <4>1
      <3>2. QED
        BY <3>1
    <2>4. \A n \in Nat : n >= J => v[n] = out \o u
      BY <1>8, <2>3
    <2>5. ASSUME NEW n \in Nat PROVE v[n + 1] = v[n] \o d[n + 1]
      <3>0. PICK k \in Nat : k = n + 1
        OBVIOUS
      <3> DEFINE x == w[n]
                 z == b[k]
      <3>1. x \in Seq(Message) /\ z \in Seq(Message)
        BY <1>8, <1>9
      <3>2. w[k] = x \o z
        BY <1>8, <3>0 DEF Windows
      <3>3. ASSUME k < J PROVE v[k] = w[k] /\ v[n] = x /\ d[k] = z
        <4>1. n < J /\ k # J
          BY <1>1, <3>0, <3>3
        <4>2. d[k] = z
          BY <1>9, <4>1
        <4>3. QED
          BY <2>2, <3>3, <4>1, <4>2
      <3>4. ASSUME k = J PROVE v[k] = w[k] \o u /\ v[n] = x /\ d[k] = z \o u
        <4>1. n < J /\ k >= J
          BY <1>1, <3>0, <3>4
        <4>2. d[k] = z \o u
          BY <1>9, <3>4
        <4>3. QED
          BY <2>2, <2>3, <4>1, <4>2
      <3>5. ASSUME k > J
            PROVE w[k] = out /\ x = out /\ v[k] = out \o u /\ v[n] = out \o u /\ d[k] = z
        <4>1. n >= J /\ k >= J /\ k # J
          BY <1>1, <3>0, <3>5
        <4>2. d[k] = z /\ w[k] = out /\ x = out
          BY <1>8, <1>9, <4>1
        <4>3. v[k] = out \o u /\ v[n] = out \o u
          BY <2>4, <4>1
        <4>4. QED
          BY <4>2, <4>3
      <3>6. out \o u \in Seq(Message)
        BY <1>3, <1>5, ConcatProperties
      <3>7. k < J \/ k = J \/ k > J
        BY <1>1, <3>0
      <3> HIDE DEF x, z
      <3>8. (x \o z) \o u = x \o (z \o u)
        BY <1>3, <3>1, ConcatThree
      <3>9. x \o z = x => z = <<>>
        BY <3>1, ConcatNothing
      <3>10. (out \o u) \o <<>> = out \o u
        BY <3>6, ConcatEmptySeq
      <3>11. v[k] = v[n] \o d[k]
        <4>1. CASE k < J
          BY <3>2, <3>3, <4>1
        <4>2. CASE k = J
          BY <3>2, <3>4, <3>8, <4>2
        <4>3. CASE k > J
          BY <3>2, <3>5, <3>9, <3>10, <4>3
        <4>4. QED
          BY <3>7, <4>1, <4>2, <4>3
      <3>12. QED
        BY <3>0, <3>11
    <2>6. v[0] = <<>>
      BY <1>1, <1>8, <2>2 DEF Windows
    <2>7. QED
      BY <2>1, <2>2, <2>4, <2>5, <2>6 DEF Windows
  <1>12. /\ Windows(v, Batches(c)') /\ \A n \in Nat : n >= Turn(c)' => v[n] = Only(sent'[c], S)
         /\ j < Turn(c)' /\ Only(delivered'[Parent(c)], S) = v[j]
         /\ Registered(c)' => subnets'[c].prev_epoch = CheckPeriod * j
    BY <1>1, <1>6, <1>7, <1>8, <1>11 DEF Registered
  <1> HIDE DEF S
  <1>13. QED
    BY <1>11, <1>12 DEF UpOrder, S

\* Checkpoints with the same messages have the same for the parent.
LEMMA BatchesKept ==
  ASSUME NEW c \in NonRoot, \A k : CheckpointAt(c, k)'.msgs = CheckpointAt(c, k).msgs
  PROVE  Batches(c)' = Batches(c)
  <1>1. \A n \in Nat : Batch(c, n)' = Batch(c, n)
    BY DEF Batch
  <1>2. QED
    BY <1>1 DEF Batches

\* While no time passes the same window is filled.
LEMMA TurnKept ==
  ASSUME TypeInv, NEW c \in NonRoot, UNCHANGED epoch
  PROVE  Turn(c) \in Nat /\ Turn(c)' \in Nat /\ Turn(c)' >= Turn(c)
  <1>1. Turn(c) \in Nat /\ Turn(c)' = Turn(c)
    BY TurnIs DEF Turn
  <1>2. QED
    BY <1>1

\* A message pushed anywhere keeps the order upwards.
LEMMA PushedUpOrder ==
  ASSUME TypeInv, Histories, NEW s \in Networks, NEW m \in Message,
         Pushed(s, m), SentOrPassed(s, m), UNCHANGED <<epoch, carried, delivered>>,
         NEW c \in NonRoot, UpOrder(c)
  PROVE  UpOrder(c)'
  <1> DEFINE p == Parent(c)
             S == Between(c, p)
  <1>1. c \in Networks /\ p \in Networks /\ BottomUpTyped /\ SubnetsTyped
    BY NetworksAreIDs DEF TypeInv
  <1>2. ASSUME NEW fee \in Nat, CommitBottomupMsg(s, m, fee), UNCHANGED subnets, s = c
        PROVE  UpOrder(c)'
    BY <1>2, PushUpOrder
  <1>3. ASSUME \A k : CheckpointAt(c, k)'.msgs = CheckpointAt(c, k).msgs,
               Only(sent'[c], S) = Only(sent[c], S),
               Registered(c)' =>
                 Registered(c) /\ subnets'[c].prev_epoch = subnets[c].prev_epoch
        PROVE  UpOrder(c)'
    <2>1. Batches(c)' = Batches(c)
      BY <1>3, BatchesKept
    <2>2. Turn(c) \in Nat /\ Turn(c)' \in Nat /\ Turn(c)' >= Turn(c)
      BY TurnKept
    <2>3. QED
      BY <1>3, <2>1, <2>2, UpKept
  <1>4. ASSUME NEW fee \in Nat, CommitBottomupMsg(s, m, fee), UNCHANGED subnets, s # c
        PROVE  UpOrder(c)'
    <2>1. bottomup_checkpoints'[c] = bottomup_checkpoints[c]
      BY <1>1, <1>4, CommitBottomupIs
    <2>2. Only(sent'[c], S) = Only(sent[c], S)
      BY <1>1, <1>4, SentSelection
    <2>3. QED
      BY <1>3, <1>4, <2>1, <2>2 DEF CheckpointAt, Registered
  <1>5. CASE CommitTopdownMsg(s, m) /\ UNCHANGED bottomUp
    <2>1. \A k : CheckpointAt(c, k)'.msgs = CheckpointAt(c, k).msgs
      BY <1>5 DEF CheckpointAt, bottomUp
    <2>2. ~(s = c /\ m.from = c /\ m.to = p)
      BY <1>5, PushedApart
    <2>3. Only(sent'[c], S) = Only(sent[c], S)
      BY <1>1, <2>2, SentSelection
    <2>4. Registered(c)' =>
            Registered(c) /\ subnets'[c].prev_epoch = subnets[c].prev_epoch
      BY <1>1, <1>5, PrevKept
    <2>5. QED
      BY <1>3, <2>1, <2>3, <2>4
  <1>6. QED
    BY <1>2, <1>4, <1>5 DEF Pushed

\* A checkpoint that lists that of a child keeps its messages.
LEMMA ChildCheckMessages ==
  ASSUME TypeInv, NEW e \in NonRoot, CommitChildCheck(e)
  PROVE  \A c \in Networks : \A k : CheckpointAt(c, k)'.msgs = CheckpointAt(c, k).msgs
  <1> DEFINE p == Parent(e)
             new == AddChildCheck(GetWindowCheckpoint(p), e, subnets[e].prev_epoch + CheckPeriod)
             log == FlushCheckpoint(p, new)
  <1>0. PICK w : w = WindowEpoch(epoch[p])
    OBVIOUS
  <1>1. /\ p \in Networks /\ new \in Checkpoint /\ new.msgs = CheckpointAt(p, w).msgs
        /\ bottomup_checkpoints' = log
    BY <1>0, ChildCheckIs DEF GetWindowCheckpoint
  <1>2. BottomUpTyped
    BY DEF TypeInv
  <1> HIDE DEF p, new
  <1>3. /\ \A t \in Networks : t # p => log[t] = bottomup_checkpoints[t]
        /\ DOMAIN log[p] = DOMAIN bottomup_checkpoints[p] \union {w} /\ log[p][w] = new
        /\ \A k \in DOMAIN bottomup_checkpoints[p] :
             k # w => log[p][k] = bottomup_checkpoints[p][k]
    BY <1>0, <1>1, <1>2, FlushIs
  <1> HIDE DEF log
  <1>4. ASSUME NEW c \in Networks, NEW k
        PROVE  CheckpointAt(c, k)'.msgs = CheckpointAt(c, k).msgs
    <2>1. CASE c # p
      BY <1>1, <1>3, <2>1 DEF CheckpointAt
    <2>2. CASE c = p /\ k = w
      <3>1. CheckpointAt(p, w)' = new
        BY <1>1, <1>3 DEF CheckpointAt
      <3>2. QED
        BY <1>1, <2>2, <3>1
    <2>3. CASE c = p /\ k # w
      BY <1>1, <1>3, <2>3 DEF CheckpointAt
    <2>4. QED
      BY <2>1, <2>2, <2>3
  <1>5. QED
    BY <1>4

\* The parent takes the next window.
LEMMA ChildUpOrder ==
  ASSUME TypeInv, RouteInv, Histories, NEW e \in NonRoot, CommitChildCheck(e),
         NEW c \in NonRoot, UpOrder(c)
  PROVE  UpOrder(c)'
  <1> DEFINE s == Parent(e)
             p == Parent(c)
             S == Between(c, p)
             k == subnets[e].prev_epoch + CheckPeriod
             ch == CheckpointAt(e, k)
  <1>1. /\ s \in Networks /\ ch \in Checkpoint /\ Apply(s, ch.msgs, ch.fee) /\ UNCHANGED epoch
    BY ChildCheckIs
  <1>2. ch.msgs \in Seq(Message)
    BY <1>1 DEF Checkpoint
  <1>3. /\ Registered(e) /\ subnets'[e].registered /\ subnets'[e].prev_epoch = k
        /\ \A d \in NonRoot : d # e => subnets'[d] = subnets[d]
    BY ChildCheckWrites
  <1>4. Batches(c)' = Batches(c)
    BY ChildCheckMessages, BatchesKept, NetworksAreIDs
  <1>5. Turn(c) \in Nat /\ Turn(c)' = Turn(c) /\ Turn(c)' >= Turn(c)
    BY <1>1, TurnIs, TurnKept DEF Turn
  <1>6. UNCHANGED sent /\ \A t \in Networks : t # s => delivered'[t] = delivered[t]
    BY <1>1, <1>2, ApplyHistory
  <1>7. \A x \in Range(ch.msgs) : x \in Message /\ Climbing(e, x)
    BY ChildMessages
  <1>8. CASE c # e
    <2> HIDE DEF k, ch
    <2>1. Only(delivered'[p], S) = Only(delivered[p], S)
      <3>1. CASE p # s
        BY <1>6, <3>1, NetworksAreIDs
      <3>2. CASE p = s
        <4>1. \A x \in Range(ch.msgs) : x.from # c
          BY <1>7, <1>8, <3>2, ClimbingFrom
        <4> HIDE DEF p, s
        <4>2. QED
          BY <1>1, <1>2, <3>2, <4>1, DeliveredSelection
      <3>3. QED
        BY <3>1, <3>2
    <2>2. Registered(c)' => Registered(c) /\ subnets'[c].prev_epoch = subnets[c].prev_epoch
      BY <1>3, <1>8 DEF Registered
    <2>3. QED
      BY <1>4, <1>5, <1>6, <2>1, <2>2, UpKept
  <1>9. CASE c = e
    <2>1. PICK b : b = Batches(c)
      OBVIOUS
    <2>2. PICK w \in [Nat -> Seq(Message)], j \in Nat :
            /\ Windows(w, b)
            /\ \A n \in Nat : n >= Turn(c) => w[n] = Only(sent[c], S)
            /\ j < Turn(c) /\ Only(delivered[p], S) = w[j]
            /\ subnets[c].prev_epoch = CheckPeriod * j
      BY <1>3, <1>9, <2>1 DEF UpOrder
    <2>3. j + 1 \in Nat /\ k = CheckPeriod * (j + 1)
      <3>1. k = CheckPeriod * j + CheckPeriod
        BY <1>9, <2>2
      <3>2. CheckPeriod * j + CheckPeriod = CheckPeriod * (j + 1)
        BY Periods
      <3>3. QED
        BY <3>1, <3>2
    <2>4. j + 1 < Turn(c)
      <3>1. k <= CheckpointEpoch(epoch[c])
        BY <1>9 DEF CommitChildCheck
      <3>2. QED
        BY <2>2, <2>3, <3>1, TurnIs
    <2>5. Only(Contents(ch.msgs), S) = b[j + 1]
      <3>1. b[j + 1] = Batch(c, j + 1)
        BY <2>1, <2>3 DEF Batches
      <3>2. QED
        BY <1>9, <2>3, <3>1 DEF Batch
    <2>6. Only(delivered'[p], S) = Only(delivered[p], S) \o Only(Contents(ch.msgs), S)
      <3> HIDE DEF ch, k
      <3>1. s = p
        BY <1>9
      <3> HIDE DEF s, p
      <3>2. QED
        BY <1>1, <1>2, <3>1, DeliveredSelection
    <2>7. w[j + 1] = w[j] \o b[j + 1]
      BY <2>2 DEF Windows
    <2>8. Only(delivered'[p], S) = w[j + 1]
      BY <2>2, <2>5, <2>6, <2>7
    <2>9. /\ Windows(w, Batches(c)') /\ \A n \in Nat : n >= Turn(c)' => w[n] = Only(sent'[c], S)
          /\ j + 1 < Turn(c)'
      BY <1>4, <1>5, <1>6, <2>1, <2>2, <2>4
    <2>10. subnets'[c].prev_epoch = CheckPeriod * (j + 1)
      BY <1>3, <1>9, <2>3
    <2> HIDE DEF S, k, ch
    <2>11. QED
      BY <2>2, <2>3, <2>8, <2>9, <2>10 DEF UpOrder, S
  <1>10. QED
    BY <1>8, <1>9

\* A top-down checkpoint brings nothing from below.
LEMMA TakenUpOrder ==
  ASSUME FundsToChildren, TypeInv, RouteInv, Histories, NEW e \in NonRoot, NEW n,
         TakesNext(e, n), NEW c \in NonRoot, UpOrder(c)
  PROVE  UpOrder(c)'
  <1> DEFINE p == Parent(c)
             msgs == NextMsgs(e, n)
  <1>1. /\ msgs \in Seq(Message) /\ e \in Networks /\ Apply(e, msgs, 0)
        /\ \A m \in Range(msgs) : m \in Message /\ Descending(e, m)
        /\ UNCHANGED <<epoch, bottomUp, subnets>>
    BY NextMessages
  <1>2. UNCHANGED sent /\ \A t \in Networks : t # e => delivered'[t] = delivered[t]
    BY <1>1, ApplyHistory
  <1>3. Batches(c)' = Batches(c)
    <2>1. \A k : CheckpointAt(c, k)'.msgs = CheckpointAt(c, k).msgs
      BY <1>1 DEF CheckpointAt, bottomUp
    <2>2. QED
      BY <2>1, BatchesKept
  <1>4. Only(delivered'[p], Between(c, p)) = Only(delivered[p], Between(c, p))
    <2>1. CASE p # e
      BY <1>2, <2>1, NetworksAreIDs
    <2>2. CASE p = e
      <3>1. \A x \in Range(msgs) : x.to = e => x.from # c
        BY <1>1, <2>2, DescendingFrom
      <3> HIDE DEF p, msgs
      <3>2. QED
        BY <1>1, <2>2, <3>1, DeliveredSelection
    <2>3. QED
      BY <2>1, <2>2
  <1>5. Turn(c) \in Nat /\ Turn(c)' \in Nat /\ Turn(c)' >= Turn(c)
    BY <1>1, TurnKept
  <1>6. QED
    BY <1>1, <1>2, <1>3, <1>4, <1>5, UpKept DEF Registered

\* Every step keeps the order upwards.
LEMMA NextUpOrder ==
  ASSUME FundsToChildren, TypeInv, TypeInv', RouteInv, Histories, Abroad, [Next]_vars,
         NEW c \in NonRoot, UpOrder(c)
  PROVE  UpOrder(c)'
  <1>1. ASSUME NEW s \in Networks, NEW m \in Message, SendsOne(s, m) PROVE UpOrder(c)'
    BY <1>1, StepSendsOrPasses, PushedUpOrder
  <1>2. ASSUME NEW s \in Networks, NEW i \in postbox[s], PassesOn(s, i), i.msg \in Message
        PROVE  UpOrder(c)'
    BY <1>2, StepSendsOrPasses, PushedUpOrder
  <1>3. ASSUME NEW e \in NonRoot, NEW n, TakesNext(e, n) PROVE UpOrder(c)'
    BY <1>3, TakenUpOrder
  <1>4. ASSUME NEW e \in NonRoot, CommitChildCheck(e) PROVE UpOrder(c)'
    BY <1>4, ChildUpOrder
  <1>5. CASE \/ \E s \in Networks : WhitelistAny(s) \/ Tick(s)
             \/ \E e \in NonRoot : SetMembership(e)
             \/ \E e \in Killable : Kill(e)
             \/ UNCHANGED vars
    <2>1. /\ UNCHANGED <<bottomUp, sent, delivered>>
          /\ Registered(c)' => Registered(c) /\ subnets'[c] = subnets[c]
      BY <1>5, QuietStep
    <2>2. Batches(c)' = Batches(c)
      <3>1. \A k : CheckpointAt(c, k)'.msgs = CheckpointAt(c, k).msgs
        BY <2>1 DEF CheckpointAt, bottomUp
      <3>2. QED
        BY <3>1, BatchesKept
    <2>3. epoch[c] \in Nat /\ c \in Networks
      BY NetworksAreIDs DEF TypeInv, CountersTyped
    <2>4. epoch'[c] = epoch[c] \/ epoch'[c] = epoch[c] + 1
      <3>1. ASSUME NEW s \in Networks, Tick(s)
            PROVE  epoch'[c] = epoch[c] \/ epoch'[c] = epoch[c] + 1
        BY <2>3, <3>1 DEF Tick, TypeInv, CountersTyped
      <3>2. CASE UNCHANGED epoch
        BY <3>2
      <3>3. QED
        BY <1>5, <3>1, <3>2
           DEF WhitelistAny, WhitelistPropagator, SetMembership, Kill, vars
    <2>5. Turn(c) \in Nat /\ Turn(c)' \in Nat /\ Turn(c)' >= Turn(c)
      <3> DEFINE a == epoch[c] \div CheckPeriod
                 b == epoch'[c] \div CheckPeriod
      <3>0. epoch'[c] \in Nat
        BY <2>3, <2>4
      <3>1. a \in Nat /\ b \in Nat
        BY <2>3, <3>0, Periods
      <3>2. b >= a
        <4>1. CASE epoch'[c] = epoch[c]
          BY <3>1, <4>1
        <4>2. CASE epoch'[c] = epoch[c] + 1
          BY <2>3, <4>2, Periods
        <4>3. QED
          BY <2>4, <4>1, <4>2
      <3>3. Turn(c) = a + 1 /\ Turn(c)' = b + 1
        BY DEF Turn
      <3> HIDE DEF a, b
      <3>4. QED
        BY <3>1, <3>2, <3>3
    <2>6. QED
      BY <2>1, <2>2, <2>5, UpKept
  <1>6. QED
    BY <1>1, <1>2, <1>3, <1>4, <1>5, StepKinds

\* At first nothing is sent, and nothing of it has arrived.
LEMMA InitOrders ==
  ASSUME Init, NEW c \in NonRoot
  PROVE  DownOrder(c) /\ UpOrder(c)
  <1> DEFINE p == Parent(c)
             S == Between(p, c)
             T == Between(c, p)
  <1>1. c \in Networks /\ p \in Networks
    BY NetworksAreIDs
  <1>2. /\ sent[c] = <<>> /\ sent[p] = <<>> /\ delivered[c] = <<>> /\ delivered[p] = <<>>
        /\ epoch[c] = 1 /\ bottomup_checkpoints[c] = <<>>
    BY <1>1 DEF Init
  <1>3. /\ subnets[c].prev_epoch = 0 /\ subnets[c].topdown_nonce = carried[c]
        /\ carried[c] \in Nat
    BY DEF Init
  <1>4. Only(<<>>, S) = <<>> /\ Only(<<>>, T) = <<>> /\ <<>> \in Seq(Message)
    BY OnlyEmpty, EmptySeq
  <1>5. Contents(<<>>) = <<>>
    BY EmptySeq DEF Contents
  <1>6. DownOrder(c)
    <2>1. Line(c) = <<>>
      <3>1. subnets[c].topdown_nonce - carried[c] = 0
        BY <1>3
      <3>2. 1..0 = {}
        OBVIOUS
      <3>3. DOMAIN Line(c) = {} /\ Line(c) = [i \in {} |-> 0]
        BY <3>1, <3>2 DEF Line, LineOf
      <3>4. [i \in {} |-> 0] = <<>>
        OBVIOUS
      <3>5. QED
        BY <3>3, <3>4
    <2>2. Only(sent[p], S) = Only(delivered[c], S) \o <<>>
      BY <1>2, <1>4, ConcatEmptySeq
    <2>3. QED
      BY <1>4, <1>5, <2>1, <2>2 DEF DownOrder
  <1>7. UpOrder(c)
    <2> DEFINE w == [n \in Nat |-> <<>>]
    <2>1. w \in [Nat -> Seq(Message)] /\ \A n \in Nat : w[n] = <<>>
      BY <1>4
    <2> HIDE DEF w
    <2>2. \A n \in Nat : Batches(c)[n] = <<>>
      <3>1. \A k : CheckpointAt(c, k).msgs = <<>>
        <4>1. DOMAIN bottomup_checkpoints[c] = {}
          BY <1>2, EmptySeq
        <4>2. QED
          BY <4>1 DEF CheckpointAt, EmptyCheckpoint
      <3>2. QED
        BY <1>4, <1>5, <3>1 DEF Batches, Batch
    <2>3. Windows(w, Batches(c))
      <3>1. \A n \in Nat : n + 1 \in Nat
        OBVIOUS
      <3>2. <<>> \o <<>> = <<>>
        BY <1>4, ConcatEmptySeq
      <3>3. QED
        BY <2>1, <2>2, <3>1, <3>2 DEF Windows
    <2>4. 0 < Turn(c)
      <3>1. 1 \div CheckPeriod \in Nat
        BY Periods
      <3>2. QED
        BY <1>2, <3>1 DEF Turn
    <2>5. CheckPeriod * 0 = 0
      BY Periods
    <2>6. QED
      BY <1>2, <1>3, <1>4, <2>1, <2>3, <2>4, <2>5 DEF UpOrder
  <1>8. QED
    BY <1>6, <1>7

\* A sequence is a prefix of any longer one.
LEMMA ConcatPrefix ==
  ASSUME NEW M, NEW a \in Seq(M), NEW b \in Seq(M)
  PROVE  IsPrefix(a, a \o b)
  <1> DEFINE ab == a \o b
             L == Len(a)
  <1>1. /\ ab \in Seq(M) /\ Len(ab) = L + Len(b) /\ L \in Nat /\ Len(b) \in Nat
        /\ \A i \in 1..L + Len(b) : ab[i] = IF i <= L THEN a[i] ELSE b[i - L]
    BY ConcatProperties, LenProperties
  <1> HIDE DEF ab
  <1>2. \A i \in 1..L : ab[i] = a[i] /\ ab[i] \in M
    <2>1. ASSUME NEW i \in 1..L PROVE ab[i] = a[i] /\ ab[i] \in M
      <3>1. i \in 1..L + Len(b) /\ i <= L
        BY <1>1
      <3>2. QED
        BY <1>1, <3>1, ElementOfSeq
    <2>2. QED
      BY <2>1
  <1>3. SubSeq(a, 1, L) = a
    BY SubSeqFull
  <1>4. SubSeq(ab, 1, L) = a
    <2> DEFINE c == SubSeq(ab, 1, L)
    <2>1. /\ c \in Seq(M) /\ Len(c) = IF 1 <= L THEN L - 1 + 1 ELSE 0
          /\ \A i \in 1..L - 1 + 1 : c[i] = ab[1 + i - 1]
      <3>1. 1 \in Int /\ L \in Int
        BY <1>1
      <3>2. QED
        BY <1>2, <3>1, SubSeqProperties
    <2> HIDE DEF c
    <2>2. Len(c) = L /\ \A i \in 1..L : c[i] = ab[i]
      BY <1>1, <2>1
    <2>3. c = a
      BY <1>2, <2>1, <2>2, SeqEqual
    <2>4. QED
      BY <2>3 DEF c
  <1>5. L <= Len(ab)
    BY <1>1
  <1>6. QED
    BY <1>3, <1>4, <1>5 DEF IsPrefix, ab

\* More windows have what fewer have, and more.
LEMMA WindowsLonger ==
  ASSUME NEW w \in [Nat -> Seq(Message)], NEW b \in [Nat -> Seq(Message)], Windows(w, b),
         NEW i \in Nat, NEW j \in Nat, i <= j
  PROVE  IsPrefix(w[i], w[j])
  <1> DEFINE P == {n \in Nat : \E r \in Seq(Message) : w[i + n] = w[i] \o r}
  <1>1. 0 \in P
    <2>1. w[i + 0] = w[i] \o <<>> /\ <<>> \in Seq(Message)
      BY ConcatEmptySeq, EmptySeq
    <2>2. QED
      BY <2>1
  <1>2. ASSUME NEW n \in Nat, n \in P PROVE n + 1 \in P
    <2>1. PICK r \in Seq(Message) : w[i + n] = w[i] \o r
      BY <1>2
    <2>2. PICK k \in Nat : k = i + n
      OBVIOUS
    <2>3. w[k + 1] = w[k] \o b[k + 1] /\ k + 1 = i + (n + 1) /\ k + 1 \in Nat
      <3>1. k + 1 = i + (n + 1) /\ k + 1 \in Nat
        BY <2>2
      <3>2. w[k + 1] = w[k] \o b[k + 1]
        BY DEF Windows
      <3>3. QED
        BY <3>1, <3>2
    <2>4. b[k + 1] \in Seq(Message) /\ w[i] \in Seq(Message)
      BY <2>3
    <2> DEFINE x == w[i]
               y == b[k + 1]
    <2> HIDE DEF x, y
    <2>5. (x \o r) \o y = x \o (r \o y)
      BY <2>4, ConcatThree DEF x, y
    <2>6. r \o y \in Seq(Message)
      BY <2>4, ConcatProperties DEF y
    <2>7. w[i + (n + 1)] = x \o (r \o y)
      BY <2>1, <2>2, <2>3, <2>5 DEF x, y
    <2>8. n + 1 \in Nat
      OBVIOUS
    <2>9. QED
      BY <2>6, <2>7, <2>8 DEF x
  <1> HIDE DEF P
  <1>3. \A n \in Nat : n \in P
    BY <1>1, <1>2, NatSetInduction
  <1>4. PICK r \in Seq(Message) : w[j] = w[i] \o r
    <2>1. j - i \in Nat /\ i + (j - i) = j
      OBVIOUS
    <2>2. QED
      BY <1>3, <2>1 DEF P
  <1>5. w[i] \in Seq(Message)
    OBVIOUS
  <1>6. QED
    BY <1>4, <1>5, ConcatPrefix

\* What has arrived is a prefix of what was sent, both ways.
LEMMA OrdersGive ==
  ASSUME FundsToChildren, TypeInv, Histories, \A c \in NonRoot : DownOrder(c) /\ UpOrder(c)
  PROVE  NeighbourOrder
  <1>1. ASSUME NEW a \in Networks, NEW b \in Networks
        PROVE  /\ Only(delivered[b], {m \in Range(delivered[b]) : m.from = a})
                    = Only(delivered[b], Between(a, b))
               /\ Only(sent[a], {m \in Range(sent[a]) : m.to = b})
                    = Only(sent[a], Between(a, b))
    <2>1. delivered[b] \in Seq(Message) /\ sent[a] \in Seq(Message)
      BY DEF Histories
    <2>2. /\ \A m \in Range(delivered[b]) : m \in Message /\ m.to = b
          /\ \A m \in Range(sent[a]) : m \in Message /\ m.from = a
      BY <2>1 DEF Histories, Range
    <2> DEFINE D == {m \in Range(delivered[b]) : m.from = a}
               E == {m \in Range(sent[a]) : m.to = b}
               S == Between(a, b)
    <2>3. /\ \A m \in Range(delivered[b]) : m \in D <=> m \in S
          /\ \A m \in Range(sent[a]) : m \in E <=> m \in S
      BY <2>2 DEF Between
    <2> HIDE DEF D, E, S
    <2>4. Only(delivered[b], D) = Only(delivered[b], S)
      BY <2>1, <2>3, OnlySame
    <2>5. Only(sent[a], E) = Only(sent[a], S)
      BY <2>1, <2>3, OnlySame
    <2>6. QED
      BY <2>4, <2>5 DEF D, E, S
  <1>2. ASSUME NEW c \in NonRoot
        PROVE  /\ IsPrefix(Only(delivered[c], Between(Parent(c), c)),
                           Only(sent[Parent(c)], Between(Parent(c), c)))
               /\ IsPrefix(Only(delivered[Parent(c)], Between(c, Parent(c))),
                           Only(sent[c], Between(c, Parent(c))))
    <2>1. c \in Networks /\ delivered[c] \in Seq(Message)
      BY NetworksAreIDs DEF Histories
    <2>2. PICK rest \in Seq(Message) :
            Only(sent[Parent(c)], Between(Parent(c), c))
              = Only(delivered[c], Between(Parent(c), c)) \o rest
      BY <1>2 DEF DownOrder
    <2>3. Only(delivered[c], Between(Parent(c), c)) \in Seq(Message)
      BY <2>1, OnlyType
    <2>4. IsPrefix(Only(delivered[c], Between(Parent(c), c)),
                   Only(sent[Parent(c)], Between(Parent(c), c)))
      BY <2>2, <2>3, ConcatPrefix
    <2>5. PICK b : b = Batches(c)
      OBVIOUS
    <2>6. PICK w \in [Nat -> Seq(Message)], j \in Nat :
            /\ Windows(w, b)
            /\ \A n \in Nat : n >= Turn(c) => w[n] = Only(sent[c], Between(c, Parent(c)))
            /\ j < Turn(c) /\ Only(delivered[Parent(c)], Between(c, Parent(c))) = w[j]
      BY <1>2, <2>5 DEF UpOrder
    <2>7. PICK t \in Nat : t = Turn(c)
      BY TurnIs
    <2>8. b \in [Nat -> Seq(Message)]
      <3>1. \A n \in Nat : Batch(c, n) \in Seq(Message)
        BY BatchTyped DEF TypeInv
      <3>2. QED
        BY <2>5, <3>1 DEF Batches
    <2>9. IsPrefix(w[j], w[t])
      <3>1. j <= t
        BY <2>6, <2>7
      <3>2. QED
        BY <2>6, <2>8, <3>1, WindowsLonger
    <2>10. w[t] = Only(sent[c], Between(c, Parent(c)))
      BY <2>6, <2>7
    <2>11. QED
      BY <2>4, <2>6, <2>9, <2>10
  <1>3. ASSUME NEW s \in Networks, NEW c \in Children(s)
        PROVE  \A ends \in {<<s, c>>, <<c, s>>} :
                 IsPrefix(Only(delivered[ends[2]],
                               {m \in Range(delivered[ends[2]]) : m.from = ends[1]}),
                          Only(sent[ends[1]], {m \in Range(sent[ends[1]]) : m.to = ends[2]}))
    <2>1. c \in NonRoot /\ c \in Networks /\ Parent(c) = s
      BY <1>3, NetworksAreIDs DEF Children
    <2>2. IsPrefix(Only(delivered[c], {m \in Range(delivered[c]) : m.from = s}),
                   Only(sent[s], {m \in Range(sent[s]) : m.to = c}))
      BY <1>1, <1>2, <2>1
    <2>3. IsPrefix(Only(delivered[s], {m \in Range(delivered[s]) : m.from = c}),
                   Only(sent[c], {m \in Range(sent[c]) : m.to = s}))
      BY <1>1, <1>2, <2>1
    <2>4. ASSUME NEW ends \in {<<s, c>>, <<c, s>>}
          PROVE  IsPrefix(Only(delivered[ends[2]],
                               {m \in Range(delivered[ends[2]]) : m.from = ends[1]}),
                          Only(sent[ends[1]], {m \in Range(sent[ends[1]]) : m.to = ends[2]}))
      <3>1. CASE ends[1] = s /\ ends[2] = c
        BY <2>2, <3>1
      <3>2. CASE ends[1] = c /\ ends[2] = s
        BY <2>3, <3>2
      <3>3. ends = <<s, c>> \/ ends = <<c, s>>
        OBVIOUS
      <3>4. QED
        BY <3>1, <3>2, <3>3
    <2>5. QED
      BY <2>4
  <1>4. QED
    BY <1>3 DEF NeighbourOrder

\* Where fund is called for children only, messages between a network and its parent or
\* child arrive in the order in which they were sent, and none is left out: through the
\* queue of the child, or through its windows.
THEOREM NeighboursInOrder == FundsToChildren => (Spec => []NeighbourOrder)
  <1> SUFFICES ASSUME FundsToChildren PROVE Spec => []NeighbourOrder
    OBVIOUS
  <1> DEFINE Orders == \A c \in NonRoot : DownOrder(c) /\ UpOrder(c)
             Known == TypeInv /\ RouteInv /\ QueueNumbered /\ Histories /\ Abroad
  <1>1. Init => Orders
    BY InitOrders
  <1>2. Known /\ TypeInv' /\ Orders /\ [Next]_vars => Orders'
    <2> SUFFICES ASSUME Known, TypeInv', Orders, [Next]_vars, NEW c \in NonRoot
                 PROVE  DownOrder(c)' /\ UpOrder(c)'
      BY DEF NonRoot
    <2>1. DownOrder(c) /\ UpOrder(c)
      OBVIOUS
    <2>2. DownOrder(c)'
      BY <2>1, NextDownOrder
    <2>3. UpOrder(c)'
      BY <2>1, NextUpOrder
    <2>4. QED
      BY <2>2, <2>3
  <1>3. Known /\ Orders => NeighbourOrder
    BY OrdersGive
  <1>4. OnceInv => QueueNumbered
    BY DEF OnceInv
  <1> HIDE DEF Orders
  <1>5. QED
    BY <1>1, <1>2, <1>3, <1>4, RouteInvHolds, OnceInvHolds, HistoriesHold, PTL DEF Spec

-----------------------------------------------------------------------------
(* The messages that wait in the checkpoints of a chain. *)

\* What is in a log besides the checkpoints of c that are listed.
OpenMsgs(c, log, listed) ==
  UNION {Range(log[k].msgs) : k \in {l \in DOMAIN log : <<c, l>> \notin listed}}

ListedAbove(s) == IF IsRoot(s) THEN {} ELSE ListedIn(bottomup_checkpoints[Parent(s)])

\* A checkpoint is open at s while the parent of s does not list it.
LEMMA OpenForm ==
  ASSUME NEW s, NEW log, NEW up, NEW listed,
         listed = IF IsRoot(s) THEN {} ELSE ListedIn(up)
  PROVE  \A y : y \in OpenMsgs(s, log, listed) <=>
           \E k \in DOMAIN log :
             /\ IsRoot(s) \/ \A ch \in Range(up) : <<s, k>> \notin Range(ch.children)
             /\ y \in Range(log[k].msgs)
  <1>1. ASSUME NEW l
        PROVE  (IsRoot(s) \/ \A ch \in Range(up) : <<s, l>> \notin Range(ch.children))
                 <=> <<s, l>> \notin listed
    <2>1. (\A ch \in Range(up) : <<s, l>> \notin Range(ch.children)) <=> <<s, l>> \notin ListedIn(up)
      BY DEF ListedIn, Range
    <2>2. QED
      BY <2>1
  <1>2. QED
    BY <1>1 DEF OpenMsgs

\* The messages that wait in checkpoints, now and after a step.
LEMMA BatchedIs ==
  ASSUME NEW s
  PROVE  /\ Batched(s) = OpenMsgs(s, bottomup_checkpoints[s], ListedAbove(s))
         /\ Batched(s)' = OpenMsgs(s, bottomup_checkpoints'[s], ListedAbove(s)')
  <1>1. \A y : y \in Batched(s) <=>
          \E k \in DOMAIN bottomup_checkpoints[s] :
            /\ \/ IsRoot(s)
               \/ \A ch \in Range(bottomup_checkpoints[Parent(s)]) : <<s, k>> \notin Range(ch.children)
            /\ y \in Range(bottomup_checkpoints[s][k].msgs)
    BY DEF Batched, Uncommitted
  <1>2. \A y : y \in Batched(s)' <=>
          \E k \in DOMAIN bottomup_checkpoints'[s] :
            /\ \/ IsRoot(s)
               \/ \A ch \in Range(bottomup_checkpoints'[Parent(s)]) : <<s, k>> \notin Range(ch.children)
            /\ y \in Range(bottomup_checkpoints'[s][k].msgs)
    BY DEF Batched, Uncommitted
  <1>3. PICK log, up, listed : /\ log = bottomup_checkpoints[s] /\ up = bottomup_checkpoints[Parent(s)]
                               /\ listed = ListedAbove(s)
    OBVIOUS
  <1>4. \A y : y \in OpenMsgs(s, log, listed) <=> y \in Batched(s)
    <2>1. listed = IF IsRoot(s) THEN {} ELSE ListedIn(up)
      BY <1>3 DEF ListedAbove
    <2>2. QED
      BY <1>1, <1>3, <2>1, OpenForm
  <1>5. PICK log2, up2, listed2 : /\ log2 = bottomup_checkpoints'[s] /\ up2 = bottomup_checkpoints'[Parent(s)]
                                  /\ listed2 = ListedAbove(s)'
    OBVIOUS
  <1>6. \A y : y \in OpenMsgs(s, log2, listed2) <=> y \in Batched(s)'
    <2>1. listed2 = IF IsRoot(s) THEN {} ELSE ListedIn(up2)
      BY <1>5 DEF ListedAbove
    <2>2. QED
      BY <1>2, <1>5, <2>1, OpenForm
  <1>7. OpenMsgs(s, log, listed) = Batched(s)
    <2>1. \A y : y \in OpenMsgs(s, log, listed) <=> y \in Batched(s)
      BY <1>4
    <2>2. QED
      BY <2>1
  <1>8. OpenMsgs(s, log2, listed2) = Batched(s)'
    <2>1. \A y : y \in OpenMsgs(s, log2, listed2) <=> y \in Batched(s)'
      BY <1>6
    <2>2. QED
      BY <2>1
  <1>9. QED
    BY <1>3, <1>5, <1>7, <1>8

\* There are finitely many of them.
LEMMA OpenFinite ==
  ASSUME NEW log, WindowLog(log), NEW c, NEW listed
  PROVE  IsFiniteSet(OpenMsgs(c, log, listed)) /\ \A x \in OpenMsgs(c, log, listed) : x \in Message
  <1> DEFINE D == {l \in DOMAIN log : <<c, l>> \notin listed}
             Msgs == {Range(log[k].msgs) : k \in D}
             at == [k \in D |-> Range(log[k].msgs)]
  <1>1. IsFiniteSet(D)
    BY FS_Subset DEF WindowLog
  <1>2. at \in Surjection(D, Msgs)
    BY DEF Surjection
  <1>3. \A S \in Msgs : IsFiniteSet(S) /\ \A x \in S : x \in Message
    <2>1. ASSUME NEW k \in D PROVE IsFiniteSet(Range(log[k].msgs)) /\ \A x \in Range(log[k].msgs) : x \in Message
      <3>1. log[k].msgs \in Seq(Message)
        BY DEF WindowLog, Checkpoint
      <3>2. PICK q \in Seq(Message) : q = log[k].msgs
        BY <3>1
      <3>3. IsFiniteSet(1..Len(q)) /\ DOMAIN q = 1..Len(q) /\ \A i \in 1..Len(q) : q[i] \in Message
        BY LenProperties, ElementOfSeq, FS_Interval
      <3>4. q \in Surjection(1..Len(q), Range(q))
        BY <3>3 DEF Surjection, Range
      <3>5. IsFiniteSet(Range(q))
        BY <3>3, <3>4, FS_Surjection
      <3>6. QED
        BY <3>2, <3>3, <3>5 DEF Range
    <2>2. QED
      BY <2>1
  <1> HIDE DEF D, at
  <1>4. IsFiniteSet(Msgs)
    BY <1>1, <1>2, FS_Surjection
  <1> HIDE DEF Msgs
  <1>5. IsFiniteSet(UNION Msgs)
    BY <1>3, <1>4, FS_UNION
  <1>6. QED
    BY <1>3, <1>5 DEF OpenMsgs, Msgs, D

\* A message at the end of an open checkpoint.
LEMMA OpenPut ==
  ASSUME NEW old, WindowLog(old), NEW new, NEW w,
         DOMAIN new = DOMAIN old \union {w},
         \A k \in DOMAIN old : k # w => new[k] = old[k],
         NEW was, was = IF w \in DOMAIN old THEN old[w] ELSE EmptyCheckpoint,
         NEW x \in Message, new[w].msgs = Append(was.msgs, x),
         NEW c, NEW listed, <<c, w>> \notin listed
  PROVE  OpenMsgs(c, new, listed) = OpenMsgs(c, old, listed) \union {x}
  <1>0. was.msgs \in Seq(Message)
    <2>1. <<>> \in Seq(Message)
      BY EmptySeq
    <2>2. QED
      BY <2>1 DEF WindowLog, Checkpoint, EmptyCheckpoint
  <1>1. Range(new[w].msgs) = Range(was.msgs) \union {x}
    BY <1>0, AppendRange
  <1>2. ASSUME NEW y \in OpenMsgs(c, new, listed) PROVE y \in OpenMsgs(c, old, listed) \union {x}
    <2>1. PICK k \in DOMAIN new : <<c, k>> \notin listed /\ y \in Range(new[k].msgs)
      BY DEF OpenMsgs
    <2>2. CASE k # w
      BY <2>1, <2>2 DEF OpenMsgs
    <2>3. CASE k = w /\ w \in DOMAIN old
      BY <1>1, <2>1, <2>3 DEF OpenMsgs
    <2>4. CASE k = w /\ w \notin DOMAIN old
      <3>1. Range(was.msgs) = {}
        BY <2>4 DEF EmptyCheckpoint, Range
      <3>2. QED
        BY <1>1, <2>1, <2>4, <3>1
    <2>5. QED
      BY <2>2, <2>3, <2>4, <2>1
  <1>3. ASSUME NEW y \in OpenMsgs(c, old, listed) PROVE y \in OpenMsgs(c, new, listed)
    <2>1. PICK k \in DOMAIN old : <<c, k>> \notin listed /\ y \in Range(old[k].msgs)
      BY DEF OpenMsgs
    <2>2. y \in Range(new[k].msgs)
      BY <1>1, <2>1
    <2>3. QED
      BY <2>1, <2>2 DEF OpenMsgs
  <1>4. x \in OpenMsgs(c, new, listed)
    BY <1>1 DEF OpenMsgs
  <1>5. QED
    BY <1>2, <1>3, <1>4

\* A checkpoint is listed, and its messages are not with the others.
LEMMA OpenTaken ==
  ASSUME NEW log, NEW k, NEW c, NEW listed, <<c, k>> \notin listed,
         NEW ch, ch = IF k \in DOMAIN log THEN log[k] ELSE EmptyCheckpoint,
         \A l \in DOMAIN log : l # k /\ k \in DOMAIN log =>
           Range(log[k].msgs) \cap Range(log[l].msgs) = {}
  PROVE  /\ OpenMsgs(c, log, listed)
              = OpenMsgs(c, log, listed \union {<<c, k>>}) \union Range(ch.msgs)
         /\ OpenMsgs(c, log, listed \union {<<c, k>>}) \cap Range(ch.msgs) = {}
  <1> DEFINE listed2 == listed \union {<<c, k>>}
  <1>1. \A l : <<c, l>> \notin listed2 <=> <<c, l>> \notin listed /\ l # k
    OBVIOUS
  <1>2. k \notin DOMAIN log => Range(ch.msgs) = {}
    BY DEF EmptyCheckpoint, Range
  <1> HIDE DEF listed2
  <1>3. ASSUME NEW y \in OpenMsgs(c, log, listed)
        PROVE  y \in OpenMsgs(c, log, listed2) \union Range(ch.msgs)
    <2>1. PICK l \in DOMAIN log : <<c, l>> \notin listed /\ y \in Range(log[l].msgs)
      BY DEF OpenMsgs
    <2>2. CASE l # k
      BY <1>1, <2>1, <2>2 DEF OpenMsgs
    <2>3. QED
      BY <2>1, <2>2
  <1>4. ASSUME NEW y \in OpenMsgs(c, log, listed2)
        PROVE  y \in OpenMsgs(c, log, listed) /\ y \notin Range(ch.msgs)
    <2>1. PICK l \in DOMAIN log : <<c, l>> \notin listed2 /\ y \in Range(log[l].msgs)
      BY DEF OpenMsgs
    <2>2. QED
      BY <1>1, <1>2, <2>1 DEF OpenMsgs
  <1>5. Range(ch.msgs) \subseteq OpenMsgs(c, log, listed)
    BY <1>2 DEF OpenMsgs
  <1>6. QED
    BY <1>3, <1>4, <1>5 DEF listed2

\* Logs with the same messages, and the same checkpoints of c listed.
LEMMA OpenSame ==
  ASSUME NEW c, NEW old, NEW new, NEW listed, NEW listed2,
         \A k : (IF k \in DOMAIN new THEN new[k] ELSE EmptyCheckpoint).msgs
                  = (IF k \in DOMAIN old THEN old[k] ELSE EmptyCheckpoint).msgs,
         \A k : <<c, k>> \in listed2 <=> <<c, k>> \in listed
  PROVE  OpenMsgs(c, new, listed2) = OpenMsgs(c, old, listed)
  <1>1. \A k : k \notin DOMAIN new => Range((IF k \in DOMAIN new THEN new[k] ELSE EmptyCheckpoint).msgs) = {}
    BY DEF EmptyCheckpoint, Range
  <1>2. \A k : k \notin DOMAIN old => Range((IF k \in DOMAIN old THEN old[k] ELSE EmptyCheckpoint).msgs) = {}
    BY DEF EmptyCheckpoint, Range
  <1>3. ASSUME NEW y \in OpenMsgs(c, new, listed2) PROVE y \in OpenMsgs(c, old, listed)
    <2>1. PICK k \in DOMAIN new : <<c, k>> \notin listed2 /\ y \in Range(new[k].msgs)
      BY DEF OpenMsgs
    <2>2. k \in DOMAIN old /\ y \in Range(old[k].msgs)
      BY <1>2, <2>1
    <2>3. QED
      BY <2>1, <2>2 DEF OpenMsgs
  <1>4. ASSUME NEW y \in OpenMsgs(c, old, listed) PROVE y \in OpenMsgs(c, new, listed2)
    <2>1. PICK k \in DOMAIN old : <<c, k>> \notin listed /\ y \in Range(old[k].msgs)
      BY DEF OpenMsgs
    <2>2. k \in DOMAIN new /\ y \in Range(new[k].msgs)
      BY <1>1, <2>1
    <2>3. QED
      BY <2>1, <2>2 DEF OpenMsgs
  <1>5. QED
    BY <1>3, <1>4

\* The current window of a chain is not listed.
LEMMA WindowOpen ==
  ASSUME TypeInv, ListedPast, NEW s \in Networks
  PROVE  <<s, WindowEpoch(epoch[s])>> \notin ListedAbove(s)
  <1>1. CASE IsRoot(s)
    BY <1>1 DEF ListedAbove
  <1>2. CASE ~IsRoot(s)
    <2>0. PICK w : w = WindowEpoch(epoch[s])
      OBVIOUS
    <2>1. epoch[s] \in Nat /\ s \in NonRoot
      BY <1>2 DEF TypeInv, CountersTyped, NonRoot
    <2>2. w > epoch[s] /\ w \in Int
      BY <2>0, <2>1, WindowAhead
    <2>3. <<s, w>> \in ListedIn(bottomup_checkpoints[Parent(s)]) => w <= epoch[s]
      BY <2>1, <2>2 DEF ListedPast
    <2>4. <<s, w>> \notin ListedIn(bottomup_checkpoints[Parent(s)])
      BY <2>1, <2>2, <2>3
    <2>5. QED
      BY <1>2, <2>0, <2>4 DEF ListedAbove
  <1>3. QED
    BY <1>1, <1>2

\* A message on its way up waits in the checkpoint of the current window, as a new one.
LEMMA BatchedPut ==
  ASSUME TypeInv, Numbered, ListedPast, NEW s \in Networks, NEW m \in Message, NEW fee \in Nat,
         CommitBottomupMsg(s, m, fee)
  PROVE  /\ Batched(s)' = Batched(s) \union {Placed(m, bottomup_nonce[s])}
         /\ Placed(m, bottomup_nonce[s]) \notin Batched(s)
         /\ \A d \in Networks : d # s => Batched(d)' = Batched(d)
  <1>1. PICK w, x, n : w = WindowEpoch(epoch[s]) /\ n = bottomup_nonce[s] /\ x = Placed(m, n)
    OBVIOUS
  <1>2. PICK old, new, was, listed :
          /\ old = bottomup_checkpoints[s] /\ new = bottomup_checkpoints'[s]
          /\ was = CheckpointAt(s, w) /\ listed = ListedAbove(s)
    OBVIOUS
  <1>3. x = [m EXCEPT !.nonce = bottomup_nonce[s]] /\ BottomUpTyped
    BY <1>1 DEF Placed, TypeInv
  <1>4. /\ x \in Message
        /\ \A t \in Networks : t # s => bottomup_checkpoints'[t] = bottomup_checkpoints[t]
        /\ DOMAIN new = DOMAIN old \union {w}
        /\ new[w].msgs = Append(was.msgs, x)
        /\ \A k \in DOMAIN old : k # w => new[k] = old[k]
    BY <1>1, <1>2, <1>3, CommitBottomupIs
  <1>5. was = IF w \in DOMAIN old THEN old[w] ELSE EmptyCheckpoint
    BY <1>2 DEF CheckpointAt
  <1>6. \A t \in Networks : ListedAbove(t)' = ListedAbove(t)
    <2>1. \A t \in Networks : ListedIn(bottomup_checkpoints'[t]) = ListedIn(bottomup_checkpoints[t])
      BY <1>3, ListedKept
    <2>2. \A t \in Networks : ~IsRoot(t) => Parent(t) \in Networks
      BY NetworksAssumption DEF NonRoot
    <2>3. QED
      BY <2>1, <2>2 DEF ListedAbove
  <1>7. <<s, w>> \notin listed
    BY <1>1, <1>2, WindowOpen
  <1>8. WindowLog(old)
    BY <1>2, <1>3 DEF BottomUpTyped
  <1>9. OpenMsgs(s, new, listed) = OpenMsgs(s, old, listed) \union {x}
    BY <1>4, <1>5, <1>7, <1>8, OpenPut
  <1>10. x \notin OpenMsgs(s, old, listed)
    <2> SUFFICES ASSUME NEW k \in DOMAIN old, x \in Range(old[k].msgs) PROVE FALSE
      BY DEF OpenMsgs
    <2>1. n \in Nat /\ x.nonce = n
      BY <1>1, <1>3 DEF BottomUpTyped, Placed, Message
    <2>2. x.nonce < n
      BY <1>1, <1>2 DEF Numbered, Within
    <2>3. QED
      BY <2>1, <2>2
  <1>11. \A d \in Networks : d # s => Batched(d)' = Batched(d)
    BY <1>4, <1>6, BatchedIs
  <1>12. Batched(s)' = OpenMsgs(s, new, listed) /\ Batched(s) = OpenMsgs(s, old, listed)
    BY <1>2, <1>6, BatchedIs
  <1>13. QED
    BY <1>1, <1>9, <1>10, <1>11, <1>12

\* The checkpoint a parent executes is no longer waited for, and every other one is.
LEMMA BatchedTaken ==
  ASSUME TypeInv, Numbered, ListedPast, NEW e \in NonRoot, CommitChildCheck(e),
         NEW ch, ch = CheckpointAt(e, subnets[e].prev_epoch + CheckPeriod)
  PROVE  /\ Batched(e) = Batched(e)' \union Range(ch.msgs)
         /\ Batched(e)' \cap Range(ch.msgs) = {}
         /\ \A d \in Networks : d # e => Batched(d)' = Batched(d)
  <1>1. PICK p, k, w : p = Parent(e) /\ k = subnets[e].prev_epoch + CheckPeriod
                       /\ w = WindowEpoch(epoch[p])
    OBVIOUS
  <1>2. PICK log, listed : log = bottomup_checkpoints[e] /\ listed = ListedAbove(e)
    OBVIOUS
  <1>3. /\ p \in Networks /\ k \in Nat /\ k > subnets[e].prev_epoch
        /\ ListedIn(bottomup_checkpoints'[p]) = ListedIn(bottomup_checkpoints[p]) \union {<<e, k>>}
        /\ \A t \in Networks : t # p => bottomup_checkpoints'[t] = bottomup_checkpoints[t]
    BY <1>1, ChildListed
  <1>4. Registered(e) /\ ~IsRoot(e) /\ e \in Networks /\ e # p /\ subnets[e].prev_epoch \in Nat
    <2>1. Registered(e)
      BY DEF CommitChildCheck
    <2>2. subnets[e] \in Subnet
      BY <2>1 DEF TypeInv, SubnetsTyped, Registered, NotRegistered
    <2>3. QED
      BY <1>1, <2>1, <2>2, NotOwnParent DEF NonRoot, Subnet
  <1>5. <<e, k>> \notin listed
    <2>1. <<e, k>> \in ListedIn(bottomup_checkpoints[p]) => k <= subnets[e].prev_epoch
      BY <1>1, <1>3, <1>4 DEF ListedPast
    <2>2. <<e, k>> \notin ListedIn(bottomup_checkpoints[p])
      BY <1>3, <1>4, <2>1
    <2>3. QED
      BY <1>1, <1>2, <1>4, <2>2 DEF ListedAbove
  <1>6. ListedAbove(e)' = listed \union {<<e, k>>}
    BY <1>1, <1>2, <1>3, <1>4 DEF ListedAbove
  <1>7. ch = IF k \in DOMAIN log THEN log[k] ELSE EmptyCheckpoint
    BY <1>1, <1>2 DEF CheckpointAt
  <1>8. \A l \in DOMAIN log : l # k /\ k \in DOMAIN log =>
          Range(log[k].msgs) \cap Range(log[l].msgs) = {}
    BY <1>2, <1>4 DEF Numbered, Within
  <1>9. /\ OpenMsgs(e, log, listed) = OpenMsgs(e, log, listed \union {<<e, k>>}) \union Range(ch.msgs)
        /\ OpenMsgs(e, log, listed \union {<<e, k>>}) \cap Range(ch.msgs) = {}
    BY <1>5, <1>7, <1>8, OpenTaken
  <1>10. /\ Batched(e) = OpenMsgs(e, log, listed)
         /\ Batched(e)' = OpenMsgs(e, log, listed \union {<<e, k>>})
    BY <1>2, <1>3, <1>4, <1>6, BatchedIs
  <1>11. ASSUME NEW d \in Networks, d # e PROVE Batched(d)' = Batched(d)
    <2>1. PICK old, new, was, is : /\ old = bottomup_checkpoints[d] /\ new = bottomup_checkpoints'[d]
                                   /\ was = ListedAbove(d) /\ is = ListedAbove(d)'
      OBVIOUS
    <2>2. \A l : <<d, l>> \in is <=> <<d, l>> \in was
      <3>1. CASE IsRoot(d)
        BY <2>1, <3>1 DEF ListedAbove
      <3>2. CASE ~IsRoot(d)
        <4>1. Parent(d) \in Networks
          BY <3>2, NetworksAssumption DEF NonRoot
        <4>2. /\ was = ListedIn(bottomup_checkpoints[Parent(d)])
              /\ is = ListedIn(bottomup_checkpoints'[Parent(d)])
          BY <2>1, <3>2 DEF ListedAbove
        <4>3. is = was \/ is = was \union {<<e, k>>}
          BY <1>3, <4>1, <4>2
        <4>4. \A l : <<d, l>> # <<e, k>>
          BY <1>11
        <4>5. QED
          BY <4>3, <4>4
      <3>3. QED
        BY <3>1, <3>2
    <2>3. \A l : CheckpointAt(d, l)'.msgs = CheckpointAt(d, l).msgs
      BY ChildCheckMessages
    <2>4. \A l : (IF l \in DOMAIN new THEN new[l] ELSE EmptyCheckpoint).msgs
                   = (IF l \in DOMAIN old THEN old[l] ELSE EmptyCheckpoint).msgs
      BY <2>1, <2>3 DEF CheckpointAt
    <2>5. OpenMsgs(d, new, is) = OpenMsgs(d, old, was)
      BY <2>2, <2>4, OpenSame
    <2>6. QED
      BY <2>1, <2>5, BatchedIs
  <1>12. QED
    BY <1>9, <1>10, <1>11

-----------------------------------------------------------------------------
(* The messages that wait in the queue for a chain. *)

\* There are finitely many.
LEMMA QueuedFinite ==
  ASSUME SubnetsTyped, QueueNumbered, NEW d
  PROVE  IsFiniteSet(Queued(d)) /\ \A x \in Queued(d) : x \in Message
  <1>1. CASE Registered(d)
    <2>1. d \in NonRoot
      BY <1>1 DEF Registered
    <2>2. PICK q, n : q = subnets[d].top_down_msgs /\ n = subnets[d].topdown_nonce /\ IsQueue(q, n)
      BY <1>1, <2>1, QueueIs
    <2>3. IsFiniteSet(Rest(q, carried[d])) /\ \A x \in Rest(q, carried[d]) : x \in Message
      BY <2>2, RestTyped
    <2>4. QED
      BY <1>1, <2>2, <2>3, QueuedIs
  <1>2. CASE ~Registered(d)
    BY <1>2, QueuedIs, FS_EmptySet
  <1>3. QED
    BY <1>1, <1>2

\* A queue that nobody writes to or takes from.
LEMMA QueueKept ==
  ASSUME NEW d, Registered(d)' <=> Registered(d),
         Registered(d) => subnets'[d].top_down_msgs = subnets[d].top_down_msgs
                          /\ carried'[d] = carried[d]
  PROVE  Queued(d)' = Queued(d)
  BY QueuedIs

\* A message on its way down waits at the end of one queue, as a new one.
LEMMA QueuedPut ==
  ASSUME SubnetsTyped, QueueNumbered, NEW s \in Networks, NEW m \in Message,
         CommitTopdownMsg(s, m), UNCHANGED carried
  PROVE  \E c \in Children(s), n \in Nat :
           /\ c = Down(m.to, s) /\ Registered(c)
           /\ Queued(c)' = Queued(c) \union {Placed(m, n)}
           /\ Placed(m, n) \notin Queued(c)
           /\ \A d : d # c => Queued(d)' = Queued(d)
  <1>1. PICK c, n, x : c = Down(m.to, s) /\ n = subnets[c].topdown_nonce /\ x = Placed(m, n)
    OBVIOUS
  <1>2. /\ c \in NonRoot /\ Registered(c) /\ Registered(c)'
        /\ IsQueue(subnets[c].top_down_msgs, n) /\ x \in Message /\ x.nonce = n
        /\ PutLast(subnets[c].top_down_msgs, n, x, subnets'[c].top_down_msgs)
    BY <1>1, QueueWrites
  <1>3. c \in Children(s) /\ \A d \in NonRoot : d # c => subnets'[d] = subnets[d]
    BY <1>1, CommitTopdownIs
  <1>4. carried[c] \in Nat /\ carried[c] <= n
    BY <1>1, <1>2, QueueIs
  <1>5. PICK q, r, d : q = subnets[c].top_down_msgs /\ r = subnets'[c].top_down_msgs /\ d = carried[c]
    OBVIOUS
  <1>6. Rest(r, d) = Rest(q, d) \union {x} /\ x \notin Rest(q, d)
    BY <1>2, <1>4, <1>5, RestPut
  <1>7. Queued(c)' = Rest(r, d) /\ Queued(c) = Rest(q, d)
    BY <1>2, <1>5, QueuedIs
  <1>8. ASSUME NEW b, b # c PROVE Queued(b)' = Queued(b)
    <2>1. CASE b \in NonRoot
      BY <1>3, <1>8, <2>1, QueueKept DEF Registered
    <2>2. CASE b \notin NonRoot
      BY <2>2, QueueKept DEF Registered
    <2>3. QED
      BY <2>1, <2>2
  <1>9. n \in Nat
    BY <1>2 DEF IsQueue
  <1>10. QED
    BY <1>1, <1>2, <1>3, <1>6, <1>7, <1>8, <1>9

\* The messages of a top-down checkpoint no longer wait, and every other one does.
LEMMA QueuedTaken ==
  ASSUME TypeInv, RouteInv, QueueNumbered, NEW c \in NonRoot, NEW n, TakesNext(c, n)
  PROVE  /\ Queued(c) = Queued(c)' \union Range(NextMsgs(c, n))
         /\ Queued(c)' \cap Range(NextMsgs(c, n)) = {}
         /\ \A d : d # c => Queued(d)' = Queued(d)
  <1>1. PICK q, top, msgs, d, e : /\ q = subnets[c].top_down_msgs /\ top = subnets[c].topdown_nonce
                                  /\ msgs = NextMsgs(c, n) /\ d = carried[c] /\ e = d + n
    OBVIOUS
  <1>2. /\ carried[c] + n <= subnets[c].topdown_nonce /\ n \in Nat
        /\ carried' = [carried EXCEPT ![c] = @ + n] /\ UNCHANGED subnets
    BY NextMessages DEF bottomUp
  <1>3. Registered(c) /\ Registered(c)'
    BY <1>2 DEF TakesNext, Registered
  <1>4. IsQueue(q, top) /\ d \in Nat
    BY <1>1, <1>3, QueueIs DEF TypeInv
  <1>5. TakenFrom(q, d, n, msgs)
    BY <1>1, <1>2 DEF TakenFrom, NextMsgs
  <1>6. Rest(q, d) = Range(msgs) \union Rest(q, e) /\ Range(msgs) \cap Rest(q, e) = {}
    BY <1>1, <1>2, <1>4, <1>5, RestSplit
  <1>7. carried'[c] = e /\ \A b \in NonRoot : b # c => carried'[b] = carried[b]
    BY <1>1, <1>2 DEF TypeInv, SubnetsTyped
  <1>8. Queued(c) = Rest(q, d) /\ Queued(c)' = Rest(q, e)
    BY <1>1, <1>2, <1>3, <1>7, QueuedIs
  <1>9. ASSUME NEW b, b # c PROVE Queued(b)' = Queued(b)
    BY <1>2, <1>7, <1>9, QueueKept DEF Registered
  <1>10. QED
    BY <1>1, <1>6, <1>8, <1>9

-----------------------------------------------------------------------------
(* Every message sent is somewhere. *)

\* How many copies of m wait to be carried away from d or to d; how many have reached d;
\* and how many more all these are than d has sent.
Waiting(d, m) == NumCopies(Batched(d), m) + NumCopies(Queued(d), m)
Reached(d, m) == NumCopies(Boxed(d), m) + TimesIn(delivered[d], m)
Ahead(d, m) == Waiting(d, m) + Reached(d, m) - TimesIn(sent[d], m)

\* Over all networks nothing is lost and nothing is doubled.
Balanced == \A m \in Message : WayOpen(m) => Total([d \in Networks |-> Ahead(d, m)]) = 0

\* Another message in a set.
LEMMA CopiesPut ==
  ASSUME NEW X, IsFiniteSet(X), NEW y, y \notin X, NEW m
  PROVE  /\ NumCopies(X \union {y}, m) = NumCopies(X, m) + One(Content(y), m)
         /\ NumCopies(X, m) \in Nat /\ One(Content(y), m) \in Nat
  <1>1. X \cap {y} = {} /\ IsFiniteSet({y}) /\ NumCopies({y}, m) = One(Content(y), m)
    BY CopiesOfOne
  <1>2. NumCopies(X \union {y}, m) = NumCopies(X, m) + NumCopies({y}, m) /\ NumCopies(X, m) \in Nat
    BY <1>1, CopiesUnion
  <1>3. QED
    BY <1>1, <1>2 DEF One

\* The messages of a checkpoint: those that have arrived and those in transit.
LEMMA CopiesSplit ==
  ASSUME NEW msgs \in Seq(Message), \A i, j \in DOMAIN msgs : msgs[i] = msgs[j] => i = j,
         NEW s, NEW m \in Message
  PROVE  /\ NumCopies(Range(msgs), m)
              = NumCopies(Transit(s, msgs), m) + TimesIn(Contents(Own(s, msgs)), m)
         /\ IsFiniteSet(Range(msgs)) /\ IsFiniteSet(Transit(s, msgs))
         /\ NumCopies(Transit(s, msgs), m) \in Nat /\ TimesIn(Contents(Own(s, msgs)), m) \in Nat
  <1> DEFINE T == {x \in Range(msgs) : x.to = s}
  <1>1. IsFiniteSet(Range(msgs)) /\ NumCopies(Range(msgs), m) = TimesIn(Contents(msgs), m)
    BY DistinctCopies
  <1>2. IsFiniteSet(Transit(s, msgs))
    BY <1>1, FS_Subset DEF Transit
  <1>3. \A x \in Range(msgs) : x \in Message /\ Content(x).to = x.to
    BY ContentFields, ElementOfSeq DEF Range
  <1>4. CASE m.to = s
    <2>1. \A x \in Range(msgs) : Content(x) \in {m} => x \in T
      BY <1>3, <1>4
    <2> HIDE DEF T
    <2>2. Only(Contents(Only(msgs, T)), {m}) = Only(Contents(msgs), {m})
      BY <2>1, OnlyContents
    <2>3. Own(s, msgs) = Only(msgs, T)
      BY DEF Own, T
    <2>4. TimesIn(Contents(Own(s, msgs)), m) = TimesIn(Contents(msgs), m)
      BY <2>2, <2>3 DEF TimesIn
    <2>5. {x \in Transit(s, msgs) : Content(x) = m} = {}
      BY <1>3, <1>4 DEF Transit
    <2>6. NumCopies(Transit(s, msgs), m) = 0
      BY <2>5, FS_EmptySet DEF NumCopies
    <2>7. NumCopies(Range(msgs), m) \in Nat
      BY <1>1, CopiesType
    <2>8. QED
      BY <1>1, <1>2, <2>4, <2>6, <2>7
  <1>5. CASE m.to # s
    <2>1. {x \in Transit(s, msgs) : Content(x) = m} = {x \in Range(msgs) : Content(x) = m}
      BY <1>3, <1>5 DEF Transit
    <2>2. NumCopies(Range(msgs), m) = NumCopies(Transit(s, msgs), m)
      BY <2>1 DEF NumCopies
    <2>3. PICK q \in Seq(Message) : q = Own(s, msgs)
      BY OwnType
    <2>4. \A x \in Range(q) : x \in Message /\ x.to = s
      BY <1>3, <2>3, OwnRange
    <2>5. \A x \in Range(Contents(q)) : x \notin {m}
      <3>1. DOMAIN Contents(q) = DOMAIN q /\ \A i \in DOMAIN q : Contents(q)[i] = Content(q[i])
        BY DEF Contents
      <3>2. \A i \in DOMAIN q : q[i] \in Message /\ q[i].to = s
        BY <2>4 DEF Range
      <3>3. \A i \in DOMAIN q : Content(q[i]).to = s
        BY <3>2, ContentFields
      <3>4. QED
        BY <1>5, <3>1, <3>3 DEF Range
    <2>6. Contents(q) \in Seq(Message)
      BY ContentsType
    <2>7. TimesIn(Contents(q), m) = 0
      <3>1. Only(Contents(q), {m}) = <<>>
        BY <2>5, <2>6, OnlyNone
      <3>2. QED
        BY <3>1 DEF TimesIn
    <2>8. NumCopies(Range(msgs), m) \in Nat
      BY <1>1, CopiesType
    <2>9. QED
      BY <1>1, <1>2, <2>2, <2>3, <2>7, <2>8
  <1>6. QED
    BY <1>4, <1>5

\* What one network gains another one loses.
ShiftOf(f, g, a, b, v) ==
  \A d \in Networks : g[d] = f[d] + (IF d = b THEN v ELSE 0) - (IF d = a THEN v ELSE 0)

\* The sum stays the same.
LEMMA Moved ==
  ASSUME NEW f \in [Networks -> Int], NEW g \in [Networks -> Int],
         NEW a \in Networks, NEW b \in Networks, NEW v \in Int, ShiftOf(f, g, a, b, v)
  PROVE  Total(g) = Total(f)
  <1> DEFINE h == [f EXCEPT ![b] = @ + v]
  <1>1. IsFiniteSet(Networks)
    BY NetworksAssumption
  <1>2. h \in [Networks -> Int] /\ h[b] = f[b] + v /\ \A d \in Networks : d # b => h[d] = f[d]
    OBVIOUS
  <1> HIDE DEF h
  <1>3. g[a] = h[a] - v /\ \A d \in Networks : d # a => g[d] = h[d]
    BY <1>2 DEF ShiftOf
  <1>4. SumFunction(h) = SumFunction(f) - f[b] + h[b]
    BY <1>1, <1>2, LedgerUpdate
  <1>5. SumFunction(g) = SumFunction(h) - h[a] + g[a]
    BY <1>1, <1>2, <1>3, LedgerUpdate
  <1>6. /\ SumFunction(f) \in Int /\ SumFunction(h) \in Int /\ SumFunction(g) \in Int
        /\ f[b] \in Int /\ h[b] \in Int /\ h[a] \in Int /\ g[a] \in Int
    BY <1>1, <1>2, LedgerTotal
  <1>7. QED
    BY <1>2, <1>3, <1>4, <1>5, <1>6 DEF Total

\* What there is of messages is finite.
LEMMA PlacesFinite ==
  ASSUME TypeInv, OnceInv, NEW d \in Networks
  PROVE  IsFiniteSet(Batched(d)) /\ IsFiniteSet(Queued(d)) /\ IsFiniteSet(Boxed(d))
  <1>1. IsFiniteSet(Batched(d))
    <2>1. PICK log, listed : /\ log = bottomup_checkpoints[d] /\ listed = ListedAbove(d)
                             /\ WindowLog(log)
      BY DEF TypeInv, BottomUpTyped
    <2>2. IsFiniteSet(OpenMsgs(d, log, listed))
      BY <2>1, OpenFinite
    <2>3. QED
      BY <2>1, <2>2, BatchedIs
  <1>2. IsFiniteSet(Queued(d))
    BY QueuedFinite DEF TypeInv, OnceInv
  <1>3. IsFiniteSet(Boxed(d))
    BY BoxedFinite DEF OnceInv, BoxInv, BoxAt
  <1>4. QED
    BY <1>1, <1>2, <1>3

\* All of these are numbers.
LEMMA AheadTyped ==
  ASSUME TypeInv, OnceInv, Histories, NEW d \in Networks, NEW m
  PROVE  /\ NumCopies(Batched(d), m) \in Nat /\ NumCopies(Queued(d), m) \in Nat
         /\ NumCopies(Boxed(d), m) \in Nat /\ TimesIn(delivered[d], m) \in Nat
         /\ TimesIn(sent[d], m) \in Nat /\ Waiting(d, m) \in Nat
         /\ Reached(d, m) \in Nat /\ Ahead(d, m) \in Int
  <1>1. NumCopies(Batched(d), m) \in Nat /\ NumCopies(Queued(d), m) \in Nat /\ NumCopies(Boxed(d), m) \in Nat
    BY PlacesFinite, CopiesType
  <1>2. delivered[d] \in Seq(Message) /\ sent[d] \in Seq(Message)
    BY DEF Histories
  <1>3. TimesIn(delivered[d], m) \in Nat /\ TimesIn(sent[d], m) \in Nat
    BY <1>2, TimesConcat
  <1>4. QED
    BY <1>1, <1>3 DEF Waiting, Reached, Ahead

\* A message that is pushed waits in one more place.
LEMMA PushedWaits ==
  ASSUME TypeInv, OnceInv, ListedPast, Histories, NEW s \in Networks, NEW m \in Message, Pushed(s, m),
         UNCHANGED <<epoch, carried>>
  PROVE  /\ \E t \in Networks : \A d \in Networks : \A x :
              Waiting(d, x)' = Waiting(d, x) + (IF d = t THEN One(Content(m), x) ELSE 0)
         /\ \A c \in NonRoot : Registered(c)' <=> Registered(c)
  <1>1. CASE /\ \E fee \in Nat : CommitBottomupMsg(s, m, fee)
             /\ UNCHANGED subnets
    <2>1. PICK fee \in Nat : CommitBottomupMsg(s, m, fee)
      BY <1>1
    <2>2. bottomup_nonce[s] \in Nat
      BY DEF TypeInv, BottomUpTyped
    <2>3. PICK y : /\ y = Placed(m, bottomup_nonce[s]) /\ Content(y) = Content(m)
                   /\ Batched(s)' = Batched(s) \union {y} /\ y \notin Batched(s)
                   /\ \A d \in Networks : d # s => Batched(d)' = Batched(d)
      BY <2>1, <2>2, BatchedPut, ContentFields DEF OnceInv
    <2>4. \A d \in Networks : Queued(d)' = Queued(d)
      BY <1>1, QueueKept DEF Registered
    <2>5. ASSUME NEW d \in Networks, NEW x
          PROVE  Waiting(d, x)' = Waiting(d, x) + (IF d = s THEN One(Content(m), x) ELSE 0)
      <3>1. CASE d = s
        <4>1. /\ NumCopies(Batched(s) \union {y}, x) = NumCopies(Batched(s), x) + One(Content(y), x)
              /\ One(Content(y), x) \in Nat
          <5>1. PICK X : X = Batched(s)
            OBVIOUS
          <5>2. IsFiniteSet(X) /\ y \notin X
            BY <2>3, <5>1, PlacesFinite
          <5>3. NumCopies(X \union {y}, x) = NumCopies(X, x) + One(Content(y), x)
                /\ One(Content(y), x) \in Nat
            BY <5>2, CopiesPut
          <5>4. QED
            BY <5>1, <5>3
        <4>2. NumCopies(Batched(s), x) \in Nat /\ NumCopies(Queued(s), x) \in Nat
          BY AheadTyped
        <4>3. Waiting(s, x)' = NumCopies(Batched(s) \union {y}, x) + NumCopies(Queued(s), x)
          BY <2>3, <2>4 DEF Waiting
        <4>4. Waiting(s, x) = NumCopies(Batched(s), x) + NumCopies(Queued(s), x)
          BY DEF Waiting
        <4>5. Waiting(s, x)' = Waiting(s, x) + One(Content(y), x)
          BY <4>1, <4>2, <4>3, <4>4
        <4>6. QED
          BY <2>3, <3>1, <4>5
      <3>2. CASE d # s
        <4>1. Waiting(d, x)' = Waiting(d, x)
          BY <2>3, <2>4, <3>2 DEF Waiting
        <4>2. QED
          BY <3>2, <4>1, AheadTyped
      <3>3. QED
        BY <3>1, <3>2
    <2>6. QED
      BY <1>1, <2>5 DEF Registered
  <1>2. CASE CommitTopdownMsg(s, m) /\ UNCHANGED bottomUp
    <2>1. PICK c \in Children(s), n \in Nat :
            /\ c = Down(m.to, s) /\ Registered(c)
            /\ Queued(c)' = Queued(c) \union {Placed(m, n)}
            /\ Placed(m, n) \notin Queued(c)
            /\ \A d : d # c => Queued(d)' = Queued(d)
      BY <1>2, QueuedPut DEF TypeInv, OnceInv
    <2>2. PICK y : /\ y = Placed(m, n) /\ Content(y) = Content(m)
      BY ContentFields
    <2>3. c \in Networks /\ c \in NonRoot
      BY NetworksAreIDs DEF Children
    <2>4. \A d \in Networks : Batched(d)' = Batched(d)
      BY <1>2 DEF bottomUp, Batched, Uncommitted
    <2>5. ASSUME NEW d \in Networks, NEW x
          PROVE  Waiting(d, x)' = Waiting(d, x) + (IF d = c THEN One(Content(m), x) ELSE 0)
      <3>1. CASE d = c
        <4>1. /\ NumCopies(Queued(c) \union {y}, x) = NumCopies(Queued(c), x) + One(Content(y), x)
              /\ One(Content(y), x) \in Nat
          <5>1. PICK X : X = Queued(c)
            OBVIOUS
          <5>2. IsFiniteSet(X) /\ y \notin X
            BY <2>1, <2>2, <2>3, <5>1, PlacesFinite
          <5>3. NumCopies(X \union {y}, x) = NumCopies(X, x) + One(Content(y), x)
                /\ One(Content(y), x) \in Nat
            BY <5>2, CopiesPut
          <5>4. QED
            BY <5>1, <5>3
        <4>2. NumCopies(Batched(c), x) \in Nat /\ NumCopies(Queued(c), x) \in Nat
          BY <2>3, AheadTyped
        <4>3. Waiting(c, x)' = NumCopies(Batched(c), x) + NumCopies(Queued(c) \union {y}, x)
          BY <2>1, <2>2, <2>3, <2>4 DEF Waiting
        <4>4. Waiting(c, x) = NumCopies(Batched(c), x) + NumCopies(Queued(c), x)
          BY DEF Waiting
        <4>5. Waiting(c, x)' = Waiting(c, x) + One(Content(y), x)
          BY <4>1, <4>2, <4>3, <4>4
        <4>6. QED
          BY <2>2, <3>1, <4>5
      <3>2. CASE d # c
        <4>1. Waiting(d, x)' = Waiting(d, x)
          BY <2>1, <2>4, <3>2 DEF Waiting
        <4>2. QED
          BY <3>2, <4>1, AheadTyped
      <3>3. QED
        BY <3>1, <3>2
    <2>6. \A b \in NonRoot : Registered(b)' <=> Registered(b)
      <3>1. /\ subnets'[c].registered
            /\ \A d \in NonRoot : d # c => subnets'[d] = subnets[d]
        BY <1>2, <2>1, CommitTopdownIs DEF TypeInv
      <3>2. QED
        BY <2>1, <3>1 DEF Registered
    <2>7. QED
      BY <2>3, <2>5, <2>6
  <1>3. QED
    BY <1>1, <1>2 DEF Pushed

\* What one network is ahead by more, another one is ahead by less.
Shifts(m) ==
  \E a, b \in Networks : \E v \in Int : \A d \in Networks :
    Ahead(d, m)' = Ahead(d, m) + (IF d = b THEN v ELSE 0) - (IF d = a THEN v ELSE 0)

\* Shifts keep the balance.
LEMMA BalanceKept ==
  ASSUME TypeInv, OnceInv, Histories, Balanced,
         \A m \in Message : WayOpen(m)' => WayOpen(m) /\ Shifts(m)
  PROVE  Balanced'
  <1> SUFFICES ASSUME NEW m \in Message, WayOpen(m)'
               PROVE  Total([d \in Networks |-> Ahead(d, m)']) = 0
    BY DEF Balanced
  <1>1. WayOpen(m) /\ Shifts(m)
    OBVIOUS
  <1>2. PICK f, g : f = [d \in Networks |-> Ahead(d, m)] /\ g = [d \in Networks |-> Ahead(d, m)']
    OBVIOUS
  <1>3. PICK a \in Networks, b \in Networks, v \in Int : \A d \in Networks :
          Ahead(d, m)' = Ahead(d, m) + (IF d = b THEN v ELSE 0) - (IF d = a THEN v ELSE 0)
    BY <1>1 DEF Shifts
  <1>4. f \in [Networks -> Int]
    BY <1>2, AheadTyped
  <1>5. \A d \in Networks : g[d] = f[d] + (IF d = b THEN v ELSE 0) - (IF d = a THEN v ELSE 0)
    BY <1>2, <1>3
  <1>6. g \in [Networks -> Int] /\ ShiftOf(f, g, a, b, v)
    <2>1. \A d \in Networks : f[d] \in Int
      BY <1>4
    <2>2. \A d \in Networks : g[d] \in Int
      BY <1>5, <2>1
    <2>3. QED
      BY <1>2, <1>5, <2>2 DEF ShiftOf
  <1>7. Total(g) = Total(f)
    BY <1>4, <1>6, Moved
  <1>8. Total(f) = 0
    BY <1>1, <1>2 DEF Balanced
  <1>9. QED
    BY <1>2, <1>7, <1>8

\* A message that is sent waits where it was pushed.
LEMMA SendsShifts ==
  ASSUME TypeInv, OnceInv, ListedPast, Histories, NEW s \in Networks, NEW m \in Message,
         SendsOne(s, m), NEW x \in Message
  PROVE  Shifts(x)
  <1>1. /\ Pushed(s, m) /\ m.nonce = 0 /\ UNCHANGED <<epoch, carried, postbox, delivered>>
        /\ sent' = [sent EXCEPT ![s] = Append(@, m)]
    BY DEF SendsOne
  <1>2. PICK t \in Networks : \A d \in Networks : 
          Waiting(d, x)' = Waiting(d, x) + (IF d = t THEN One(Content(m), x) ELSE 0)
    BY <1>1, PushedWaits
  <1>3. PICK v \in Int : v = One(m, x)
    BY DEF One
  <1>4. Content(m) = m
    BY <1>1, ContentFields
  <1>5. ASSUME NEW d \in Networks
        PROVE  Ahead(d, x)' = Ahead(d, x) + (IF d = t THEN v ELSE 0) - (IF d = s THEN v ELSE 0)
    <2>1. Boxed(d)' = Boxed(d) /\ delivered'[d] = delivered[d]
      BY <1>1 DEF Boxed
    <2>2. TimesIn(sent'[d], x) = TimesIn(sent[d], x) + (IF d = s THEN v ELSE 0)
      <3>1. TimesIn(sent[d], x) \in Nat
        BY AheadTyped
      <3>2. CASE d = s
        <4>1. sent[s] \in Seq(Message) /\ sent'[s] = Append(sent[s], m)
          BY <1>1 DEF Histories
        <4>2. QED
          BY <1>3, <3>2, <4>1, TimesAppend
      <3>3. CASE d # s
        <4>1. sent'[d] = sent[d]
          BY <1>1, <3>3 DEF Histories
        <4>2. QED
          BY <3>1, <3>3, <4>1
      <3>4. QED
        BY <3>2, <3>3
    <2>3. PICK A, B, C, D \in Int :
            /\ A = Waiting(d, x) /\ B = NumCopies(Boxed(d), x)
            /\ C = TimesIn(delivered[d], x) /\ D = TimesIn(sent[d], x)
      <3>1. /\ Waiting(d, x) \in Nat /\ NumCopies(Boxed(d), x) \in Nat
            /\ TimesIn(delivered[d], x) \in Nat /\ TimesIn(sent[d], x) \in Nat
        BY AheadTyped
      <3>2. QED
        BY <3>1
    <2>4. Reached(d, x) = B + C /\ Reached(d, x)' = B + C
      BY <2>1, <2>3 DEF Reached
    <2>5. Ahead(d, x)' = (A + (IF d = t THEN v ELSE 0)) + (B + C) - (D + (IF d = s THEN v ELSE 0))
      BY <1>2, <1>3, <1>4, <2>2, <2>3, <2>4 DEF Ahead
    <2>6. Ahead(d, x) = A + (B + C) - D
      BY <2>3, <2>4 DEF Ahead
    <2>7. QED
      BY <2>5, <2>6
  <1>6. QED
    BY <1>5 DEF Shifts

\* A message that is propagated leaves the postbox and waits where it was pushed.
LEMMA PassesShifts ==
  ASSUME TypeInv, OnceInv, ListedPast, Histories, NEW s \in Networks, NEW i \in postbox[s],
         PassesOn(s, i), i.msg \in Message, NEW x \in Message
  PROVE  Shifts(x)
  <1>0. PICK m \in Message : m = i.msg
    OBVIOUS
  <1>1. /\ Pushed(s, m) /\ UNCHANGED <<epoch, carried, sent, delivered>>
        /\ postbox' = [postbox EXCEPT ![s] = @ \ {i}]
    BY <1>0 DEF PassesOn
  <1>2. PICK t \in Networks : \A d \in Networks : 
          Waiting(d, x)' = Waiting(d, x) + (IF d = t THEN One(Content(m), x) ELSE 0)
    BY <1>1, PushedWaits
  <1>3. PICK v \in Int : v = One(Content(m), x)
    BY DEF One
  <1>4. /\ Boxed(s)' = Boxed(s) \ {m} /\ m \in Boxed(s)
        /\ \A d \in Networks : d # s => Boxed(d)' = Boxed(d)
    BY <1>0, <1>1, BoxLoses DEF OnceInv, Boxed
  <1>5. ASSUME NEW d \in Networks
        PROVE  Ahead(d, x)' = Ahead(d, x) + (IF d = t THEN v ELSE 0) - (IF d = s THEN v ELSE 0)
    <2>1. PICK A, B, C, D \in Int :
            /\ A = Waiting(d, x) /\ B = NumCopies(Boxed(d), x)
            /\ C = TimesIn(delivered[d], x) /\ D = TimesIn(sent[d], x)
      <3>1. /\ Waiting(d, x) \in Nat /\ NumCopies(Boxed(d), x) \in Nat
            /\ TimesIn(delivered[d], x) \in Nat /\ TimesIn(sent[d], x) \in Nat
        BY AheadTyped
      <3>2. QED
        BY <3>1
    <2>2. NumCopies(Boxed(d)', x) = B - (IF d = s THEN v ELSE 0)
      <3>1. CASE d = s
        <4>1. PICK X : X = Boxed(s) \ {m}
          OBVIOUS
        <4>2. IsFiniteSet(X) /\ m \notin X /\ Boxed(s) = X \union {m}
          BY <1>4, <4>1, PlacesFinite, FS_Subset
        <4>3. NumCopies(X \union {m}, x) = NumCopies(X, x) + v /\ NumCopies(X, x) \in Nat
          BY <1>3, <4>2, CopiesPut
        <4>4. NumCopies(Boxed(s)', x) = NumCopies(X, x) /\ B = NumCopies(X \union {m}, x)
          BY <1>4, <2>1, <3>1, <4>1, <4>2
        <4>5. NumCopies(Boxed(s)', x) = B - v
          BY <4>3, <4>4
        <4>6. QED
          BY <3>1, <4>5
      <3>2. CASE d # s
        BY <1>4, <2>1, <3>2
      <3>3. QED
        BY <3>1, <3>2
    <2>3. Reached(d, x) = B + C /\ Reached(d, x)' = (B - (IF d = s THEN v ELSE 0)) + C
      BY <1>1, <2>1, <2>2 DEF Reached
    <2>4. Ahead(d, x)' = (A + (IF d = t THEN v ELSE 0)) + ((B - (IF d = s THEN v ELSE 0)) + C) - D
      BY <1>1, <1>2, <1>3, <2>1, <2>3 DEF Ahead
    <2>5. Ahead(d, x) = A + (B + C) - D
      BY <2>1, <2>3 DEF Ahead
    <2>6. QED
      BY <2>4, <2>5
  <1>6. QED
    BY <1>5 DEF Shifts

\* What a gateway does with the messages of a checkpoint: all of them are with it now,
\* in its postbox or delivered.
LEMMA ApplyGains ==
  ASSUME TypeInv, OnceInv, Histories, NEW s \in Networks, NEW msgs \in Seq(Message), NEW fee,
         Apply(s, msgs, fee), \A i, j \in DOMAIN msgs : msgs[i] = msgs[j] => i = j,
         Boxed(s) \cap Transit(s, msgs) = {}, NEW x \in Message
  PROVE  /\ NumCopies(Range(msgs), x) \in Nat /\ IsFiniteSet(Range(msgs)) /\ UNCHANGED sent
         /\ \A d \in Networks :
              Reached(d, x)' = Reached(d, x) + (IF d = s THEN NumCopies(Range(msgs), x) ELSE 0)
  <1>1. PICK out, own : out = Transit(s, msgs) /\ own = Contents(Own(s, msgs))
    OBVIOUS
  <1>2. /\ NumCopies(Range(msgs), x) = NumCopies(out, x) + TimesIn(own, x)
        /\ IsFiniteSet(Range(msgs)) /\ IsFiniteSet(out)
        /\ NumCopies(out, x) \in Nat /\ TimesIn(own, x) \in Nat
    BY <1>1, CopiesSplit
  <1>3. /\ delivered' = [delivered EXCEPT ![s] = @ \o own] /\ sent' = sent
        /\ own \in Seq(Message)
    BY <1>1, ApplyDelivers
  <1>4. postbox' = [postbox EXCEPT ![s] = @ \union InTransit(s, msgs)]
    BY DEF Apply
  <1>5. IsFiniteSet(postbox[s]) /\ \A y \in out : y \in Message
    <2>1. \A y \in Range(msgs) : y \in Message
      BY ElementOfSeq DEF Range
    <2>2. QED
      BY <1>1, <2>1 DEF Transit, OnceInv, BoxInv, BoxAt
  <1>6. /\ Boxed(s)' = Boxed(s) \union out
        /\ \A d \in Networks : d # s => Boxed(d)' = Boxed(d)
    BY <1>1, <1>2, <1>4, <1>5, BoxGrows
  <1>7. ASSUME NEW d \in Networks
        PROVE  Reached(d, x)' = Reached(d, x) + (IF d = s THEN NumCopies(Range(msgs), x) ELSE 0)
    <2>1. NumCopies(Boxed(d), x) \in Nat /\ TimesIn(delivered[d], x) \in Nat
      BY AheadTyped
    <2>2. CASE d = s
      <3>1. PICK X : X = Boxed(s)
        OBVIOUS
      <3>2. IsFiniteSet(X) /\ X \cap out = {}
        BY <1>1, <3>1, PlacesFinite
      <3>3. NumCopies(X \union out, x) = NumCopies(X, x) + NumCopies(out, x)
        BY <1>2, <3>2, CopiesUnion
      <3>4. PICK q \in Seq(Message) : q = delivered[s]
        BY DEF Histories
      <3>5. delivered'[s] = q \o own
        BY <1>3, <3>4 DEF Histories
      <3>6. TimesIn(q \o own, x) = TimesIn(q, x) + TimesIn(own, x)
        BY <1>3, TimesConcat
      <3>7. /\ NumCopies(Boxed(s)', x) = NumCopies(Boxed(s), x) + NumCopies(out, x)
            /\ TimesIn(delivered'[s], x) = TimesIn(delivered[s], x) + TimesIn(own, x)
        BY <1>6, <3>1, <3>3, <3>4, <3>5, <3>6
      <3>8. QED
        BY <1>2, <2>1, <2>2, <3>7 DEF Reached
    <2>3. CASE d # s
      <3>1. Boxed(d)' = Boxed(d) /\ delivered'[d] = delivered[d]
        BY <1>3, <1>6, <2>3 DEF Histories
      <3>2. QED
        BY <2>1, <2>3, <3>1 DEF Reached
    <2>4. QED
      BY <2>2, <2>3
  <1>8. NumCopies(Range(msgs), x) \in Nat
    BY <1>2
  <1>9. QED
    BY <1>2, <1>3, <1>7, <1>8

\* A step that sends nothing.
LEMMA AheadMoves ==
  ASSUME TypeInv, OnceInv, Histories, NEW d \in Networks, NEW x, NEW v \in Int, NEW u \in Int,
         UNCHANGED sent, Waiting(d, x)' = Waiting(d, x) - u, Reached(d, x)' = Reached(d, x) + v
  PROVE  Ahead(d, x)' = Ahead(d, x) + v - u
  <1>1. Waiting(d, x) \in Nat /\ Reached(d, x) \in Nat /\ TimesIn(sent[d], x) \in Nat
    BY AheadTyped
  <1>2. Ahead(d, x)' = Waiting(d, x)' + Reached(d, x)' - TimesIn(sent[d], x)
    BY DEF Ahead
  <1>3. Ahead(d, x) = Waiting(d, x) + Reached(d, x) - TimesIn(sent[d], x)
    BY DEF Ahead
  <1>4. QED
    BY <1>1, <1>2, <1>3

\* A top-down checkpoint: what waited for c is with c now.
LEMMA TakesShifts ==
  ASSUME TypeInv, RouteInv, OnceInv, Histories, NEW c \in NonRoot, NEW n, TakesNext(c, n),
         NEW x \in Message
  PROVE  Shifts(x)
  <1>1. PICK msgs : msgs = NextMsgs(c, n)
    OBVIOUS
  <1>2. /\ msgs \in Seq(Message) /\ c \in Networks /\ Apply(c, msgs, 0)
        /\ UNCHANGED <<epoch, bottomUp, subnets>>
    BY <1>1, NextMessages
  <1>3. /\ Boxed(c) \cap Transit(c, msgs) = {} /\ carried[c] \in Nat
        /\ \A i \in 1..n : msgs[i].nonce = carried[c] + i - 1
    BY <1>1, QueueTaken DEF OnceInv, TypeInv, SubnetsTyped
  <1>4. \A i, j \in DOMAIN msgs : msgs[i] = msgs[j] => i = j
    <2>1. DOMAIN msgs = 1..n
      BY <1>1 DEF NextMsgs
    <2>2. ASSUME NEW i \in 1..n, NEW j \in 1..n, msgs[i] = msgs[j] PROVE i = j
      <3>1. carried[c] + i - 1 = carried[c] + j - 1
        BY <1>3, <2>2
      <3>2. QED
        BY <1>3, <3>1
    <2>3. QED
      BY <2>1, <2>2
  <1>5. PICK N \in Nat : N = NumCopies(Range(msgs), x)
    BY <1>2, <1>3, <1>4, ApplyGains
  <1>6. /\ UNCHANGED sent /\ IsFiniteSet(Range(msgs))
        /\ \A d \in Networks : Reached(d, x)' = Reached(d, x) + (IF d = c THEN N ELSE 0)
    BY <1>2, <1>3, <1>4, <1>5, ApplyGains
  <1>7. /\ Queued(c) = Queued(c)' \union Range(msgs) /\ Queued(c)' \cap Range(msgs) = {}
        /\ \A d : d # c => Queued(d)' = Queued(d)
    BY <1>1, QueuedTaken DEF OnceInv
  <1>8. \A d \in Networks : Batched(d)' = Batched(d)
    BY <1>2 DEF bottomUp, Batched, Uncommitted
  <1>9. ASSUME NEW d \in Networks PROVE Waiting(d, x)' = Waiting(d, x) - (IF d = c THEN N ELSE 0)
    <2>1. CASE d = c
      <3>1. PICK X : X = Queued(c)'
        OBVIOUS
      <3>2. IsFiniteSet(X)
        BY <1>2, <1>7, <3>1, PlacesFinite, FS_Subset
      <3>3. NumCopies(X \union Range(msgs), x) = NumCopies(X, x) + N /\ NumCopies(X, x) \in Nat
        BY <1>5, <1>6, <1>7, <3>1, <3>2, CopiesUnion
      <3>4. /\ Waiting(c, x)' = NumCopies(Batched(c), x) + NumCopies(X, x)
            /\ Waiting(c, x) = NumCopies(Batched(c), x) + NumCopies(X \union Range(msgs), x)
        BY <1>2, <1>7, <1>8, <3>1 DEF Waiting
      <3>5. NumCopies(Batched(c), x) \in Nat
        BY <1>2, AheadTyped
      <3>6. QED
        BY <2>1, <3>3, <3>4, <3>5
    <2>2. CASE d # c
      <3>1. Waiting(d, x)' = Waiting(d, x)
        BY <1>7, <1>8, <2>2 DEF Waiting
      <3>2. QED
        BY <2>2, <3>1, AheadTyped
    <2>3. QED
      BY <2>1, <2>2
  <1>10. ASSUME NEW d \in Networks PROVE Ahead(d, x)' = Ahead(d, x) + 0 - 0
    <2>1. PICK v \in Int : v = IF d = c THEN N ELSE 0
      BY <1>5
    <2>2. Ahead(d, x)' = Ahead(d, x) + v - v
      BY <1>6, <1>9, <2>1, AheadMoves
    <2>3. QED
      BY <2>2, AheadTyped
  <1>11. QED
    BY <1>2, <1>10 DEF Shifts

\* A child's checkpoint: what waited with the child is with its parent now.
LEMMA ChildShifts ==
  ASSUME TypeInv, RouteInv, OnceInv, ListedPast, Histories, NEW e \in NonRoot, CommitChildCheck(e),
         NEW x \in Message
  PROVE  Shifts(x)
  <1>1. PICK p, k, ch, msgs : /\ p = Parent(e) /\ k = subnets[e].prev_epoch + CheckPeriod
                              /\ ch = CheckpointAt(e, k) /\ msgs = ch.msgs
    OBVIOUS
  <1>2. /\ p \in Networks /\ e \in Networks /\ ch \in Checkpoint /\ Apply(p, msgs, ch.fee)
        /\ UNCHANGED <<epoch, carried>>
    BY <1>1, ChildCheckIs
  <1>3. msgs \in Seq(Message)
    BY <1>1, <1>2 DEF Checkpoint
  <1>4. Boxed(p) \cap Transit(p, msgs) = {}
    BY <1>1, ChildTaken DEF OnceInv
  <1>5. \A i, j \in DOMAIN msgs : msgs[i] = msgs[j] => i = j
    <2>1. EnsureCrossMsgsSorted(ch)
      BY <1>1 DEF CommitChildCheck
    <2>2. QED
      BY <1>1, <1>2, <2>1, SortedDistinct
  <1>6. PICK N \in Nat : N = NumCopies(Range(msgs), x)
    BY <1>2, <1>3, <1>4, <1>5, ApplyGains
  <1>7. /\ UNCHANGED sent /\ IsFiniteSet(Range(msgs))
        /\ \A d \in Networks : Reached(d, x)' = Reached(d, x) + (IF d = p THEN N ELSE 0)
    BY <1>2, <1>3, <1>4, <1>5, <1>6, ApplyGains
  <1>8. /\ Batched(e) = Batched(e)' \union Range(msgs) /\ Batched(e)' \cap Range(msgs) = {}
        /\ \A d \in Networks : d # e => Batched(d)' = Batched(d)
    BY <1>1, BatchedTaken DEF OnceInv
  <1>9. \A d \in Networks : Queued(d)' = Queued(d)
    <2>1. /\ Registered(e) /\ subnets'[e].registered
          /\ subnets'[e].top_down_msgs = subnets[e].top_down_msgs
          /\ \A d \in NonRoot : d # e => subnets'[d] = subnets[d]
      BY <1>1, ChildCheckWrites
    <2>2. ASSUME NEW d \in Networks PROVE Queued(d)' = Queued(d)
      <3>1. /\ Registered(d)' <=> Registered(d)
            /\ Registered(d) => subnets'[d].top_down_msgs = subnets[d].top_down_msgs
        BY <2>1 DEF Registered
      <3>2. QED
        BY <1>2, <3>1, QueueKept
    <2>3. QED
      BY <2>2
  <1>10. ASSUME NEW d \in Networks PROVE Waiting(d, x)' = Waiting(d, x) - (IF d = e THEN N ELSE 0)
    <2>1. CASE d = e
      <3>1. PICK X : X = Batched(e)'
        OBVIOUS
      <3>2. IsFiniteSet(X)
        BY <1>2, <1>8, <3>1, PlacesFinite, FS_Subset
      <3>3. NumCopies(X \union Range(msgs), x) = NumCopies(X, x) + N /\ NumCopies(X, x) \in Nat
        BY <1>6, <1>7, <1>8, <3>1, <3>2, CopiesUnion
      <3>4. /\ Waiting(e, x)' = NumCopies(X, x) + NumCopies(Queued(e), x)
            /\ Waiting(e, x) = NumCopies(X \union Range(msgs), x) + NumCopies(Queued(e), x)
        BY <1>2, <1>8, <1>9, <3>1 DEF Waiting
      <3>5. NumCopies(Queued(e), x) \in Nat
        BY <1>2, AheadTyped
      <3>6. QED
        BY <2>1, <3>3, <3>4, <3>5
    <2>2. CASE d # e
      <3>1. Waiting(d, x)' = Waiting(d, x)
        BY <1>8, <1>9, <2>2 DEF Waiting
      <3>2. QED
        BY <2>2, <3>1, AheadTyped
    <2>3. QED
      BY <2>1, <2>2
  <1>11. ASSUME NEW d \in Networks
         PROVE  Ahead(d, x)' = Ahead(d, x) + (IF d = p THEN N ELSE 0) - (IF d = e THEN N ELSE 0)
    <2>1. PICK v \in Int, u \in Int : v = (IF d = p THEN N ELSE 0) /\ u = (IF d = e THEN N ELSE 0)
      BY <1>6
    <2>2. Ahead(d, x)' = Ahead(d, x) + v - u
      BY <1>7, <1>10, <2>1, AheadMoves
    <2>3. QED
      BY <2>1, <2>2
  <1>12. \A d \in Networks :
           Ahead(d, x)' = Ahead(d, x) + (IF d = p THEN N ELSE 0) - (IF d = e THEN N ELSE 0)
    BY <1>11
  <1>13. p \in Networks /\ e \in Networks /\ N \in Int
    BY <1>2, <1>6
  <1>14. QED
    BY <1>12, <1>13 DEF Shifts

\* The other steps move no message, and a queue that is forgotten with its subnet holds
\* none whose way is still open.
LEMMA QuietShifts ==
  ASSUME TypeInv, RouteInv, OnceInv, Histories, FundsToChildren \/ Killable = {},
         \/ \E s \in Networks : WhitelistAny(s) \/ Tick(s)
         \/ \E c \in NonRoot : SetMembership(c)
         \/ \E c \in Killable : Kill(c)
         \/ UNCHANGED vars,
         NEW x \in Message, WayOpen(x)'
  PROVE  WayOpen(x) /\ Shifts(x)
  <1>1. /\ UNCHANGED <<bottomUp, carried, sent, delivered>>
        /\ \A c \in NonRoot : Registered(c)' => Registered(c) /\ subnets'[c] = subnets[c]
    BY QuietStep
  <1>2. WayOpen(x)
    BY <1>1 DEF WayOpen
  <1>3. \A d \in Networks : Batched(d)' = Batched(d)
    BY <1>1 DEF bottomUp, Batched, Uncommitted
  <1>4. \A d \in Networks : Boxed(d)' = Boxed(d)
    <2>1. ASSUME NEW s \in Networks, WhitelistAny(s), NEW d \in Networks PROVE Boxed(d)' = Boxed(d)
      <3>1. PICK i \in postbox[s], o \in Accounts, added \in Accounts :
              WhitelistPropagator(s, i, o, added)
        BY <2>1 DEF WhitelistAny
      <3>2. PICK new : new = PostBoxItem(i.msg, i.owners \union {added})
        OBVIOUS
      <3>3. new.msg = i.msg
        BY <3>2 DEF PostBoxItem
      <3>4. postbox' = [postbox EXCEPT ![s] = (@ \ {i}) \union {new}]
        BY <3>1, <3>2 DEF WhitelistPropagator, SwapPostboxItem
      <3>5. CASE d = s
        <4>1. postbox'[s] = (postbox[s] \ {i}) \union {new}
          BY <3>4 DEF TypeInv, PostboxTyped
        <4>2. QED
          BY <3>3, <3>5, <4>1 DEF Boxed
      <3>6. CASE d # s
        BY <3>4, <3>6 DEF Boxed, TypeInv, PostboxTyped
      <3>7. QED
        BY <3>5, <3>6
    <2>2. CASE UNCHANGED postbox
      BY <2>2 DEF Boxed
    <2>3. QED
      BY <2>1, <2>2 DEF Tick, SetMembership, Kill, vars
  <1>5. \A d \in Networks : NumCopies(Queued(d)', x) = NumCopies(Queued(d), x)
    <2> SUFFICES ASSUME NEW d \in Networks PROVE NumCopies(Queued(d)', x) = NumCopies(Queued(d), x)
      OBVIOUS
    <2>1. CASE Registered(d)' <=> Registered(d)
      <3>1. Queued(d)' = Queued(d)
        BY <1>1, <2>1, QueueKept DEF Registered
      <3>2. QED
        BY <3>1
    <2>2. CASE Registered(d) /\ ~Registered(d)'
      <3>1. d \in NonRoot /\ ~UNCHANGED subnets
        BY <2>2 DEF Registered
      <3>2. \E c \in Killable : Kill(c)
        BY <3>1 DEF WhitelistAny, WhitelistPropagator, Tick, SetMembership, vars
      <3>3. FundsToChildren
        BY <3>2
      <3>4. ~OnPath(d, x.from, x.to)
        BY <2>2, <3>1 DEF WayOpen
      <3>5. ASSUME NEW y \in Queued(d) PROVE Content(y) # x
        <4>1. PICK n \in DOMAIN subnets[d].top_down_msgs : y = subnets[d].top_down_msgs[n]
          BY <2>2 DEF Queued
        <4>2. Descending(d, y)
          BY <2>2, <3>1, <4>1 DEF RouteInv, QueuesRouted
        <4>3. OnPath(d, y.from, y.to)
          BY <3>3, <4>2 DEF Descending, Misnamed
        <4>4. y \in Message
          BY QueuedFinite DEF TypeInv, OnceInv
        <4>5. Content(y).from = y.from /\ Content(y).to = y.to
          BY <4>4, ContentFields
        <4>6. QED
          BY <3>4, <4>3, <4>5
      <3>6. {y \in Queued(d) : Content(y) = x} = {}
        BY <3>5
      <3>7. Queued(d)' = {}
        BY <2>2, QueuedIs
      <3>8. QED
        BY <3>6, <3>7 DEF NumCopies
    <2>3. QED
      BY <1>1, <2>1, <2>2 DEF Registered
  <1>6. ASSUME NEW d \in Networks PROVE Ahead(d, x)' = Ahead(d, x) + 0 - 0
    <2>1. Waiting(d, x)' = Waiting(d, x) /\ Reached(d, x)' = Reached(d, x)
      BY <1>1, <1>3, <1>4, <1>5 DEF Waiting, Reached
    <2>2. Ahead(d, x)' = Ahead(d, x)
      BY <1>1, <2>1 DEF Ahead
    <2>3. QED
      BY <2>2, AheadTyped
  <1>7. \E d \in Networks : TRUE
    BY NetworksAssumption
  <1>8. Shifts(x)
    <2>1. PICK a \in Networks : TRUE
      BY <1>7
    <2>2. PICK v \in Int : v = 0
      OBVIOUS
    <2>3. \A d \in Networks :
            Ahead(d, x)' = Ahead(d, x) + (IF d = a THEN v ELSE 0) - (IF d = a THEN v ELSE 0)
      BY <1>6, <2>2, AheadTyped
    <2>4. QED
      BY <2>1, <2>3 DEF Shifts
  <1>9. QED
    BY <1>2, <1>8

\* The inductive step.
LEMMA NextBalanced ==
  ASSUME TypeInv, RouteInv, OnceInv, ListedPast, Histories, FundsToChildren \/ Killable = {},
         Balanced, [Next]_vars
  PROVE  Balanced'
  <1> SUFFICES ASSUME NEW x \in Message, WayOpen(x)' PROVE WayOpen(x) /\ Shifts(x)
    BY BalanceKept
  <1>1. ASSUME NEW s \in Networks, NEW m \in Message, SendsOne(s, m) PROVE WayOpen(x) /\ Shifts(x)
    <2>1. Shifts(x)
      BY <1>1, SendsShifts
    <2>2. \A c \in NonRoot : Registered(c)' <=> Registered(c)
      BY <1>1, PushedWaits DEF SendsOne
    <2>3. QED
      BY <2>1, <2>2 DEF WayOpen
  <1>2. ASSUME NEW s \in Networks, NEW i \in postbox[s], PassesOn(s, i), i.msg \in Message
        PROVE  WayOpen(x) /\ Shifts(x)
    <2>1. Shifts(x)
      BY <1>2, PassesShifts
    <2>2. \A c \in NonRoot : Registered(c)' <=> Registered(c)
      BY <1>2, PushedWaits DEF PassesOn
    <2>3. QED
      BY <2>1, <2>2 DEF WayOpen
  <1>3. ASSUME NEW c \in NonRoot, NEW n, TakesNext(c, n) PROVE WayOpen(x) /\ Shifts(x)
    <2>1. Shifts(x)
      BY <1>3, TakesShifts
    <2>2. UNCHANGED subnets
      BY <1>3, NextMessages
    <2>3. QED
      BY <2>1, <2>2 DEF WayOpen, Registered
  <1>4. ASSUME NEW e \in NonRoot, CommitChildCheck(e) PROVE WayOpen(x) /\ Shifts(x)
    <2>1. Shifts(x)
      BY <1>4, ChildShifts
    <2>2. Registered(e) /\ \A d \in NonRoot : d # e => subnets'[d] = subnets[d]
      BY <1>4, ChildCheckWrites
    <2>3. QED
      BY <2>1, <2>2 DEF WayOpen, Registered
  <1>5. QED
    BY <1>1, <1>2, <1>3, <1>4, QuietShifts, StepKinds

\* At first no message is anywhere.
LEMMA InitBalanced ==
  ASSUME Init
  PROVE  Balanced
  <1> SUFFICES ASSUME NEW m \in Message PROVE Total([d \in Networks |-> Ahead(d, m)]) = 0
    BY DEF Balanced
  <1>1. ASSUME NEW d \in Networks PROVE Ahead(d, m) = 0
    <2>1. Batched(d) = {}
      <3>1. bottomup_checkpoints[d] = <<>>
        BY DEF Init
      <3>2. QED
        BY <3>1 DEF Batched, Uncommitted
    <2>2. Boxed(d) = {}
      BY DEF Init, Boxed
    <2>3. Queued(d) = {}
      <3>1. CASE d \in NonRoot
        <4>1. /\ DOMAIN subnets[d].top_down_msgs = IF Endowment[d] > 0 THEN {0} ELSE {}
              /\ carried[d] = IF Endowment[d] > 0 THEN 1 ELSE 0
          BY <3>1 DEF Init
        <4>2. QED
          BY <4>1 DEF Queued
      <3>2. CASE d \notin NonRoot
        BY <3>2 DEF Queued, Registered
      <3>3. QED
        BY <3>1, <3>2
    <2>4. NumCopies({}, m) = 0
      <3>1. {y \in {} : Content(y) = m} = {}
        OBVIOUS
      <3>2. QED
        BY <3>1, FS_EmptySet DEF NumCopies
    <2>5. delivered[d] = <<>> /\ sent[d] = <<>>
      BY DEF Init
    <2>6. TimesIn(<<>>, m) = 0
      BY OnlyEmpty DEF TimesIn
    <2>7. Waiting(d, m) = 0 + 0 /\ Reached(d, m) = 0 + 0
      BY <2>1, <2>2, <2>3, <2>4, <2>5, <2>6 DEF Waiting, Reached
    <2>8. Ahead(d, m) = (0 + 0) + (0 + 0) - 0
      BY <2>5, <2>6, <2>7 DEF Ahead
    <2>9. QED
      BY <2>8
  <1>2. [d \in Networks |-> Ahead(d, m)] = [d \in Networks |-> 0]
    BY <1>1
  <1>3. SumFunction([d \in Networks |-> 0]) = 0
    BY NetworksAssumption, LedgerZero
  <1>4. QED
    BY <1>2, <1>3 DEF Total

\* A postbox holds each message in one item.
LEMMA CopiesBoxed ==
  ASSUME BoxInv, NEW s \in Networks, NEW m
  PROVE  Cardinality({i \in postbox[s] : Content(i.msg) = m}) = NumCopies(Boxed(s), m)
  <1> DEFINE I == {i \in postbox[s] : Content(i.msg) = m}
             M == {y \in Boxed(s) : Content(y) = m}
             key == [i \in I |-> i.msg]
  <1>1. IsFiniteSet(postbox[s]) /\ \A i, j \in postbox[s] : i.msg = j.msg => i = j
    BY DEF BoxInv, BoxAt
  <1>2. IsFiniteSet(I)
    BY <1>1, FS_Subset
  <1>3. \A y \in M : \E i \in I : i.msg = y
    BY DEF Boxed
  <1>4. \A i \in I : i.msg \in M
    BY DEF Boxed
  <1>5. \A i, j \in I : i.msg = j.msg => i = j
    BY <1>1
  <1> HIDE DEF I, M
  <1>6. key \in Bijection(I, M)
    <2>1. key \in [I -> M]
      BY <1>4
    <2>2. \A i, j \in I : key[i] = key[j] => i = j
      BY <1>5
    <2>3. \A y \in M : \E i \in I : key[i] = y
      BY <1>3
    <2>4. QED
      BY <2>1, <2>2, <2>3 DEF Bijection, Injection, IsInjective, Surjection
  <1>7. Cardinality(M) = Cardinality(I)
    BY <1>2, <1>6, FS_Bijection DEF ExistsBijection
  <1>8. QED
    BY <1>7 DEF I, M, NumCopies

\* The balance over all networks is what the property says of each message sent.
LEMMA BalanceGives ==
  ASSUME TypeInv, OnceInv, Histories, Balanced
  PROVE  NothingLost
  <1> SUFFICES ASSUME NEW s \in Networks, NEW m \in Range(sent[s]), WayOpen(m)
               PROVE  Count(sent, m) = Copies(m) + Count(delivered, m)
    BY DEF NothingLost
  <1>1. m \in Message
    <2>1. sent[s] \in Seq(Message)
      BY DEF Histories
    <2>2. QED
      BY <2>1, ElementOfSeq DEF Range
  <1>2. PICK f, h, t, o :
          /\ f = [d \in Networks |-> Ahead(d, m)]
          /\ h = [d \in Networks |-> Cardinality({x \in Batched(d) : Content(x) = m})
                                     + Cardinality({i \in postbox[d] : Content(i.msg) = m})
                                     + Cardinality({x \in Queued(d) : Content(x) = m})]
          /\ t = [d \in Networks |-> Len(Only(delivered[d], {m}))]
          /\ o = [d \in Networks |-> Len(Only(sent[d], {m}))]
    OBVIOUS
  <1>3. ASSUME NEW d \in Networks
        PROVE  /\ f[d] \in Int /\ h[d] \in Int /\ t[d] \in Int /\ o[d] \in Int
               /\ f[d] + o[d] = h[d] + t[d]
    <2>1. h[d] = NumCopies(Batched(d), m) + NumCopies(Boxed(d), m) + NumCopies(Queued(d), m)
      BY <1>2, CopiesBoxed DEF OnceInv, NumCopies
    <2>2. t[d] = TimesIn(delivered[d], m) /\ o[d] = TimesIn(sent[d], m) /\ f[d] = Ahead(d, m)
      BY <1>2 DEF TimesIn
    <2>3. /\ NumCopies(Batched(d), m) \in Nat /\ NumCopies(Queued(d), m) \in Nat
          /\ NumCopies(Boxed(d), m) \in Nat /\ TimesIn(delivered[d], m) \in Nat
          /\ TimesIn(sent[d], m) \in Nat
      BY AheadTyped
    <2>4. QED
      BY <2>1, <2>2, <2>3 DEF Ahead, Waiting, Reached
  <1>4. /\ f \in [Networks -> Int] /\ h \in [Networks -> Int]
        /\ t \in [Networks -> Int] /\ o \in [Networks -> Int]
    BY <1>2, <1>3
  <1>5. PICK g \in [Networks -> Int] : \A d \in Networks : g[d] = f[d] + o[d] /\ g[d] = h[d] + t[d]
    <2> DEFINE k == [d \in Networks |-> f[d] + o[d]]
    <2>1. \A d \in Networks : k[d] \in Int /\ k[d] = f[d] + o[d] /\ k[d] = h[d] + t[d]
      BY <1>3
    <2>2. k \in [Networks -> Int]
      BY <2>1
    <2> HIDE DEF k
    <2>3. QED
      BY <2>1, <2>2
  <1>6. IsFiniteSet(Networks)
    BY NetworksAssumption
  <1>7. SumFunction(g) = SumFunction(f) + SumFunction(o)
    <2>1. \A d \in Networks : g[d] = f[d] + o[d]
      BY <1>5
    <2>2. QED
      BY <1>4, <1>6, <2>1, LedgerPlus
  <1>8. SumFunction(g) = SumFunction(h) + SumFunction(t)
    <2>1. \A d \in Networks : g[d] = h[d] + t[d]
      BY <1>5
    <2>2. QED
      BY <1>4, <1>6, <2>1, LedgerPlus
  <1>9. SumFunction(f) = 0
    BY <1>1, <1>2 DEF Balanced, Total
  <1>10. SumFunction(o) \in Int /\ SumFunction(h) \in Int /\ SumFunction(t) \in Int
    BY <1>4, <1>6, LedgerTotal
  <1>11. /\ Count(sent, m) = SumFunction(o) /\ Copies(m) = SumFunction(h)
         /\ Count(delivered, m) = SumFunction(t)
    BY <1>2 DEF Count, Copies, Total
  <1>12. QED
    BY <1>7, <1>8, <1>9, <1>10, <1>11

\* Through every hop each message sent is in one place: in a queue, in a checkpoint that
\* the parent has not executed, in a postbox, or delivered, and there are as many copies
\* of it as were sent.  A killed subnet takes the messages on their way through it along,
\* so that the property is about ways that are open; and a message fund gives a wrong
\* origin is not on the way between its ends, so that where subnets may be killed fund
\* has to be called for children.
THEOREM NothingIsLost ==
  FundsToChildren \/ Killable = {} => (Spec => []NothingLost)
  <1> SUFFICES ASSUME FundsToChildren \/ Killable = {} PROVE Spec => []NothingLost
    OBVIOUS
  <1>1. Init => ListedPast /\ Balanced
    BY InitBooks, InitBalanced
  <1>2. TypeInv /\ RouteInv /\ OnceInv /\ Histories /\ TypeInv' /\ ListedPast /\ Balanced
          /\ [Next]_vars => ListedPast' /\ Balanced'
    BY NextPast, NextBalanced
  <1>3. TypeInv /\ OnceInv /\ Histories /\ Balanced => NothingLost
    BY BalanceGives
  <1>4. QED
    BY <1>1, <1>2, <1>3, RouteInvHolds, OnceInvHolds, HistoriesHold, PTL DEF Spec
=============================================================================
