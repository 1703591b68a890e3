---------------------------- MODULE QueueLemmas ----------------------------
(***************************************************************************)
(* Facts about queues and lists that the proofs share: how the number of   *)
(* marked positions changes when an entry is appended or the head is       *)
(* taken, induction in the form of sets of numbers or of sequences, what   *)
(* Matching selects, and what the last entry of a kind in a queue is.      *)
(***************************************************************************)
EXTENDS Lists, FiniteSets, FiniteSetTheorems, FunctionTheorems, SequenceTheorems, TLAPS

\* A set of positions is finite and has a cardinality.
LEMMA PositionsFinite ==
    ASSUME NEW n \in Nat, NEW I \in SUBSET (1 .. n)
    PROVE  IsFiniteSet(I) /\ Cardinality(I) \in Nat
<1>1. IsFiniteSet(1 .. n)
  BY FS_Interval
<1>2. IsFiniteSet(I)
  BY <1>1, FS_Subset
<1> QED
  BY <1>2, FS_CardinalityType

\* Appending a marked entry adds its position.
LEMMA CountAppended ==
    ASSUME NEW n \in Nat, NEW I \in SUBSET (1 .. n)
    PROVE  Cardinality(I) \in Nat /\ Cardinality(I \cup {n + 1}) = Cardinality(I) + 1
<1>1. IsFiniteSet(I) /\ Cardinality(I) \in Nat
  BY PositionsFinite
<1>2. n + 1 \notin I
  OBVIOUS
<1> QED
  BY <1>1, <1>2, FS_AddElement

\* Taking the head shifts the other positions down by one.
LEMMA CountShifted ==
    ASSUME NEW n \in Nat, n > 0, NEW I \in SUBSET (1 .. n),
           NEW J, J = {j \in 1 .. (n - 1) : j + 1 \in I}
    PROVE  Cardinality(I) = Cardinality(J) + (IF 1 \in I THEN 1 ELSE 0)
<1> DEFINE K == I \ {1}
           f == [j \in J |-> j + 1]
<1>1. IsFiniteSet(I) /\ Cardinality(I) \in Nat
  BY PositionsFinite
<1>2. IsFiniteSet(J) /\ Cardinality(J) \in Nat
  <2>1. J \in SUBSET (1 .. (n - 1)) /\ n - 1 \in Nat
    OBVIOUS
  <2> QED
    BY <2>1, PositionsFinite
<1>3. f \in Bijection(J, K)
  <2>1. f \in [J -> K]
    OBVIOUS
  <2>2. \A a, b \in J : f[a] = f[b] => a = b
    OBVIOUS
  <2>3. \A t \in K : \E s \in J : f[s] = t
    <3>1. SUFFICES ASSUME NEW t \in K PROVE t - 1 \in J /\ f[t - 1] = t
      OBVIOUS
    <3> QED
      OBVIOUS
  <2> QED
    BY <2>1, <2>2, <2>3, Fun_IsBij
<1>4. Cardinality(K) = Cardinality(J)
  <2>1. ExistsBijection(J, K)
    BY <1>3, Fun_ExistsBij
  <2> QED
    BY <2>1, <1>2, FS_Bijection
<1>5. Cardinality(K) = IF 1 \in I THEN Cardinality(I) - 1 ELSE Cardinality(I)
  BY <1>1, FS_RemoveElement
<1> QED
  BY <1>1, <1>2, <1>4, <1>5

-----------------------------------------------------------------------------
(* Induction over numbers and lists.  The properties are sets, since none of the *)
(* provers can instantiate an operator.                                          *)

\* Every set of naturals that is not empty has a least element.
LEMMA LeastNat ==
    ASSUME NEW T \in SUBSET Nat, T # {}
    PROVE  \E n \in T : \A m \in T : n <= m
<1> DEFINE R == OpToRel(<, Nat)
<1>1. \A x, y \in Nat : x < y => <<x, y>> \in R
  BY DEF OpToRel
<1> HIDE DEF R
<1>2. PICK x \in T : \A y \in T : ~ (<<y, x>> \in R)
  BY NatLessThanWellFounded, WFMin DEF R
<1>3. \A y \in T : x <= y
  <2> TAKE y \in T
  <2>1. x \in Nat /\ y \in Nat /\ ~ (y < x)
    BY <1>1, <1>2
  <2> QED
    BY <2>1
<1> QED
  BY <1>3

\* Induction over the naturals.
LEMMA NatSetInduction ==
    ASSUME NEW T, 0 \in T, \A n \in Nat : n \in T => n + 1 \in T
    PROVE  Nat \subseteq T
<1> SUFFICES ASSUME Nat \ T # {} PROVE FALSE
  OBVIOUS
<1>1. PICK n \in Nat \ T : \A m \in Nat \ T : n <= m
  BY LeastNat
<1>2. n # 0 /\ n - 1 \in Nat
  BY <1>1
<1>3. n - 1 \in T
  BY <1>1, <1>2
<1> QED
  BY <1>1, <1>2, <1>3

\* Induction over the lists of a set: by appending.
LEMMA SeqSetInduction ==
    ASSUME NEW S, NEW T, <<>> \in T,
           \A l \in Seq(S), e \in S : l \in T => Append(l, e) \in T
    PROVE  Seq(S) \subseteq T
<1> DEFINE N == {n \in Nat : \A l \in Seq(S) : Len(l) = n => l \in T}
<1>1. 0 \in N
  OBVIOUS
<1>2. ASSUME NEW n \in Nat, n \in N PROVE n + 1 \in N
  <2> SUFFICES ASSUME NEW l \in Seq(S), Len(l) = n + 1 PROVE l \in T
    OBVIOUS
  <2> DEFINE k == SubSeq(l, 1, n)
  <2>1. k \in Seq(S) /\ Len(k) = n /\ l[n + 1] \in S
    OBVIOUS
  <2>2. l = Append(k, l[n + 1])
    OBVIOUS
  <2>3. k \in T
    BY <1>2, <2>1
  <2> QED
    BY <2>1, <2>2, <2>3
<1>3. Nat \subseteq N
  <2> HIDE DEF N
  <2> QED
    BY <1>1, <1>2, NatSetInduction
<1> QED
  BY <1>3
-----------------------------------------------------------------------------
(* Selecting entries of a list *)

\* The recursive function of Matching.
IsSelection(F, l, f) ==
    \A i \in 0 .. Len(l) :
        F[i] = IF i = 0 THEN <<>> ELSE IF l[i] \in f THEN Append(F[i - 1], l[i]) ELSE F[i - 1]

\* There is one for every list, and the selection of the longer list goes on from that
\* of the shorter one.
LEMMA SelectionExists ==
    ASSUME NEW S, NEW f, NEW l \in Seq(S)
    PROVE  \E F \in [0 .. Len(l) -> Seq(S)] : IsSelection(F, l, f)
<1> DEFINE T == {k \in Seq(S) : \E F \in [0 .. Len(k) -> Seq(S)] : IsSelection(F, k, f)}
<1>1. <<>> \in T
  <2> DEFINE F == [i \in 0 .. 0 |-> <<>>]
  <2>1. F \in [0 .. Len(<<>>) -> Seq(S)] /\ IsSelection(F, <<>>, f)
    BY DEF IsSelection
  <2>2. <<>> \in Seq(S)
    OBVIOUS
  <2> QED
    BY <2>1, <2>2, Zenon
<1>2. ASSUME NEW k \in Seq(S), NEW e \in S, k \in T PROVE Append(k, e) \in T
  <2>1. PICK F \in [0 .. Len(k) -> Seq(S)] : IsSelection(F, k, f)
    BY <1>2
  <2> DEFINE n == Len(k)
             G == [i \in 0 .. n + 1 |-> IF i <= n THEN F[i]
                                        ELSE IF e \in f THEN Append(F[n], e) ELSE F[n]]
  <2>2. Append(k, e) \in Seq(S) /\ Len(Append(k, e)) = n + 1 /\ n \in Nat
    OBVIOUS
  <2>3. G \in [0 .. n + 1 -> Seq(S)]
    BY <2>2
  <2>4. IsSelection(G, Append(k, e), f)
    <3> SUFFICES ASSUME NEW i \in 0 .. n + 1
                 PROVE  G[i] = IF i = 0 THEN <<>>
                               ELSE IF Append(k, e)[i] \in f THEN Append(G[i - 1], Append(k, e)[i])
                               ELSE G[i - 1]
      BY <2>2 DEF IsSelection
    <3>1. CASE i = 0
      BY <2>1, <3>1 DEF IsSelection
    <3>2. CASE i \in 1 .. n
      <4>1. Append(k, e)[i] = k[i] /\ G[i] = F[i] /\ G[i - 1] = F[i - 1]
        BY <3>2
      <4> QED
        BY <2>1, <3>2, <4>1 DEF IsSelection
    <3>3. CASE i = n + 1
      <4>1. Append(k, e)[i] = e /\ G[i - 1] = F[n]
        BY <3>3
      <4> QED
        BY <3>3, <4>1
    <3> QED
      BY <3>1, <3>2, <3>3
  <2> HIDE DEF G, n
  <2> QED
    BY <2>2, <2>3, <2>4
<1>3. Seq(S) \subseteq T
  <2> HIDE DEF T
  <2> QED
    BY <1>1, <1>2, SeqSetInduction
<1> QED
  BY <1>3

\* There is only one.
LEMMA SelectionUnique ==
    ASSUME NEW S, NEW f, NEW l \in Seq(S),
           NEW F, IsSelection(F, l, f), NEW G, IsSelection(G, l, f)
    PROVE  F[Len(l)] = G[Len(l)]
<1> DEFINE T == {n \in Nat : n <= Len(l) => F[n] = G[n]}
<1>1. 0 \in T
  BY DEF IsSelection
<1>2. ASSUME NEW n \in Nat, n \in T PROVE n + 1 \in T
  <2> SUFFICES ASSUME n + 1 <= Len(l) PROVE F[n + 1] = G[n + 1]
    OBVIOUS
  <2>1. F[n] = G[n]
    BY <1>2
  <2>2. n + 1 \in 0 .. Len(l) /\ n + 1 # 0 /\ (n + 1) - 1 = n
    OBVIOUS
  <2> QED
    BY <2>1, <2>2 DEF IsSelection
<1>3. Nat \subseteq T
  <2> HIDE DEF T
  <2> QED
    BY <1>1, <1>2, NatSetInduction
<1> QED
  BY <1>3

\* Matching is the last value of such a function.
LEMMA MatchingIsSelection ==
    ASSUME NEW S, NEW f, NEW l \in Seq(S)
    PROVE  \E F \in [0 .. Len(l) -> Seq(S)] : IsSelection(F, l, f) /\ Matching(l, f) = F[Len(l)]
<1> DEFINE Body(F) == [i \in 0 .. Len(l) |-> IF i = 0 THEN <<>>
                                             ELSE IF l[i] \in f THEN Append(F[i - 1], l[i]) ELSE F[i - 1]]
           kept == CHOOSE F : F = Body(F)
<1>1. PICK F \in [0 .. Len(l) -> Seq(S)] : IsSelection(F, l, f)
  BY SelectionExists
<1>2. F = Body(F)
  BY <1>1 DEF IsSelection
<1>3. kept = Body(kept)
  BY <1>2
<1>4. IsSelection(kept, l, f)
  <2> HIDE DEF kept
  <2> QED
    BY <1>3 DEF IsSelection
<1>5. Matching(l, f) = kept[Len(l)]
  BY DEF Matching
<1>6. F[Len(l)] = kept[Len(l)]
  <2> HIDE DEF kept
  <2> QED
    BY <1>1, <1>4, SelectionUnique
<1> QED
  BY <1>1, <1>5, <1>6

LEMMA MatchingType ==
    ASSUME NEW S, NEW f, NEW l \in Seq(S)
    PROVE  Matching(l, f) \in Seq(S)
<1>1. PICK F \in [0 .. Len(l) -> Seq(S)] : IsSelection(F, l, f) /\ Matching(l, f) = F[Len(l)]
  BY MatchingIsSelection, ZenonT(60)
<1>2. Len(l) \in 0 .. Len(l)
  OBVIOUS
<1>3. F[Len(l)] \in Seq(S)
  BY <1>2
<1> QED
  BY <1>1, <1>3

LEMMA MatchingEmpty ==
    ASSUME NEW f
    PROVE  Matching(<<>>, f) = <<>>
<1>1. PICK l \in Seq({}) : l = <<>>
  <2>1. <<>> \in Seq({})
    OBVIOUS
  <2> QED
    BY <2>1, Zenon
<1>2. PICK F \in [0 .. Len(l) -> Seq({})] : IsSelection(F, l, f) /\ Matching(l, f) = F[Len(l)]
  BY MatchingIsSelection, ZenonT(60)
<1> QED
  BY <1>1, <1>2 DEF IsSelection

\* An entry at the end of the list is at the end of the selection, or not in it.
LEMMA MatchingAppend ==
    ASSUME NEW S, NEW f, NEW l \in Seq(S), NEW e \in S
    PROVE  Matching(Append(l, e), f) = IF e \in f THEN Append(Matching(l, f), e) ELSE Matching(l, f)
<1>1. PICK k \in Seq(S) : k = Append(l, e)
  <2>1. Append(l, e) \in Seq(S)
    OBVIOUS
  <2> QED
    BY <2>1, Zenon
<1>2. Len(k) = Len(l) + 1 /\ k[Len(l) + 1] = e /\ Len(l) \in Nat
  BY <1>1
<1>3. \A i \in 1 .. Len(l) : l[i] = k[i]
  BY <1>1
<1>4. PICK F \in [0 .. Len(l) -> Seq(S)] : IsSelection(F, l, f) /\ Matching(l, f) = F[Len(l)]
  BY MatchingIsSelection, ZenonT(60)
<1>5. PICK G \in [0 .. Len(k) -> Seq(S)] : IsSelection(G, k, f) /\ Matching(k, f) = G[Len(k)]
  BY MatchingIsSelection, ZenonT(60)
<1>6. IsSelection(G, l, f)
  <2> SUFFICES ASSUME NEW i \in 0 .. Len(l)
               PROVE  G[i] = IF i = 0 THEN <<>> ELSE IF l[i] \in f THEN Append(G[i - 1], l[i]) ELSE G[i - 1]
    BY DEF IsSelection
  <2>1. i \in 0 .. Len(k)
    BY <1>2
  <2>2. G[i] = IF i = 0 THEN <<>> ELSE IF k[i] \in f THEN Append(G[i - 1], k[i]) ELSE G[i - 1]
    BY <1>5, <2>1 DEF IsSelection
  <2>3. i # 0 => l[i] = k[i]
    BY <1>2, <1>3
  <2> QED
    BY <2>2, <2>3
<1>7. F[Len(l)] = G[Len(l)]
  BY <1>4, <1>6, SelectionUnique
<1>8. G[Len(l) + 1] = IF e \in f THEN Append(G[Len(l)], e) ELSE G[Len(l)]
  <2>1. Len(l) + 1 \in 0 .. Len(k) /\ Len(l) + 1 # 0 /\ (Len(l) + 1) - 1 = Len(l)
    BY <1>2
  <2> QED
    BY <1>2, <1>5, <2>1 DEF IsSelection
<1> QED
  BY <1>1, <1>2, <1>4, <1>5, <1>7, <1>8

\* An entry at the head of the list is at the head of the selection, or not in it.
LEMMA MatchingHead ==
    ASSUME NEW S, NEW f, NEW l \in Seq(S), l # <<>>
    PROVE  Matching(l, f) = IF Head(l) \in f THEN <<Head(l)>> \o Matching(Tail(l), f)
                            ELSE Matching(Tail(l), f)
<1> DEFINE First(k) == IF Head(k) \in f THEN <<Head(k)>> ELSE <<>>
           T == {k \in Seq(S) : k # <<>> => Matching(k, f) = First(k) \o Matching(Tail(k), f)}
<1>1. <<>> \in T
  OBVIOUS
<1>2. ASSUME NEW k \in Seq(S), NEW e \in S, k \in T PROVE Append(k, e) \in T
  <2>1. Append(k, e) \in Seq(S)
    OBVIOUS
  <2>2. Matching(Append(k, e), f) = First(Append(k, e)) \o Matching(Tail(Append(k, e)), f)
    <3>1. CASE k = <<>>
      <4>1. Append(k, e) = <<e>> /\ Head(Append(k, e)) = e /\ Tail(Append(k, e)) = <<>>
        BY <3>1
      <4>2. Matching(Append(k, e), f) = IF e \in f THEN Append(<<>>, e) ELSE <<>>
        <5>1. Matching(Append(k, e), f) = IF e \in f THEN Append(Matching(k, f), e) ELSE Matching(k, f)
          BY MatchingAppend
        <5>2. Matching(k, f) = <<>>
          BY <3>1, MatchingEmpty
        <5> QED
          BY <5>1, <5>2
      <4>3. Matching(Tail(Append(k, e)), f) = <<>>
        BY <4>1, MatchingEmpty
      <4>4. First(Append(k, e)) = IF e \in f THEN <<e>> ELSE <<>>
        BY <4>1
      <4>5. First(Append(k, e)) \o <<>> = First(Append(k, e)) /\ Append(<<>>, e) = <<e>>
        BY <4>4
      <4> HIDE DEF First
      <4> QED
        BY <4>2, <4>3, <4>4, <4>5
    <3>2. CASE k # <<>>
      <4>1. Head(Append(k, e)) = Head(k) /\ Tail(Append(k, e)) = Append(Tail(k), e) /\ Tail(k) \in Seq(S)
        BY <3>2
      <4>2. Matching(k, f) = First(k) \o Matching(Tail(k), f)
        BY <1>2, <3>2
      <4>3. First(k) \in Seq(S) /\ Matching(Tail(k), f) \in Seq(S)
        <5>1. First(k) \in Seq(S)
          BY <3>2
        <5>2. Tail(k) \in Seq(S)
          BY <4>1
        <5>3. Matching(Tail(k), f) \in Seq(S)
          BY <5>2, MatchingType
        <5> QED
          BY <5>1, <5>3
      <4>4. Matching(Append(k, e), f) = IF e \in f THEN Append(Matching(k, f), e) ELSE Matching(k, f)
        BY MatchingAppend
      <4>5. Matching(Append(Tail(k), e), f)
              = IF e \in f THEN Append(Matching(Tail(k), f), e) ELSE Matching(Tail(k), f)
        <5>1. PICK t \in Seq(S) : t = Tail(k)
          BY <4>1
        <5>2. Matching(Append(t, e), f) = IF e \in f THEN Append(Matching(t, f), e) ELSE Matching(t, f)
          BY MatchingAppend
        <5> QED
          BY <5>1, <5>2
      <4>6. First(Append(k, e)) = First(k)
        BY <4>1
      <4>7. Append(First(k) \o Matching(Tail(k), f), e) = First(k) \o Append(Matching(Tail(k), f), e)
        <5>1. PICK a \in Seq(S) : a = First(k)
          BY <4>3, Zenon
        <5>2. PICK b \in Seq(S) : b = Matching(Tail(k), f)
          BY <4>3, Zenon
        <5>3. Append(a \o b, e) = a \o Append(b, e)
          <6>1. /\ Append(a \o b, e) = (a \o b) \o <<e>>
                /\ Append(b, e) = b \o <<e>> /\ <<e>> \in Seq(S)
            OBVIOUS
          <6> QED
            BY <6>1, ConcatAssociative
        <5> QED
          BY <5>1, <5>2, <5>3, Zenon
      <4> HIDE DEF First
      <4> QED
        BY <4>1, <4>2, <4>4, <4>5, <4>6, <4>7
    <3> QED
      BY <3>1, <3>2
  <2> QED
    BY <2>1, <2>2
<1>3. Seq(S) \subseteq T
  <2> HIDE DEF T
  <2> QED
    BY <1>1, <1>2, SeqSetInduction
<1>4. Matching(l, f) = First(l) \o Matching(Tail(l), f)
  BY <1>3
<1>5. Matching(Tail(l), f) \in Seq(S)
  <2>1. Tail(l) \in Seq(S)
    OBVIOUS
  <2> QED
    BY <2>1, MatchingType
<1> QED
  BY <1>4, <1>5

\* What is selected: the entries of the list that are in the set.
LEMMA MatchingEntries ==
    ASSUME NEW S, NEW f, NEW l \in Seq(S)
    PROVE  \A e : (\E i \in DOMAIN Matching(l, f) : Matching(l, f)[i] = e)
                    <=> e \in f /\ \E i \in DOMAIN l : l[i] = e
<1> DEFINE In(k, e) == \E i \in DOMAIN k : k[i] = e
           T == {k \in Seq(S) : \A e : In(Matching(k, f), e) <=> e \in f /\ In(k, e)}
<1>1. <<>> \in T
  BY MatchingEmpty
<1>2. ASSUME NEW k \in Seq(S), NEW d \in S, k \in T PROVE Append(k, d) \in T
  <2>1. Append(k, d) \in Seq(S)
    OBVIOUS
  <2>2. ASSUME NEW j \in Seq(S) PROVE \A e : In(Append(j, d), e) <=> In(j, e) \/ e = d
    <3> TAKE e
    <3>1. ASSUME In(Append(j, d), e) PROVE In(j, e) \/ e = d
      BY <3>1
    <3>2. ASSUME In(j, e) PROVE In(Append(j, d), e)
      <4>1. PICK i \in 1 .. Len(j) : j[i] = e
        BY <3>2
      <4>2. i \in DOMAIN Append(j, d) /\ Append(j, d)[i] = e
        BY <4>1
      <4> QED
        BY <4>2
    <3>3. In(Append(j, d), d)
      <4>1. Len(j) + 1 \in DOMAIN Append(j, d) /\ Append(j, d)[Len(j) + 1] = d
        OBVIOUS
      <4> QED
        BY <4>1
    <3> QED
      BY <3>1, <3>2, <3>3
  <2>3. Matching(k, f) \in Seq(S)
    BY MatchingType
  <2>4. Matching(Append(k, d), f) = IF d \in f THEN Append(Matching(k, f), d) ELSE Matching(k, f)
    BY MatchingAppend
  <2>5. \A e : In(Matching(k, f), e) <=> e \in f /\ In(k, e)
    BY <1>2
  <2>6. \A e : In(Matching(Append(k, d), f), e) <=> e \in f /\ In(Append(k, d), e)
    <3> HIDE DEF In
    <3> QED
      BY <2>2, <2>3, <2>4, <2>5
  <2> QED
    BY <2>1, <2>6
<1>3. Seq(S) \subseteq T
  <2> HIDE DEF T
  <2> QED
    BY <1>1, <1>2, SeqSetInduction
<1> QED
  BY <1>3


-----------------------------------------------------------------------------
(* The last entry of a kind in a queue *)

\* No entry of s is in M.
NoneIn(s, M) == \A i \in DOMAIN s : s[i] \notin M

\* The last of the entries of s that are in M, if there is one, is in G.
LastIn(s, M, G) ==
    \A i \in DOMAIN s :
        s[i] \in M /\ (\A j \in DOMAIN s : j > i => s[j] \notin M) => s[i] \in G

\* A queue without an entry of M says nothing about the last one.
LEMMA NoneLast ==
    ASSUME NEW s, NEW M, NoneIn(s, M)
    PROVE  \A G : LastIn(s, M, G)
BY DEF NoneIn, LastIn

\* An empty queue has no last entry.
LEMMA EmptyLast ==
    ASSUME NEW M
    PROVE  NoneIn(<<>>, M) /\ \A G : LastIn(<<>>, M, G)
BY DEF NoneIn, LastIn

\* An entry is appended: if it is in M it is the last one.
LEMMA LastAppended ==
    ASSUME NEW S, NEW s \in Seq(S), NEW x \in S, NEW M, NEW G,
           NEW t, t = Append(s, x)
    PROVE  /\ NoneIn(t, M) <=> NoneIn(s, M) /\ x \notin M
           /\ x \in M => (LastIn(t, M, G) <=> x \in G)
           /\ x \notin M => (LastIn(t, M, G) <=> LastIn(s, M, G))
<1>1. /\ DOMAIN s = 1 .. Len(s) /\ DOMAIN t = 1 .. (Len(s) + 1) /\ Len(s) \in Nat
      /\ \A i \in 1 .. Len(s) : t[i] = s[i]
      /\ t[Len(s) + 1] = x
  OBVIOUS
<1>2. NoneIn(t, M) <=> NoneIn(s, M) /\ x \notin M
  BY <1>1 DEF NoneIn
<1>3. CASE x \in M
  <2>1. Len(s) + 1 \in DOMAIN t /\ \A j \in DOMAIN t : ~(j > Len(s) + 1)
    BY <1>1
  <2>2. \A i \in DOMAIN t : i # Len(s) + 1 => Len(s) + 1 > i
    BY <1>1
  <2>3. ASSUME LastIn(t, M, G) PROVE x \in G
    BY <1>1, <1>3, <2>1, <2>3 DEF LastIn
  <2>4. ASSUME x \in G PROVE LastIn(t, M, G)
    BY <1>1, <1>3, <2>1, <2>2, <2>4 DEF LastIn
  <2> QED
    BY <1>2, <1>3, <2>3, <2>4
<1>4. CASE x \notin M
  <2>1. ASSUME LastIn(s, M, G) PROVE LastIn(t, M, G)
    <3> SUFFICES ASSUME NEW i \in DOMAIN t, t[i] \in M,
                        \A j \in DOMAIN t : j > i => t[j] \notin M
                 PROVE  t[i] \in G
      BY DEF LastIn
    <3>1. i \in DOMAIN s /\ s[i] \in M
      BY <1>1, <1>4
    <3>2. \A j \in DOMAIN s : j > i => s[j] \notin M
      BY <1>1
    <3> QED
      BY <1>1, <2>1, <3>1, <3>2 DEF LastIn
  <2>2. ASSUME LastIn(t, M, G) PROVE LastIn(s, M, G)
    <3> SUFFICES ASSUME NEW i \in DOMAIN s, s[i] \in M,
                        \A j \in DOMAIN s : j > i => s[j] \notin M
                 PROVE  s[i] \in G
      BY DEF LastIn
    <3>1. i \in DOMAIN t /\ t[i] \in M
      BY <1>1
    <3>2. \A j \in DOMAIN t : j > i => t[j] \notin M
      BY <1>1, <1>4
    <3> QED
      BY <1>1, <2>2, <3>1, <3>2 DEF LastIn
  <2> QED
    BY <1>2, <1>4, <2>1, <2>2
<1> QED
  BY <1>2, <1>3, <1>4

\* An entry is appended to a queue without an entry of M.
LEMMA NoneAppended ==
    ASSUME NEW S, NEW s \in Seq(S), NEW x \in S, NEW M
    PROVE  NoneIn(Append(s, x), M) <=> NoneIn(s, M) /\ x \notin M
<1>1. PICK t : t = Append(s, x)
  OBVIOUS
<1>2. t = Append(s, x)
  BY <1>1
<1> QED
  BY <1>2, LastAppended

\* An entry of M is appended.
LEMMA LastNew ==
    ASSUME NEW S, NEW s \in Seq(S), NEW x \in S, NEW M, NEW G, x \in M
    PROVE  LastIn(Append(s, x), M, G) <=> x \in G
<1>1. PICK t : t = Append(s, x)
  OBVIOUS
<1>2. t = Append(s, x)
  BY <1>1
<1> QED
  BY <1>2, LastAppended

\* Another entry is appended.
LEMMA LastOld ==
    ASSUME NEW S, NEW s \in Seq(S), NEW x \in S, NEW M, NEW G, x \notin M
    PROVE  LastIn(Append(s, x), M, G) <=> LastIn(s, M, G)
<1>1. PICK t : t = Append(s, x)
  OBVIOUS
<1>2. t = Append(s, x)
  BY <1>1
<1> QED
  BY <1>2, LastAppended

\* The head is taken: it was the last entry in M if no other is left.
LEMMA LastTaken ==
    ASSUME NEW S, NEW s \in Seq(S), s # <<>>, NEW M, NEW G,
           NEW t, t = Tail(s)
    PROVE  /\ NoneIn(s, M) <=> Head(s) \notin M /\ NoneIn(t, M)
           /\ NoneIn(t, M) => (LastIn(s, M, G) <=> (Head(s) \in M => Head(s) \in G))
           /\ ~NoneIn(t, M) => (LastIn(s, M, G) <=> LastIn(t, M, G))
<1>1. /\ DOMAIN s = 1 .. Len(s) /\ DOMAIN t = 1 .. (Len(s) - 1) /\ Len(s) \in Nat /\ Len(s) > 0
      /\ \A i \in 1 .. (Len(s) - 1) : t[i] = s[i + 1]
      /\ Head(s) = s[1]
  OBVIOUS
<1>2. \A i \in DOMAIN s \ {1} : i - 1 \in DOMAIN t /\ t[i - 1] = s[i]
  BY <1>1
<1>3. NoneIn(s, M) <=> Head(s) \notin M /\ NoneIn(t, M)
  <2>1. ASSUME NoneIn(s, M) PROVE Head(s) \notin M /\ NoneIn(t, M)
    BY <1>1, <2>1 DEF NoneIn
  <2>2. ASSUME Head(s) \notin M, NoneIn(t, M) PROVE NoneIn(s, M)
    BY <1>1, <1>2, <2>2 DEF NoneIn
  <2> QED
    BY <2>1, <2>2
<1>4. CASE NoneIn(t, M)
  <2>1. \A i \in DOMAIN s : i # 1 => s[i] \notin M
    BY <1>2, <1>4 DEF NoneIn
  <2>2. 1 \in DOMAIN s /\ \A j \in DOMAIN s : j > 1 => j # 1
    BY <1>1
  <2>3. LastIn(s, M, G) <=> (Head(s) \in M => Head(s) \in G)
    BY <1>1, <2>1, <2>2 DEF LastIn
  <2> QED
    BY <1>3, <1>4, <2>3
<1>5. CASE ~NoneIn(t, M)
  <2>1. ASSUME LastIn(s, M, G) PROVE LastIn(t, M, G)
    <3> SUFFICES ASSUME NEW i \in DOMAIN t, t[i] \in M,
                        \A j \in DOMAIN t : j > i => t[j] \notin M
                 PROVE  t[i] \in G
      BY DEF LastIn
    <3>1. i + 1 \in DOMAIN s /\ s[i + 1] \in M /\ s[i + 1] = t[i]
      BY <1>1
    <3>2. \A j \in DOMAIN s : j > i + 1 => j # 1 /\ j - 1 > i
      BY <1>1
    <3> QED
      BY <1>2, <2>1, <3>1, <3>2 DEF LastIn
  <2>2. ASSUME LastIn(t, M, G) PROVE LastIn(s, M, G)
    <3> SUFFICES ASSUME NEW i \in DOMAIN s, s[i] \in M,
                        \A j \in DOMAIN s : j > i => s[j] \notin M
                 PROVE  s[i] \in G
      BY DEF LastIn
    <3>1. i # 1
      BY <1>1, <1>5 DEF NoneIn
    <3>2. i - 1 \in DOMAIN t /\ t[i - 1] = s[i]
      BY <1>2, <3>1
    <3>3. \A j \in DOMAIN t : j > i - 1 => t[j] \notin M
      BY <1>1, <3>1
    <3> QED
      BY <2>2, <3>2, <3>3 DEF LastIn
  <2> QED
    BY <1>3, <1>5, <2>1, <2>2
<1> QED
  BY <1>3, <1>4, <1>5

\* The head of a queue without an entry of M is taken.
LEMMA NoneTaken ==
    ASSUME NEW S, NEW s \in Seq(S), s # <<>>, NEW M
    PROVE  NoneIn(s, M) <=> Head(s) \notin M /\ NoneIn(Tail(s), M)
<1>1. PICK t : t = Tail(s)
  OBVIOUS
<1>2. t = Tail(s)
  BY <1>1
<1> QED
  BY <1>2, LastTaken

\* The last entry of M is taken.
LEMMA LastGone ==
    ASSUME NEW S, NEW s \in Seq(S), s # <<>>, NEW M, NEW G,
           NoneIn(Tail(s), M), LastIn(s, M, G), Head(s) \in M
    PROVE  Head(s) \in G
<1>1. PICK t : t = Tail(s)
  OBVIOUS
<1>2. t = Tail(s)
  BY <1>1
<1> QED
  BY <1>2, LastTaken

\* Taking the head keeps what is known of the last entry.
LEMMA LastStays ==
    ASSUME NEW S, NEW s \in Seq(S), s # <<>>, NEW M, NEW G, LastIn(s, M, G)
    PROVE  LastIn(Tail(s), M, G)
<1>1. PICK t : t = Tail(s)
  OBVIOUS
<1>2. t = Tail(s)
  BY <1>1
<1>3. CASE NoneIn(t, M)
  BY <1>2, <1>3, NoneLast
<1>4. CASE ~NoneIn(t, M)
  BY <1>2, <1>4, LastTaken
<1> QED
  BY <1>3, <1>4
=============================================================================
