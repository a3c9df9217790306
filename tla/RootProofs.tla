------------------------------ MODULE RootProofs ----------------------------
(***************************************************************************)
(* Lemmas about the operators of Root, for every value of its constants:   *)
(* sequences in an order, walks down the lists, the types of a content,    *)
(* what each operation of a client leaves behind, and that it leaves a     *)
(* tree a tree. Loops and walks are recursive functions: what they compute *)
(* is proved by induction over their values.                               *)
(***************************************************************************)
EXTENDS Root, FiniteSetTheorems, WellFoundedInduction, TLAPS

\* A set of numbers that holds one holds a least one.
LEMMA Least ==
    ASSUME NEW T, T \subseteq Nat, T # {}
    PROVE  \E x \in T : \A y \in T : x <= y
<1>1. PICK x \in T : \A y \in T : ~(<<y, x>> \in OpToRel(<, Nat))
  BY WFMin, NatLessThanWellFounded
<1>2. ASSUME NEW y \in T PROVE x <= y
  <2>1. SUFFICES ASSUME y < x PROVE FALSE
    OBVIOUS
  <2>2. <<y, x>> \in OpToRel(<, Nat) BY <2>1 DEF OpToRel
  <2>3. QED BY <1>1, <2>2
<1>3. QED BY <1>2

\* A set that holds 0, and with every number the next, holds all numbers.
LEMMA AllNumbers ==
    ASSUME NEW S, 0 \in S, \A n \in Nat : n \in S => n + 1 \in S
    PROVE  Nat \subseteq S
<1> DEFINE T == Nat \ S
<1>1. SUFFICES ASSUME T # {} PROVE FALSE
  OBVIOUS
<1>2. T \subseteq Nat OBVIOUS
<1>3. PICK x \in T : \A y \in T : x <= y
  <2> HIDE DEF T
  <2>1. QED BY <1>1, <1>2, Least
<1>4. x # 0 /\ x \in Nat OBVIOUS
<1>5. x - 1 \in Nat /\ ~(x <= x - 1) BY <1>4
<1>6. x - 1 \in S BY <1>3, <1>5
<1>7. (x - 1) + 1 = x BY <1>4
<1>8. QED BY <1>5, <1>6, <1>7

\* A sequence over S holds only elements of S, each at one of its places.
LEMMA ElementsOf ==
    ASSUME NEW S, NEW s \in Seq(S)
    PROVE  /\ Len(s) \in Nat /\ ToSet(s) \subseteq S
           /\ \A i \in 1 .. Len(s) : s[i] \in ToSet(s) /\ s[i] \in S
           /\ \A x \in ToSet(s) : \E i \in 1 .. Len(s) : x = s[i]
  BY DEF ToSet

\* What is pushed on a sequence is one more of its elements.
LEMMA AppendedElements ==
    ASSUME NEW S, NEW s \in Seq(S), NEW x \in S
    PROVE  Append(s, x) \in Seq(S) /\ ToSet(Append(s, x)) = ToSet(s) \cup {x}
<1>1. Len(s) \in Nat /\ Append(s, x) \in Seq(S) /\ Len(Append(s, x)) = Len(s) + 1 OBVIOUS
<1>2. \A i \in 1 .. Len(s) : Append(s, x)[i] = s[i] OBVIOUS
<1>3. Append(s, x)[Len(s) + 1] = x OBVIOUS
<1> DEFINE t == Append(s, x)
<1> HIDE DEF t
<1>4. t \in Seq(S) /\ Len(t) = Len(s) + 1 BY <1>1 DEF t
<1>5. ASSUME NEW y \in ToSet(t) PROVE y \in ToSet(s) \cup {x}
  <2>1. PICK i \in 1 .. Len(t) : y = t[i] BY <1>4, ElementsOf
  <2>2. CASE i = Len(s) + 1 BY <2>1, <2>2, <1>3 DEF t
  <2>3. CASE i # Len(s) + 1
    <3>1. i \in 1 .. Len(s) BY <1>1, <1>4, <2>3
    <3>2. y = s[i] BY <1>2, <2>1, <3>1 DEF t
    <3>3. QED BY <3>1, <3>2, ElementsOf
  <2>4. QED BY <2>2, <2>3
<1>6. ASSUME NEW y \in ToSet(s) PROVE y \in ToSet(t)
  <2>1. PICK i \in 1 .. Len(s) : y = s[i] BY ElementsOf
  <2>2. i \in 1 .. Len(t) /\ t[i] = y BY <1>1, <1>2, <1>4, <2>1 DEF t
  <2>3. QED BY <1>4, <2>2, ElementsOf
<1>7. x \in ToSet(t)
  <2>1. Len(t) \in 1 .. Len(t) /\ t[Len(t)] = x BY <1>1, <1>3, <1>4 DEF t
  <2>2. QED BY <1>4, <2>1, ElementsOf
<1>8. QED BY <1>4, <1>5, <1>6, <1>7 DEF t

\* A sequence behind another holds the elements of both.
LEMMA ConcatenatedElements ==
    ASSUME NEW S, NEW s \in Seq(S), NEW t \in Seq(S)
    PROVE  s \o t \in Seq(S) /\ ToSet(s \o t) = ToSet(s) \cup ToSet(t)
<1>1. Len(s) \in Nat /\ Len(t) \in Nat /\ s \o t \in Seq(S) /\ Len(s \o t) = Len(s) + Len(t) OBVIOUS
<1>2. \A i \in 1 .. Len(s) : (s \o t)[i] = s[i] OBVIOUS
<1>3. \A i \in 1 .. Len(t) : (s \o t)[Len(s) + i] = t[i] OBVIOUS
<1> DEFINE u == s \o t
<1>4. u \in Seq(S) /\ Len(u) = Len(s) + Len(t) BY <1>1
<1> HIDE DEF u
<1>5. ASSUME NEW y \in ToSet(u) PROVE y \in ToSet(s) \cup ToSet(t)
  <2>1. PICK i \in 1 .. Len(u) : y = u[i] BY <1>4, ElementsOf
  <2>2. CASE i <= Len(s)
    <3>1. i \in 1 .. Len(s) BY <1>1, <2>2
    <3>2. y = s[i] BY <1>2, <2>1, <3>1 DEF u
    <3>3. QED BY <3>1, <3>2, ElementsOf
  <2>3. CASE ~(i <= Len(s))
    <3>1. i - Len(s) \in 1 .. Len(t) /\ Len(s) + (i - Len(s)) = i BY <1>1, <1>4, <2>3
    <3>2. y = t[i - Len(s)] BY <1>3, <2>1, <3>1 DEF u
    <3>3. QED BY <3>1, <3>2, ElementsOf
  <2>4. QED BY <2>2, <2>3
<1>6. ASSUME NEW y \in ToSet(s) PROVE y \in ToSet(u)
  <2>1. PICK i \in 1 .. Len(s) : y = s[i] BY ElementsOf
  <2>2. i \in 1 .. Len(u) /\ u[i] = y BY <1>1, <1>2, <1>4, <2>1 DEF u
  <2>3. QED BY <1>4, <2>2, ElementsOf
<1>7. ASSUME NEW y \in ToSet(t) PROVE y \in ToSet(u)
  <2>1. PICK i \in 1 .. Len(t) : y = t[i] BY ElementsOf
  <2>2. Len(s) + i \in 1 .. Len(u) /\ u[Len(s) + i] = y BY <1>1, <1>3, <1>4, <2>1 DEF u
  <2>3. QED BY <1>4, <2>2, ElementsOf
<1>8. QED BY <1>4, <1>5, <1>6, <1>7 DEF u

-----------------------------------------------------------------------------
(* Items of a sequence in an order of their places *)

Orders(R, S) ==
    /\ \A i \in S : <<i, i>> \notin R
    /\ \A i, j, k \in S : <<i, j>> \in R /\ <<j, k>> \in R => <<i, k>> \in R
    /\ \A i, j \in S : i = j \/ <<i, j>> \in R \/ <<j, i>> \in R

\* In an order of a finite set every rank is that of one element.
LEMMA Ranks ==
    ASSUME NEW I, IsFiniteSet(I), NEW R, Orders(R, I)
    PROVE  /\ Cardinality(I) \in Nat
           /\ \A n \in 1 .. Cardinality(I) : \E i \in I : Cardinality({j \in I : <<j, i>> \in R}) = n - 1
           /\ \A i \in I : Cardinality({j \in I : <<j, i>> \in R}) + 1 \in 1 .. Cardinality(I)
           /\ \A i, k \in I : Cardinality({j \in I : <<j, i>> \in R}) = Cardinality({j \in I : <<j, k>> \in R})
                                => i = k
<1> DEFINE Below(i) == {j \in I : <<j, i>> \in R}
           r == [i \in I |-> Cardinality(Below(i)) + 1]
           N == Cardinality(I)
<1>1. N \in Nat BY FS_CardinalityType
<1>2. ASSUME NEW i \in I
      PROVE  IsFiniteSet(Below(i)) /\ Cardinality(Below(i)) \in Nat /\ Cardinality(Below(i)) + 1 <= N
  <2>1. Below(i) \subseteq I \ {i} BY DEF Orders
  <2>2. IsFiniteSet(I \ {i}) /\ Cardinality(I \ {i}) = N - 1 BY FS_RemoveElement
  <2>3. IsFiniteSet(Below(i)) /\ Cardinality(Below(i)) <= N - 1
    <3> HIDE DEF Below, N
    <3>1. QED BY <2>1, <2>2, FS_Subset
  <2>4. Cardinality(Below(i)) \in Nat BY <2>3, FS_CardinalityType
  <2>5. QED
    <3> HIDE DEF Below, N
    <3>1. QED BY <1>1, <2>3, <2>4
<1>3. ASSUME NEW i \in I, NEW k \in I, <<i, k>> \in R
      PROVE  Cardinality(Below(i)) < Cardinality(Below(k))
  <2>1. Below(i) \cup {i} \subseteq Below(k) /\ i \notin Below(i) BY <1>3 DEF Orders
  <2>2. IsFiniteSet(Below(i)) /\ IsFiniteSet(Below(k)) BY <1>2
  <2>3. Cardinality(Below(i) \cup {i}) = Cardinality(Below(i)) + 1
    <3> HIDE DEF Below
    <3>1. QED BY <2>1, <2>2, FS_AddElement
  <2>4. Cardinality(Below(i) \cup {i}) <= Cardinality(Below(k))
    <3> HIDE DEF Below
    <3>1. QED BY <2>1, <2>2, FS_Subset
  <2>5. Cardinality(Below(i)) \in Nat /\ Cardinality(Below(k)) \in Nat BY <1>2
  <2>6. QED
    <3> HIDE DEF Below
    <3>1. QED BY <2>3, <2>4, <2>5
<1>4. ASSUME NEW i \in I, NEW k \in I, Cardinality(Below(i)) = Cardinality(Below(k)) PROVE i = k
  <2>1. Cardinality(Below(i)) \in Nat BY <1>2
  <2>2. ~(<<i, k>> \in R) /\ ~(<<k, i>> \in R)
    <3> HIDE DEF Below
    <3>1. QED BY <1>3, <1>4, <2>1
  <2>3. QED BY <2>2 DEF Orders
<1>5. r \in Injection(I, 1 .. N)
  <2>1. r \in [I -> 1 .. N]
    <3> HIDE DEF Below, N
    <3>1. QED BY <1>1, <1>2
  <2>2. \A i, k \in I : r[i] = r[k] => i = k
    <3>1. ASSUME NEW i \in I, NEW k \in I, r[i] = r[k] PROVE i = k
      <4>1. Cardinality(Below(i)) \in Nat /\ Cardinality(Below(k)) \in Nat BY <1>2
      <4>2. Cardinality(Below(i)) + 1 = Cardinality(Below(k)) + 1 BY <3>1
      <4>3. Cardinality(Below(i)) = Cardinality(Below(k))
        <5> HIDE DEF Below
        <5>1. QED BY <4>1, <4>2
      <4>4. QED
        <5> HIDE DEF Below
        <5>1. QED BY <1>4, <4>3
    <3>2. QED BY <3>1
  <2>3. QED
    <3> HIDE DEF r, N
    <3>1. QED BY <2>1, <2>2 DEF Injection, IsInjective
<1>6. IsFiniteSet(1 .. N) /\ Cardinality(1 .. N) = N
  <2> HIDE DEF N
  <2>1. 1 \in Int /\ N \in Int BY <1>1
  <2>2. QED BY <1>1, <2>1, FS_Interval
<1>7. r \in Surjection(I, 1 .. N)
  <2>1. Cardinality(I) = Cardinality(1 .. N) BY <1>6
  <2> HIDE DEF r, N
  <2>2. QED BY <1>5, <1>6, <2>1, FS_Injection
<1>8. ASSUME NEW n \in 1 .. N PROVE \E i \in I : Cardinality(Below(i)) = n - 1
  <2>1. PICK i \in I : r[i] = n
    <3> HIDE DEF r, N
    <3>1. QED BY <1>7 DEF Surjection
  <2>2. Cardinality(Below(i)) + 1 = n BY <2>1
  <2>3. Cardinality(Below(i)) \in Nat BY <1>2
  <2>4. Cardinality(Below(i)) = n - 1
    <3> HIDE DEF Below, N
    <3>1. QED BY <2>2, <2>3
  <2>5. QED BY <2>4
<1>9. \A i \in I : Cardinality(Below(i)) + 1 \in 1 .. N
  <2> HIDE DEF Below, N
  <2>1. QED BY <1>1, <1>2
<1>10. QED
  <2>1. \A n \in 1 .. N : \E i \in I : Cardinality(Below(i)) = n - 1 BY <1>8
  <2>2. \A i, k \in I : Cardinality(Below(i)) = Cardinality(Below(k)) => i = k BY <1>4
  <2>3. QED BY <1>1, <1>9, <2>1, <2>2

\* A finite set in the order R.
ByRank(I, R) ==
    [n \in 1 .. Cardinality(I) |-> CHOOSE i \in I : Cardinality({j \in I : <<j, i>> \in R}) = n - 1]

\* The items of seq at the places order names.
ItemsAt(seq, order) == [n \in DOMAIN order |-> seq[order[n]]]

\* What InOrder makes of a set and an order of it.
LEMMA InOrderOf ==
    ASSUME NEW I, IsFiniteSet(I), NEW R, Orders(R, I),
           NEW order, order = ByRank(I, R)
    PROVE  /\ Cardinality(I) \in Nat /\ order \in [1 .. Cardinality(I) -> I]
           /\ \A i \in I : \E n \in 1 .. Cardinality(I) : order[n] = i
           /\ \A m, n \in 1 .. Cardinality(I) : order[m] = order[n] => m = n
<1> DEFINE N == Cardinality(I)
           Rank(i) == Cardinality({j \in I : <<j, i>> \in R})
<1>1. /\ N \in Nat
      /\ \A n \in 1 .. N : \E i \in I : Rank(i) = n - 1
      /\ \A i \in I : Rank(i) + 1 \in 1 .. N
      /\ \A i, k \in I : Rank(i) = Rank(k) => i = k
  BY Ranks
<1>2. order = [n \in 1 .. N |-> CHOOSE i \in I : Rank(i) = n - 1] BY DEF ByRank
<1> HIDE DEF N, Rank
<1>3. ASSUME NEW n \in 1 .. N PROVE order[n] \in I /\ Rank(order[n]) = n - 1
  <2> DEFINE k == CHOOSE i \in I : Rank(i) = n - 1
  <2>1. k \in I /\ Rank(k) = n - 1 BY <1>1
  <2>2. order[n] = k BY <1>2
  <2>3. QED BY <2>1, <2>2
<1>4. order \in [1 .. N -> I] BY <1>2, <1>3
<1>5. ASSUME NEW i \in I PROVE \E n \in 1 .. N : order[n] = i
  <2>1. Rank(i) + 1 \in 1 .. N BY <1>1
  <2>2. order[Rank(i) + 1] \in I /\ Rank(order[Rank(i) + 1]) = (Rank(i) + 1) - 1 BY <1>3, <2>1
  <2>3. Rank(i) \in Nat
    <3>1. {j \in I : <<j, i>> \in R} \subseteq I OBVIOUS
    <3>2. IsFiniteSet({j \in I : <<j, i>> \in R}) BY <3>1, FS_Subset
    <3>3. QED BY <3>2, FS_CardinalityType DEF Rank
  <2>4. (Rank(i) + 1) - 1 = Rank(i) BY <2>3
  <2>5. order[Rank(i) + 1] = i BY <1>1, <2>2, <2>4
  <2>6. QED BY <2>1, <2>5
<1>6. ASSUME NEW m \in 1 .. N, NEW n \in 1 .. N, order[m] = order[n] PROVE m = n
  <2>1. m - 1 = n - 1 BY <1>3, <1>6
  <2>2. QED BY <1>1, <2>1
<1>7. QED BY <1>1, <1>4, <1>5, <1>6 DEF N

\* What Picked makes of a sequence, some of its places and an order of these.
LEMMA PickedBy ==
    ASSUME NEW S, NEW seq \in Seq(S), NEW I \in SUBSET (DOMAIN seq), NEW R, Orders(R, I)
    PROVE  LET picked == ItemsAt(seq, ByRank(I, R))
           IN  /\ picked \in Seq(S) /\ ToSet(picked) = {seq[i] : i \in I}
               /\ IsInjective(seq) => IsInjective(picked)
<1> DEFINE order == ByRank(I, R)
           picked == ItemsAt(seq, order)
<1>1. Len(seq) \in Nat /\ DOMAIN seq = 1 .. Len(seq) OBVIOUS
<1>2. IsFiniteSet(I)
  <2>1. I \in SUBSET Nat /\ \A i \in I : i <= Len(seq) BY <1>1
  <2>2. QED BY <1>1, <2>1, FS_BoundedSetOfNaturals
<1> DEFINE N == Cardinality(I)
<1>3. /\ N \in Nat /\ order \in [1 .. N -> I]
      /\ \A i \in I : \E n \in 1 .. N : order[n] = i
      /\ \A m, n \in 1 .. N : order[m] = order[n] => m = n
  BY <1>2, InOrderOf
<1> HIDE DEF N
<1> HIDE DEF order
<1>4. picked \in [1 .. N -> S] /\ DOMAIN picked = 1 .. N
  <2>1. \A n \in 1 .. N : seq[order[n]] \in S BY <1>1, <1>3
  <2>2. QED BY <1>3, <2>1 DEF ItemsAt
<1>5. picked \in Seq(S) BY <1>3, <1>4
<1>6. \A n \in 1 .. N : picked[n] = seq[order[n]] /\ order[n] \in I BY <1>3 DEF ItemsAt
<1> HIDE DEF picked
<1>7. ToSet(picked) = {seq[i] : i \in I}
  <2>1. ASSUME NEW x \in ToSet(picked) PROVE x \in {seq[i] : i \in I} BY <1>4, <1>6 DEF ToSet
  <2>2. ASSUME NEW i \in I PROVE seq[i] \in ToSet(picked)
    <3>1. PICK n \in 1 .. N : order[n] = i BY <1>3
    <3>2. picked[n] = seq[i] BY <1>6, <3>1
    <3>3. QED BY <1>4, <3>2 DEF ToSet
  <2>3. QED BY <2>1, <2>2
<1>8. IsInjective(seq) => IsInjective(picked) BY <1>3, <1>4, <1>6 DEF IsInjective
<1>9. QED BY <1>5, <1>7, <1>8 DEF picked, order

\* Places in ascending order.
LEMMA PickedAscending ==
    ASSUME NEW S, NEW seq \in Seq(S), NEW I \in SUBSET (DOMAIN seq)
    PROVE  /\ Picked(seq, I, <) \in Seq(S) /\ ToSet(Picked(seq, I, <)) = {seq[i] : i \in I}
           /\ IsInjective(seq) => IsInjective(Picked(seq, I, <))
<1> DEFINE R == {p \in I \X I : p[1] < p[2]}
           order == InOrder(I, <)
<1>1. I \subseteq Nat OBVIOUS
<1>2. \A i, j \in I : <<j, i>> \in R <=> j < i OBVIOUS
<1>3. \A i \in I : {j \in I : j < i} = {j \in I : <<j, i>> \in R}
  <2> HIDE DEF R
  <2>1. QED BY <1>2
<1>4. Orders(R, I)
  <2> HIDE DEF R
  <2>1. QED BY <1>1, <1>2 DEF Orders
<1>5. order = ByRank(I, R)
  <2> DEFINE First(n) == CHOOSE i \in I : Cardinality({j \in I : j < i}) = n - 1
             Second(n) == CHOOSE i \in I : Cardinality({j \in I : <<j, i>> \in R}) = n - 1
  <2>1. order = [n \in 1 .. Cardinality(I) |-> First(n)] BY DEF InOrder
  <2>2. ByRank(I, R) = [n \in 1 .. Cardinality(I) |-> Second(n)] BY DEF ByRank
  <2> HIDE DEF R, order
  <2>3. \A n \in 1 .. Cardinality(I) : First(n) = Second(n) BY <1>3
  <2> HIDE DEF First, Second
  <2>4. QED BY <2>1, <2>2, <2>3
<1> DEFINE picked == Picked(seq, I, <)
<1>6. picked = ItemsAt(seq, order) BY DEF Picked, ItemsAt
<1> HIDE DEF R, order
<1>7. picked \in Seq(S) /\ ToSet(picked) = {seq[i] : i \in I} /\ (IsInjective(seq) => IsInjective(picked))
  <2> HIDE DEF picked
  <2>1. QED BY <1>4, <1>5, <1>6, PickedBy
<1>8. QED BY <1>7

\* What is left when an item is retained away.
LEMMA RetainedItems ==
    ASSUME NEW S, NEW ids \in Seq(S), NEW id
    PROVE  /\ Retained(ids, id) \in Seq(S) /\ ToSet(Retained(ids, id)) = ToSet(ids) \ {id}
           /\ IsInjective(ids) => IsInjective(Retained(ids, id))
<1> DEFINE I == {i \in DOMAIN ids : ids[i] # id}
           kept == Picked(ids, I, <)
<1>1. I \in SUBSET (DOMAIN ids) OBVIOUS
<1>2. Retained(ids, id) = kept BY DEF Retained
<1>3. {ids[i] : i \in I} = ToSet(ids) \ {id} BY DEF ToSet
<1>4. kept \in Seq(S) /\ ToSet(kept) = {ids[i] : i \in I} /\ (IsInjective(ids) => IsInjective(kept))
  <2> HIDE DEF I
  <2>1. QED BY <1>1, PickedAscending
<1> HIDE DEF I, kept
<1>5. QED BY <1>2, <1>3, <1>4

\* An item that is appended once is there once.
LEMMA AppendedInjective ==
    ASSUME NEW S, NEW s \in Seq(S), NEW x \in S, IsInjective(s), x \notin ToSet(s)
    PROVE  IsInjective(Append(s, x))
<1>1. Len(s) \in Nat /\ DOMAIN s = 1 .. Len(s) OBVIOUS
<1>2. DOMAIN Append(s, x) = 1 .. (Len(s) + 1) OBVIOUS
<1>3. \A i \in 1 .. Len(s) : Append(s, x)[i] = s[i] OBVIOUS
<1>4. Append(s, x)[Len(s) + 1] = x OBVIOUS
<1>5. \A i \in 1 .. Len(s) : s[i] # x BY <1>1 DEF ToSet
<1> DEFINE t == Append(s, x)
<1> HIDE DEF t
<1>6. DOMAIN t = 1 .. (Len(s) + 1) /\ t[Len(s) + 1] = x /\ \A i \in 1 .. Len(s) : t[i] = s[i]
  BY <1>2, <1>3, <1>4 DEF t
<1>7. \A i \in 1 .. (Len(s) + 1) : i \in 1 .. Len(s) \/ i = Len(s) + 1 BY <1>1
<1>8. IsInjective(t) BY <1>1, <1>5, <1>6, <1>7 DEF IsInjective
<1>9. QED BY <1>8 DEF t

\* The empty list, which every new group has.
LEMMA EmptyList ==
    ASSUME NEW S
    PROVE  <<>> \in Seq(S) /\ ToSet(<<>>) = {} /\ IsInjective(<<>>)
<1>1. <<>> \in Seq(S) /\ DOMAIN <<>> = {} OBVIOUS
<1>2. QED BY <1>1 DEF ToSet, IsInjective

\* trim_histories keeps versions only, and all of them when there is no limit.
LEMMA TrimmedHistory ==
    ASSUME NEW history \in Seq(Version)
    PROVE  /\ Trim(history) \in Seq(Version) /\ ToSet(Trim(history)) \subseteq ToSet(history)
           /\ HistoryMaxItems < 0 => ToSet(Trim(history)) = ToSet(history)
<1> DEFINE Newer(i) == {j \in DOMAIN history : \/ history[i].mod < history[j].mod
                                               \/ (history[i].mod = history[j].mod /\ i < j)}
           Kept(i) == Cardinality(Newer(i)) < HistoryMaxItems
           kept == {i \in DOMAIN history : HistoryMaxItems < 0 \/ Kept(i)}
           picked == Picked(history, kept, <)
<1>1. Trim(history) = picked BY DEF Trim
<1> HIDE DEF Kept
<1>2. kept \in SUBSET (DOMAIN history) OBVIOUS
<1>3. HistoryMaxItems < 0 => kept = DOMAIN history OBVIOUS
<1>4. picked \in Seq(Version) /\ ToSet(picked) = {history[i] : i \in kept}
  <2> HIDE DEF kept
  <2>1. QED BY <1>2, PickedAscending
<1> HIDE DEF kept, picked
<1>5. ToSet(history) = {history[i] : i \in DOMAIN history} BY DEF ToSet
<1>6. ToSet(picked) \subseteq ToSet(history) BY <1>2, <1>4, <1>5
<1>7. HistoryMaxItems < 0 => ToSet(picked) = ToSet(history) BY <1>3, <1>4, <1>5
<1>8. QED BY <1>1, <1>4, <1>6, <1>7

\* An older version, picked out of a history, leaves the other versions.
LEMMA ForgottenVersion ==
    ASSUME NEW history \in Seq(Version), NEW i
    PROVE  Picked(history, DOMAIN history \ {i}, <) \in Seq(Version)
<1> DEFINE I == DOMAIN history \ {i}
<1>1. I \in SUBSET (DOMAIN history) OBVIOUS
<1> DEFINE picked == Picked(history, I, <)
<1>2. picked \in Seq(Version)
  <2> HIDE DEF I
  <2>1. QED BY <1>1, PickedAscending
<1>3. QED BY <1>2
\* Sorting by name moves the uuids of a list and no more.
LEMMA SortedList ==
    ASSUME NEW subs \in Seq(Uuid), NEW criteria
    PROVE  LET sorted == InName(subs, criteria)
           IN  /\ sorted \in Seq(Uuid) /\ ToSet(sorted) = ToSet(subs)
               /\ IsInjective(subs) => IsInjective(sorted)
<1> DEFINE I == DOMAIN subs
           Less(i, j) == \/ IF criteria = "AtoZ" THEN subs[i] < subs[j] ELSE subs[j] < subs[i]
                         \/ (subs[i] = subs[j] /\ i < j)
           R == {p \in I \X I : Less(p[1], p[2])}
           order == InOrder(I, Less)
<1>1. I \subseteq Nat /\ \A i \in I : subs[i] \in Nat BY UuidsAssumption DEF Uuid
<1>2. \A i, j \in I : <<j, i>> \in R <=> Less(j, i) OBVIOUS
<1>3. \A i \in I : {j \in I : Less(j, i)} = {j \in I : <<j, i>> \in R}
  <2> HIDE DEF R, Less
  <2>1. QED BY <1>2
<1>4. Orders(R, I)
  <2>1. \A i \in I : ~Less(i, i) BY <1>1
  <2>2. \A i, j, k \in I : Less(i, j) /\ Less(j, k) => Less(i, k)
    <3>1. CASE criteria = "AtoZ" BY <1>1, <3>1
    <3>2. CASE criteria # "AtoZ" BY <1>1, <3>2
    <3>3. QED BY <3>1, <3>2
  <2>3. \A i, j \in I : i = j \/ Less(i, j) \/ Less(j, i) BY <1>1
  <2> HIDE DEF R, Less
  <2>4. QED BY <1>2, <2>1, <2>2, <2>3 DEF Orders
<1>5. order = ByRank(I, R)
  <2> DEFINE First(n) == CHOOSE i \in I : Cardinality({j \in I : Less(j, i)}) = n - 1
             Second(n) == CHOOSE i \in I : Cardinality({j \in I : <<j, i>> \in R}) = n - 1
  <2>1. order = [n \in 1 .. Cardinality(I) |-> First(n)] BY DEF InOrder
  <2>2. ByRank(I, R) = [n \in 1 .. Cardinality(I) |-> Second(n)] BY DEF ByRank
  <2> HIDE DEF R, order, Less
  <2>3. \A n \in 1 .. Cardinality(I) : First(n) = Second(n) BY <1>3
  <2> HIDE DEF First, Second
  <2>4. QED BY <2>1, <2>2, <2>3
<1>6. InName(subs, criteria) = ItemsAt(subs, order) BY DEF InName, Picked, ItemsAt
<1>7. ToSet(subs) = {subs[i] : i \in I} BY DEF ToSet
<1> HIDE DEF R, order, Less
<1>8. QED BY <1>4, <1>5, <1>6, <1>7, PickedBy

-----------------------------------------------------------------------------
(* The groups a walk enters *)

\* The subgroups of h that all_groups has.
Children(c, h) == ToSet(c.groups[h].subs) \cap DOMAIN c.groups

\* Sets that a walk does not leave.
Closed(c, T) == \A h \in T : Children(c, h) \subseteq T

\* Entered is the smallest set with g that a walk does not leave.
LEMMA EnteredLeast ==
    ASSUME NEW c, IsFiniteSet(DOMAIN c.groups), NEW g
    PROVE  Entered(c, g) = {h \in DOMAIN c.groups : \A T \in SUBSET (DOMAIN c.groups) :
                               {g} \cap DOMAIN c.groups \subseteq T /\ Closed(c, T) => h \in T}
<1> DEFINE D == DOMAIN c.groups
           subs == [h \in D |-> ToSet(c.groups[h].subs) \cap D]
           Grown(S) == S \cup UNION {subs[h] : h \in S}
           Hull(S) == {h \in D : \A T \in SUBSET D : S \subseteq T /\ Closed(c, T) => h \in T}
           Reach(f) == f = [S \in SUBSET D |-> IF Grown(S) = S THEN S ELSE f[Grown(S)]]
<1>1. \A h \in D : subs[h] = Children(c, h) /\ subs[h] \subseteq D BY DEF Children
<1>2. ASSUME NEW S \in SUBSET D
      PROVE  /\ Grown(S) \in SUBSET D /\ S \subseteq Grown(S) /\ S \subseteq Hull(S)
             /\ Grown(S) = S => Hull(S) = S
             /\ Hull(Grown(S)) = Hull(S)
  <2> HIDE DEF subs, D
  <2>1. Grown(S) \in SUBSET D /\ S \subseteq Grown(S) BY <1>1
  <2>2. S \subseteq Hull(S) OBVIOUS
  <2>3. ASSUME Grown(S) = S PROVE Hull(S) = S
    <3>1. Closed(c, S) BY <1>1, <2>3 DEF Closed
    <3>2. QED BY <2>2, <3>1
  <2>4. ASSUME NEW T \in SUBSET D, Closed(c, T), S \subseteq T PROVE Grown(S) \subseteq T
    BY <1>1, <2>4 DEF Closed
  <2>5. \A T \in SUBSET D : Closed(c, T) => (S \subseteq T <=> Grown(S) \subseteq T) BY <2>1, <2>4
  <2> HIDE DEF Grown
  <2>6. Hull(Grown(S)) = Hull(S) BY <2>5
  <2> HIDE DEF Hull
  <2>7. QED BY <2>1, <2>2, <2>3, <2>6
<1> DEFINE reach == CHOOSE f : Reach(f)
<1>3. Reach(reach)
  <2> DEFINE f == [S \in SUBSET D |-> Hull(S)]
  <2>1. \A S \in SUBSET D : f[S] = IF Grown(S) = S THEN S ELSE f[Grown(S)]
    <3> HIDE DEF D, Grown, Hull
    <3>1. QED BY <1>2
  <2>2. Reach(f)
    <3>1. f = [S \in SUBSET D |-> f[S]] OBVIOUS
    <3> HIDE DEF f, D, Grown
    <3>2. QED BY <2>1, <3>1
  <2> HIDE DEF Reach
  <2>3. QED BY <2>2
<1>4. Entered(c, g) = reach[{g} \cap D] BY DEF Entered
<1> HIDE DEF reach
<1>5. \A S \in SUBSET D : reach[S] = IF Grown(S) = S THEN S ELSE reach[Grown(S)]
  <2> HIDE DEF D, Grown
  <2>1. QED BY <1>3
<1> HIDE DEF Reach, Hull, Grown, subs
<1>6. ASSUME NEW S \in SUBSET D, reach[S] # Hull(S) PROVE FALSE
  <2> DEFINE Wrong == {X \in SUBSET D : reach[X] # Hull(X)}
             sizes == {Cardinality(D \ X) : X \in Wrong}
  <2>1. \A X \in SUBSET D : IsFiniteSet(D \ X) /\ Cardinality(D \ X) \in Nat
    <3>1. ASSUME NEW X \in SUBSET D PROVE IsFiniteSet(D \ X)
      <4>1. D \ X \subseteq D OBVIOUS
      <4>2. QED BY <4>1, FS_Subset
    <3>2. QED BY <3>1, FS_CardinalityType
  <2>2. sizes \subseteq Nat /\ sizes # {} BY <1>6, <2>1
  <2>3. PICK n \in sizes : \A m \in sizes : n <= m
    <3> HIDE DEF sizes
    <3>1. QED BY <2>2, Least
  <2>4. PICK X \in Wrong : n = Cardinality(D \ X) OBVIOUS
  <2>5. Grown(X) # X BY <1>2, <1>5, <2>4
  <2>6. Grown(X) \in SUBSET D /\ X \subseteq Grown(X) BY <1>2
  <2>7. PICK x \in Grown(X) : x \notin X BY <2>5, <2>6
  <2>8. Cardinality(D \ Grown(X)) < n
    <3>1. (D \ Grown(X)) \subseteq (D \ X) \ {x} BY <2>6, <2>7
    <3>2. x \in D \ X BY <2>6, <2>7
    <3>3. IsFiniteSet((D \ X) \ {x}) /\ Cardinality((D \ X) \ {x}) = n - 1
      BY <2>1, <2>4, <3>2, FS_RemoveElement
    <3>4. Cardinality(D \ Grown(X)) <= n - 1 BY <3>1, <3>3, FS_Subset
    <3>5. Cardinality(D \ Grown(X)) \in Nat /\ n \in Nat BY <2>1, <2>2, <2>6
    <3>6. QED BY <3>4, <3>5
  <2>9. Grown(X) \notin Wrong
    <3>1. SUFFICES ASSUME Grown(X) \in Wrong PROVE FALSE OBVIOUS
    <3>2. n <= Cardinality(D \ Grown(X)) BY <2>3, <3>1
    <3>3. Cardinality(D \ Grown(X)) \in Nat /\ n \in Nat BY <2>1, <2>2, <2>6
    <3>4. QED BY <2>8, <3>2, <3>3
  <2>10. reach[Grown(X)] = Hull(Grown(X)) BY <2>6, <2>9
  <2>11. reach[X] = Hull(X) BY <1>2, <1>5, <2>5, <2>10
  <2>12. QED BY <2>4, <2>11
<1>7. {g} \cap D \in SUBSET D OBVIOUS
<1>8. Entered(c, g) = Hull({g} \cap D) BY <1>4, <1>6, <1>7
<1>9. QED BY <1>8 DEF Hull

\* What a walk enters, it goes through, and nothing else.
LEMMA EnteredGroups ==
    ASSUME NEW c, IsFiniteSet(DOMAIN c.groups)
    PROVE  /\ \A g : Entered(c, g) \subseteq DOMAIN c.groups /\ Closed(c, Entered(c, g))
           /\ \A g : g \notin DOMAIN c.groups => Entered(c, g) = {}
           /\ \A g \in DOMAIN c.groups : g \in Entered(c, g)
           /\ \A g : \A T \in SUBSET (DOMAIN c.groups) : g \in T /\ Closed(c, T) => Entered(c, g) \subseteq T
           /\ \A g : \A h \in Entered(c, g) : Entered(c, h) \subseteq Entered(c, g)
           /\ \A g \in DOMAIN c.groups : \A h \in Entered(c, g) :
                 h = g \/ \E x \in Children(c, g) : h \in Entered(c, x)
<1> DEFINE D == DOMAIN c.groups
<1>1. ASSUME NEW g
      PROVE  /\ Entered(c, g) \subseteq D /\ Closed(c, Entered(c, g)) /\ (g \in D => g \in Entered(c, g))
             /\ \A T \in SUBSET D : {g} \cap D \subseteq T /\ Closed(c, T) => Entered(c, g) \subseteq T
  <2>1. Entered(c, g) = {h \in D : \A T \in SUBSET D : {g} \cap D \subseteq T /\ Closed(c, T) => h \in T}
    BY EnteredLeast
  <2>2. \A h \in D : Children(c, h) \subseteq D BY DEF Children
  <2> HIDE DEF D
  <2>3. Closed(c, Entered(c, g))
    <3>1. ASSUME NEW h \in Entered(c, g), NEW x \in Children(c, h) PROVE x \in Entered(c, g)
      <4>1. h \in D /\ x \in D BY <2>1, <2>2
      <4>2. ASSUME NEW T \in SUBSET D, {g} \cap D \subseteq T, Closed(c, T) PROVE x \in T
        <5>1. h \in T BY <2>1, <4>2
        <5>2. QED BY <4>2, <5>1 DEF Closed
      <4>3. QED BY <2>1, <4>1, <4>2
    <3>2. QED BY <3>1 DEF Closed
  <2>4. QED BY <2>1, <2>3
<1> HIDE DEF D
<1>2. ASSUME NEW g, NEW h \in Entered(c, g) PROVE Entered(c, h) \subseteq Entered(c, g)
  <2>1. {h} \cap D \subseteq Entered(c, g) BY <1>2
  <2>2. Entered(c, g) \in SUBSET D /\ Closed(c, Entered(c, g)) BY <1>1
  <2>3. QED BY <1>1, <2>1, <2>2
<1>3. ASSUME NEW g, g \notin D PROVE Entered(c, g) = {}
  <2>1. {} \in SUBSET D /\ {g} \cap D \subseteq {} /\ Closed(c, {}) BY <1>3 DEF Closed
  <2>2. QED BY <1>1, <2>1
<1>4. ASSUME NEW g \in D, NEW h \in Entered(c, g)
      PROVE  h = g \/ \E x \in Children(c, g) : h \in Entered(c, x)
  <2> DEFINE T == {g} \cup UNION {Entered(c, x) : x \in Children(c, g)}
  <2>1. T \in SUBSET D BY <1>1
  <2>2. Closed(c, T)
    <3>1. ASSUME NEW y \in T, NEW z \in Children(c, y) PROVE z \in T
      <4>1. z \in D BY DEF Children, D
      <4>2. CASE y = g
        <5>1. z \in Entered(c, z) BY <1>1, <4>1
        <5>2. QED BY <3>1, <4>2, <5>1
      <4>3. CASE y # g
        <5>1. PICK x \in Children(c, g) : y \in Entered(c, x) BY <4>3
        <5>2. Closed(c, Entered(c, x)) BY <1>1
        <5>3. z \in Entered(c, x) BY <5>1, <5>2 DEF Closed
        <5>4. QED BY <5>3
      <4>4. QED BY <4>2, <4>3
    <3> HIDE DEF T
    <3>2. QED BY <3>1 DEF Closed
  <2>3. {g} \cap D \subseteq T OBVIOUS
  <2>4. h \in T
    <3> HIDE DEF T
    <3>1. QED BY <1>1, <2>1, <2>2, <2>3
  <2>5. QED BY <2>4
<1>5. ASSUME NEW g, NEW T \in SUBSET D, g \in T, Closed(c, T) PROVE Entered(c, g) \subseteq T
  BY <1>1, <1>5
<1>6. QED BY <1>1, <1>2, <1>3, <1>4, <1>5 DEF D

\* The walk depends on the groups and their lists alone.
LEMMA SameWalk ==
    ASSUME NEW c, NEW d, IsFiniteSet(DOMAIN c.groups), DOMAIN d.groups = DOMAIN c.groups,
           \A h \in DOMAIN c.groups : ToSet(d.groups[h].subs) = ToSet(c.groups[h].subs), NEW g
    PROVE  Entered(d, g) = Entered(c, g) /\ (Endless(d, g) <=> Endless(c, g))
<1>1. \A h \in DOMAIN c.groups : Children(d, h) = Children(c, h) BY DEF Children
<1>2. \A T \in SUBSET (DOMAIN c.groups) : Closed(d, T) <=> Closed(c, T) BY <1>1 DEF Closed
<1>3. Entered(c, g) = {h \in DOMAIN c.groups : \A T \in SUBSET (DOMAIN c.groups) :
                         {g} \cap DOMAIN c.groups \subseteq T /\ Closed(c, T) => h \in T}
  BY EnteredLeast
<1>4. Entered(d, g) = {h \in DOMAIN d.groups : \A T \in SUBSET (DOMAIN d.groups) :
                         {g} \cap DOMAIN d.groups \subseteq T /\ Closed(d, T) => h \in T}
  BY EnteredLeast
<1>5. Entered(d, g) = Entered(c, g) BY <1>2, <1>3, <1>4
<1>6. Entered(c, g) \subseteq DOMAIN c.groups BY <1>3
<1>7. Endless(d, g) <=> Endless(c, g) BY <1>5, <1>6 DEF Endless
<1>8. QED BY <1>5, <1>7

\* On a walk that ends, what holds of a group when it holds of its subgroups
\* holds of all groups.
LEMMA FromTheLeaves ==
    ASSUME NEW c, IsFiniteSet(DOMAIN c.groups), NEW g, ~Endless(c, g), NEW P,
           \A h \in Entered(c, g) : Children(c, h) \subseteq P => h \in P
    PROVE  Entered(c, g) \subseteq P
<1> DEFINE S == Entered(c, g) \ P
<1>1. SUFFICES ASSUME S # {} PROVE FALSE
  OBVIOUS
<1>2. Entered(c, g) \subseteq DOMAIN c.groups /\ Closed(c, Entered(c, g)) BY EnteredGroups
<1>3. ASSUME NEW h \in S PROVE ToSet(c.groups[h].subs) \cap S # {}
  <2>1. PICK x \in Children(c, h) : x \notin P OBVIOUS
  <2>2. x \in Entered(c, g) BY <1>2 DEF Closed
  <2>3. QED BY <2>1, <2>2 DEF Children
<1>4. QED BY <1>1, <1>3 DEF Endless

\* On a walk that ends no group is below itself.
LEMMA NotBelowItself ==
    ASSUME NEW c, IsFiniteSet(DOMAIN c.groups), NEW g, ~Endless(c, g), NEW h \in Entered(c, g)
    PROVE  ~Endless(c, h) /\ \A x \in Children(c, h) : h \notin Entered(c, x)
<1> DEFINE D == DOMAIN c.groups
<1>1. /\ \A y : Entered(c, y) \subseteq D /\ Closed(c, Entered(c, y))
      /\ \A y \in D : y \in Entered(c, y)
      /\ \A y : \A z \in Entered(c, y) : Entered(c, z) \subseteq Entered(c, y)
      /\ \A y \in D : \A z \in Entered(c, y) : z = y \/ \E x \in Children(c, y) : z \in Entered(c, x)
  BY EnteredGroups
<1>2. ~Endless(c, h)
  <2>1. Entered(c, h) \subseteq Entered(c, g) BY <1>1
  <2>2. QED BY <2>1 DEF Endless
<1>3. ASSUME NEW x \in Children(c, h), h \in Entered(c, x) PROVE FALSE
  <2> DEFINE S == {y \in Entered(c, g) : h \in Entered(c, y)}
  <2>1. h \in D /\ x \in Entered(c, g) /\ x \in D BY <1>1 DEF Closed
  <2>2. ASSUME NEW y \in S PROVE ToSet(c.groups[y].subs) \cap S # {}
    <3>1. y \in D BY <1>1
    <3>2. CASE y = h
      <4>1. x \in S /\ x \in ToSet(c.groups[y].subs) BY <1>3, <2>1, <3>2 DEF Children
      <4>2. QED BY <4>1
    <3>3. CASE y # h
      <4>1. PICK z \in Children(c, y) : h \in Entered(c, z) BY <1>1, <3>1, <3>3
      <4>2. z \in Entered(c, g) BY <1>1 DEF Closed
      <4>3. QED BY <4>1, <4>2 DEF Children
    <3>4. QED BY <3>2, <3>3
  <2>3. x \in S BY <1>3, <2>1
  <2>4. QED BY <2>2, <2>3 DEF Endless
<1>4. QED BY <1>2, <1>3

\* No two groups list the same subgroup.
OneParent(c) == \A h, k \in DOMAIN c.groups : \A x \in Children(c, h) \cap Children(c, k) : h = k

\* A group that is entered is the first one or below the one that lists it.
LEMMA ParentEntered ==
    ASSUME NEW c, IsFiniteSet(DOMAIN c.groups), OneParent(c), NEW g, NEW x \in Entered(c, g), x # g,
           NEW h \in DOMAIN c.groups, x \in Children(c, h)
    PROVE  h \in Entered(c, g)
<1>1. SUFFICES ASSUME h \notin Entered(c, g) PROVE FALSE
  OBVIOUS
<1> DEFINE T == Entered(c, g) \ {x}
<1>2. /\ Entered(c, g) \subseteq DOMAIN c.groups /\ Closed(c, Entered(c, g))
      /\ g \notin DOMAIN c.groups => Entered(c, g) = {}
      /\ g \in DOMAIN c.groups => g \in Entered(c, g)
      /\ \A U \in SUBSET (DOMAIN c.groups) : g \in U /\ Closed(c, U) => Entered(c, g) \subseteq U
  BY EnteredGroups
<1>3. T \in SUBSET (DOMAIN c.groups) /\ g \in T BY <1>2
<1>4. Closed(c, T)
  <2>1. ASSUME NEW y \in T, NEW z \in Children(c, y) PROVE z \in T
    <3>1. z \in Entered(c, g) BY <1>2 DEF Closed
    <3>2. y \in DOMAIN c.groups /\ y # h BY <1>1, <1>2
    <3>3. z # x BY <3>2 DEF OneParent
    <3>4. QED BY <3>1, <3>3
  <2> HIDE DEF T
  <2>2. QED BY <2>1 DEF Closed
<1>5. QED BY <1>2, <1>3, <1>4

\* Different subgroups have nothing in common.
LEMMA BranchesApart ==
    ASSUME NEW c, IsFiniteSet(DOMAIN c.groups), OneParent(c), NEW g, ~Endless(c, g),
           NEW h \in Entered(c, g), NEW x \in Children(c, h), NEW y \in Children(c, h), x # y
    PROVE  Entered(c, x) \cap Entered(c, y) = {}
<1> DEFINE D == DOMAIN c.groups
           T == Entered(c, x) \cap Entered(c, y)
           U == Entered(c, x) \ T
<1>1. /\ \A z : Entered(c, z) \subseteq D /\ Closed(c, Entered(c, z))
      /\ \A z \in D : z \in Entered(c, z)
      /\ \A V \in SUBSET D : x \in V /\ Closed(c, V) => Entered(c, x) \subseteq V
  BY EnteredGroups
<1>2. h \in D /\ x \in D /\ y \in D BY <1>1 DEF Children
<1>3. h \notin Entered(c, x) /\ h \notin Entered(c, y) BY NotBelowItself
<1>4. x \notin T
  <2>1. SUFFICES ASSUME x \in Entered(c, y) PROVE FALSE OBVIOUS
  <2>2. h \in Entered(c, y) BY <1>2, <2>1, ParentEntered
  <2>3. QED BY <1>3, <2>2
<1>5. y \notin T
  <2>1. SUFFICES ASSUME y \in Entered(c, x) PROVE FALSE OBVIOUS
  <2>2. h \in Entered(c, x) BY <1>2, <2>1, ParentEntered
  <2>3. QED BY <1>3, <2>2
<1>6. U \in SUBSET D /\ x \in U BY <1>1, <1>2, <1>4
<1>7. Closed(c, U)
  <2>1. ASSUME NEW u \in U, NEW z \in Children(c, u) PROVE z \in U
    <3>1. z \in Entered(c, x) /\ u \in D BY <1>1 DEF Closed
    <3>2. z \notin T
      <4>1. SUFFICES ASSUME z \in T PROVE FALSE OBVIOUS
      <4>2. z # x /\ z # y BY <1>4, <1>5, <4>1
      <4>3. u \in Entered(c, y) BY <3>1, <4>1, <4>2, ParentEntered
      <4>4. QED BY <4>3
    <3>3. QED BY <3>1, <3>2
  <2> HIDE DEF U
  <2>2. QED BY <2>1 DEF Closed
<1>8. Entered(c, x) \subseteq U BY <1>1, <1>6, <1>7
<1>9. QED BY <1>8

-----------------------------------------------------------------------------
(* Walks as sequences of items: a group and what it lists *)

Item == Uuid \X Uuid

Met(s) == {s[i][2] : i \in DOMAIN s}

\* No uuid is met twice.
Once(s) == \A i, j \in DOMAIN s : s[i][2] = s[j][2] => i = j

\* A group is met before what it lists, unless the walk begins with it.
FromTop(s, h) == \A i \in DOMAIN s : s[i][1] = h \/ \E j \in 1 .. (i - 1) : s[j][2] = s[i][1]

\* A walk meets what its items name.
LEMMA MetItems ==
    ASSUME NEW S, NEW s \in Seq(S)
    PROVE  Met(s) = {item[2] : item \in ToSet(s)}
  BY DEF Met, ToSet

\* One walk behind another: what both met, and once if each meets it once
\* and they have nothing in common.
LEMMA JoinedWalks ==
    ASSUME NEW s \in Seq(Item), NEW t \in Seq(Item)
    PROVE  /\ s \o t \in Seq(Item) /\ ToSet(s \o t) = ToSet(s) \cup ToSet(t)
           /\ Once(s) /\ Once(t) /\ Met(s) \cap Met(t) = {} => Once(s \o t)
           /\ \A h : FromTop(s, h) /\ FromTop(t, h) => FromTop(s \o t, h)
<1>1. Len(s) \in Nat /\ Len(t) \in Nat /\ DOMAIN s = 1 .. Len(s) /\ DOMAIN t = 1 .. Len(t) OBVIOUS
<1>2. DOMAIN (s \o t) = 1 .. (Len(s) + Len(t)) OBVIOUS
<1>3. \A i \in 1 .. Len(s) : (s \o t)[i] = s[i] OBVIOUS
<1>4. \A i \in 1 .. Len(t) : (s \o t)[Len(s) + i] = t[i] OBVIOUS
<1>5. s \o t \in Seq(Item) /\ ToSet(s \o t) = ToSet(s) \cup ToSet(t) BY ConcatenatedElements
<1> DEFINE u == s \o t
           m == Len(s)
           n == Len(t)
<1>6. \A i \in 1 .. (m + n) : \/ i \in 1 .. m /\ u[i] = s[i]
                              \/ i \notin 1 .. m /\ i - m \in 1 .. n /\ u[i] = t[i - m]
  <2>1. ASSUME NEW i \in 1 .. (m + n), i \notin 1 .. m PROVE i - m \in 1 .. n /\ u[i] = t[i - m]
    <3>1. i - m \in 1 .. n /\ m + (i - m) = i BY <1>1, <2>1
    <3>2. (s \o t)[m + (i - m)] = t[i - m] BY <1>4, <3>1
    <3>3. QED BY <3>1, <3>2
  <2>2. QED BY <1>3, <2>1
<1>7. DOMAIN u = 1 .. (m + n) BY <1>2
<1> HIDE DEF u, m, n
<1>8. m \in Nat /\ n \in Nat /\ DOMAIN s = 1 .. m /\ DOMAIN t = 1 .. n BY <1>1 DEF m, n
<1>9. ASSUME Once(s), Once(t), Met(s) \cap Met(t) = {} PROVE Once(u)
  <2>1. ASSUME NEW i \in 1 .. (m + n), NEW j \in 1 .. (m + n), u[i][2] = u[j][2] PROVE i = j
    <3>1. CASE i \in 1 .. m /\ j \in 1 .. m BY <1>6, <1>8, <1>9, <2>1, <3>1 DEF Once
    <3>2. CASE i \notin 1 .. m /\ j \notin 1 .. m
      <4>1. i - m \in 1 .. n /\ j - m \in 1 .. n /\ u[i] = t[i - m] /\ u[j] = t[j - m] BY <1>6, <3>2
      <4>2. i - m = j - m BY <1>8, <1>9, <2>1, <4>1 DEF Once
      <4>3. QED BY <1>8, <4>2
    <3>3. CASE i \in 1 .. m /\ j \notin 1 .. m
      <4>1. u[i] = s[i] /\ j - m \in 1 .. n /\ u[j] = t[j - m] BY <1>6, <3>3
      <4>2. u[i][2] \in Met(s) /\ u[j][2] \in Met(t) BY <1>8, <3>3, <4>1 DEF Met
      <4>3. QED BY <1>9, <2>1, <4>2
    <3>4. CASE i \notin 1 .. m /\ j \in 1 .. m
      <4>1. u[j] = s[j] /\ i - m \in 1 .. n /\ u[i] = t[i - m] BY <1>6, <3>4
      <4>2. u[j][2] \in Met(s) /\ u[i][2] \in Met(t) BY <1>8, <3>4, <4>1 DEF Met
      <4>3. QED BY <1>9, <2>1, <4>2
    <3>5. QED BY <3>1, <3>2, <3>3, <3>4
  <2>2. QED BY <1>7, <2>1 DEF Once
<1>10. ASSUME NEW h, FromTop(s, h), FromTop(t, h) PROVE FromTop(u, h)
  <2>1. ASSUME NEW i \in 1 .. (m + n), u[i][1] # h PROVE \E j \in 1 .. (i - 1) : u[j][2] = u[i][1]
    <3>1. CASE i \in 1 .. m
      <4>1. PICK j \in 1 .. (i - 1) : s[j][2] = s[i][1] BY <1>6, <1>8, <1>10, <2>1, <3>1 DEF FromTop
      <4>2. j \in 1 .. m /\ j \in 1 .. (m + n) BY <1>8, <3>1
      <4>3. u[j] = s[j] /\ u[i] = s[i] BY <1>6, <3>1, <4>2
      <4>4. QED BY <4>1, <4>3
    <3>2. CASE i \notin 1 .. m
      <4>1. i - m \in 1 .. n /\ u[i] = t[i - m] BY <1>6, <3>2
      <4>2. PICK j \in 1 .. ((i - m) - 1) : t[j][2] = t[i - m][1] BY <1>8, <1>10, <2>1, <4>1 DEF FromTop
      <4>3. /\ j + m \in 1 .. (i - 1) /\ j + m \in 1 .. (m + n) /\ j + m \notin 1 .. m /\ (j + m) - m = j
        BY <1>8, <4>1
      <4>4. u[j + m] = t[j] BY <1>6, <4>3
      <4>5. QED BY <4>1, <4>2, <4>3, <4>4
    <3>3. QED BY <3>1, <3>2
  <2>2. QED BY <1>7, <2>1 DEF FromTop
<1>11. QED BY <1>5, <1>9, <1>10 DEF u

\* A subgroup, then what is below it.
LEMMA SubgroupWalk ==
    ASSUME NEW h \in Uuid, NEW x \in Uuid, NEW t \in Seq(Item)
    PROVE  /\ <<<<h, x>>>> \o t \in Seq(Item) /\ ToSet(<<<<h, x>>>> \o t) = {<<h, x>>} \cup ToSet(t)
           /\ Once(t) /\ x \notin Met(t) => Once(<<<<h, x>>>> \o t)
           /\ FromTop(t, x) => FromTop(<<<<h, x>>>> \o t, h)
<1> DEFINE s == <<<<h, x>>>>
           u == s \o t
           n == Len(t)
<1>1. s \in Seq(Item) /\ DOMAIN s = {1} /\ Len(s) = 1 /\ s[1] = <<h, x>> BY DEF Item
<1>2. ToSet(s) = {<<h, x>>} /\ Met(s) = {x} /\ Once(s) BY <1>1 DEF ToSet, Met, Once
<1>3. n \in Nat /\ DOMAIN t = 1 .. n OBVIOUS
<1> HIDE DEF s
<1>4. u \in Seq(Item) /\ ToSet(u) = {<<h, x>>} \cup ToSet(t) /\ (Once(t) /\ x \notin Met(t) => Once(u))
  BY <1>1, <1>2, JoinedWalks
<1>5. DOMAIN u = 1 .. (1 + n) /\ u[1] = <<h, x>> /\ \A i \in 1 .. n : u[1 + i] = t[i]
  <2>0. s \in Seq(Item) BY <1>1
  <2>1. DOMAIN (s \o t) = 1 .. (Len(s) + Len(t)) BY <2>0
  <2>2. \A i \in 1 .. Len(s) : (s \o t)[i] = s[i] BY <2>0
  <2>3. \A i \in 1 .. Len(t) : (s \o t)[Len(s) + i] = t[i] BY <2>0
  <2>4. QED BY <1>1, <2>1, <2>2, <2>3
<1> HIDE DEF u, n
<1>6. ASSUME FromTop(t, x) PROVE FromTop(u, h)
  <2>1. ASSUME NEW i \in 1 .. (1 + n), u[i][1] # h PROVE \E j \in 1 .. (i - 1) : u[j][2] = u[i][1]
    <3>1. i # 1 BY <1>5, <2>1
    <3>2. i - 1 \in 1 .. n /\ 1 + (i - 1) = i BY <1>3, <3>1
    <3>3. u[i] = t[i - 1] BY <1>5, <3>2
    <3>4. CASE t[i - 1][1] = x
      <4>1. 1 \in 1 .. (i - 1) /\ u[1][2] = x BY <1>5, <3>2
      <4>2. QED BY <3>3, <3>4, <4>1
    <3>5. CASE t[i - 1][1] # x
      <4>1. PICK j \in 1 .. ((i - 1) - 1) : t[j][2] = t[i - 1][1] BY <1>3, <1>6, <3>2, <3>5 DEF FromTop
      <4>2. 1 + j \in 1 .. (i - 1) /\ j \in 1 .. n BY <1>3, <3>2
      <4>3. u[1 + j] = t[j] BY <1>5, <4>2
      <4>4. QED BY <3>3, <4>1, <4>2, <4>3
    <3>6. QED BY <3>4, <3>5
  <2>2. QED BY <1>5, <2>1 DEF FromTop
<1>7. QED BY <1>4, <1>6 DEF u, s

Joins(flat, N, seqs) ==
    flat[1] = seqs[1] /\ \A i \in 1 .. N : i # 1 => flat[i] = flat[i - 1] \o seqs[i]

\* FlattenSeq puts one sequence after the other.
LEMMA FlattenSteps ==
    ASSUME NEW N \in Nat, NEW seqs, DOMAIN seqs = 1 .. N, Len(seqs) = N, N > 0
    PROVE  \E flat : FlattenSeq(seqs) = flat[N] /\ Joins(flat, N, seqs)
<1> DEFINE Upto(n, f) == f = [i \in 1 .. n |-> IF i = 1 THEN seqs[i] ELSE f[i - 1] \o seqs[i]]
           S == {n \in Nat : \E f : Upto(n, f)}
<1>1. 0 \in S
  <2> DEFINE f == [i \in 1 .. 0 |-> seqs[i]]
  <2>1. f = [i \in 1 .. 0 |-> IF i = 1 THEN seqs[i] ELSE f[i - 1] \o seqs[i]] OBVIOUS
  <2>2. Upto(0, f) BY <2>1
  <2>3. QED BY <2>2
<1>2. ASSUME NEW n \in Nat, n \in S PROVE n + 1 \in S
  <2>1. PICK f : Upto(n, f) BY <1>2
  <2> DEFINE g == [i \in 1 .. (n + 1) |-> IF i = n + 1 THEN (IF i = 1 THEN seqs[i] ELSE f[n] \o seqs[i]) ELSE f[i]]
  <2>2. ASSUME NEW i \in 1 .. (n + 1)
        PROVE  g[i] = IF i = 1 THEN seqs[i] ELSE g[i - 1] \o seqs[i]
    <3>1. CASE i = n + 1 /\ i = 1 BY <3>1
    <3>2. CASE i = n + 1 /\ i # 1
      <4>1. i - 1 = n /\ n \in 1 .. (n + 1) /\ n # n + 1 BY <3>2
      <4>2. g[i - 1] = f[n] BY <4>1
      <4>3. QED BY <3>2, <4>2
    <3>3. CASE i # n + 1 /\ i = 1
      <4>1. i \in 1 .. n BY <3>3
      <4>2. QED BY <2>1, <3>3, <4>1
    <3>4. CASE i # n + 1 /\ i # 1
      <4>1. i \in 1 .. n /\ i - 1 \in 1 .. n /\ i - 1 \in 1 .. (n + 1) /\ i - 1 # n + 1 BY <3>4
      <4>2. f[i] = f[i - 1] \o seqs[i] BY <2>1, <3>4, <4>1
      <4>3. g[i] = f[i] /\ g[i - 1] = f[i - 1] BY <3>4, <4>1
      <4>4. QED BY <3>4, <4>2, <4>3
    <3>5. QED BY <3>1, <3>2, <3>3, <3>4
  <2>3. Upto(n + 1, g)
    <3>1. g = [i \in 1 .. (n + 1) |-> g[i]] OBVIOUS
    <3> HIDE DEF g
    <3>2. QED BY <2>2, <3>1
  <2>4. QED
    <3> HIDE DEF Upto
    <3>1. QED BY <2>3
<1>3. N \in S
  <2> HIDE DEF S
  <2>1. \A n \in Nat : n \in S => n + 1 \in S BY <1>2
  <2>2. QED BY <1>1, <2>1, AllNumbers
<1> DEFINE flat == CHOOSE f : Upto(N, f)
<1>4. FlattenSeq(seqs) = flat[N] BY DEF FlattenSeq
<1>5. Upto(N, flat)
  <2>1. \E f : Upto(N, f) BY <1>3
  <2> HIDE DEF Upto
  <2>2. QED BY <2>1
<1> HIDE DEF flat
<1>6. \A i \in 1 .. N : flat[i] = IF i = 1 THEN seqs[i] ELSE flat[i - 1] \o seqs[i] BY <1>5
<1>7. 1 \in 1 .. N OBVIOUS
<1>8. flat[1] = seqs[1] BY <1>6, <1>7
<1>9. \A i \in 1 .. N : i # 1 => flat[i] = flat[i - 1] \o seqs[i] BY <1>6
<1>10. QED BY <1>4, <1>8, <1>9 DEF Joins

\* What is true of each of several walks is true of one after the other.
LEMMA FlattenedWalks ==
    ASSUME NEW N \in Nat, NEW seqs \in [1 .. N -> Seq(Item)]
    PROVE  LET flat == FlattenSeq(seqs)
           IN  /\ flat \in Seq(Item) /\ ToSet(flat) = UNION {ToSet(seqs[i]) : i \in 1 .. N}
               /\ (/\ \A i \in 1 .. N : Once(seqs[i])
                   /\ \A i, j \in 1 .. N : i # j => Met(seqs[i]) \cap Met(seqs[j]) = {}) => Once(flat)
               /\ \A h : (\A i \in 1 .. N : FromTop(seqs[i], h)) => FromTop(flat, h)
<1>1. seqs \in Seq(Seq(Item)) /\ Len(seqs) = N /\ DOMAIN seqs = 1 .. N OBVIOUS
<1>2. CASE N = 0
  <2>1. FlattenSeq(seqs) = seqs BY <1>1, <1>2 DEF FlattenSeq
  <2>2. seqs \in Seq(Item) /\ DOMAIN seqs = {} /\ 1 .. N = {} BY <1>1, <1>2
  <2>3. ToSet(seqs) = {} /\ UNION {ToSet(seqs[i]) : i \in 1 .. N} = {} BY <2>2 DEF ToSet
  <2>4. Once(seqs) /\ \A h : FromTop(seqs, h) BY <2>2 DEF Once, FromTop
  <2>5. QED BY <2>1, <2>2, <2>3, <2>4
<1>3. CASE N > 0
  <2>0. PICK flat : FlattenSeq(seqs) = flat[N] /\ Joins(flat, N, seqs) BY <1>1, <1>3, FlattenSteps
  <2>1. /\ FlattenSeq(seqs) = flat[N] /\ flat[1] = seqs[1]
        /\ \A i \in 1 .. N : i # 1 => flat[i] = flat[i - 1] \o seqs[i]
    BY <2>0 DEF Joins
  <2> DEFINE Apart == /\ \A i \in 1 .. N : Once(seqs[i])
                      /\ \A i, j \in 1 .. N : i # j => Met(seqs[i]) \cap Met(seqs[j]) = {}
             AllFrom(h) == \A i \in 1 .. N : FromTop(seqs[i], h)
             Good(n) == /\ flat[n] \in Seq(Item) /\ ToSet(flat[n]) = UNION {ToSet(seqs[i]) : i \in 1 .. n}
                        /\ Apart => Once(flat[n])
                        /\ \A h : AllFrom(h) => FromTop(flat[n], h)
             S == {n \in Nat : n = 0 \/ n > N \/ Good(n)}
  <2>2. \A i \in 1 .. N : seqs[i] \in Seq(Item) OBVIOUS
  <2>3. Good(1)
    <3>1. 1 \in 1 .. N /\ 1 .. 1 = {1} BY <1>3
    <3>2. UNION {ToSet(seqs[i]) : i \in 1 .. 1} = ToSet(seqs[1]) BY <3>1
    <3>3. Apart => Once(seqs[1]) BY <3>1
    <3>4. \A h : AllFrom(h) => FromTop(seqs[1], h) BY <3>1
    <3>5. QED BY <2>1, <2>2, <3>1, <3>2, <3>3, <3>4
  <2>4. ASSUME NEW n \in Nat, n # 0, n + 1 \in 1 .. N, Good(n) PROVE Good(n + 1)
    <3>1. n \in 1 .. N /\ n + 1 # 1 /\ (n + 1) - 1 = n BY <2>4
    <3>2. flat[n + 1] = flat[n] \o seqs[n + 1] BY <2>1, <2>4, <3>1
    <3> DEFINE s == flat[n]
               t == seqs[n + 1]
    <3>3. s \in Seq(Item) /\ t \in Seq(Item) BY <2>2, <2>4
    <3>4. ToSet(s) = UNION {ToSet(seqs[i]) : i \in 1 .. n} BY <2>4
    <3>5. 1 .. (n + 1) = (1 .. n) \cup {n + 1} BY <3>1
    <3>6. (ToSet(s) \cup ToSet(t)) = UNION {ToSet(seqs[i]) : i \in 1 .. (n + 1)} BY <3>4, <3>5
    <3>7. ASSUME Apart PROVE Met(s) \cap Met(t) = {}
      <4>1. ASSUME NEW x \in Met(s), x \in Met(t) PROVE FALSE
        <5>1. PICK item \in ToSet(s) : x = item[2] BY <3>3, MetItems
        <5>2. PICK i \in 1 .. n : item \in ToSet(seqs[i]) BY <3>4
        <5>3. i \in 1 .. N /\ i # n + 1 BY <3>1, <2>4
        <5>4. x \in Met(seqs[i]) BY <2>2, <5>1, <5>2, <5>3, MetItems
        <5>5. QED BY <2>4, <3>7, <4>1, <5>3, <5>4
      <4>2. QED BY <4>1
    <3>8. Apart => Once(s) /\ Once(t) BY <2>4
    <3>9. \A h : AllFrom(h) => FromTop(s, h) /\ FromTop(t, h) BY <2>4
    <3> HIDE DEF s, t, Apart, AllFrom
    <3>10. /\ s \o t \in Seq(Item) /\ ToSet(s \o t) = ToSet(s) \cup ToSet(t)
           /\ Once(s) /\ Once(t) /\ Met(s) \cap Met(t) = {} => Once(s \o t)
           /\ \A h : FromTop(s, h) /\ FromTop(t, h) => FromTop(s \o t, h)
      BY <3>3, JoinedWalks
    <3>11. flat[n + 1] = s \o t BY <3>2 DEF s, t
    <3>12. QED BY <3>6, <3>7, <3>8, <3>9, <3>10, <3>11
  <2>5. 0 \in S OBVIOUS
  <2>6. ASSUME NEW n \in Nat, n \in S PROVE n + 1 \in S
    <3> HIDE DEF Good
    <3>1. CASE n = 0 BY <2>3, <3>1
    <3>2. CASE n > N BY <3>2
    <3>3. CASE n # 0 /\ ~(n > N)
      <4>1. Good(n) BY <2>6, <3>3
      <4>2. CASE n + 1 > N BY <4>2
      <4>3. CASE ~(n + 1 > N)
        <5>1. n + 1 \in 1 .. N BY <4>3
        <5>2. QED BY <2>4, <3>3, <4>1, <5>1
      <4>4. QED BY <4>2, <4>3
    <3>4. QED BY <3>1, <3>2, <3>3
  <2>7. Good(N)
    <3>1. N \in S
      <4> HIDE DEF S
      <4>1. \A n \in Nat : n \in S => n + 1 \in S BY <2>6
      <4>2. QED BY <2>5, <4>1, AllNumbers
    <3> HIDE DEF Good
    <3>2. QED BY <1>3, <3>1
  <2>8. QED BY <2>1, <2>7
<1>4. QED BY <1>2, <1>3

Lists(c) ==
    /\ DOMAIN c.groups \in SUBSET Uuid
    /\ \A h \in DOMAIN c.groups : c.groups[h].subs \in Seq(Uuid) /\ c.groups[h].entries \in Seq(Uuid)

Subs(c, h) == ToSet(c.groups[h].subs)
Ents(c, h) == ToSet(c.groups[h].entries)

\* What the lists of h give the walk to go on with.
Branches(c, h, below) ==
    /\ IsInjective(c.groups[h].entries) /\ IsInjective(c.groups[h].subs)
    /\ Subs(c, h) \cap Ents(c, h) = {}
    /\ \A x \in Subs(c, h) : Once(below[x]) /\ Met(below[x]) \cap (Subs(c, h) \cup Ents(c, h)) = {}
    /\ \A x, y \in Subs(c, h) : x # y => Met(below[x]) \cap Met(below[y]) = {}

\* A visit meets what the group lists and what the walks from its subgroups meet.
LEMMA Visited ==
    ASSUME NEW c, Lists(c), NEW h \in DOMAIN c.groups, NEW below \in [Uuid -> Seq(Item)]
    PROVE  LET v == Visit(c, h, below)
           IN  /\ v \in Seq(Item)
               /\ ToSet(v) = {<<h, x>> : x \in Subs(c, h) \cup Ents(c, h)}
                               \cup UNION {ToSet(below[x]) : x \in Subs(c, h)}
               /\ Branches(c, h, below) => Once(v)
               /\ (\A x \in Subs(c, h) : FromTop(below[x], x)) => FromTop(v, h)
<1> DEFINE entries == c.groups[h].entries
           subs == c.groups[h].subs
           m == Len(entries)
           N == Len(subs)
           s == [i \in DOMAIN entries |-> <<h, entries[i]>>]
           piece(i) == <<<<h, subs[i]>>>> \o below[subs[i]]
           seqs == [i \in DOMAIN subs |-> piece(i)]
           t == FlattenSeq(seqs)
           v == Visit(c, h, below)
<1>1. v = s \o t BY DEF Visit
<1>2. /\ h \in Uuid /\ entries \in Seq(Uuid) /\ subs \in Seq(Uuid)
      /\ m \in Nat /\ DOMAIN entries = 1 .. m /\ N \in Nat /\ DOMAIN subs = 1 .. N
      /\ (\A i \in 1 .. m : entries[i] \in Uuid) /\ (\A i \in 1 .. N : subs[i] \in Uuid)
  <2>1. h \in Uuid /\ entries \in Seq(Uuid) /\ subs \in Seq(Uuid) BY DEF Lists
  <2> HIDE DEF entries, subs
  <2>2. QED BY <2>1
<1>3. /\ Ents(c, h) = {entries[i] : i \in 1 .. m} /\ Subs(c, h) = {subs[i] : i \in 1 .. N}
      /\ Ents(c, h) \subseteq Uuid /\ Subs(c, h) \subseteq Uuid
  <2>1. Ents(c, h) = {entries[i] : i \in 1 .. m} /\ Subs(c, h) = {subs[i] : i \in 1 .. N}
    BY <1>2 DEF Ents, Subs, ToSet
  <2> HIDE DEF entries, subs
  <2>2. QED BY <1>2, <2>1
<1> HIDE DEF entries, subs, m, N
<1>4. s \in [1 .. m -> Item] /\ DOMAIN s = 1 .. m /\ \A i \in 1 .. m : s[i] = <<h, entries[i]>>
  BY <1>2 DEF Item
<1> HIDE DEF s
<1>5. /\ s \in Seq(Item) /\ ToSet(s) = {<<h, x>> : x \in Ents(c, h)} /\ Met(s) = Ents(c, h)
      /\ FromTop(s, h) /\ (IsInjective(entries) => Once(s))
  <2>1. s \in Seq(Item)
    <3>1. m \in Nat /\ s \in [1 .. m -> Item] BY <1>2, <1>4
    <3>2. QED BY <3>1
  <2>2. ToSet(s) = {<<h, x>> : x \in Ents(c, h)}
    <3>1. ToSet(s) = {s[i] : i \in 1 .. m} BY <1>4 DEF ToSet
    <3>2. ASSUME NEW i \in 1 .. m PROVE s[i] \in {<<h, x>> : x \in Ents(c, h)}
      <4>1. s[i] = <<h, entries[i]>> /\ entries[i] \in Ents(c, h) BY <1>3, <1>4
      <4>2. QED BY <4>1
    <3>3. ASSUME NEW x \in Ents(c, h) PROVE <<h, x>> \in {s[i] : i \in 1 .. m}
      <4>1. PICK i \in 1 .. m : x = entries[i] BY <1>3
      <4>2. s[i] = <<h, x>> BY <1>4, <4>1
      <4>3. QED BY <4>2
    <3> HIDE DEF s
    <3>4. QED BY <3>1, <3>2, <3>3
  <2>3. Met(s) = Ents(c, h) BY <1>3, <1>4 DEF Met
  <2>4. FromTop(s, h) BY <1>4 DEF FromTop
  <2>5. ASSUME IsInjective(entries) PROVE Once(s)
    <3>1. ASSUME NEW i \in 1 .. m, NEW j \in 1 .. m, s[i][2] = s[j][2] PROVE i = j
      <4>1. s[i] = <<h, entries[i]>> /\ s[j] = <<h, entries[j]>> BY <1>4
      <4>2. entries[i] = entries[j] BY <3>1, <4>1
      <4>3. QED BY <1>2, <2>5, <4>2 DEF IsInjective
    <3>2. QED BY <1>4, <3>1 DEF Once
  <2>6. QED BY <2>1, <2>2, <2>3, <2>4, <2>5
<1>6. ASSUME NEW i \in 1 .. N
      PROVE  /\ piece(i) \in Seq(Item) /\ ToSet(piece(i)) = {<<h, subs[i]>>} \cup ToSet(below[subs[i]])
             /\ Once(below[subs[i]]) /\ subs[i] \notin Met(below[subs[i]]) => Once(piece(i))
             /\ FromTop(below[subs[i]], subs[i]) => FromTop(piece(i), h)
  <2> DEFINE x == subs[i]
             b == below[x]
  <2>1. x \in Uuid /\ b \in Seq(Item) BY <1>2
  <2> HIDE DEF x, b
  <2>2. /\ <<<<h, x>>>> \o b \in Seq(Item) /\ ToSet(<<<<h, x>>>> \o b) = {<<h, x>>} \cup ToSet(b)
        /\ Once(b) /\ x \notin Met(b) => Once(<<<<h, x>>>> \o b)
        /\ FromTop(b, x) => FromTop(<<<<h, x>>>> \o b, h)
    BY <1>2, <2>1, SubgroupWalk
  <2>3. QED BY <2>2 DEF x, b
<1>7. seqs = [i \in 1 .. N |-> piece(i)] BY <1>2
<1> HIDE DEF piece
<1>8. seqs \in [1 .. N -> Seq(Item)] /\ \A i \in 1 .. N : seqs[i] = piece(i) BY <1>6, <1>7
<1> HIDE DEF seqs
<1>9. /\ t \in Seq(Item) /\ ToSet(t) = UNION {ToSet(seqs[i]) : i \in 1 .. N}
      /\ (/\ \A i \in 1 .. N : Once(seqs[i])
          /\ \A i, j \in 1 .. N : i # j => Met(seqs[i]) \cap Met(seqs[j]) = {}) => Once(t)
      /\ (\A i \in 1 .. N : FromTop(seqs[i], h)) => FromTop(t, h)
  BY <1>2, <1>8, FlattenedWalks
<1> HIDE DEF t
<1>10. /\ s \o t \in Seq(Item) /\ ToSet(s \o t) = ToSet(s) \cup ToSet(t)
       /\ Once(s) /\ Once(t) /\ Met(s) \cap Met(t) = {} => Once(s \o t)
       /\ FromTop(s, h) /\ FromTop(t, h) => FromTop(s \o t, h)
  BY <1>5, <1>9, JoinedWalks
<1>11. ToSet(t) = {<<h, x>> : x \in Subs(c, h)} \cup UNION {ToSet(below[x]) : x \in Subs(c, h)}
  <2>1. \A i \in 1 .. N : ToSet(seqs[i]) = {<<h, subs[i]>>} \cup ToSet(below[subs[i]]) BY <1>6, <1>8
  <2>2. ASSUME NEW item \in ToSet(t)
        PROVE  item \in {<<h, x>> : x \in Subs(c, h)} \cup UNION {ToSet(below[x]) : x \in Subs(c, h)}
    <3>1. PICK i \in 1 .. N : item \in ToSet(seqs[i]) BY <1>9
    <3>2. subs[i] \in Subs(c, h) BY <1>3
    <3>3. QED BY <2>1, <3>1, <3>2
  <2>3. ASSUME NEW x \in Subs(c, h)
        PROVE  <<h, x>> \in ToSet(t) /\ ToSet(below[x]) \subseteq ToSet(t)
    <3>1. PICK i \in 1 .. N : x = subs[i] BY <1>3
    <3>2. ToSet(seqs[i]) \subseteq ToSet(t) BY <1>9
    <3>3. QED BY <2>1, <3>1, <3>2
  <2>4. QED BY <2>2, <2>3
<1>12. ToSet(v) = {<<h, x>> : x \in Subs(c, h) \cup Ents(c, h)}
                     \cup UNION {ToSet(below[x]) : x \in Subs(c, h)}
  BY <1>1, <1>5, <1>10, <1>11
<1>13. ASSUME Branches(c, h, below) PROVE Once(v)
  <2>1. \A i \in 1 .. N : Met(piece(i)) = {subs[i]} \cup Met(below[subs[i]])
    <3>1. ASSUME NEW i \in 1 .. N PROVE Met(piece(i)) = {subs[i]} \cup Met(below[subs[i]])
      <4>1. below[subs[i]] \in Seq(Item) BY <1>2
      <4>2. Met(below[subs[i]]) = {item[2] : item \in ToSet(below[subs[i]])} BY <4>1, MetItems
      <4>3. Met(piece(i)) = {item[2] : item \in ToSet(piece(i))} BY <1>6, MetItems
      <4>4. ToSet(piece(i)) = {<<h, subs[i]>>} \cup ToSet(below[subs[i]]) BY <1>6
      <4>5. {item[2] : item \in {<<h, subs[i]>>} \cup ToSet(below[subs[i]])}
              = {subs[i]} \cup {item[2] : item \in ToSet(below[subs[i]])}
        <5> DEFINE y == subs[i]
                   B == ToSet(below[subs[i]])
        <5> HIDE DEF y, B
        <5>1. <<h, y>>[2] = y OBVIOUS
        <5>2. {item[2] : item \in {<<h, y>>} \cup B} = {y} \cup {item[2] : item \in B} BY <5>1
        <5>3. QED BY <5>2 DEF y, B
      <4>6. QED BY <4>2, <4>3, <4>4, <4>5
    <3>2. QED BY <3>1
  <2>2. \A i \in 1 .. N : Once(piece(i)) BY <1>3, <1>6, <1>13 DEF Branches
  <2>3. \A i, j \in 1 .. N : i # j => Met(piece(i)) \cap Met(piece(j)) = {}
    <3>1. ASSUME NEW i \in 1 .. N, NEW j \in 1 .. N, i # j PROVE Met(piece(i)) \cap Met(piece(j)) = {}
      <4>1. subs[i] \in Subs(c, h) /\ subs[j] \in Subs(c, h) BY <1>3
      <4>2. subs[i] # subs[j]
        <5>1. IsInjective(subs) BY <1>13 DEF Branches, subs
        <5>2. QED BY <1>2, <3>1, <5>1 DEF IsInjective
      <4>3. /\ Met(below[subs[i]]) \cap (Subs(c, h) \cup Ents(c, h)) = {}
            /\ Met(below[subs[j]]) \cap (Subs(c, h) \cup Ents(c, h)) = {}
            /\ Met(below[subs[i]]) \cap Met(below[subs[j]]) = {}
        BY <1>13, <4>1, <4>2 DEF Branches
      <4>4. QED BY <2>1, <4>1, <4>2, <4>3
    <3>2. QED BY <3>1
  <2>4. Once(t) BY <1>8, <1>9, <2>2, <2>3
  <2>5. Once(s) BY <1>5, <1>13 DEF Branches, entries
  <2>6. Met(s) \cap Met(t) = {}
    <3>1. ASSUME NEW x \in Met(t), x \in Ents(c, h) PROVE FALSE
      <4>1. PICK item \in ToSet(t) : x = item[2] BY <1>9, MetItems
      <4>2. PICK i \in 1 .. N : item \in ToSet(piece(i)) BY <1>8, <1>9, <4>1
      <4>3. x \in Met(piece(i)) BY <1>6, <4>1, <4>2, MetItems
      <4>4. subs[i] \in Subs(c, h) BY <1>3
      <4>5. Met(below[subs[i]]) \cap (Subs(c, h) \cup Ents(c, h)) = {} /\ Subs(c, h) \cap Ents(c, h) = {}
        BY <1>13, <4>4 DEF Branches
      <4>6. QED BY <2>1, <3>1, <4>3, <4>4, <4>5
    <3>2. QED BY <1>5, <3>1
  <2>7. QED BY <1>1, <1>10, <2>4, <2>5, <2>6
<1>14. ASSUME \A x \in Subs(c, h) : FromTop(below[x], x) PROVE FromTop(v, h)
  <2>1. \A i \in 1 .. N : FromTop(seqs[i], h) BY <1>3, <1>6, <1>8, <1>14
  <2>2. QED BY <1>1, <1>5, <1>9, <1>10, <2>1
<1> HIDE DEF v
<1>15. v \in Seq(Item) BY <1>1, <1>10
<1>16. QED BY <1>12, <1>13, <1>14, <1>15 DEF v

\* The uuids a group lists.
Listed(c, h) == Subs(c, h) \cup Ents(c, h)

\* One row of Walk: the walks from all groups, cut off below a depth.
Row(c, n, above) == [h \in Uuid |-> IF n = 0 \/ ~HasGroup(c, h) THEN <<>> ELSE Visit(c, h, above)]

\* Rows are the walks of all depths.
Rows(c, w) == \A n \in 0 .. MaxUuid : w[n] = Row(c, n, w[n - 1])

\* The walk is one of the last row.
LEMMA WalkRows ==
    ASSUME NEW c
    PROVE  \E w : Rows(c, w) /\ \A g : Walk(c, g) = IF g = Nil THEN <<>> ELSE w[MaxUuid][g]
<1> DEFINE Upto(n, f) == DOMAIN f = 0 .. n /\ \A i \in 0 .. n : f[i] = Row(c, i, f[i - 1])
           S == {n \in Nat : \E f : Upto(n, f)}
           W(w) == w = [n \in 0 .. MaxUuid |-> Row(c, n, w[n - 1])]
           start == [i \in 0 .. 0 |-> Row(c, 0, <<>>)]
<1>0. MaxUuid \in Nat BY UuidsAssumption
<1>1. 0 \in S
  <2>1. \A x : Row(c, 0, x) = Row(c, 0, <<>>) BY DEF Row
  <2>2. DOMAIN start = 0 .. 0 /\ \A i \in 0 .. 0 : i = 0 /\ start[i] = Row(c, 0, <<>>) OBVIOUS
  <2>3. \A i \in 0 .. 0 : start[i] = Row(c, i, start[i - 1]) BY <2>1, <2>2
  <2>4. Upto(0, start) BY <2>2, <2>3
  <2>5. QED BY <2>4
<1>2. ASSUME NEW n \in Nat, n \in S PROVE n + 1 \in S
  <2>1. PICK f : Upto(n, f) BY <1>2
  <2> DEFINE g == [i \in 0 .. n + 1 |-> IF i = n + 1 THEN Row(c, n + 1, f[n]) ELSE f[i]]
  <2>2. ASSUME NEW i \in 0 .. n + 1 PROVE g[i] = Row(c, i, g[i - 1])
    <3>1. CASE i = n + 1
      <4>1. g[i] = Row(c, n + 1, f[n]) /\ g[n] = f[n] /\ i - 1 = n BY <3>1
      <4>2. QED BY <3>1, <4>1
    <3>2. CASE i = 0
      <4>1. g[0] = f[0] /\ f[0] = Row(c, 0, f[0 - 1]) BY <2>1
      <4>2. \A x, y : Row(c, 0, x) = Row(c, 0, y) BY DEF Row
      <4>3. QED BY <3>2, <4>1, <4>2
    <3>3. CASE i # 0 /\ i # n + 1
      <4>1. i \in 0 .. n /\ i - 1 \in 0 .. n BY <3>3
      <4>2. g[i] = f[i] /\ g[i - 1] = f[i - 1] BY <4>1
      <4>3. QED BY <2>1, <4>1, <4>2
    <3>4. QED BY <3>1, <3>2, <3>3
  <2>3. DOMAIN g = 0 .. n + 1 OBVIOUS
  <2> HIDE DEF g
  <2>4. Upto(n + 1, g) BY <2>2, <2>3
  <2>5. QED BY <2>4
<1>3. PICK f : Upto(MaxUuid, f)
  <2> HIDE DEF S
  <2>1. Nat \subseteq S BY <1>1, <1>2, AllNumbers
  <2>2. MaxUuid \in S BY <1>0, <2>1
  <2>3. QED BY <2>2 DEF S
<1> DEFINE h == [n \in 0 .. MaxUuid |-> f[n]]
<1>4. \A n \in 0 .. MaxUuid : Row(c, n, h[n - 1]) = Row(c, n, f[n - 1])
  <2>1. ASSUME NEW n \in 0 .. MaxUuid PROVE Row(c, n, h[n - 1]) = Row(c, n, f[n - 1])
    <3>1. CASE n = 0 BY <3>1 DEF Row
    <3>2. CASE n # 0
      <4>1. n - 1 \in 0 .. MaxUuid BY <1>0, <3>2
      <4>2. h[n - 1] = f[n - 1] BY <4>1
      <4>3. QED BY <4>2
    <3>3. QED BY <3>1, <3>2
  <2>2. QED BY <2>1
<1>5. W(h)
  <2>1. \A n \in 0 .. MaxUuid : h[n] = Row(c, n, h[n - 1]) BY <1>3, <1>4
  <2>2. QED BY <2>1
<1> DEFINE walk == CHOOSE w : W(w)
<1>6. W(walk) BY <1>5
<1>7. \A g : Walk(c, g) = IF g = Nil THEN <<>> ELSE walk[MaxUuid][g] BY DEF Walk, Row
<1> HIDE DEF walk
<1>8. Rows(c, walk) BY <1>6 DEF Rows
<1>9. QED BY <1>7, <1>8

\* All that is listed on the way down from g, each with the group that lists it.
Ways(c, g) == {item \in Item : item[1] \in Entered(c, g) /\ item[2] \in Listed(c, item[1])}

\* No uuid is listed twice.
Apart(c) ==
    /\ \A h \in DOMAIN c.groups : /\ IsInjective(c.groups[h].subs) /\ IsInjective(c.groups[h].entries)
                                  /\ Subs(c, h) \cap Ents(c, h) = {}
    /\ \A h, k \in DOMAIN c.groups : \A x \in Listed(c, h) \cap Listed(c, k) : h = k

\* All walks of all depths meet only what is listed, and a group before what it lists.
LEMMA RowItems ==
    ASSUME NEW c, Lists(c), NEW w, Rows(c, w), NEW n \in 0 .. MaxUuid, NEW g \in Uuid
    PROVE  w[n][g] \in Seq(Item) /\ ToSet(w[n][g]) \subseteq Ways(c, g) /\ FromTop(w[n][g], g)
<1> DEFINE D == DOMAIN c.groups
           Good(k) == \A h \in Uuid : /\ w[k][h] \in Seq(Item) /\ ToSet(w[k][h]) \subseteq Ways(c, h)
                                      /\ FromTop(w[k][h], h)
           S == {k \in Nat : k > MaxUuid \/ Good(k)}
<1>0. MaxUuid \in Nat /\ D \in SUBSET Uuid BY UuidsAssumption DEF Lists
<1>1. IsFiniteSet(D)
  <2>1. IsFiniteSet(Uuid) BY <1>0, FS_Interval DEF Uuid
  <2>2. QED BY <1>0, <2>1, FS_Subset
<1>2. \A h \in Uuid : w[0][h] = <<>>
  <2>1. 0 \in 0 .. MaxUuid BY <1>0
  <2>2. w[0] = Row(c, 0, w[0 - 1]) BY <2>1 DEF Rows
  <2>3. QED BY <2>2 DEF Row
<1>3. <<>> \in Seq(Item) /\ ToSet(<<>>) = {} /\ \A h : FromTop(<<>>, h)
  <2>1. <<>> \in Seq(Item) /\ ToSet(<<>>) = {} BY EmptyList
  <2>2. \A h : FromTop(<<>>, h) BY DEF FromTop
  <2>3. QED BY <2>1, <2>2
<1>4. 0 \in S
  <2>1. Good(0) BY <1>2, <1>3
  <2>2. QED BY <2>1
<1>5. ASSUME NEW k \in Nat, k \in S PROVE k + 1 \in S
  <2>1. CASE k + 1 > MaxUuid BY <2>1
  <2>2. CASE k + 1 <= MaxUuid
    <3>1. Good(k) /\ k + 1 \in 0 .. MaxUuid /\ k + 1 # 0 /\ k + 1 - 1 = k BY <1>0, <1>5, <2>2
    <3>2. w[k + 1] = Row(c, k + 1, w[k]) BY <3>1 DEF Rows
    <3>3. ASSUME NEW h \in Uuid
          PROVE  /\ w[k + 1][h] \in Seq(Item) /\ ToSet(w[k + 1][h]) \subseteq Ways(c, h)
                 /\ FromTop(w[k + 1][h], h)
      <4>1. CASE h \notin D
        <5>1. w[k + 1][h] = <<>> BY <3>2, <4>1 DEF Row, HasGroup
        <5>2. QED BY <1>3, <5>1
      <4>2. CASE h \in D
        <5> DEFINE below == [x \in Uuid |-> w[k][x]]
                   v == Visit(c, h, w[k])
        <5>1. w[k + 1][h] = v BY <3>1, <3>2, <4>2 DEF Row, HasGroup
        <5>2. \A x \in Uuid : w[k][x] \in Seq(Item) BY <3>1
        <5>3. w[k] \in [Uuid -> Seq(Item)]
          <6>1. w[k] = Row(c, k, w[k - 1]) BY <1>0, <2>2 DEF Rows
          <6>2. DOMAIN w[k] = Uuid /\ w[k] = [x \in Uuid |-> w[k][x]] BY <6>1 DEF Row
          <6>3. QED BY <5>2, <6>2
        <5>4. /\ v \in Seq(Item)
              /\ ToSet(v) = {<<h, x>> : x \in Subs(c, h) \cup Ents(c, h)}
                              \cup UNION {ToSet(w[k][x]) : x \in Subs(c, h)}
              /\ (\A x \in Subs(c, h) : FromTop(w[k][x], x)) => FromTop(v, h)
          BY <4>2, <5>3, Visited
        <5>5. Subs(c, h) \subseteq Uuid /\ Ents(c, h) \subseteq Uuid
          <6>1. c.groups[h].subs \in Seq(Uuid) /\ c.groups[h].entries \in Seq(Uuid) BY <4>2 DEF Lists
          <6>2. QED BY <6>1, ElementsOf DEF Subs, Ents
        <5>6. FromTop(v, h) BY <3>1, <5>4, <5>5
        <5>7. /\ h \in Entered(c, h) /\ \A x \in Children(c, h) : Entered(c, x) \subseteq Entered(c, h)
              /\ \A x : x \notin D => Entered(c, x) = {}
          BY <1>1, <4>2, EnteredGroups DEF Closed
        <5>8. \A x \in Subs(c, h) : Ways(c, x) \subseteq Ways(c, h)
          <6>1. \A x \in Subs(c, h) : Entered(c, x) \subseteq Entered(c, h)
            BY <5>7 DEF Subs, Children
          <6>2. QED BY <6>1 DEF Ways
        <5>9. \A x \in Subs(c, h) \cup Ents(c, h) : <<h, x>> \in Ways(c, h)
          BY <5>5, <5>7 DEF Ways, Item, Listed
        <5>10. \A x \in Subs(c, h) : ToSet(w[k][x]) \subseteq Ways(c, x) BY <3>1, <5>5
        <5> HIDE DEF v
        <5>11. ToSet(v) \subseteq Ways(c, h) BY <5>4, <5>8, <5>9, <5>10
        <5>12. QED BY <5>1, <5>4, <5>6, <5>11
      <4>3. QED BY <4>1, <4>2
    <3>4. Good(k + 1) BY <3>3
    <3>5. QED BY <3>4
  <2>3. QED BY <1>0, <2>1, <2>2
<1>6. n \in S
  <2> HIDE DEF S
  <2>1. Nat \subseteq S BY <1>4, <1>5, AllNumbers
  <2>2. QED BY <2>1
<1>7. QED BY <1>0, <1>6

\* The groups of a content are at most as many as there are uuids.
LEMMA FewGroups ==
    ASSUME NEW c, Lists(c)
    PROVE  /\ MaxUuid \in Nat /\ DOMAIN c.groups \in SUBSET Uuid /\ IsFiniteSet(DOMAIN c.groups)
           /\ \A S \in SUBSET (DOMAIN c.groups) : IsFiniteSet(S) /\ Cardinality(S) \in 0 .. MaxUuid
           /\ \A h \in DOMAIN c.groups : Subs(c, h) \subseteq Uuid /\ Ents(c, h) \subseteq Uuid
<1>1. MaxUuid \in Nat /\ DOMAIN c.groups \in SUBSET Uuid BY UuidsAssumption DEF Lists
<1>2. IsFiniteSet(Uuid) /\ Cardinality(Uuid) = MaxUuid BY <1>1, FS_Interval DEF Uuid
<1>3. ASSUME NEW S \in SUBSET Uuid PROVE IsFiniteSet(S) /\ Cardinality(S) \in 0 .. MaxUuid
  <2>1. IsFiniteSet(S) /\ Cardinality(S) <= Cardinality(Uuid) BY <1>2, FS_Subset
  <2>2. Cardinality(S) \in Nat BY <2>1, FS_CardinalityType
  <2>3. QED BY <1>1, <1>2, <2>1, <2>2
<1>4. ASSUME NEW h \in DOMAIN c.groups PROVE Subs(c, h) \subseteq Uuid /\ Ents(c, h) \subseteq Uuid
  <2>1. c.groups[h].subs \in Seq(Uuid) /\ c.groups[h].entries \in Seq(Uuid) BY DEF Lists
  <2>2. QED BY <2>1, ElementsOf DEF Subs, Ents
<1>5. QED BY <1>1, <1>3, <1>4

\* A row is deep enough for a walk through as many groups.
LEMMA RowComplete ==
    ASSUME NEW c, Lists(c), NEW w, Rows(c, w), NEW n \in 0 .. MaxUuid,
           NEW g \in DOMAIN c.groups, ~Endless(c, g), Cardinality(Entered(c, g)) <= n
    PROVE  Ways(c, g) \subseteq ToSet(w[n][g])
<1> DEFINE D == DOMAIN c.groups
           Good(k) == \A h \in D : ~Endless(c, h) /\ Cardinality(Entered(c, h)) <= k
                                     => Ways(c, h) \subseteq ToSet(w[k][h])
           S == {k \in Nat : k > MaxUuid \/ Good(k)}
<1>0. /\ MaxUuid \in Nat /\ D \in SUBSET Uuid /\ IsFiniteSet(D)
      /\ \A T \in SUBSET D : IsFiniteSet(T) /\ Cardinality(T) \in 0 .. MaxUuid
      /\ \A h \in D : Subs(c, h) \subseteq Uuid /\ Ents(c, h) \subseteq Uuid
  BY FewGroups
<1>1. /\ \A h : Entered(c, h) \subseteq D /\ Closed(c, Entered(c, h))
      /\ \A h \in D : h \in Entered(c, h)
      /\ \A h \in D : \A k \in Entered(c, h) : k = h \/ \E x \in Children(c, h) : k \in Entered(c, x)
  BY <1>0, EnteredGroups
<1>2. 0 \in S
  <2>1. ASSUME NEW h \in D, Cardinality(Entered(c, h)) <= 0 PROVE FALSE
    <3>1. IsFiniteSet(Entered(c, h)) /\ Cardinality(Entered(c, h)) = 0 BY <1>0, <1>1, <2>1
    <3>2. Entered(c, h) = {} BY <3>1, FS_EmptySet
    <3>3. QED BY <1>1, <3>2
  <2>2. QED BY <2>1
<1>3. ASSUME NEW k \in Nat, k \in S PROVE k + 1 \in S
  <2>1. CASE k + 1 > MaxUuid BY <2>1
  <2>2. CASE k + 1 <= MaxUuid
    <3>1. Good(k) /\ k \in 0 .. MaxUuid /\ k + 1 \in 0 .. MaxUuid /\ k + 1 # 0 /\ k + 1 - 1 = k
      BY <1>0, <1>3, <2>2
    <3>2. w[k + 1] = Row(c, k + 1, w[k]) BY <3>1 DEF Rows
    <3>3. ASSUME NEW h \in D, ~Endless(c, h), Cardinality(Entered(c, h)) <= k + 1,
                 NEW item \in Ways(c, h)
          PROVE  item \in ToSet(w[k + 1][h])
      <4> DEFINE v == Visit(c, h, w[k])
      <4>1. w[k + 1][h] = v BY <1>0, <3>1, <3>2 DEF Row, HasGroup
      <4>2. w[k] \in [Uuid -> Seq(Item)]
        <5>1. w[k] = Row(c, k, w[k - 1]) BY <3>1 DEF Rows
        <5>2. DOMAIN w[k] = Uuid /\ w[k] = [x \in Uuid |-> w[k][x]] BY <5>1 DEF Row
        <5>3. \A x \in Uuid : w[k][x] \in Seq(Item) BY <3>1, RowItems
        <5>4. QED BY <5>2, <5>3
      <4>3. ToSet(v) = {<<h, x>> : x \in Subs(c, h) \cup Ents(c, h)}
                         \cup UNION {ToSet(w[k][x]) : x \in Subs(c, h)}
        BY <4>2, Visited
      <4> HIDE DEF v
      <4>4. item[1] \in Entered(c, h) /\ item[2] \in Listed(c, item[1]) /\ item \in Item BY <3>3 DEF Ways
      <4>5. CASE item[1] = h
        <5>1. item = <<h, item[2]>> BY <4>4, <4>5 DEF Item
        <5>2. item[2] \in Subs(c, h) \cup Ents(c, h) BY <4>4, <4>5 DEF Listed
        <5>3. item \in {<<h, x>> : x \in Subs(c, h) \cup Ents(c, h)} BY <5>1, <5>2
        <5>4. QED BY <4>1, <4>3, <5>3
      <4>6. CASE item[1] # h
        <5>1. PICK x \in Children(c, h) : item[1] \in Entered(c, x) BY <1>1, <4>4, <4>6
        <5>2. ~Endless(c, h) /\ h \in Entered(c, h) BY <1>1, <3>3
        <5>3. x \in Entered(c, h) /\ x \in D /\ x \in Subs(c, h)
          BY <1>1, <5>1, <5>2 DEF Closed, Children, Subs
        <5>4. h \notin Entered(c, x) BY <1>0, <5>1, <5>2, NotBelowItself
        <5>5. ~Endless(c, x) BY <1>0, <5>2, <5>3, NotBelowItself
        <5>6. Entered(c, x) \subseteq Entered(c, h) BY <1>0, <5>3, EnteredGroups
        <5>7. Cardinality(Entered(c, x)) <= k
          <6>1. Entered(c, x) \subseteq Entered(c, h) /\ Entered(c, x) # Entered(c, h) /\ IsFiniteSet(Entered(c, h))
            BY <1>0, <1>1, <5>2, <5>4, <5>6
          <6>2. /\ Cardinality(Entered(c, x)) <= Cardinality(Entered(c, h))
                /\ Cardinality(Entered(c, x)) # Cardinality(Entered(c, h))
            BY <6>1, FS_Subset
          <6>3. Cardinality(Entered(c, x)) \in Nat /\ Cardinality(Entered(c, h)) \in Nat BY <1>0, <1>1
          <6>4. QED BY <3>3, <6>2, <6>3
        <5>8. item \in Ways(c, x) BY <4>4, <5>1 DEF Ways
        <5>9. item \in ToSet(w[k][x]) BY <3>1, <5>3, <5>5, <5>7, <5>8
        <5>10. QED BY <4>1, <4>3, <5>3, <5>9
      <4>7. QED BY <4>5, <4>6
    <3>4. Good(k + 1) BY <3>3
    <3>5. QED BY <3>4
  <2>3. QED BY <1>0, <2>1, <2>2
<1>4. n \in S
  <2> HIDE DEF S
  <2>1. Nat \subseteq S BY <1>2, <1>3, AllNumbers
  <2>2. QED BY <2>1
<1>5. QED BY <1>0, <1>4

\* When no uuid is listed twice no walk that ends meets one twice.
LEMMA RowOnce ==
    ASSUME NEW c, Lists(c), Apart(c), NEW w, Rows(c, w), NEW n \in 0 .. MaxUuid,
           NEW g \in DOMAIN c.groups, ~Endless(c, g)
    PROVE  Once(w[n][g])
<1> DEFINE D == DOMAIN c.groups
           Good(k) == \A h \in D : ~Endless(c, h) => Once(w[k][h])
           S == {k \in Nat : k > MaxUuid \/ Good(k)}
<1>0. /\ MaxUuid \in Nat /\ D \in SUBSET Uuid /\ IsFiniteSet(D)
      /\ \A h \in D : Subs(c, h) \subseteq Uuid /\ Ents(c, h) \subseteq Uuid
  BY FewGroups
<1>1. /\ \A h : Entered(c, h) \subseteq D /\ Closed(c, Entered(c, h))
      /\ \A h \in D : h \in Entered(c, h)
      /\ \A h : h \notin D => Entered(c, h) = {}
  BY <1>0, EnteredGroups
<1>2. OneParent(c) BY DEF OneParent, Apart, Children, Listed, Subs
<1>3. Once(<<>>) BY DEF Once
<1>4. 0 \in S
  <2>1. 0 \in 0 .. MaxUuid BY <1>0
  <2>2. w[0] = Row(c, 0, w[0 - 1]) BY <2>1 DEF Rows
  <2>3. \A h \in D : w[0][h] = <<>> BY <1>0, <2>2 DEF Row
  <2>4. QED BY <1>3, <2>3
<1>5. ASSUME NEW k \in Nat, k \in S PROVE k + 1 \in S
  <2>1. CASE k + 1 > MaxUuid BY <2>1
  <2>2. CASE k + 1 <= MaxUuid
    <3>1. Good(k) /\ k \in 0 .. MaxUuid /\ k + 1 \in 0 .. MaxUuid /\ k + 1 # 0 /\ k + 1 - 1 = k
      BY <1>0, <1>5, <2>2
    <3>2. w[k + 1] = Row(c, k + 1, w[k]) BY <3>1 DEF Rows
    <3>3. ASSUME NEW h \in D, ~Endless(c, h) PROVE Once(w[k + 1][h])
      <4> DEFINE v == Visit(c, h, w[k])
                 b == w[k]
      <4>1. w[k + 1][h] = v BY <1>0, <3>1, <3>2 DEF Row, HasGroup
      <4>2. \A x \in Uuid : b[x] \in Seq(Item) /\ ToSet(b[x]) \subseteq Ways(c, x) BY <3>1, RowItems
      <4>3. b \in [Uuid -> Seq(Item)]
        <5>1. w[k] = Row(c, k, w[k - 1]) BY <3>1 DEF Rows
        <5>2. DOMAIN b = Uuid /\ b = [x \in Uuid |-> b[x]] BY <5>1 DEF Row
        <5>3. QED BY <4>2, <5>2
      <4>4. Branches(c, h, b) => Once(v) BY <4>3, Visited
      <4> HIDE DEF v, b
      <4>5. ASSUME NEW x \in Subs(c, h)
            PROVE  /\ Once(b[x])
                   /\ \A y \in Met(b[x]) : \E l \in Entered(c, x) : y \in Listed(c, l)
        <5>1. x \in Uuid BY <1>0
        <5>2. ASSUME NEW y \in Met(b[x]) PROVE \E l \in Entered(c, x) : y \in Listed(c, l)
          <6>1. Met(b[x]) = {item[2] : item \in ToSet(b[x])} BY <4>2, <5>1, MetItems
          <6>2. PICK item \in ToSet(b[x]) : y = item[2] BY <6>1
          <6>3. item \in Ways(c, x) BY <4>2, <5>1, <6>2
          <6>4. QED BY <6>2, <6>3 DEF Ways
        <5>3. Once(b[x])
          <6>1. CASE x \in D
            <7>1. x \in Children(c, h) BY <6>1 DEF Children, Subs
            <7>2. x \in Entered(c, h) BY <1>1, <7>1 DEF Closed
            <7>3. ~Endless(c, x) BY <1>0, <3>3, <7>2, NotBelowItself
            <7>4. QED BY <3>1, <6>1, <7>3 DEF b
          <6>2. CASE x \notin D
            <7>1. Entered(c, x) = {} BY <1>1, <6>2
            <7>2. Ways(c, x) = {} BY <7>1 DEF Ways
            <7>3. ToSet(b[x]) = {} BY <4>2, <5>1, <7>2
            <7>4. b[x] \in Seq(Item) BY <4>2, <5>1
            <7>5. DOMAIN b[x] = {} BY <7>3 DEF ToSet
            <7>6. QED BY <7>5 DEF Once
          <6>3. QED BY <6>1, <6>2
        <5>4. QED BY <5>2, <5>3
      <4>6. \A x \in Subs(c, h) : \A l \in Entered(c, x) : x \in D /\ l \in D /\ l # h
        <5>1. ASSUME NEW x \in Subs(c, h), NEW l \in Entered(c, x) PROVE x \in D /\ l \in D /\ l # h
          <6>1. x \in D /\ l \in D BY <1>1, <5>1
          <6>2. x \in Children(c, h) BY <6>1 DEF Children, Subs
          <6>3. h \notin Entered(c, x) BY <1>0, <1>1, <3>3, <6>2, NotBelowItself
          <6>4. QED BY <5>1, <6>1, <6>3
        <5>2. QED BY <5>1
      <4>7. ASSUME NEW x \in Subs(c, h) PROVE Met(b[x]) \cap (Subs(c, h) \cup Ents(c, h)) = {}
        <5>1. ASSUME NEW y \in Met(b[x]), y \in Listed(c, h) PROVE FALSE
          <6>1. PICK l \in Entered(c, x) : y \in Listed(c, l) BY <4>5, <5>1
          <6>2. l \in D /\ l # h BY <4>6, <6>1
          <6>3. QED BY <5>1, <6>1, <6>2 DEF Apart
        <5>2. QED BY <5>1 DEF Listed
      <4>8. ASSUME NEW x \in Subs(c, h), NEW y \in Subs(c, h), x # y
            PROVE  Met(b[x]) \cap Met(b[y]) = {}
        <5>1. ASSUME NEW z \in Met(b[x]), z \in Met(b[y]) PROVE FALSE
          <6>1. PICK l \in Entered(c, x) : z \in Listed(c, l) BY <4>5, <5>1
          <6>2. PICK m \in Entered(c, y) : z \in Listed(c, m) BY <4>5, <5>1
          <6>3. x \in D /\ y \in D /\ l \in D /\ m \in D BY <4>6, <6>1, <6>2
          <6>4. l = m BY <6>1, <6>2, <6>3 DEF Apart
          <6>5. x \in Children(c, h) /\ y \in Children(c, h) BY <6>3 DEF Children, Subs
          <6>6. h \in Entered(c, h) BY <1>1
          <6>7. Entered(c, x) \cap Entered(c, y) = {}
            BY <1>0, <1>2, <3>3, <4>8, <6>5, <6>6, BranchesApart
          <6>8. QED BY <6>1, <6>2, <6>4, <6>7
        <5>2. QED BY <5>1
      <4>9. Branches(c, h, b) BY <4>5, <4>7, <4>8 DEF Branches, Apart, Subs, Ents
      <4>10. QED BY <4>1, <4>4, <4>9
    <3>4. Good(k + 1) BY <3>3
    <3>5. QED BY <3>4
  <2>3. QED BY <1>0, <2>1, <2>2
<1>6. n \in S
  <2> HIDE DEF S
  <2>1. Nat \subseteq S BY <1>4, <1>5, AllNumbers
  <2>2. QED BY <2>1
<1>7. QED BY <1>0, <1>6

\* What a walk meets: nothing but what the groups list that it enters, and a
\* group before what it lists; if it ends, all of that; and if nothing is
\* listed twice, no uuid twice.
LEMMA WalkMeets ==
    ASSUME NEW c, Lists(c), NEW g \in {Nil} \cup Uuid
    PROVE  /\ Walk(c, g) \in Seq(Item) /\ ToSet(Walk(c, g)) \subseteq Ways(c, g) /\ FromTop(Walk(c, g), g)
           /\ ~Endless(c, g) => ToSet(Walk(c, g)) = Ways(c, g)
           /\ ~Endless(c, g) /\ Apart(c) => Once(Walk(c, g))
<1> DEFINE D == DOMAIN c.groups
           s == Walk(c, g)
<1>0. /\ MaxUuid \in Nat /\ MaxUuid \in 0 .. MaxUuid /\ D \in SUBSET Uuid /\ IsFiniteSet(D)
      /\ \A T \in SUBSET D : Cardinality(T) \in 0 .. MaxUuid
      /\ \A h \in D : Subs(c, h) \subseteq Uuid /\ Ents(c, h) \subseteq Uuid
  <2>1. MaxUuid \in Nat BY FewGroups
  <2>2. MaxUuid \in 0 .. MaxUuid BY <2>1
  <2>3. QED BY <2>2, FewGroups
<1>1. PICK w : Rows(c, w) /\ s = IF g = Nil THEN <<>> ELSE w[MaxUuid][g] BY WalkRows
<1> HIDE DEF s
<1>2. <<>> \in Seq(Item) /\ ToSet(<<>>) = {} BY EmptyList
<1>3. FromTop(<<>>, g) /\ Once(<<>>) BY DEF FromTop, Once
<1>4. 0 \notin Uuid BY <1>0 DEF Uuid
<1>5. Entered(c, g) \subseteq D /\ (g \notin D => Entered(c, g) = {}) BY <1>0, EnteredGroups
<1>6. CASE g \notin D
  <2>1. Ways(c, g) = {} BY <1>5, <1>6 DEF Ways
  <2>2. s \in Seq(Item) /\ ToSet(s) \subseteq Ways(c, g) /\ FromTop(s, g)
    BY <1>0, <1>1, <1>2, <1>3, RowItems DEF Nil
  <2>3. ToSet(s) = {} BY <2>1, <2>2
  <2>4. DOMAIN s = {} BY <2>3 DEF ToSet
  <2>5. Once(s) BY <2>4 DEF Once
  <2>6. QED BY <2>1, <2>2, <2>3, <2>5 DEF s
<1>7. CASE g \in D
  <2>1. s = w[MaxUuid][g] BY <1>0, <1>1, <1>4, <1>7 DEF Nil
  <2>2. s \in Seq(Item) /\ ToSet(s) \subseteq Ways(c, g) /\ FromTop(s, g) BY <1>0, <1>1, <1>7, <2>1, RowItems
  <2>3. ASSUME ~Endless(c, g) PROVE Ways(c, g) \subseteq ToSet(s)
    <3>1. Cardinality(Entered(c, g)) <= MaxUuid BY <1>0, <1>5
    <3>2. QED BY <1>0, <1>1, <1>7, <2>1, <2>3, <3>1, RowComplete
  <2>4. ASSUME ~Endless(c, g), Apart(c) PROVE Once(s) BY <1>0, <1>1, <1>7, <2>1, <2>4, RowOnce
  <2>5. QED BY <2>2, <2>3, <2>4 DEF s
<1>8. QED BY <1>6, <1>7

-----------------------------------------------------------------------------
(* The types of a content *)

\* Maps from some uuids of I.
Maps(I, T) == UNION {[S -> T] : S \in SUBSET I}

\* The contents that know the uuids of I.
Content(I) == [groups : Maps(I, Group), entries : Maps(I, Entry), bin : {Nil} \cup I,
               deleted : Maps(I, Time)]

Result(I) == [ok : BOOLEAN, db : Content(I)]

\* A map is a function from some uuids of I to T.
LEMMA MapIs ==
    ASSUME NEW I, NEW T, NEW m
    PROVE  m \in Maps(I, T) <=> /\ DOMAIN m \in SUBSET I /\ m = [x \in DOMAIN m |-> m[x]]
                                /\ \A x \in DOMAIN m : m[x] \in T
<1>1. ASSUME m \in Maps(I, T)
      PROVE  /\ DOMAIN m \in SUBSET I /\ m = [x \in DOMAIN m |-> m[x]]
             /\ \A x \in DOMAIN m : m[x] \in T
  <2>1. PICK S \in SUBSET I : m \in [S -> T] BY <1>1 DEF Maps
  <2>2. QED BY <2>1
<1>2. ASSUME DOMAIN m \in SUBSET I, m = [x \in DOMAIN m |-> m[x]], \A x \in DOMAIN m : m[x] \in T
      PROVE  m \in Maps(I, T)
  <2>1. m \in [DOMAIN m -> T] BY <1>2
  <2>2. QED BY <1>2, <2>1 DEF Maps
<1>3. QED BY <1>1, <1>2

\* A function on some uuids of I is such a map.
LEMMA MapOver ==
    ASSUME NEW I, NEW T, NEW S \in SUBSET I, NEW m \in [S -> T]
    PROVE  m \in Maps(I, T)
  BY DEF Maps

\* HashMap::insert and HashMap::remove
LEMMA PutMap ==
    ASSUME NEW I, NEW T, NEW m \in Maps(I, T), NEW x \in I, NEW v \in T
    PROVE  /\ Put(m, x, v) \in Maps(I, T) /\ DOMAIN Put(m, x, v) = DOMAIN m \cup {x}
           /\ Put(m, x, v)[x] = v /\ \A y \in DOMAIN m : y # x => Put(m, x, v)[y] = m[y]
<1>1. DOMAIN m \in SUBSET I /\ \A y \in DOMAIN m : m[y] \in T BY MapIs
<1>2. Put(m, x, v) \in [DOMAIN m \cup {x} -> T] BY <1>1 DEF Put
<1>3. Put(m, x, v) \in Maps(I, T) BY <1>1, <1>2, MapOver
<1>4. QED BY <1>2, <1>3 DEF Put

\* HashMap::remove takes one uuid away and leaves all other values.
LEMMA DropMap ==
    ASSUME NEW I, NEW T, NEW m \in Maps(I, T), NEW x
    PROVE  /\ Drop(m, x) \in Maps(I, T) /\ DOMAIN Drop(m, x) = DOMAIN m \ {x}
           /\ \A y \in DOMAIN m : y # x => Drop(m, x)[y] = m[y]
<1>1. DOMAIN m \in SUBSET I /\ \A y \in DOMAIN m : m[y] \in T BY MapIs
<1>2. Drop(m, x) \in [DOMAIN m \ {x} -> T] BY <1>1 DEF Drop
<1>3. Drop(m, x) \in Maps(I, T) BY <1>1, <1>2, MapOver
<1>4. QED BY <1>2, <1>3 DEF Drop

\* One value of a map is changed.
LEMMA ChangedMap ==
    ASSUME NEW I, NEW T, NEW m \in Maps(I, T), NEW x \in DOMAIN m, NEW v \in T
    PROVE  /\ [m EXCEPT ![x] = v] \in Maps(I, T) /\ DOMAIN [m EXCEPT ![x] = v] = DOMAIN m
           /\ [m EXCEPT ![x] = v][x] = v /\ \A y \in DOMAIN m : y # x => [m EXCEPT ![x] = v][y] = m[y]
<1>1. DOMAIN m \in SUBSET I /\ \A y \in DOMAIN m : m[y] \in T BY MapIs
<1>2. [m EXCEPT ![x] = v] \in [DOMAIN m -> T] BY <1>1
<1>3. [m EXCEPT ![x] = v] \in Maps(I, T) BY <1>1, <1>2, MapOver
<1>4. QED BY <1>3

\* The parts of a content have their types; all its groups are few.
LEMMA ContentParts ==
    ASSUME NEW I \in SUBSET Uuid, NEW c \in Content(I)
    PROVE  /\ c.groups \in Maps(I, Group) /\ c.entries \in Maps(I, Entry) /\ c.bin \in {Nil} \cup I
           /\ c.deleted \in Maps(I, Time)
           /\ DOMAIN c.groups \in SUBSET I /\ DOMAIN c.entries \in SUBSET I /\ DOMAIN c.deleted \in SUBSET I
           /\ \A g \in DOMAIN c.groups : c.groups[g] \in Group
           /\ \A e \in DOMAIN c.entries : c.entries[e] \in Entry
           /\ \A x \in DOMAIN c.deleted : c.deleted[x] \in Time
           /\ Lists(c) /\ IsFiniteSet(DOMAIN c.groups)
<1>1. /\ c.groups \in Maps(I, Group) /\ c.entries \in Maps(I, Entry) /\ c.bin \in {Nil} \cup I
      /\ c.deleted \in Maps(I, Time)
  BY DEF Content
<1>2. DOMAIN c.groups \in SUBSET I /\ \A g \in DOMAIN c.groups : c.groups[g] \in Group BY <1>1, MapIs
<1>3. DOMAIN c.entries \in SUBSET I /\ \A e \in DOMAIN c.entries : c.entries[e] \in Entry BY <1>1, MapIs
<1>4. DOMAIN c.deleted \in SUBSET I /\ \A x \in DOMAIN c.deleted : c.deleted[x] \in Time BY <1>1, MapIs
<1>5. Lists(c) BY <1>2 DEF Lists, Group
<1>6. IsFiniteSet(DOMAIN c.groups) BY <1>5, FewGroups
<1>7. QED BY <1>1, <1>2, <1>3, <1>4, <1>5, <1>6

\* A content with other groups, entries or deleted objects.
LEMMA OtherParts ==
    ASSUME NEW I, NEW c \in Content(I)
    PROVE  /\ \A m \in Maps(I, Group) : [c EXCEPT !.groups = m] \in Content(I)
           /\ \A m \in Maps(I, Entry) : [c EXCEPT !.entries = m] \in Content(I)
           /\ \A m \in Maps(I, Time) : [c EXCEPT !.deleted = m] \in Content(I)
           /\ \A b \in {Nil} \cup I : [c EXCEPT !.bin = b] \in Content(I)
  BY DEF Content

\* The results of a method: Ok and Err keep the content they are given.
LEMMA Results ==
    ASSUME NEW I, NEW c \in Content(I)
    PROVE  /\ Ok(c) \in Result(I) /\ Ok(c).ok = TRUE /\ Ok(c).db = c
           /\ Err(c) \in Result(I) /\ Err(c).ok = FALSE /\ Err(c).db = c
  BY DEF Ok, Err, Result

\* Uuids that are known stay known.
LEMMA MoreKnown ==
    ASSUME NEW I, NEW J, I \subseteq J, NEW c \in Content(I)
    PROVE  c \in Content(J)
<1>1. \A T : Maps(I, T) \subseteq Maps(J, T) BY DEF Maps
<1>2. QED BY <1>1 DEF Content

\* A group with another value in the map, and an entry.
LEMMA ChangedGroup ==
    ASSUME NEW I \in SUBSET Uuid, NEW c \in Content(I), NEW g \in DOMAIN c.groups, NEW v \in Group
    PROVE  LET d == [c EXCEPT !.groups[g] = v]
           IN  /\ d \in Content(I) /\ DOMAIN d.groups = DOMAIN c.groups /\ d.groups[g] = v
               /\ \A h \in DOMAIN c.groups : h # g => d.groups[h] = c.groups[h]
               /\ d.entries = c.entries /\ d.bin = c.bin /\ d.deleted = c.deleted
<1> DEFINE m == [c.groups EXCEPT ![g] = v]
           d == [c EXCEPT !.groups[g] = v]
<1>1. c.groups \in Maps(I, Group) BY ContentParts
<1>2. /\ m \in Maps(I, Group) /\ DOMAIN m = DOMAIN c.groups /\ m[g] = v
      /\ \A y \in DOMAIN c.groups : y # g => m[y] = c.groups[y]
  BY <1>1, ChangedMap
<1>3. d = [c EXCEPT !.groups = m] OBVIOUS
<1> HIDE DEF m, d
<1>4. d \in Content(I) BY <1>2, <1>3, OtherParts
<1>5. d.groups = m /\ d.entries = c.entries /\ d.bin = c.bin /\ d.deleted = c.deleted
  BY <1>3 DEF Content
<1>6. QED BY <1>2, <1>4, <1>5 DEF d

\* An entry with another value in the map.
LEMMA ChangedEntry ==
    ASSUME NEW I \in SUBSET Uuid, NEW c \in Content(I), NEW e \in DOMAIN c.entries, NEW v \in Entry
    PROVE  LET d == [c EXCEPT !.entries[e] = v]
           IN  /\ d \in Content(I) /\ DOMAIN d.entries = DOMAIN c.entries /\ d.entries[e] = v
               /\ \A f \in DOMAIN c.entries : f # e => d.entries[f] = c.entries[f]
               /\ d.groups = c.groups /\ d.bin = c.bin /\ d.deleted = c.deleted
<1> DEFINE m == [c.entries EXCEPT ![e] = v]
           d == [c EXCEPT !.entries[e] = v]
<1>1. c.entries \in Maps(I, Entry) BY ContentParts
<1>2. /\ m \in Maps(I, Entry) /\ DOMAIN m = DOMAIN c.entries /\ m[e] = v
      /\ \A y \in DOMAIN c.entries : y # e => m[y] = c.entries[y]
  BY <1>1, ChangedMap
<1>3. d = [c EXCEPT !.entries = m] OBVIOUS
<1> HIDE DEF m, d
<1>4. d \in Content(I) BY <1>2, <1>3, OtherParts
<1>5. d.entries = m /\ d.groups = c.groups /\ d.bin = c.bin /\ d.deleted = c.deleted
  BY <1>3 DEF Content
<1>6. QED BY <1>2, <1>4, <1>5 DEF d

-----------------------------------------------------------------------------
(* What the small steps on a content do *)

\* Only the group p is another one.
OnlyGroup(c, d, p) ==
    /\ DOMAIN d.groups = DOMAIN c.groups /\ \A h \in DOMAIN c.groups : h # p => d.groups[h] = c.groups[h]
    /\ d.entries = c.entries /\ d.bin = c.bin /\ d.deleted = c.deleted

\* A parent lists one more group.
LEMMA GroupListed ==
    ASSUME NEW I \in SUBSET Uuid, NEW c \in Content(I), NEW p, NEW x \in Uuid
    PROVE  LET d == ListGroup(c, p, x)
           IN  /\ d \in Content(I) /\ OnlyGroup(c, d, p)
               /\ p \in DOMAIN c.groups => d.groups[p] = [c.groups[p] EXCEPT !.subs = Append(c.groups[p].subs, x)]
<1> DEFINE d == ListGroup(c, p, x)
<1>1. CASE p \notin DOMAIN c.groups
  <2>1. d = c BY <1>1 DEF ListGroup, HasGroup
  <2>2. QED BY <1>1, <2>1 DEF OnlyGroup
<1>2. CASE p \in DOMAIN c.groups
  <2> DEFINE list == Append(c.groups[p].subs, x)
             v == [c.groups[p] EXCEPT !.subs = list]
  <2>1. c.groups[p] \in Group BY <1>2, ContentParts
  <2>2. c.groups[p].subs \in Seq(Uuid) BY <2>1 DEF Group
  <2>3. list \in Seq(Uuid) BY <2>2, AppendedElements
  <2> HIDE DEF list
  <2>4. v \in Group BY <2>1, <2>3 DEF Group
  <2>5. d = [c EXCEPT !.groups[p] = v] BY <1>2 DEF ListGroup, HasGroup, list
  <2> HIDE DEF d, v
  <2>6. /\ [c EXCEPT !.groups[p] = v] \in Content(I) /\ DOMAIN [c EXCEPT !.groups[p] = v].groups = DOMAIN c.groups
        /\ [c EXCEPT !.groups[p] = v].groups[p] = v
        /\ \A h \in DOMAIN c.groups : h # p => [c EXCEPT !.groups[p] = v].groups[h] = c.groups[h]
        /\ [c EXCEPT !.groups[p] = v].entries = c.entries /\ [c EXCEPT !.groups[p] = v].bin = c.bin
        /\ [c EXCEPT !.groups[p] = v].deleted = c.deleted
    BY <1>2, <2>4, ChangedGroup
  <2>7. d \in Content(I) /\ OnlyGroup(c, d, p) /\ d.groups[p] = v BY <2>5, <2>6 DEF OnlyGroup
  <2>8. QED BY <2>7 DEF d, v, list
<1>3. QED BY <1>1, <1>2

\* A parent lists a group no more.
LEMMA GroupUnlisted ==
    ASSUME NEW I \in SUBSET Uuid, NEW c \in Content(I), NEW p, NEW x \in Uuid
    PROVE  LET d == UnlistGroup(c, p, x)
           IN  /\ d \in Content(I) /\ OnlyGroup(c, d, p)
               /\ p \in DOMAIN c.groups => d.groups[p] = [c.groups[p] EXCEPT !.subs = Retained(c.groups[p].subs, x)]
<1> DEFINE d == UnlistGroup(c, p, x)
<1>1. CASE p \notin DOMAIN c.groups
  <2>1. d = c BY <1>1 DEF UnlistGroup, HasGroup
  <2>2. QED BY <1>1, <2>1 DEF OnlyGroup
<1>2. CASE p \in DOMAIN c.groups
  <2> DEFINE list == Retained(c.groups[p].subs, x)
             v == [c.groups[p] EXCEPT !.subs = list]
  <2>1. c.groups[p] \in Group BY <1>2, ContentParts
  <2>2. c.groups[p].subs \in Seq(Uuid) BY <2>1 DEF Group
  <2>3. list \in Seq(Uuid) BY <2>2, RetainedItems
  <2> HIDE DEF list
  <2>4. v \in Group BY <2>1, <2>3 DEF Group
  <2>5. d = [c EXCEPT !.groups[p] = v] BY <1>2 DEF UnlistGroup, HasGroup, list
  <2> HIDE DEF d, v
  <2>6. /\ [c EXCEPT !.groups[p] = v] \in Content(I) /\ DOMAIN [c EXCEPT !.groups[p] = v].groups = DOMAIN c.groups
        /\ [c EXCEPT !.groups[p] = v].groups[p] = v
        /\ \A h \in DOMAIN c.groups : h # p => [c EXCEPT !.groups[p] = v].groups[h] = c.groups[h]
        /\ [c EXCEPT !.groups[p] = v].entries = c.entries /\ [c EXCEPT !.groups[p] = v].bin = c.bin
        /\ [c EXCEPT !.groups[p] = v].deleted = c.deleted
    BY <1>2, <2>4, ChangedGroup
  <2>7. d \in Content(I) /\ OnlyGroup(c, d, p) /\ d.groups[p] = v BY <2>5, <2>6 DEF OnlyGroup
  <2>8. QED BY <2>7 DEF d, v, list
<1>3. QED BY <1>1, <1>2

\* A parent lists one more entry.
LEMMA EntryListed ==
    ASSUME NEW I \in SUBSET Uuid, NEW c \in Content(I), NEW p, NEW x \in Uuid
    PROVE  LET d == ListEntry(c, p, x)
           IN  /\ d \in Content(I) /\ OnlyGroup(c, d, p)
               /\ p \in DOMAIN c.groups => d.groups[p] = [c.groups[p] EXCEPT !.entries = Append(c.groups[p].entries, x)]
<1> DEFINE d == ListEntry(c, p, x)
<1>1. CASE p \notin DOMAIN c.groups
  <2>1. d = c BY <1>1 DEF ListEntry, HasGroup
  <2>2. QED BY <1>1, <2>1 DEF OnlyGroup
<1>2. CASE p \in DOMAIN c.groups
  <2> DEFINE list == Append(c.groups[p].entries, x)
             v == [c.groups[p] EXCEPT !.entries = list]
  <2>1. c.groups[p] \in Group BY <1>2, ContentParts
  <2>2. c.groups[p].entries \in Seq(Uuid) BY <2>1 DEF Group
  <2>3. list \in Seq(Uuid) BY <2>2, AppendedElements
  <2> HIDE DEF list
  <2>4. v \in Group BY <2>1, <2>3 DEF Group
  <2>5. d = [c EXCEPT !.groups[p] = v] BY <1>2 DEF ListEntry, HasGroup, list
  <2> HIDE DEF d, v
  <2>6. /\ [c EXCEPT !.groups[p] = v] \in Content(I) /\ DOMAIN [c EXCEPT !.groups[p] = v].groups = DOMAIN c.groups
        /\ [c EXCEPT !.groups[p] = v].groups[p] = v
        /\ \A h \in DOMAIN c.groups : h # p => [c EXCEPT !.groups[p] = v].groups[h] = c.groups[h]
        /\ [c EXCEPT !.groups[p] = v].entries = c.entries /\ [c EXCEPT !.groups[p] = v].bin = c.bin
        /\ [c EXCEPT !.groups[p] = v].deleted = c.deleted
    BY <1>2, <2>4, ChangedGroup
  <2>7. d \in Content(I) /\ OnlyGroup(c, d, p) /\ d.groups[p] = v BY <2>5, <2>6 DEF OnlyGroup
  <2>8. QED BY <2>7 DEF d, v, list
<1>3. QED BY <1>1, <1>2

\* A parent lists an entry no more.
LEMMA EntryUnlisted ==
    ASSUME NEW I \in SUBSET Uuid, NEW c \in Content(I), NEW p, NEW x \in Uuid
    PROVE  LET d == UnlistEntry(c, p, x)
           IN  /\ d \in Content(I) /\ OnlyGroup(c, d, p)
               /\ p \in DOMAIN c.groups => d.groups[p] = [c.groups[p] EXCEPT !.entries = Retained(c.groups[p].entries, x)]
<1> DEFINE d == UnlistEntry(c, p, x)
<1>1. CASE p \notin DOMAIN c.groups
  <2>1. d = c BY <1>1 DEF UnlistEntry, HasGroup
  <2>2. QED BY <1>1, <2>1 DEF OnlyGroup
<1>2. CASE p \in DOMAIN c.groups
  <2> DEFINE list == Retained(c.groups[p].entries, x)
             v == [c.groups[p] EXCEPT !.entries = list]
  <2>1. c.groups[p] \in Group BY <1>2, ContentParts
  <2>2. c.groups[p].entries \in Seq(Uuid) BY <2>1 DEF Group
  <2>3. list \in Seq(Uuid) BY <2>2, RetainedItems
  <2> HIDE DEF list
  <2>4. v \in Group BY <2>1, <2>3 DEF Group
  <2>5. d = [c EXCEPT !.groups[p] = v] BY <1>2 DEF UnlistEntry, HasGroup, list
  <2> HIDE DEF d, v
  <2>6. /\ [c EXCEPT !.groups[p] = v] \in Content(I) /\ DOMAIN [c EXCEPT !.groups[p] = v].groups = DOMAIN c.groups
        /\ [c EXCEPT !.groups[p] = v].groups[p] = v
        /\ \A h \in DOMAIN c.groups : h # p => [c EXCEPT !.groups[p] = v].groups[h] = c.groups[h]
        /\ [c EXCEPT !.groups[p] = v].entries = c.entries /\ [c EXCEPT !.groups[p] = v].bin = c.bin
        /\ [c EXCEPT !.groups[p] = v].deleted = c.deleted
    BY <1>2, <2>4, ChangedGroup
  <2>7. d \in Content(I) /\ OnlyGroup(c, d, p) /\ d.groups[p] = v BY <2>5, <2>6 DEF OnlyGroup
  <2>8. QED BY <2>7 DEF d, v, list
<1>3. QED BY <1>1, <1>2

\* A group in the map.
LEMMA GroupPut ==
    ASSUME NEW I \in SUBSET Uuid, NEW c \in Content(I), NEW x \in I, NEW v \in Group
    PROVE  LET d == PutGroup(c, x, v)
           IN  /\ d \in Content(I)
               /\ DOMAIN d.groups = DOMAIN c.groups \cup {x} /\ d.groups[x] = v /\ (\A y \in DOMAIN c.groups : y # x => d.groups[y] = c.groups[y])
               /\ d.entries = c.entries /\ d.bin = c.bin /\ d.deleted = c.deleted
<1> DEFINE old == c.groups
           m == Put(old, x, v)
           d == PutGroup(c, x, v)
<1>1. old \in Maps(I, Group) BY ContentParts
<1> HIDE DEF old
<1>2. m \in Maps(I, Group)
      /\ DOMAIN m = DOMAIN old \cup {x} /\ m[x] = v /\ (\A y \in DOMAIN old : y # x => m[y] = old[y])
  <2>1. m \in Maps(I, Group) BY <1>1, PutMap
  <2>2. QED BY <2>1 DEF Put
<1>3. d = [c EXCEPT !.groups = m] BY DEF PutGroup, old
<1> HIDE DEF m, d
<1>4. d \in Content(I) BY <1>2, <1>3, OtherParts
<1>5. d.groups = m /\ d.entries = c.entries /\ d.bin = c.bin /\ d.deleted = c.deleted BY <1>3 DEF Content
<1>6. QED BY <1>2, <1>4, <1>5 DEF d, old

\* An entry in the map.
LEMMA EntryPut ==
    ASSUME NEW I \in SUBSET Uuid, NEW c \in Content(I), NEW x \in I, NEW v \in Entry
    PROVE  LET d == PutEntry(c, x, v)
           IN  /\ d \in Content(I)
               /\ DOMAIN d.entries = DOMAIN c.entries \cup {x} /\ d.entries[x] = v /\ (\A y \in DOMAIN c.entries : y # x => d.entries[y] = c.entries[y])
               /\ d.groups = c.groups /\ d.bin = c.bin /\ d.deleted = c.deleted
<1> DEFINE old == c.entries
           m == Put(old, x, v)
           d == PutEntry(c, x, v)
<1>1. old \in Maps(I, Entry) BY ContentParts
<1> HIDE DEF old
<1>2. m \in Maps(I, Entry)
      /\ DOMAIN m = DOMAIN old \cup {x} /\ m[x] = v /\ (\A y \in DOMAIN old : y # x => m[y] = old[y])
  <2>1. m \in Maps(I, Entry) BY <1>1, PutMap
  <2>2. QED BY <2>1 DEF Put
<1>3. d = [c EXCEPT !.entries = m] BY DEF PutEntry, old
<1> HIDE DEF m, d
<1>4. d \in Content(I) BY <1>2, <1>3, OtherParts
<1>5. d.entries = m /\ d.groups = c.groups /\ d.bin = c.bin /\ d.deleted = c.deleted BY <1>3 DEF Content
<1>6. QED BY <1>2, <1>4, <1>5 DEF d, old

\* A group out of the map.
LEMMA GroupDropped ==
    ASSUME NEW I \in SUBSET Uuid, NEW c \in Content(I), NEW x
    PROVE  LET d == DropGroup(c, x)
           IN  /\ d \in Content(I)
               /\ DOMAIN d.groups = DOMAIN c.groups \ {x} /\ (\A y \in DOMAIN c.groups : y # x => d.groups[y] = c.groups[y])
               /\ d.entries = c.entries /\ d.bin = c.bin /\ d.deleted = c.deleted
<1> DEFINE old == c.groups
           m == Drop(old, x)
           d == DropGroup(c, x)
<1>1. old \in Maps(I, Group) BY ContentParts
<1> HIDE DEF old
<1>2. m \in Maps(I, Group)
      /\ DOMAIN m = DOMAIN old \ {x} /\ (\A y \in DOMAIN old : y # x => m[y] = old[y])
  <2>1. m \in Maps(I, Group) BY <1>1, DropMap
  <2>2. QED BY <2>1 DEF Drop
<1>3. d = [c EXCEPT !.groups = m] BY DEF DropGroup, old
<1> HIDE DEF m, d
<1>4. d \in Content(I) BY <1>2, <1>3, OtherParts
<1>5. d.groups = m /\ d.entries = c.entries /\ d.bin = c.bin /\ d.deleted = c.deleted BY <1>3 DEF Content
<1>6. QED BY <1>2, <1>4, <1>5 DEF d, old

\* An entry out of the map.
LEMMA EntryDropped ==
    ASSUME NEW I \in SUBSET Uuid, NEW c \in Content(I), NEW x
    PROVE  LET d == DropEntry(c, x)
           IN  /\ d \in Content(I)
               /\ DOMAIN d.entries = DOMAIN c.entries \ {x} /\ (\A y \in DOMAIN c.entries : y # x => d.entries[y] = c.entries[y])
               /\ d.groups = c.groups /\ d.bin = c.bin /\ d.deleted = c.deleted
<1> DEFINE old == c.entries
           m == Drop(old, x)
           d == DropEntry(c, x)
<1>1. old \in Maps(I, Entry) BY ContentParts
<1> HIDE DEF old
<1>2. m \in Maps(I, Entry)
      /\ DOMAIN m = DOMAIN old \ {x} /\ (\A y \in DOMAIN old : y # x => m[y] = old[y])
  <2>1. m \in Maps(I, Entry) BY <1>1, DropMap
  <2>2. QED BY <2>1 DEF Drop
<1>3. d = [c EXCEPT !.entries = m] BY DEF DropEntry, old
<1> HIDE DEF m, d
<1>4. d \in Content(I) BY <1>2, <1>3, OtherParts
<1>5. d.entries = m /\ d.groups = c.groups /\ d.bin = c.bin /\ d.deleted = c.deleted BY <1>3 DEF Content
<1>6. QED BY <1>2, <1>4, <1>5 DEF d, old

\* One more deleted object.
LEMMA Buried ==
    ASSUME NEW I \in SUBSET Uuid, NEW c \in Content(I), NEW x \in I, NEW v \in Time
    PROVE  LET d == Bury(c, x, v)
           IN  /\ d \in Content(I)
               /\ DOMAIN d.deleted = DOMAIN c.deleted \cup {x} /\ d.deleted[x] = v /\ (\A y \in DOMAIN c.deleted : y # x => d.deleted[y] = c.deleted[y])
               /\ d.groups = c.groups /\ d.entries = c.entries /\ d.bin = c.bin
<1> DEFINE old == c.deleted
           m == Put(old, x, v)
           d == Bury(c, x, v)
<1>1. old \in Maps(I, Time) BY ContentParts
<1> HIDE DEF old
<1>2. m \in Maps(I, Time)
      /\ DOMAIN m = DOMAIN old \cup {x} /\ m[x] = v /\ (\A y \in DOMAIN old : y # x => m[y] = old[y])
  <2>1. m \in Maps(I, Time) BY <1>1, PutMap
  <2>2. QED BY <2>1 DEF Put
<1>3. d = [c EXCEPT !.deleted = m] BY DEF Bury, old
<1> HIDE DEF m, d
<1>4. d \in Content(I) BY <1>2, <1>3, OtherParts
<1>5. d.deleted = m /\ d.groups = c.groups /\ d.entries = c.entries /\ d.bin = c.bin BY <1>3 DEF Content
<1>6. QED BY <1>2, <1>4, <1>5 DEF d, old

-----------------------------------------------------------------------------
(* The operations that remove nothing *)

\* Nothing goes, nothing comes but the uuids of N, and nothing is deleted.
Kept(c, d, N) ==
    /\ DOMAIN c.groups \subseteq DOMAIN d.groups /\ DOMAIN d.groups \subseteq DOMAIN c.groups \cup N
    /\ DOMAIN c.entries \subseteq DOMAIN d.entries /\ DOMAIN d.entries \subseteq DOMAIN c.entries \cup N
    /\ d.deleted = c.deleted

\* insert_group
LEMMA InsertGroupTyped ==
    ASSUME NEW I \in SUBSET Uuid, NEW c \in Content(I), NEW g \in I, NEW group \in Group
    PROVE  /\ InsertGroup(c, g, group) \in Result(I) /\ Kept(c, InsertGroup(c, g, group).db, {g})
           /\ InsertGroup(c, g, group).db.entries = c.entries /\ InsertGroup(c, g, group).db.bin = c.bin
<1> DEFINE p == group.parent
           listed == ListGroup(c, p, g)
           put == PutGroup(listed, g, group)
<1>1. Ok(put).db = put /\ Err(c).db = c BY DEF Ok, Err
<1>2. listed \in Content(I) /\ OnlyGroup(c, listed, p) BY GroupListed
<1> HIDE DEF listed
<1>3. /\ put \in Content(I) /\ DOMAIN put.groups = DOMAIN listed.groups \cup {g}
      /\ put.entries = listed.entries /\ put.deleted = listed.deleted /\ put.bin = listed.bin
  BY <1>2, GroupPut
<1> HIDE DEF put
<1>4. Kept(c, put, {g}) /\ put.entries = c.entries /\ put.bin = c.bin BY <1>2, <1>3 DEF Kept, OnlyGroup
<1>5. Kept(c, c, {g}) BY DEF Kept
<1>6. InsertGroup(c, g, group) = Ok(put) \/ InsertGroup(c, g, group) = Err(c)
  BY DEF InsertGroup, put, listed
<1>7. QED BY <1>1, <1>3, <1>4, <1>5, <1>6, Results

\* insert_entry
LEMMA InsertEntryTyped ==
    ASSUME NEW I \in SUBSET Uuid, NEW c \in Content(I), NEW e \in I, NEW entry \in Entry
    PROVE  LET r == InsertEntry(c, e, entry)
           IN  /\ r \in Result(I) /\ Kept(c, r.db, {e}) /\ r.db.bin = c.bin
               /\ \A x \in DOMAIN c.entries : r.db.entries[x] = c.entries[x]
               /\ r.ok => e \in DOMAIN r.db.entries
<1> DEFINE p == entry.parent
           listed == ListEntry(c, p, e)
           put == PutEntry(listed, e, entry)
<1>1. Ok(put).db = put /\ Err(c).db = c /\ Err(c).ok = FALSE BY DEF Ok, Err
<1>2. listed \in Content(I) /\ OnlyGroup(c, listed, p) BY EntryListed
<1> HIDE DEF listed
<1>3. /\ put \in Content(I) /\ DOMAIN put.entries = DOMAIN listed.entries \cup {e}
      /\ (\A y \in DOMAIN listed.entries : y # e => put.entries[y] = listed.entries[y])
      /\ put.groups = listed.groups /\ put.deleted = listed.deleted /\ put.bin = listed.bin
  BY <1>2, EntryPut
<1> HIDE DEF put
<1>4. Kept(c, put, {e}) /\ put.bin = c.bin /\ e \in DOMAIN put.entries BY <1>2, <1>3 DEF Kept, OnlyGroup
<1>8. e \notin DOMAIN c.entries => \A x \in DOMAIN c.entries : put.entries[x] = c.entries[x]
  BY <1>2, <1>3 DEF OnlyGroup
<1>5. Kept(c, c, {e}) BY DEF Kept
<1> DEFINE r == InsertEntry(c, e, entry)
<1>6. (r = Ok(put) /\ e \notin DOMAIN c.entries) \/ r = Err(c)
  BY DEF InsertEntry, HasEntry, put, listed
<1> HIDE DEF r
<1>7. CASE r = Ok(put) /\ e \notin DOMAIN c.entries
  <2>1. r \in Result(I) /\ r.db = put BY <1>3, <1>7, Results
  <2>2. QED BY <1>4, <1>7, <1>8, <2>1 DEF r
<1>9. CASE r = Err(c)
  <2>1. r \in Result(I) /\ r.db = c /\ r.ok = FALSE BY <1>9, Results
  <2>2. QED BY <1>5, <2>1 DEF r
<1>10. QED BY <1>6, <1>7, <1>9

\* The places of groups and entries, and the lists.
SamePlaces(c, d) ==
    /\ DOMAIN d.groups = DOMAIN c.groups /\ DOMAIN d.entries = DOMAIN c.entries
    /\ \A g \in DOMAIN c.groups : /\ d.groups[g].parent = c.groups[g].parent
                                  /\ d.groups[g].subs = c.groups[g].subs
                                  /\ d.groups[g].entries = c.groups[g].entries
    /\ \A e \in DOMAIN c.entries : d.entries[e].parent = c.entries[e].parent
    /\ d.bin = c.bin /\ d.deleted = c.deleted

\* update_group
LEMMA UpdateGroupTyped ==
    ASSUME NEW I \in SUBSET Uuid, NEW c \in Content(I), NEW g, NEW now \in Time, NEW by \in Devices
    PROVE  LET d == UpdateGroup(c, g, now, by) IN d \in Content(I) /\ SamePlaces(c, d)
<1> DEFINE d == UpdateGroup(c, g, now, by)
           v == [c.groups[g] EXCEPT !.mod = now, !.by = by]
<1>1. CASE g \notin DOMAIN c.groups
  <2>1. d = c BY <1>1 DEF UpdateGroup, HasGroup
  <2>2. QED BY <2>1 DEF SamePlaces
<1>2. CASE g \in DOMAIN c.groups
  <2>1. c.groups[g] \in Group BY <1>2, ContentParts
  <2>2. v \in Group /\ v.parent = c.groups[g].parent /\ v.subs = c.groups[g].subs /\ v.entries = c.groups[g].entries
    BY <2>1 DEF Group
  <2>3. d = [c EXCEPT !.groups[g] = v] BY <1>2 DEF UpdateGroup, HasGroup
  <2> HIDE DEF d, v
  <2>4. /\ d \in Content(I) /\ DOMAIN d.groups = DOMAIN c.groups /\ d.groups[g] = v
        /\ \A h \in DOMAIN c.groups : h # g => d.groups[h] = c.groups[h]
        /\ d.entries = c.entries /\ d.bin = c.bin /\ d.deleted = c.deleted
    BY <1>2, <2>2, <2>3, ChangedGroup
  <2>5. SamePlaces(c, d) BY <2>2, <2>4 DEF SamePlaces
  <2>6. QED BY <2>4, <2>5 DEF d
<1>3. QED BY <1>1, <1>2

\* An entry that stays where it is.
LEMMA SamePlaceTyped ==
    ASSUME NEW I \in SUBSET Uuid, NEW c \in Content(I), NEW e \in DOMAIN c.entries, NEW v \in Entry,
           v.parent = c.entries[e].parent
    PROVE  LET d == [c EXCEPT !.entries[e] = v] IN d \in Content(I) /\ SamePlaces(c, d)
<1> DEFINE d == [c EXCEPT !.entries[e] = v]
<1>1. /\ d \in Content(I) /\ DOMAIN d.entries = DOMAIN c.entries /\ d.entries[e] = v
      /\ \A f \in DOMAIN c.entries : f # e => d.entries[f] = c.entries[f]
      /\ d.groups = c.groups /\ d.bin = c.bin /\ d.deleted = c.deleted
  BY ChangedEntry
<1> HIDE DEF d
<1>2. SamePlaces(c, d) BY <1>1 DEF SamePlaces
<1>3. QED BY <1>1, <1>2 DEF d

\* create_histories
LEMMA CreatedHistories ==
    ASSUME NEW entry \in Entry
    PROVE  /\ CreateHistories(entry) \in Seq(Version)
           /\ ToSet(CreateHistories(entry)) \subseteq ToSet(entry.history) \cup {[mod |-> entry.mod, by |-> entry.by]}
           /\ HistoryMaxItems < 0 =>
                ToSet(CreateHistories(entry)) = ToSet(entry.history) \cup {[mod |-> entry.mod, by |-> entry.by]}
<1> DEFINE v == [mod |-> entry.mod, by |-> entry.by]
           all == Append(entry.history, v)
<1>1. entry.history \in Seq(Version) /\ v \in Version BY DEF Entry, Version
<1>2. all \in Seq(Version) /\ ToSet(all) = ToSet(entry.history) \cup {v} BY <1>1, AppendedElements
<1>3. CreateHistories(entry) = Trim(all) BY DEF CreateHistories
<1> HIDE DEF all
<1>4. QED BY <1>2, <1>3, TrimmedHistory

\* update_entry
LEMMA UpdateEntryTyped ==
    ASSUME NEW I \in SUBSET Uuid, NEW c \in Content(I), NEW e \in DOMAIN c.entries,
           NEW now \in Time, NEW by \in Devices
    PROVE  LET r == UpdateEntry(c, e, c.entries[e].parent, now, by)
           IN  r \in Result(I) /\ r.ok = TRUE /\ SamePlaces(c, r.db)
<1> DEFINE x == c.entries[e]
           past == CreateHistories(x)
           v == [x EXCEPT !.mod = now, !.by = by, !.parent = x.parent, !.history = past]
           d == [c EXCEPT !.entries[e] = v]
<1>1. x \in Entry BY ContentParts
<1>2. UpdateEntry(c, e, x.parent, now, by) = Ok(d) BY DEF UpdateEntry, HasEntry
<1> HIDE DEF x
<1>3. past \in Seq(Version) BY <1>1, CreatedHistories
<1> HIDE DEF past
<1>4. v \in Entry /\ v.parent = x.parent BY <1>1, <1>3 DEF Entry
<1> HIDE DEF v
<1>5. d \in Content(I) /\ SamePlaces(c, d) BY <1>4, SamePlaceTyped DEF x
<1> HIDE DEF d
<1>6. QED BY <1>2, <1>5, Results DEF x

\* delete_history_entry_by_index and delete_history_entries
LEMMA ForgetTyped ==
    ASSUME NEW I \in SUBSET Uuid, NEW c \in Content(I), NEW e \in DOMAIN c.entries, NEW i
    PROVE  /\ DeleteHistoryEntry(c, e, i) \in Content(I) /\ SamePlaces(c, DeleteHistoryEntry(c, e, i))
           /\ DeleteHistoryEntries(c, e) \in Content(I) /\ SamePlaces(c, DeleteHistoryEntries(c, e))
<1> DEFINE x == c.entries[e]
           past == Picked(x.history, DOMAIN x.history \ {i}, <)
           v == [x EXCEPT !.history = past]
           u == [x EXCEPT !.history = <<>>]
<1>1. x \in Entry BY ContentParts
<1>2. DeleteHistoryEntry(c, e, i) = [c EXCEPT !.entries[e] = v] BY DEF DeleteHistoryEntry
<1>3. DeleteHistoryEntries(c, e) = [c EXCEPT !.entries[e] = u] BY DEF DeleteHistoryEntries
<1> HIDE DEF x
<1>4. x.history \in Seq(Version) BY <1>1 DEF Entry
<1>5. past \in Seq(Version) BY <1>4, ForgottenVersion
<1>6. <<>> \in Seq(Version) OBVIOUS
<1> HIDE DEF past
<1>7. v \in Entry /\ v.parent = x.parent /\ u \in Entry /\ u.parent = x.parent BY <1>1, <1>5, <1>6 DEF Entry
<1> HIDE DEF u, v
<1>8. /\ [c EXCEPT !.entries[e] = v] \in Content(I) /\ SamePlaces(c, [c EXCEPT !.entries[e] = v])
      /\ [c EXCEPT !.entries[e] = u] \in Content(I) /\ SamePlaces(c, [c EXCEPT !.entries[e] = u])
  BY <1>7, SamePlaceTyped DEF x
<1>9. QED BY <1>2, <1>3, <1>8

\* The root group and the first recycle bin have uuids, and Nil is none.
LEMMA UuidsThere == RootGroup \in Uuid /\ BinGroup \in Uuid /\ Nil \notin Uuid /\ Uuid \subseteq Nat
  BY UuidsAssumption DEF RootGroup, BinGroup, Nil, Uuid

\* A new group and a new entry.
LEMMA NewTyped ==
    ASSUME NEW p \in Uuid, NEW now \in Time, NEW by \in Devices
    PROVE  NewGroup(p, now, by) \in Group /\ NewGroup(Nil, now, by) \in Group /\ NewEntry(p, now, by) \in Entry
<1>1. <<>> \in Seq(Uuid) /\ <<>> \in Seq(Version) OBVIOUS
<1>2. QED BY <1>1 DEF NewGroup, NewEntry, Group, Entry

\* move_group
LEMMA MoveGroupTyped ==
    ASSUME NEW I \in SUBSET Uuid, NEW c \in Content(I), NEW g \in Uuid, NEW p \in Uuid, NEW now \in Time
    PROVE  /\ MoveGroup(c, g, p, now) \in Result(I) /\ Kept(c, MoveGroup(c, g, p, now).db, {})
           /\ MoveGroup(c, g, p, now).db.entries = c.entries /\ MoveGroup(c, g, p, now).db.bin = c.bin
<1> DEFINE v == [c.groups[g] EXCEPT !.parent = p, !.moved = now]
           moved == [c EXCEPT !.groups[g] = v]
           listed == ListGroup(moved, p, g)
           d == UnlistGroup(listed, c.groups[g].parent, g)
<1>1. CASE MoveGroup(c, g, p, now) = Err(c)
  <2>1. Kept(c, c, {}) BY DEF Kept
  <2>2. QED BY <1>1, <2>1, Results
<1>2. CASE MoveGroup(c, g, p, now) # Err(c)
  <2>1. g \in DOMAIN c.groups /\ MoveGroup(c, g, p, now) = Ok(d) BY <1>2 DEF MoveGroup, HasGroup
  <2>2. c.groups[g] \in Group BY <2>1, ContentParts
  <2>3. v \in Group BY <2>2 DEF Group
  <2> HIDE DEF v
  <2>4. moved \in Content(I) /\ OnlyGroup(c, moved, g) BY <2>1, <2>3, ChangedGroup DEF OnlyGroup
  <2> HIDE DEF moved
  <2>5. listed \in Content(I) /\ OnlyGroup(moved, listed, p) BY <2>4, GroupListed
  <2> HIDE DEF listed
  <2>6. d \in Content(I) /\ OnlyGroup(listed, d, c.groups[g].parent) BY <2>5, GroupUnlisted
  <2> HIDE DEF d
  <2>7. Kept(c, d, {}) /\ d.entries = c.entries /\ d.bin = c.bin BY <2>4, <2>5, <2>6 DEF OnlyGroup, Kept
  <2>8. QED BY <2>1, <2>6, <2>7, Results
<1>3. QED BY <1>1, <1>2

\* What is kept of the entries.
SameVersions(c, d) ==
    \A e \in DOMAIN c.entries : /\ d.entries[e].mod = c.entries[e].mod /\ d.entries[e].by = c.entries[e].by
                                /\ d.entries[e].history = c.entries[e].history

\* move_entry
LEMMA MoveEntryTyped ==
    ASSUME NEW I \in SUBSET Uuid, NEW c \in Content(I), NEW e \in Uuid, NEW p \in Uuid, NEW now \in Time
    PROVE  LET r == MoveEntry(c, e, p, now)
           IN  r \in Result(I) /\ Kept(c, r.db, {}) /\ r.db.bin = c.bin /\ SameVersions(c, r.db)
<1> DEFINE v == [c.entries[e] EXCEPT !.parent = p, !.moved = now]
           moved == [c EXCEPT !.entries[e] = v]
           listed == ListEntry(moved, p, e)
           d == UnlistEntry(listed, c.entries[e].parent, e)
<1>1. CASE MoveEntry(c, e, p, now) = Err(c)
  <2>1. Kept(c, c, {}) /\ SameVersions(c, c) BY DEF Kept, SameVersions
  <2>2. QED BY <1>1, <2>1, Results
<1>2. CASE MoveEntry(c, e, p, now) # Err(c)
  <2>1. e \in DOMAIN c.entries /\ MoveEntry(c, e, p, now) = Ok(d) BY <1>2 DEF MoveEntry, HasEntry
  <2>2. c.entries[e] \in Entry BY <2>1, ContentParts
  <2>3. /\ v \in Entry /\ v.mod = c.entries[e].mod /\ v.by = c.entries[e].by
        /\ v.history = c.entries[e].history
    BY <2>2 DEF Entry
  <2> HIDE DEF v
  <2>4. /\ moved \in Content(I) /\ DOMAIN moved.entries = DOMAIN c.entries
        /\ moved.entries[e] = v /\ (\A x \in DOMAIN c.entries : x # e => moved.entries[x] = c.entries[x])
        /\ moved.groups = c.groups /\ moved.bin = c.bin /\ moved.deleted = c.deleted
    BY <2>1, <2>3, ChangedEntry
  <2> HIDE DEF moved
  <2>5. listed \in Content(I) /\ OnlyGroup(moved, listed, p) BY <2>4, EntryListed
  <2> HIDE DEF listed
  <2>6. d \in Content(I) /\ OnlyGroup(listed, d, c.entries[e].parent) BY <2>5, EntryUnlisted
  <2> HIDE DEF d
  <2>7. Kept(c, d, {}) /\ d.bin = c.bin /\ d.entries = moved.entries BY <2>4, <2>5, <2>6 DEF OnlyGroup, Kept
  <2>8. SameVersions(c, d) BY <2>3, <2>4, <2>7 DEF SameVersions
  <2>9. QED BY <2>1, <2>6, <2>7, <2>8, Results
<1>3. QED BY <1>1, <1>2

\* recycle_bin_group
LEMMA WithBinTyped ==
    ASSUME NEW I \in SUBSET Uuid, NEW c \in Content(I), NEW fresh, c.bin = Nil => fresh \in I,
           NEW now \in Time, NEW by \in Devices
    PROVE  LET d == WithBin(c, fresh, now, by)
           IN  /\ d \in Content(I) /\ Kept(c, d, {fresh}) /\ (c.bin # Nil => d = c)
               /\ (c.bin = Nil => d.bin = fresh) /\ d.entries = c.entries
<1> DEFINE d == WithBin(c, fresh, now, by)
           named == [c EXCEPT !.bin = fresh]
           group == NewGroup(RootGroup, now, by)
<1>1. CASE c.bin # Nil
  <2>1. d = c BY <1>1 DEF WithBin
  <2>2. Kept(c, c, {fresh}) BY DEF Kept
  <2> HIDE DEF d
  <2>3. QED BY <1>1, <2>1, <2>2 DEF d
<1>2. CASE c.bin = Nil
  <2>1. d = InsertGroup(named, fresh, group).db BY <1>2 DEF WithBin
  <2>2. group \in Group BY NewTyped, UuidsThere
  <2> HIDE DEF group
  <2>3. named \in Content(I) BY <1>2, OtherParts
  <2>4. /\ named.groups = c.groups /\ named.entries = c.entries /\ named.deleted = c.deleted
        /\ named.bin = fresh
    BY DEF Content
  <2> HIDE DEF named
  <2>5. /\ InsertGroup(named, fresh, group) \in Result(I)
        /\ Kept(named, InsertGroup(named, fresh, group).db, {fresh})
        /\ InsertGroup(named, fresh, group).db.entries = named.entries
        /\ InsertGroup(named, fresh, group).db.bin = named.bin
    BY <1>2, <2>2, <2>3, InsertGroupTyped
  <2> HIDE DEF d
  <2>6. d \in Content(I) BY <2>1, <2>5 DEF Result
  <2>7. Kept(c, d, {fresh}) BY <2>1, <2>4, <2>5 DEF Kept
  <2>8. d.entries = c.entries /\ d.bin = fresh BY <2>1, <2>4, <2>5
  <2>9. QED BY <1>2, <2>6, <2>7, <2>8 DEF d
<1>3. QED BY <1>1, <1>2

\* move_to_recycle_bin!
LEMMA DiscardTyped ==
    ASSUME NEW I \in SUBSET Uuid, NEW c \in Content(I), NEW x \in Uuid, NEW fresh, c.bin = Nil => fresh \in I,
           NEW now \in Time, NEW by \in Devices
    PROVE  /\ MoveGroupToRecycleBin(c, x, fresh, now, by) \in Result(I)
           /\ Kept(c, MoveGroupToRecycleBin(c, x, fresh, now, by).db, {fresh})
           /\ MoveEntryToRecycleBin(c, x, fresh, now, by) \in Result(I)
           /\ Kept(c, MoveEntryToRecycleBin(c, x, fresh, now, by).db, {fresh})
<1> DEFINE d == WithBin(c, fresh, now, by)
           r == MoveGroup(d, x, d.bin, now)
           s == MoveEntry(d, x, d.bin, now)
<1>1. d \in Content(I) /\ Kept(c, d, {fresh}) BY WithBinTyped
<1>2. /\ MoveGroupToRecycleBin(c, x, fresh, now, by) = IF HasGroup(d, d.bin) THEN r ELSE Err(d)
      /\ MoveEntryToRecycleBin(c, x, fresh, now, by) = IF HasGroup(d, d.bin) THEN s ELSE Err(d)
  BY DEF MoveGroupToRecycleBin, MoveEntryToRecycleBin
<1> HIDE DEF d
<1>3. Err(d) \in Result(I) /\ Err(d).db = d BY <1>1, Results
<1>4. ASSUME HasGroup(d, d.bin) PROVE r \in Result(I) /\ Kept(c, r.db, {fresh}) /\ s \in Result(I) /\ Kept(c, s.db, {fresh})
  <2>1. d.bin \in Uuid BY <1>1, <1>4, ContentParts DEF HasGroup
  <2>2. r \in Result(I) /\ Kept(d, r.db, {}) BY <1>1, <2>1, MoveGroupTyped
  <2>3. s \in Result(I) /\ Kept(d, s.db, {}) BY <1>1, <2>1, MoveEntryTyped
  <2> HIDE DEF r, s
  <2>4. Kept(c, r.db, {fresh}) /\ Kept(c, s.db, {fresh}) BY <1>1, <2>2, <2>3 DEF Kept
  <2>5. QED BY <2>2, <2>3, <2>4
<1> HIDE DEF r, s
<1>5. QED BY <1>1, <1>2, <1>3, <1>4

\* clone_entry
LEMMA CloneEntryTyped ==
    ASSUME NEW I \in SUBSET Uuid, NEW c \in Content(I), NEW e, NEW p, NEW fresh \in I, NEW keep \in BOOLEAN,
           NEW now \in Time, NEW by \in Devices
    PROVE  LET r == CloneEntry(c, e, p, fresh, keep, now, by)
           IN  r \in Result(I) /\ Kept(c, r.db, {fresh})
<1> DEFINE past == IF keep THEN c.entries[e].history ELSE <<>>
           v == [c.entries[e] EXCEPT !.parent = p, !.mod = now, !.by = by, !.history = past]
           listed == ListEntry(c, p, fresh)
           put == PutEntry(listed, fresh, v)
           r == CloneEntry(c, e, p, fresh, keep, now, by)
<1>1. CASE p \notin DOMAIN c.groups \/ e \notin DOMAIN c.entries
  <2>1. r = Err(c) BY <1>1 DEF CloneEntry, HasGroup, HasEntry
  <2>2. Kept(c, c, {fresh}) BY DEF Kept
  <2>3. QED BY <2>1, <2>2, Results
<1>2. CASE p \in DOMAIN c.groups /\ e \in DOMAIN c.entries
  <2>1. r = Ok(put) BY <1>2 DEF CloneEntry, HasGroup, HasEntry
  <2>2. c.entries[e] \in Entry /\ p \in Uuid BY <1>2, ContentParts
  <2>3. past \in Seq(Version) BY <2>2 DEF Entry
  <2> HIDE DEF past
  <2>4. v \in Entry BY <2>2, <2>3 DEF Entry
  <2> HIDE DEF v
  <2>5. listed \in Content(I) /\ OnlyGroup(c, listed, p) BY EntryListed
  <2> HIDE DEF listed
  <2>6. /\ put \in Content(I) /\ DOMAIN put.entries = DOMAIN listed.entries \cup {fresh}
        /\ put.groups = listed.groups /\ put.deleted = listed.deleted
    BY <2>4, <2>5, EntryPut
  <2> HIDE DEF put
  <2>7. Kept(c, put, {fresh}) BY <2>5, <2>6 DEF Kept, OnlyGroup
  <2>8. QED BY <2>1, <2>6, <2>7, Results
<1>3. QED BY <1>1, <1>2

\* sort_sub_groups
LEMMA SortTyped ==
    ASSUME NEW I \in SUBSET Uuid, NEW c \in Content(I), NEW g, NEW criteria
    PROVE  LET r == SortSubGroups(c, g, criteria) d == r.db
           IN  /\ r \in Result(I) /\ DOMAIN d.groups = DOMAIN c.groups
               /\ \A h \in DOMAIN c.groups :
                     /\ d.groups[h].parent = c.groups[h].parent /\ d.groups[h].entries = c.groups[h].entries
                     /\ Subs(d, h) = Subs(c, h)
                     /\ IsInjective(c.groups[h].subs) => IsInjective(d.groups[h].subs)
               /\ d.entries = c.entries /\ d.bin = c.bin /\ d.deleted = c.deleted
<1> DEFINE D == DOMAIN c.groups
           S == Sorted(c, g)
           new(h) == InName(c.groups[h].subs, criteria)
           m == [h \in D |-> IF h \in S THEN [c.groups[h] EXCEPT !.subs = new(h)] ELSE c.groups[h]]
           d == [c EXCEPT !.groups = m]
           r == SortSubGroups(c, g, criteria)
<1>1. r = Err(c) \/ r = Ok(d)
  <2> DEFINE refused == ~HasGroup(c, g) \/ \E h \in S : ~(ToSet(c.groups[h].subs) \subseteq DOMAIN c.groups)
  <2>1. r = IF refused THEN Err(c) ELSE Ok(d) BY DEF SortSubGroups
  <2> HIDE DEF refused, d
  <2>2. QED BY <2>1
<1>2. CASE r = Err(c)
  <2>1. r \in Result(I) /\ r.db = c BY <1>2, Results
  <2>2. QED BY <2>1
<1>3. CASE r = Ok(d)
  <2>1. ASSUME NEW h \in D
        PROVE  /\ m[h] \in Group /\ m[h].parent = c.groups[h].parent /\ m[h].entries = c.groups[h].entries
               /\ ToSet(m[h].subs) = Subs(c, h)
               /\ IsInjective(c.groups[h].subs) => IsInjective(m[h].subs)
    <3>1. c.groups[h] \in Group BY ContentParts
    <3>2. c.groups[h].subs \in Seq(Uuid) BY <3>1 DEF Group
    <3>3. /\ new(h) \in Seq(Uuid) /\ ToSet(new(h)) = ToSet(c.groups[h].subs)
          /\ IsInjective(c.groups[h].subs) => IsInjective(new(h))
      BY <3>2, SortedList
    <3>4. m[h] = IF h \in S THEN [c.groups[h] EXCEPT !.subs = new(h)] ELSE c.groups[h] OBVIOUS
    <3> HIDE DEF new, m, S
    <3>5. QED BY <3>1, <3>3, <3>4 DEF Group, Subs
  <2>2. DOMAIN m = D /\ m = [h \in D |-> m[h]] OBVIOUS
  <2>3. D \in SUBSET I BY ContentParts
  <2> HIDE DEF m, S
  <2>4. m \in Maps(I, Group) BY <2>1, <2>2, <2>3, MapIs
  <2>5. d \in Content(I) BY <2>4, OtherParts
  <2>6. d.groups = m /\ d.entries = c.entries /\ d.bin = c.bin /\ d.deleted = c.deleted BY DEF Content
  <2>7. r \in Result(I) /\ r.db = d BY <1>3, <2>5, Results
  <2> HIDE DEF d, r
  <2>8. QED BY <2>1, <2>2, <2>6, <2>7 DEF Subs, r
<1>4. QED BY <1>1, <1>2, <1>3

-----------------------------------------------------------------------------
(* Loops that remove *)

\* What is the same before a step is the same after it.
Alike(N, f, g) == \A n \in 1 .. N : f[n - 1] = g[n - 1] => f[n] = g[n]

\* Two runs of a loop do the same.
LEMMA SameLoop ==
    ASSUME NEW N \in Nat, NEW f, NEW g, f[0] = g[0], Alike(N, f, g)
    PROVE  \A n \in 0 .. N : f[n] = g[n]
<1> DEFINE S == {n \in Nat : n > N \/ f[n] = g[n]}
<1>1. 0 \in S OBVIOUS
<1>2. ASSUME NEW n \in Nat, n \in S PROVE n + 1 \in S
  <2>1. CASE n + 1 > N BY <2>1
  <2>2. CASE n + 1 <= N
    <3>1. n + 1 \in 1 .. N /\ n + 1 - 1 = n /\ f[n] = g[n] BY <1>2, <2>2
    <3>2. f[n + 1] = g[n + 1] BY <3>1 DEF Alike
    <3>3. QED BY <3>2
  <2>3. QED BY <2>1, <2>2
<1>3. Nat \subseteq S
  <2> HIDE DEF S
  <2>1. QED BY <1>1, <1>2, AllNumbers
<1>4. QED BY <1>3

\* The steps F lead from each G[n] to the next.
Leads(N, G, F) == \A n \in 1 .. N : \A v \in G[n - 1] : F[n][v] \in G[n]

\* The values of a loop with the steps F, from r on.
LoopThrough(f, N, r, G, F) ==
    /\ DOMAIN f = 0 .. N /\ f[0] = r /\ \A n \in 1 .. N : f[n] = F[n][f[n - 1]]
    /\ \A n \in 0 .. N : f[n] \in G[n]

\* A loop with such steps comes through all of them.
LEMMA LoopRule ==
    ASSUME NEW N \in Nat, NEW r, NEW G, NEW F, r \in G[0], Leads(N, G, F)
    PROVE  \E f : LoopThrough(f, N, r, G, F)
<1> DEFINE Upto(n, f) == /\ DOMAIN f = 0 .. n /\ f[0] = r /\ \A i \in 1 .. n : f[i] = F[i][f[i - 1]]
                         /\ \A i \in 0 .. n : f[i] \in G[i]
           S == {n \in Nat : n > N \/ \E f : Upto(n, f)}
<1>1. 0 \in S
  <2> DEFINE f == [i \in 0 .. 0 |-> r]
  <2>1. DOMAIN f = 0 .. 0 /\ f[0] = r /\ \A i \in 0 .. 0 : i = 0 OBVIOUS
  <2> HIDE DEF f
  <2>2. Upto(0, f) BY <2>1
  <2>3. QED BY <2>2
<1>2. ASSUME NEW n \in Nat, n \in S PROVE n + 1 \in S
  <2>1. CASE n + 1 > N BY <2>1
  <2>2. CASE n + 1 <= N
    <3>1. PICK f : Upto(n, f) BY <1>2, <2>2
    <3> DEFINE g == [i \in 0 .. n + 1 |-> IF i = n + 1 THEN F[n + 1][f[n]] ELSE f[i]]
    <3>2. n \in 0 .. n /\ n + 1 \in 1 .. N /\ n + 1 - 1 = n /\ n + 1 # n BY <2>2
    <3>3. F[n + 1][f[n]] \in G[n + 1] BY <3>1, <3>2 DEF Leads
    <3>4. DOMAIN g = 0 .. n + 1 /\ g[n + 1] = F[n + 1][f[n]] /\ \A i \in 0 .. n : g[i] = f[i] OBVIOUS
    <3> HIDE DEF g
    <3>5. g[0] = r BY <3>1, <3>4
    <3>6. ASSUME NEW i \in 0 .. n + 1 PROVE g[i] \in G[i]
      <4>1. CASE i = n + 1 BY <3>3, <3>4, <4>1
      <4>2. CASE i # n + 1
        <5>1. i \in 0 .. n BY <4>2
        <5>2. QED BY <3>1, <3>4, <5>1
      <4>3. QED BY <4>1, <4>2
    <3>7. ASSUME NEW i \in 1 .. n + 1 PROVE g[i] = F[i][g[i - 1]]
      <4>1. CASE i = n + 1
        <5>1. g[i - 1] = f[n] BY <3>2, <3>4, <4>1
        <5>2. QED BY <3>4, <4>1, <5>1
      <4>2. CASE i # n + 1
        <5>1. i \in 1 .. n /\ i \in 0 .. n /\ i - 1 \in 0 .. n BY <4>2
        <5>2. g[i] = f[i] /\ g[i - 1] = f[i - 1] BY <3>4, <5>1
        <5>3. QED BY <3>1, <5>1, <5>2
      <4>3. QED BY <4>1, <4>2
    <3>8. Upto(n + 1, g) BY <3>4, <3>5, <3>6, <3>7
    <3>9. QED BY <3>8
  <2>3. QED BY <2>1, <2>2
<1>3. Nat \subseteq S
  <2> HIDE DEF S
  <2>1. QED BY <1>1, <1>2, AllNumbers
<1>4. PICK f : Upto(N, f) BY <1>3
<1>5. QED BY <1>4 DEF LoopThrough

\* d is c without the entries of E, each of which has become a deleted object
\* and is out of the list of its parent.
Removed(c, d, E) ==
    /\ DOMAIN d.groups = DOMAIN c.groups /\ d.bin = c.bin
    /\ \A h \in DOMAIN c.groups :
          /\ d.groups[h].parent = c.groups[h].parent /\ d.groups[h].subs = c.groups[h].subs
          /\ Ents(d, h) = {x \in Ents(c, h) : x \notin E \/ c.entries[x].parent # h}
          /\ IsInjective(c.groups[h].entries) => IsInjective(d.groups[h].entries)
    /\ DOMAIN d.entries = DOMAIN c.entries \ E
    /\ \A e \in DOMAIN d.entries : d.entries[e] = c.entries[e]
    /\ DOMAIN d.deleted = DOMAIN c.deleted \cup E

\* A content is itself without no entries.
LEMMA NothingRemoved ==
    ASSUME NEW c PROVE Removed(c, c, {})
  BY DEF Removed

\* remove_entry_permanently
LEMMA RemoveEntryTyped ==
    ASSUME NEW I \in SUBSET Uuid, NEW c \in Content(I), NEW e, NEW now \in Time
    PROVE  LET r == RemoveEntry(c, e, now)
           IN  /\ r \in Result(I)
               /\ r.ok <=> e \in DOMAIN c.entries /\ e \in EntriesBelow(c, c.bin)
               /\ IF r.ok THEN Removed(c, r.db, {e}) ELSE r.db = c
<1> DEFINE r == RemoveEntry(c, e, now)
           p == c.entries[e].parent
           dropped == DropEntry(c, e)
           unlisted == UnlistEntry(dropped, p, e)
           d == Bury(unlisted, e, now)
<1>1. CASE ~(e \in DOMAIN c.entries /\ e \in EntriesBelow(c, c.bin))
  <2>1. r = Err(c) BY <1>1 DEF RemoveEntry, HasEntry
  <2>2. QED BY <1>1, <2>1, Results
<1>2. CASE e \in DOMAIN c.entries /\ e \in EntriesBelow(c, c.bin)
  <2>1. r = Ok(d) BY <1>2 DEF RemoveEntry, HasEntry
  <2>2. e \in I /\ I \subseteq Uuid BY <1>2, ContentParts
  <2>3. /\ dropped \in Content(I) /\ DOMAIN dropped.entries = DOMAIN c.entries \ {e}
        /\ (\A y \in DOMAIN c.entries : y # e => dropped.entries[y] = c.entries[y])
        /\ dropped.groups = c.groups /\ dropped.bin = c.bin /\ dropped.deleted = c.deleted
    BY EntryDropped
  <2> HIDE DEF dropped
  <2>4. /\ unlisted \in Content(I) /\ OnlyGroup(dropped, unlisted, p)
        /\ p \in DOMAIN dropped.groups =>
             unlisted.groups[p] = [dropped.groups[p] EXCEPT !.entries = Retained(dropped.groups[p].entries, e)]
    BY <2>2, <2>3, EntryUnlisted
  <2> HIDE DEF unlisted
  <2>5. /\ d \in Content(I) /\ DOMAIN d.deleted = DOMAIN unlisted.deleted \cup {e}
        /\ d.groups = unlisted.groups /\ d.entries = unlisted.entries /\ d.bin = unlisted.bin
    BY <2>2, <2>4, Buried
  <2> HIDE DEF d
  <2>6. ASSUME NEW h \in DOMAIN c.groups
        PROVE  /\ d.groups[h].parent = c.groups[h].parent /\ d.groups[h].subs = c.groups[h].subs
               /\ Ents(d, h) = {x \in Ents(c, h) : x \notin {e} \/ c.entries[x].parent # h}
               /\ IsInjective(c.groups[h].entries) => IsInjective(d.groups[h].entries)
    <3>1. c.groups[h] \in Group BY ContentParts
    <3>2. c.groups[h].entries \in Seq(Uuid) BY <3>1 DEF Group
    <3>3. CASE h # p
      <4>1. d.groups[h] = c.groups[h] BY <2>3, <2>4, <2>5, <3>3 DEF OnlyGroup
      <4>2. QED BY <3>3, <4>1 DEF Ents
    <3>4. CASE h = p
      <4> DEFINE old == c.groups[h].entries
                 list == Retained(old, e)
      <4>1. ToSet(list) = ToSet(old) \ {e} /\ (IsInjective(old) => IsInjective(list)) BY <3>2, RetainedItems
      <4>2. d.groups[h] = [c.groups[h] EXCEPT !.entries = list] BY <2>3, <2>4, <2>5, <3>4
      <4> HIDE DEF list
      <4>3. /\ d.groups[h].entries = list /\ d.groups[h].subs = c.groups[h].subs
            /\ d.groups[h].parent = c.groups[h].parent
        BY <3>1, <4>2 DEF Group
      <4>4. ToSet(list) = {x \in ToSet(old) : x \notin {e} \/ c.entries[x].parent # h} BY <3>4, <4>1
      <4>5. QED BY <4>1, <4>3, <4>4 DEF Ents
    <3>5. QED BY <3>3, <3>4
  <2>7. Removed(c, d, {e}) BY <2>3, <2>4, <2>5, <2>6 DEF Removed, OnlyGroup
  <2>8. Ok(d) \in Result(I) /\ Ok(d).ok = TRUE /\ Ok(d).db = d BY <2>5, Results
  <2>9. QED BY <1>2, <2>1, <2>7, <2>8
<1>3. QED BY <1>1, <1>2

\* d is c without the entries of E, which stay in the lists.
TakenEntries(c, d, E) ==
    /\ d.groups = c.groups /\ d.bin = c.bin
    /\ DOMAIN d.entries = DOMAIN c.entries \ E
    /\ \A e \in DOMAIN d.entries : d.entries[e] = c.entries[e]
    /\ DOMAIN d.deleted = DOMAIN c.deleted \cup E

\* d is c without the groups of H, of which those of B have become deleted objects.
TakenGroups(c, d, H, B) ==
    /\ d.entries = c.entries /\ d.bin = c.bin
    /\ DOMAIN d.groups = DOMAIN c.groups \ H
    /\ \A h \in DOMAIN d.groups : d.groups[h] = c.groups[h]
    /\ DOMAIN d.deleted = DOMAIN c.deleted \cup B

\* What is removed in a loop: entries of a group that is removed, its subgroups,
\* entries of the recycle bin and its subgroups.
Kinds == {"entry", "group", "binnedentry", "binnedgroup"}

TakeOut(kind, d, x, now) ==
    CASE kind = "entry" -> RemoveEntry(d, x, now)
      [] kind = "group" -> TakeGroup(d, x)
      [] kind = "binnedentry" -> AndThen(TakeEntry(d, x), LAMBDA c : Ok(Bury(c, x, now)))
      [] kind = "binnedgroup" -> AndThen(TakeGroup(d, x), LAMBDA c : Ok(Bury(c, x, now)))

\* Without E, in the way the loop takes it out.
LessBy(kind, c, d, E) ==
    CASE kind = "entry" -> Removed(c, d, E)
      [] kind = "group" -> TakenGroups(c, d, E, {})
      [] kind = "binnedentry" -> TakenEntries(c, d, E)
      [] kind = "binnedgroup" -> TakenGroups(c, d, E, E)

\* Can x be removed
Able(kind, c, x) ==
    CASE kind = "entry" -> x \in DOMAIN c.entries /\ x \in EntriesBelow(c, c.bin)
      [] kind = "group" -> x \in DOMAIN c.groups
      [] kind = "binnedentry" -> x \in DOMAIN c.entries
      [] kind = "binnedgroup" -> x \in DOMAIN c.groups

\* One removal of a loop fails without a change, or takes out just that uuid.
LEMMA RemoveTyped ==
    ASSUME NEW I \in SUBSET Uuid, NEW c \in Content(I), NEW kind \in Kinds, NEW x, NEW now \in Time
    PROVE  LET r == TakeOut(kind, c, x, now)
           IN  /\ r \in Result(I) /\ (r.ok <=> Able(kind, c, x))
               /\ IF r.ok THEN LessBy(kind, c, r.db, {x}) ELSE r.db = c
<1> DEFINE r == TakeOut(kind, c, x, now)
           e == DropEntry(c, x)
           g == DropGroup(c, x)
           be == Bury(e, x, now)
           bg == Bury(g, x, now)
<1>1. CASE kind = "entry"
  <2>1. r = RemoveEntry(c, x, now) BY <1>1 DEF TakeOut
  <2> HIDE DEF r
  <2>2. /\ r \in Result(I)
        /\ r.ok <=> x \in DOMAIN c.entries /\ x \in EntriesBelow(c, c.bin)
        /\ IF r.ok THEN Removed(c, r.db, {x}) ELSE r.db = c
    BY <2>1, RemoveEntryTyped
  <2>3. QED BY <1>1, <2>2 DEF LessBy, Able, r
<1>2. Err(c) \in Result(I) /\ Err(c).ok = FALSE /\ Err(c).db = c BY Results
<1>3. CASE kind = "group"
  <2>1. r = IF x \in DOMAIN c.groups THEN Ok(g) ELSE Err(c) BY <1>3 DEF TakeOut, TakeGroup, HasGroup
  <2>2. /\ g \in Content(I) /\ DOMAIN g.groups = DOMAIN c.groups \ {x}
        /\ \A y \in DOMAIN c.groups : y # x => g.groups[y] = c.groups[y]
        /\ g.entries = c.entries /\ g.bin = c.bin /\ g.deleted = c.deleted
    BY GroupDropped
  <2> HIDE DEF g, r
  <2>3. TakenGroups(c, g, {x}, {}) BY <2>2 DEF TakenGroups
  <2>4. Ok(g) \in Result(I) /\ Ok(g).ok = TRUE /\ Ok(g).db = g BY <2>2, Results
  <2>5. QED BY <1>2, <1>3, <2>1, <2>3, <2>4 DEF LessBy, Able, r
<1>4. CASE kind = "binnedentry"
  <2>1. r = IF x \in DOMAIN c.entries THEN Ok(be) ELSE Err(c)
    BY <1>4 DEF TakeOut, TakeEntry, HasEntry, AndThen, Ok, Err
  <2>2. /\ e \in Content(I) /\ DOMAIN e.entries = DOMAIN c.entries \ {x}
        /\ \A y \in DOMAIN c.entries : y # x => e.entries[y] = c.entries[y]
        /\ e.groups = c.groups /\ e.bin = c.bin /\ e.deleted = c.deleted
    BY EntryDropped
  <2> HIDE DEF e, r
  <2>3. ASSUME x \in DOMAIN c.entries
        PROVE  /\ be \in Content(I) /\ DOMAIN be.deleted = DOMAIN e.deleted \cup {x}
               /\ be.groups = e.groups /\ be.entries = e.entries /\ be.bin = e.bin
    <3>1. x \in I BY <2>3, ContentParts
    <3>2. QED BY <2>2, <3>1, Buried
  <2> HIDE DEF be
  <2>4. ASSUME x \in DOMAIN c.entries
        PROVE  TakenEntries(c, be, {x}) /\ Ok(be) \in Result(I) /\ Ok(be).ok = TRUE /\ Ok(be).db = be
    <3>1. TakenEntries(c, be, {x}) BY <2>2, <2>3, <2>4 DEF TakenEntries
    <3>2. QED BY <2>3, <2>4, <3>1, Results
  <2>5. QED BY <1>2, <1>4, <2>1, <2>4 DEF LessBy, Able, r
<1>5. CASE kind = "binnedgroup"
  <2>1. r = IF x \in DOMAIN c.groups THEN Ok(bg) ELSE Err(c)
    BY <1>5 DEF TakeOut, TakeGroup, HasGroup, AndThen, Ok, Err
  <2>2. /\ g \in Content(I) /\ DOMAIN g.groups = DOMAIN c.groups \ {x}
        /\ \A y \in DOMAIN c.groups : y # x => g.groups[y] = c.groups[y]
        /\ g.entries = c.entries /\ g.bin = c.bin /\ g.deleted = c.deleted
    BY GroupDropped
  <2> HIDE DEF g, r
  <2>3. ASSUME x \in DOMAIN c.groups
        PROVE  /\ bg \in Content(I) /\ DOMAIN bg.deleted = DOMAIN g.deleted \cup {x}
               /\ bg.groups = g.groups /\ bg.entries = g.entries /\ bg.bin = g.bin
    <3>1. x \in I BY <2>3, ContentParts
    <3>2. QED BY <2>2, <3>1, Buried
  <2> HIDE DEF bg
  <2>4. ASSUME x \in DOMAIN c.groups
        PROVE  TakenGroups(c, bg, {x}, {x}) /\ Ok(bg) \in Result(I) /\ Ok(bg).ok = TRUE /\ Ok(bg).db = bg
    <3>1. TakenGroups(c, bg, {x}, {x}) BY <2>2, <2>3, <2>4 DEF TakenGroups
    <3>2. QED BY <2>3, <2>4, <3>1, Results
  <2>5. QED BY <1>2, <1>5, <2>1, <2>4 DEF LessBy, Able, r
<1>6. QED BY <1>1, <1>3, <1>4, <1>5 DEF Kinds

\* A content is itself, less nothing.
LEMMA NothingLess ==
    ASSUME NEW c, NEW kind \in Kinds
    PROVE  LessBy(kind, c, c, {})
  BY NothingRemoved DEF LessBy, TakenEntries, TakenGroups, Kinds

\* The walks of a content without some entries.
LEMMA RemovedWalks ==
    ASSUME NEW I \in SUBSET Uuid, NEW c \in Content(I), NEW d, NEW E, Removed(c, d, E)
    PROVE  \A g : /\ Entered(d, g) = Entered(c, g) /\ (Endless(d, g) <=> Endless(c, g))
                  /\ GroupsBelow(d, g) = GroupsBelow(c, g)
                  /\ EntriesBelow(d, g) \subseteq EntriesBelow(c, g)
                  /\ EntriesBelow(c, g) \ E \subseteq EntriesBelow(d, g)
<1>1. TAKE g
<1>2. IsFiniteSet(DOMAIN c.groups) BY ContentParts
<1>3. /\ DOMAIN d.groups = DOMAIN c.groups
      /\ \A h \in DOMAIN c.groups : ToSet(d.groups[h].subs) = ToSet(c.groups[h].subs)
      /\ \A h \in DOMAIN c.groups : Ents(d, h) \subseteq Ents(c, h) /\ Ents(c, h) \ E \subseteq Ents(d, h)
  BY DEF Removed
<1>4. Entered(d, g) = Entered(c, g) /\ (Endless(d, g) <=> Endless(c, g)) BY <1>2, <1>3, SameWalk
<1>5. Entered(c, g) \subseteq DOMAIN c.groups BY <1>2, EnteredGroups
<1>6. QED BY <1>3, <1>4, <1>5 DEF GroupsBelow, EntriesBelow, Ents

\* One more is removed.
LEMMA LessAgain ==
    ASSUME NEW I \in SUBSET Uuid, NEW c \in Content(I), NEW d, NEW E, NEW kind \in Kinds,
           LessBy(kind, c, d, E), NEW x
    PROVE  /\ \A b : Able(kind, d, x) /\ LessBy(kind, d, b, {x}) => LessBy(kind, c, b, E \cup {x})
           /\ Able(kind, d, x) => Able(kind, c, x)
           /\ Able(kind, c, x) /\ x \notin E => Able(kind, d, x)
<1>1. CASE kind = "entry"
  <2>1. Removed(c, d, E) BY <1>1 DEF LessBy
  <2>2. ASSUME NEW b, Able(kind, d, x), LessBy(kind, d, b, {x}) PROVE LessBy(kind, c, b, E \cup {x})
    <3>1. x \in DOMAIN d.entries /\ Removed(d, b, {x}) BY <1>1, <2>2 DEF Able, LessBy
    <3>2. d.entries[x] = c.entries[x] BY <2>1, <3>1 DEF Removed
    <3>3. ASSUME NEW h \in DOMAIN c.groups
          PROVE  /\ b.groups[h].parent = c.groups[h].parent /\ b.groups[h].subs = c.groups[h].subs
                 /\ Ents(b, h) = {y \in Ents(c, h) : y \notin E \cup {x} \/ c.entries[y].parent # h}
                 /\ IsInjective(c.groups[h].entries) => IsInjective(b.groups[h].entries)
      <4>1. h \in DOMAIN d.groups BY <2>1 DEF Removed
      <4>2. /\ d.groups[h].parent = c.groups[h].parent /\ d.groups[h].subs = c.groups[h].subs
            /\ Ents(d, h) = {y \in Ents(c, h) : y \notin E \/ c.entries[y].parent # h}
            /\ IsInjective(c.groups[h].entries) => IsInjective(d.groups[h].entries)
        BY <2>1 DEF Removed
      <4>3. /\ b.groups[h].parent = d.groups[h].parent /\ b.groups[h].subs = d.groups[h].subs
            /\ Ents(b, h) = {y \in Ents(d, h) : y \notin {x} \/ d.entries[y].parent # h}
            /\ IsInjective(d.groups[h].entries) => IsInjective(b.groups[h].entries)
        BY <3>1, <4>1 DEF Removed
      <4>4. Ents(b, h) = {y \in Ents(c, h) : y \notin E \cup {x} \/ c.entries[y].parent # h}
        <5>1. \A y : y \in Ents(b, h) <=> y \in Ents(d, h) /\ (y # x \/ c.entries[x].parent # h) BY <3>2, <4>3
        <5>2. \A y : y \in Ents(d, h) <=> y \in Ents(c, h) /\ (y \notin E \/ c.entries[y].parent # h) BY <4>2
        <5>3. QED BY <5>1, <5>2
      <4>5. QED BY <4>2, <4>3, <4>4
    <3>4. DOMAIN b.groups = DOMAIN c.groups /\ b.bin = c.bin BY <2>1, <3>1 DEF Removed
    <3>5. DOMAIN b.entries = DOMAIN c.entries \ (E \cup {x}) /\ DOMAIN b.deleted = DOMAIN c.deleted \cup (E \cup {x})
      BY <2>1, <3>1 DEF Removed
    <3>6. \A e \in DOMAIN b.entries : b.entries[e] = c.entries[e] BY <2>1, <3>1 DEF Removed
    <3>7. Removed(c, b, E \cup {x}) BY <3>3, <3>4, <3>5, <3>6 DEF Removed
    <3>8. QED BY <1>1, <3>7 DEF LessBy
  <2>3. d.bin = c.bin /\ DOMAIN d.entries = DOMAIN c.entries \ E BY <2>1 DEF Removed
  <2>4. /\ EntriesBelow(d, c.bin) \subseteq EntriesBelow(c, c.bin)
        /\ EntriesBelow(c, c.bin) \ E \subseteq EntriesBelow(d, c.bin)
    BY <2>1, RemovedWalks
  <2>5. QED BY <1>1, <2>2, <2>3, <2>4 DEF Able
<1>2. CASE kind = "group" BY <1>2 DEF LessBy, Able, TakenGroups
<1>3. CASE kind = "binnedentry" BY <1>3 DEF LessBy, Able, TakenEntries
<1>4. CASE kind = "binnedgroup" BY <1>4 DEF LessBy, Able, TakenGroups
<1>5. QED BY <1>1, <1>2, <1>3, <1>4 DEF Kinds

\* One step of a loop that removes what it meets of ids.
LoopStep(kind, v, x, ids, now) ==
    IF v.ok THEN IF x \in ids THEN TakeOut(kind, v.db, x, now) ELSE Ok(v.db) ELSE v

\* The results of such a loop, from the first one.
Loop(f, kind, c, s, ids, now) ==
    /\ DOMAIN f = 0 .. Len(s) /\ f[0] = Ok(c)
    /\ \A n \in 1 .. Len(s) : f[n] = LoopStep(kind, f[n - 1], s[n][2], ids, now)

\* What the loop has met of ids after n steps.
MetBy(s, n, ids) == {s[i][2] : i \in 1 .. n} \cap ids

\* What a loop leaves behind: it lacks what the loop has removed, and that is
\* all of ids that is met if it could be removed and is met once.
Outcome(I, kind, c, s, ids, n) ==
    {v \in Result(I) :
        \E E \in SUBSET MetBy(s, n, ids) :
            /\ \A x \in E : Able(kind, c, x)
            /\ LessBy(kind, c, v.db, E)
            /\ Once(s) /\ (\A x \in MetBy(s, Len(s), ids) : Able(kind, c, x))
                 => v.ok = TRUE /\ E = MetBy(s, n, ids)}

\* Every such loop ends in its outcome.
LEMMA LoopOutcome ==
    ASSUME NEW I \in SUBSET Uuid, NEW c \in Content(I), NEW s \in Seq(Item), NEW ids,
           NEW kind \in Kinds, NEW now \in Time
    PROVE  \E f : Loop(f, kind, c, s, ids, now) /\ f[Len(s)] \in Outcome(I, kind, c, s, ids, Len(s))
<1> DEFINE N == Len(s)
           G == [n \in 0 .. N |-> Outcome(I, kind, c, s, ids, n)]
           F == [n \in 1 .. N |-> [v \in Result(I) |-> LoopStep(kind, v, s[n][2], ids, now)]]
           Met1(n) == MetBy(s, n, ids)
           Sure == Once(s) /\ \A x \in MetBy(s, N, ids) : Able(kind, c, x)
<1>1. N \in Nat OBVIOUS
<1>2. DOMAIN s = 1 .. N OBVIOUS
<1> HIDE DEF N
<1>3. Ok(c) \in G[0]
  <2>1. Ok(c) \in Result(I) /\ Ok(c).ok = TRUE /\ Ok(c).db = c BY Results
  <2>2. LessBy(kind, c, c, {}) BY NothingLess
  <2>3. MetBy(s, 0, ids) = {}
    <3>1. 1 .. 0 = {} OBVIOUS
    <3>2. QED BY <3>1 DEF MetBy
  <2>4. Ok(c) \in Outcome(I, kind, c, s, ids, 0) BY <2>1, <2>2, <2>3 DEF Outcome
  <2>5. QED BY <1>1, <2>4
<1>4. ASSUME NEW n \in 1 .. N, NEW v \in G[n - 1] PROVE F[n][v] \in G[n]
  <2> DEFINE x == s[n][2]
             w == LoopStep(kind, v, x, ids, now)
  <2>1. n - 1 \in 0 .. N /\ n \in 0 .. N BY <1>1
  <2>2. v \in Outcome(I, kind, c, s, ids, n - 1) BY <2>1
  <2>3. v \in Result(I) /\ v.ok \in BOOLEAN /\ v.db \in Content(I) BY <2>2 DEF Outcome, Result
  <2>4. F[n][v] = w /\ G[n] = Outcome(I, kind, c, s, ids, n) BY <2>1, <2>3
  <2>5. PICK E \in SUBSET Met1(n - 1) : /\ \A y \in E : Able(kind, c, y)
                                        /\ LessBy(kind, c, v.db, E)
                                        /\ Sure => v.ok = TRUE /\ E = Met1(n - 1)
    BY <2>2 DEF Outcome, N
  <2>6. Met1(n) = Met1(n - 1) \cup ({x} \cap ids)
    <3>1. \A i \in 1 .. n : i = n \/ i \in 1 .. n - 1 OBVIOUS
    <3>2. \A i \in 1 .. n - 1 : i \in 1 .. n OBVIOUS
    <3>3. n \in 1 .. n OBVIOUS
    <3>4. QED BY <3>1, <3>2, <3>3 DEF MetBy
  <2>7. ASSUME NEW d \in SUBSET Met1(n), \A y \in d : Able(kind, c, y), LessBy(kind, c, w.db, d),
               w \in Result(I), Sure => w.ok = TRUE /\ d = Met1(n)
        PROVE  w \in Outcome(I, kind, c, s, ids, n)
    BY <2>7 DEF Outcome, N
  <2> HIDE DEF G, F, Sure
  <2>8. CASE ~v.ok
    <3>1. w = v BY <2>8 DEF LoopStep
    <3>2. ~Sure BY <2>5, <2>8
    <3>3. E \in SUBSET Met1(n) BY <2>6
    <3> HIDE DEF w, Met1
    <3>4. QED BY <2>3, <2>4, <2>5, <2>7, <3>1, <3>2, <3>3
  <2>9. CASE v.ok /\ x \notin ids
    <3>1. w = Ok(v.db) /\ Ok(v.db) \in Result(I) /\ Ok(v.db).ok = TRUE /\ Ok(v.db).db = v.db
      BY <2>3, <2>9, Results DEF LoopStep
    <3>2. Met1(n) = Met1(n - 1) BY <2>6, <2>9
    <3> HIDE DEF w, Met1
    <3>3. QED BY <2>4, <2>5, <2>7, <3>1, <3>2
  <2>10. CASE v.ok /\ x \in ids
    <3> DEFINE d == v.db
               r == TakeOut(kind, d, x, now)
    <3>1. w = r BY <2>10 DEF LoopStep
    <3>2. d \in Content(I) BY <2>3
    <3>3. /\ r \in Result(I) /\ (r.ok <=> Able(kind, d, x))
          /\ IF r.ok THEN LessBy(kind, d, r.db, {x}) ELSE r.db = d
      BY <3>2, RemoveTyped
    <3>4. r.ok \in BOOLEAN BY <3>3 DEF Result
    <3> HIDE DEF r, d
    <3>5. /\ Able(kind, d, x) /\ LessBy(kind, d, r.db, {x}) => LessBy(kind, c, r.db, E \cup {x})
          /\ Able(kind, d, x) => Able(kind, c, x)
          /\ Able(kind, c, x) /\ x \notin E => Able(kind, d, x)
      BY <2>5, LessAgain DEF d
    <3>6. Met1(n) = Met1(n - 1) \cup {x} BY <2>6, <2>10
    <3>7. ASSUME Sure PROVE Able(kind, d, x)
      <4>1. x \in MetBy(s, N, ids)
        <5>1. s[n][2] \in {s[i][2] : i \in 1 .. N} OBVIOUS
        <5>2. QED BY <2>10, <5>1 DEF MetBy
      <4>2. Able(kind, c, x) BY <3>7, <4>1 DEF Sure
      <4>3. x \notin Met1(n - 1)
        <5>1. ASSUME NEW i \in 1 .. n - 1, s[i][2] = x PROVE FALSE
          <6>1. i \in 1 .. N /\ i # n BY <1>1
          <6>2. Once(s) BY <3>7 DEF Sure
          <6>3. QED BY <1>2, <5>1, <6>1, <6>2 DEF Once
        <5>2. QED BY <5>1 DEF MetBy
      <4>4. x \notin E BY <2>5, <4>3
      <4>5. QED BY <3>5, <4>2, <4>4
    <3> HIDE DEF w, Met1, x
    <3>8. CASE r.ok
      <4>1. E \cup {x} \in SUBSET Met1(n) /\ \A y \in E \cup {x} : Able(kind, c, y) BY <2>5, <3>3, <3>5, <3>6, <3>8
      <4>2. LessBy(kind, c, r.db, E \cup {x}) BY <3>3, <3>5, <3>8
      <4>3. Sure => r.ok = TRUE /\ E \cup {x} = Met1(n) BY <2>5, <3>4, <3>6, <3>8
      <4>4. QED BY <2>4, <2>7, <3>1, <3>3, <4>1, <4>2, <4>3
    <3>9. CASE ~r.ok
      <4>1. r.db = d /\ ~Sure BY <3>3, <3>7, <3>9
      <4>2. E \in SUBSET Met1(n) /\ LessBy(kind, c, r.db, E) BY <2>5, <3>6, <4>1 DEF d
      <4>3. QED BY <2>4, <2>5, <2>7, <3>1, <3>3, <4>1, <4>2
    <3>10. QED BY <3>8, <3>9
  <2>11. QED BY <2>8, <2>9, <2>10
<1>5. PICK f : /\ DOMAIN f = 0 .. N /\ f[0] = Ok(c) /\ \A n \in 1 .. N : f[n] = F[n][f[n - 1]]
               /\ \A n \in 0 .. N : f[n] \in G[n]
  <2> DEFINE r == Ok(c)
  <2> HIDE DEF F, G
  <2>1. Leads(N, G, F) BY <1>4 DEF Leads
  <2>2. r \in G[0] BY <1>3
  <2> HIDE DEF r
  <2>3. \E f : LoopThrough(f, N, r, G, F) BY <1>1, <2>1, <2>2, LoopRule
  <2>4. QED BY <2>3 DEF LoopThrough, r
<1>6. \A n \in 0 .. N : f[n] \in Outcome(I, kind, c, s, ids, n) BY <1>5
<1>7. ASSUME NEW n \in 1 .. N PROVE f[n] = LoopStep(kind, f[n - 1], s[n][2], ids, now)
  <2>1. n - 1 \in 0 .. N BY <1>1
  <2>2. f[n - 1] \in Result(I) BY <1>6, <2>1 DEF Outcome
  <2>3. QED BY <1>5, <2>2
<1>8. N \in 0 .. N BY <1>1
<1>9. Loop(f, kind, c, s, ids, now) BY <1>5, <1>7 DEF Loop, N
<1>10. QED BY <1>6, <1>8, <1>9 DEF N

\* The four loops.
EntryLoop(c, s, ids, now) == ForEachMet(Ok(c), s, ids, LAMBDA d, e : RemoveEntry(d, e, now))

GroupLoop(c, s, ids, now) == ForEachMet(Ok(c), s, ids, TakeGroup)

BinnedEntryLoop(c, s, ids, now) ==
    ForEachMet(Ok(c), s, ids, LAMBDA d, e : AndThen(TakeEntry(d, e), LAMBDA x : Ok(Bury(x, e, now))))

BinnedGroupLoop(c, s, ids, now) ==
    ForEachMet(Ok(c), s, ids, LAMBDA d, g : AndThen(TakeGroup(d, g), LAMBDA x : Ok(Bury(x, g, now))))

\* The entries of a group that is removed.
LEMMA EntryLoopOutcome ==
    ASSUME NEW I \in SUBSET Uuid, NEW c \in Content(I), NEW s \in Seq(Item), NEW ids, NEW now \in Time
    PROVE  EntryLoop(c, s, ids, now) \in Outcome(I, "entry", c, s, ids, Len(s))
<1> DEFINE N == Len(s)
           Step(d, x) == RemoveEntry(d, x, now)
           Next(v, n) == IF v.ok THEN IF s[n][2] \in ids THEN Step(v.db, s[n][2]) ELSE Ok(v.db) ELSE v
           After(f) == f = [n \in 0 .. N |-> IF n = 0 THEN Ok(c) ELSE Next(f[n - 1], n)]
           after == CHOOSE f : After(f)
<1>1. EntryLoop(c, s, ids, now) = after[N] BY DEF EntryLoop, ForEachMet, ForEach
<1>2. N \in Nat OBVIOUS
<1>3. PICK f : Loop(f, "entry", c, s, ids, now) /\ f[N] \in Outcome(I, "entry", c, s, ids, N)
  BY LoopOutcome DEF Kinds
<1>4. \A d, x : TakeOut("entry", d, x, now) = Step(d, x) BY DEF TakeOut
<1> HIDE DEF Step, N
<1>5. DOMAIN f = 0 .. N /\ f[0] = Ok(c) /\ \A n \in 1 .. N : f[n] = Next(f[n - 1], n)
  BY <1>3, <1>4 DEF Loop, LoopStep, N
<1> HIDE DEF Next
<1>6. After([n \in 0 .. N |-> f[n]])
  <2> DEFINE g == [n \in 0 .. N |-> f[n]]
  <2>1. ASSUME NEW n \in 0 .. N PROVE g[n] = IF n = 0 THEN Ok(c) ELSE Next(g[n - 1], n)
    <3>1. CASE n = 0 BY <1>5, <3>1
    <3>2. CASE n # 0
      <4>1. n \in 1 .. N /\ n - 1 \in 0 .. N BY <1>2, <3>2
      <4>2. g[n - 1] = f[n - 1] BY <4>1
      <4>3. QED BY <1>5, <3>2, <4>1, <4>2
    <3>3. QED BY <3>1, <3>2
  <2>2. QED BY <2>1
<1>7. After(after) BY <1>6
<1> HIDE DEF after
<1>8. after[0] = f[0] BY <1>2, <1>5, <1>7
<1>9. ASSUME NEW n \in 1 .. N, after[n - 1] = f[n - 1] PROVE after[n] = f[n]
  <2>1. after[n] = Next(after[n - 1], n) BY <1>2, <1>7
  <2>2. QED BY <1>5, <1>9, <2>1
<1>10. \A n \in 0 .. N : after[n] = f[n]
  <2>1. Alike(N, after, f) BY <1>9 DEF Alike
  <2>2. QED BY <1>2, <1>8, <2>1, SameLoop
<1>11. QED BY <1>1, <1>2, <1>3, <1>10 DEF N

\* Its subgroups.
LEMMA GroupLoopOutcome ==
    ASSUME NEW I \in SUBSET Uuid, NEW c \in Content(I), NEW s \in Seq(Item), NEW ids, NEW now \in Time
    PROVE  GroupLoop(c, s, ids, now) \in Outcome(I, "group", c, s, ids, Len(s))
<1> DEFINE N == Len(s)
           Step(d, x) == TakeGroup(d, x)
           Next(v, n) == IF v.ok THEN IF s[n][2] \in ids THEN Step(v.db, s[n][2]) ELSE Ok(v.db) ELSE v
           After(f) == f = [n \in 0 .. N |-> IF n = 0 THEN Ok(c) ELSE Next(f[n - 1], n)]
           after == CHOOSE f : After(f)
<1>1. GroupLoop(c, s, ids, now) = after[N] BY DEF GroupLoop, ForEachMet, ForEach
<1>2. N \in Nat OBVIOUS
<1>3. PICK f : Loop(f, "group", c, s, ids, now) /\ f[N] \in Outcome(I, "group", c, s, ids, N)
  BY LoopOutcome DEF Kinds
<1>4. \A d, x : TakeOut("group", d, x, now) = Step(d, x) BY DEF TakeOut
<1> HIDE DEF Step, N
<1>5. DOMAIN f = 0 .. N /\ f[0] = Ok(c) /\ \A n \in 1 .. N : f[n] = Next(f[n - 1], n)
  BY <1>3, <1>4 DEF Loop, LoopStep, N
<1> HIDE DEF Next
<1>6. After([n \in 0 .. N |-> f[n]])
  <2> DEFINE g == [n \in 0 .. N |-> f[n]]
  <2>1. ASSUME NEW n \in 0 .. N PROVE g[n] = IF n = 0 THEN Ok(c) ELSE Next(g[n - 1], n)
    <3>1. CASE n = 0 BY <1>5, <3>1
    <3>2. CASE n # 0
      <4>1. n \in 1 .. N /\ n - 1 \in 0 .. N BY <1>2, <3>2
      <4>2. g[n - 1] = f[n - 1] BY <4>1
      <4>3. QED BY <1>5, <3>2, <4>1, <4>2
    <3>3. QED BY <3>1, <3>2
  <2>2. QED BY <2>1
<1>7. After(after) BY <1>6
<1> HIDE DEF after
<1>8. after[0] = f[0] BY <1>2, <1>5, <1>7
<1>9. ASSUME NEW n \in 1 .. N, after[n - 1] = f[n - 1] PROVE after[n] = f[n]
  <2>1. after[n] = Next(after[n - 1], n) BY <1>2, <1>7
  <2>2. QED BY <1>5, <1>9, <2>1
<1>10. \A n \in 0 .. N : after[n] = f[n]
  <2>1. Alike(N, after, f) BY <1>9 DEF Alike
  <2>2. QED BY <1>2, <1>8, <2>1, SameLoop
<1>11. QED BY <1>1, <1>2, <1>3, <1>10 DEF N

\* The entries of the recycle bin.
LEMMA BinnedEntryLoopOutcome ==
    ASSUME NEW I \in SUBSET Uuid, NEW c \in Content(I), NEW s \in Seq(Item), NEW ids, NEW now \in Time
    PROVE  BinnedEntryLoop(c, s, ids, now) \in Outcome(I, "binnedentry", c, s, ids, Len(s))
<1> DEFINE N == Len(s)
           Step(d, x) == IF TakeEntry(d, x).ok THEN Ok(Bury(TakeEntry(d, x).db, x, now)) ELSE TakeEntry(d, x)
           Next(v, n) == IF v.ok THEN IF s[n][2] \in ids THEN Step(v.db, s[n][2]) ELSE Ok(v.db) ELSE v
           After(f) == f = [n \in 0 .. N |-> IF n = 0 THEN Ok(c) ELSE Next(f[n - 1], n)]
           after == CHOOSE f : After(f)
<1>1. BinnedEntryLoop(c, s, ids, now) = after[N] BY DEF BinnedEntryLoop, ForEachMet, ForEach, AndThen
<1>2. N \in Nat OBVIOUS
<1>3. PICK f : Loop(f, "binnedentry", c, s, ids, now) /\ f[N] \in Outcome(I, "binnedentry", c, s, ids, N)
  BY LoopOutcome DEF Kinds
<1>4. \A d, x : TakeOut("binnedentry", d, x, now) = Step(d, x) BY DEF TakeOut, AndThen
<1> HIDE DEF Step, N
<1>5. DOMAIN f = 0 .. N /\ f[0] = Ok(c) /\ \A n \in 1 .. N : f[n] = Next(f[n - 1], n)
  BY <1>3, <1>4 DEF Loop, LoopStep, N
<1> HIDE DEF Next
<1>6. After([n \in 0 .. N |-> f[n]])
  <2> DEFINE g == [n \in 0 .. N |-> f[n]]
  <2>1. ASSUME NEW n \in 0 .. N PROVE g[n] = IF n = 0 THEN Ok(c) ELSE Next(g[n - 1], n)
    <3>1. CASE n = 0 BY <1>5, <3>1
    <3>2. CASE n # 0
      <4>1. n \in 1 .. N /\ n - 1 \in 0 .. N BY <1>2, <3>2
      <4>2. g[n - 1] = f[n - 1] BY <4>1
      <4>3. QED BY <1>5, <3>2, <4>1, <4>2
    <3>3. QED BY <3>1, <3>2
  <2>2. QED BY <2>1
<1>7. After(after) BY <1>6
<1> HIDE DEF after
<1>8. after[0] = f[0] BY <1>2, <1>5, <1>7
<1>9. ASSUME NEW n \in 1 .. N, after[n - 1] = f[n - 1] PROVE after[n] = f[n]
  <2>1. after[n] = Next(after[n - 1], n) BY <1>2, <1>7
  <2>2. QED BY <1>5, <1>9, <2>1
<1>10. \A n \in 0 .. N : after[n] = f[n]
  <2>1. Alike(N, after, f) BY <1>9 DEF Alike
  <2>2. QED BY <1>2, <1>8, <2>1, SameLoop
<1>11. QED BY <1>1, <1>2, <1>3, <1>10 DEF N

\* Its subgroups.
LEMMA BinnedGroupLoopOutcome ==
    ASSUME NEW I \in SUBSET Uuid, NEW c \in Content(I), NEW s \in Seq(Item), NEW ids, NEW now \in Time
    PROVE  BinnedGroupLoop(c, s, ids, now) \in Outcome(I, "binnedgroup", c, s, ids, Len(s))
<1> DEFINE N == Len(s)
           Step(d, x) == IF TakeGroup(d, x).ok THEN Ok(Bury(TakeGroup(d, x).db, x, now)) ELSE TakeGroup(d, x)
           Next(v, n) == IF v.ok THEN IF s[n][2] \in ids THEN Step(v.db, s[n][2]) ELSE Ok(v.db) ELSE v
           After(f) == f = [n \in 0 .. N |-> IF n = 0 THEN Ok(c) ELSE Next(f[n - 1], n)]
           after == CHOOSE f : After(f)
<1>1. BinnedGroupLoop(c, s, ids, now) = after[N] BY DEF BinnedGroupLoop, ForEachMet, ForEach, AndThen
<1>2. N \in Nat OBVIOUS
<1>3. PICK f : Loop(f, "binnedgroup", c, s, ids, now) /\ f[N] \in Outcome(I, "binnedgroup", c, s, ids, N)
  BY LoopOutcome DEF Kinds
<1>4. \A d, x : TakeOut("binnedgroup", d, x, now) = Step(d, x) BY DEF TakeOut, AndThen
<1> HIDE DEF Step, N
<1>5. DOMAIN f = 0 .. N /\ f[0] = Ok(c) /\ \A n \in 1 .. N : f[n] = Next(f[n - 1], n)
  BY <1>3, <1>4 DEF Loop, LoopStep, N
<1> HIDE DEF Next
<1>6. After([n \in 0 .. N |-> f[n]])
  <2> DEFINE g == [n \in 0 .. N |-> f[n]]
  <2>1. ASSUME NEW n \in 0 .. N PROVE g[n] = IF n = 0 THEN Ok(c) ELSE Next(g[n - 1], n)
    <3>1. CASE n = 0 BY <1>5, <3>1
    <3>2. CASE n # 0
      <4>1. n \in 1 .. N /\ n - 1 \in 0 .. N BY <1>2, <3>2
      <4>2. g[n - 1] = f[n - 1] BY <4>1
      <4>3. QED BY <1>5, <3>2, <4>1, <4>2
    <3>3. QED BY <3>1, <3>2
  <2>2. QED BY <2>1
<1>7. After(after) BY <1>6
<1> HIDE DEF after
<1>8. after[0] = f[0] BY <1>2, <1>5, <1>7
<1>9. ASSUME NEW n \in 1 .. N, after[n - 1] = f[n - 1] PROVE after[n] = f[n]
  <2>1. after[n] = Next(after[n - 1], n) BY <1>2, <1>7
  <2>2. QED BY <1>5, <1>9, <2>1
<1>10. \A n \in 0 .. N : after[n] = f[n]
  <2>1. Alike(N, after, f) BY <1>9 DEF Alike
  <2>2. QED BY <1>2, <1>8, <2>1, SameLoop
<1>11. QED BY <1>1, <1>2, <1>3, <1>10 DEF N

\* What remove_group_permanently does in turn.
LEMMA RemoveGroupSteps ==
    ASSUME NEW I \in SUBSET Uuid, NEW c \in Content(I), NEW g, NEW now \in Time
    PROVE  LET r == RemoveGroup(c, g, now)
               v == EntryLoop(c, Walk(c, g), EntriesBelow(c, g), now)
               w == GroupLoop(v.db, Walk(v.db, g), GroupsBelow(v.db, g), now)
               p == c.groups[g].parent
           IN  IF g \notin DOMAIN c.groups \/ g \notin GroupsBelow(c, c.bin) THEN r = Err(c)
               ELSE /\ v \in Outcome(I, "entry", c, Walk(c, g), EntriesBelow(c, g), Len(Walk(c, g)))
                    /\ IF ~v.ok THEN r = v
                       ELSE /\ w \in Outcome(I, "group", v.db, Walk(v.db, g), GroupsBelow(v.db, g), Len(Walk(v.db, g)))
                            /\ IF ~w.ok THEN r = w
                               ELSE IF g \notin DOMAIN w.db.groups THEN r = Err(w.db)
                                    ELSE r = Ok(Bury(UnlistGroup(DropGroup(w.db, g), p, g), g, now))
<1> DEFINE r == RemoveGroup(c, g, now)
           v == EntryLoop(c, Walk(c, g), EntriesBelow(c, g), now)
           W(d) == GroupLoop(d, Walk(d, g), GroupsBelow(d, g), now)
           w == W(v.db)
           p == c.groups[g].parent
           last == Ok(Bury(UnlistGroup(DropGroup(w.db, g), p, g), g, now))
<1>1. CASE g \notin DOMAIN c.groups \/ g \notin GroupsBelow(c, c.bin)
  <2>1. r = Err(c) BY <1>1 DEF RemoveGroup, HasGroup
  <2>2. QED BY <1>1, <2>1
<1>2. CASE g \in DOMAIN c.groups /\ g \in GroupsBelow(c, c.bin)
  <2>1. g \in Uuid BY <1>2, ContentParts
  <2>2. Walk(c, g) \in Seq(Item) BY <2>1, ContentParts, WalkMeets
  <2>3. v \in Outcome(I, "entry", c, Walk(c, g), EntriesBelow(c, g), Len(Walk(c, g)))
    BY <2>2, EntryLoopOutcome
  <2>4. v \in Result(I) /\ v.db \in Content(I) BY <2>3 DEF Outcome, Result
  <2> HIDE DEF v
  <2>5. Walk(v.db, g) \in Seq(Item) BY <2>1, <2>4, ContentParts, WalkMeets
  <2>6. w \in Outcome(I, "group", v.db, Walk(v.db, g), GroupsBelow(v.db, g), Len(Walk(v.db, g)))
    BY <2>4, <2>5, GroupLoopOutcome
  <2>7. w \in Result(I) /\ w.ok \in BOOLEAN BY <2>6 DEF Outcome, Result
  <2>8. r = IF v.ok
            THEN IF w.ok
                 THEN IF g \in DOMAIN w.db.groups THEN last ELSE Err(w.db)
                 ELSE w
            ELSE v
    <3> DEFINE e1 == ForEachEntry(Ok(c), c, g, LAMBDA d, e : RemoveEntry(d, e, now))
               Subgroups(d) == ForEachGroup(Ok(d), d, g, TakeGroup)
               s1 == IF e1.ok THEN Subgroups(e1.db) ELSE e1
               g1 == IF s1.ok THEN IF g \in DOMAIN s1.db.groups THEN Ok(DropGroup(s1.db, g)) ELSE Err(s1.db) ELSE s1
    <3>1. r = IF g1.ok THEN Ok(Bury(UnlistGroup(g1.db, p, g), g, now)) ELSE g1
      BY <1>2 DEF RemoveGroup, HasGroup, AndThen, TakeGroup
    <3>2. e1 = v BY DEF v, EntryLoop, ForEachEntry
    <3>3. \A d : Subgroups(d) = W(d) BY DEF GroupLoop, ForEachGroup
    <3> HIDE DEF e1, Subgroups, W
    <3>4. s1 = IF v.ok THEN w ELSE v BY <3>2, <3>3
    <3> HIDE DEF s1
    <3>5. CASE ~v.ok BY <3>1, <3>4, <3>5
    <3>6. CASE v.ok /\ ~w.ok BY <3>1, <3>4, <3>6
    <3>7. CASE v.ok /\ w.ok
      <4>1. s1 = w BY <3>4, <3>7
      <4>2. g1 = IF g \in DOMAIN w.db.groups THEN Ok(DropGroup(w.db, g)) ELSE Err(w.db) BY <3>7, <4>1
      <4> HIDE DEF w, g1, r
      <4>3. CASE g \in DOMAIN w.db.groups
        <5>1. g1.ok = TRUE /\ g1.db = DropGroup(w.db, g) BY <4>2, <4>3 DEF Ok
        <5>2. r = last BY <3>1, <5>1
        <5>3. QED BY <3>7, <4>3, <5>2
      <4>4. CASE g \notin DOMAIN w.db.groups
        <5>1. g1 = Err(w.db) /\ g1.ok = FALSE BY <4>2, <4>4 DEF Err
        <5>2. r = Err(w.db) BY <3>1, <5>1
        <5>3. QED BY <3>7, <4>4, <5>2
      <4>5. QED BY <4>3, <4>4
    <3>8. QED BY <3>5, <3>6, <3>7
  <2> HIDE DEF w, r, last
  <2>9. QED BY <1>2, <2>3, <2>6, <2>8 DEF v, w, r, last
<1>3. QED BY <1>1, <1>2

\* The recycle bin with empty lists.
Emptied(d) == [d EXCEPT !.groups[d.bin].subs = <<>>, !.groups[d.bin].entries = <<>>]

\* What empty_trash does in turn.
LEMMA EmptyTrashSteps ==
    ASSUME NEW I \in SUBSET Uuid, NEW c \in Content(I), NEW now \in Time
    PROVE  LET r == EmptyTrash(c, now)
               v == BinnedEntryLoop(c, Walk(c, c.bin), EntriesBelow(c, c.bin), now)
               w == BinnedGroupLoop(v.db, Walk(v.db, v.db.bin), GroupsBelow(v.db, v.db.bin), now)
           IN  IF c.bin \notin DOMAIN c.groups THEN r = Err(c)
               ELSE /\ v \in Outcome(I, "binnedentry", c, Walk(c, c.bin), EntriesBelow(c, c.bin), Len(Walk(c, c.bin)))
                    /\ IF ~v.ok THEN r = v
                       ELSE /\ w \in Outcome(I, "binnedgroup", v.db, Walk(v.db, v.db.bin),
                                             GroupsBelow(v.db, v.db.bin), Len(Walk(v.db, v.db.bin)))
                            /\ IF ~w.ok THEN r = w
                               ELSE IF w.db.bin \notin DOMAIN w.db.groups THEN r = Err(w.db)
                                    ELSE r = Ok(Emptied(w.db))
<1> DEFINE r == EmptyTrash(c, now)
           v == BinnedEntryLoop(c, Walk(c, c.bin), EntriesBelow(c, c.bin), now)
           W(d) == BinnedGroupLoop(d, Walk(d, d.bin), GroupsBelow(d, d.bin), now)
           w == W(v.db)
           last == Ok(Emptied(w.db))
<1>1. CASE c.bin \notin DOMAIN c.groups
  <2>1. r = Err(c) BY <1>1 DEF EmptyTrash, HasGroup
  <2>2. QED BY <1>1, <2>1
<1>2. CASE c.bin \in DOMAIN c.groups
  <2>1. c.bin \in {Nil} \cup Uuid BY ContentParts
  <2>2. Walk(c, c.bin) \in Seq(Item) BY <2>1, ContentParts, WalkMeets
  <2>3. v \in Outcome(I, "binnedentry", c, Walk(c, c.bin), EntriesBelow(c, c.bin), Len(Walk(c, c.bin)))
    BY <2>2, BinnedEntryLoopOutcome
  <2>4. v \in Result(I) /\ v.db \in Content(I) BY <2>3 DEF Outcome, Result
  <2> HIDE DEF v
  <2>5. v.db.bin \in {Nil} \cup Uuid BY <2>4, ContentParts
  <2>6. Walk(v.db, v.db.bin) \in Seq(Item) BY <2>4, <2>5, ContentParts, WalkMeets
  <2>7. w \in Outcome(I, "binnedgroup", v.db, Walk(v.db, v.db.bin), GroupsBelow(v.db, v.db.bin),
                      Len(Walk(v.db, v.db.bin)))
    BY <2>4, <2>6, BinnedGroupLoopOutcome
  <2>8. r = IF v.ok
            THEN IF w.ok
                 THEN IF w.db.bin \in DOMAIN w.db.groups THEN last ELSE Err(w.db)
                 ELSE w
            ELSE v
    <3> DEFINE e1 == ForEachEntry(Ok(c), c, c.bin, LAMBDA d, e :
                         AndThen(TakeEntry(d, e), LAMBDA x : Ok(Bury(x, e, now))))
               Subgroups(d) == ForEachGroup(Ok(d), d, d.bin, LAMBDA x, h :
                                   AndThen(TakeGroup(x, h), LAMBDA y : Ok(Bury(y, h, now))))
               s1 == IF e1.ok THEN Subgroups(e1.db) ELSE e1
               Final(d) == IF d.bin \in DOMAIN d.groups THEN Ok(Emptied(d)) ELSE Err(d)
    <3>1. r = IF s1.ok THEN Final(s1.db) ELSE s1
      BY <1>2 DEF EmptyTrash, HasGroup, AndThen, Emptied
    <3>2. e1 = v BY DEF v, BinnedEntryLoop, ForEachEntry
    <3>3. \A d : Subgroups(d) = W(d) BY DEF BinnedGroupLoop, ForEachGroup
    <3> HIDE DEF e1, Subgroups, W
    <3>4. s1 = IF v.ok THEN w ELSE v BY <3>2, <3>3
    <3> HIDE DEF s1, r, w
    <3>5. CASE ~v.ok BY <3>1, <3>4, <3>5
    <3>6. CASE v.ok BY <3>1, <3>4, <3>6
    <3>7. QED BY <3>5, <3>6
  <2> HIDE DEF w, r, last
  <2>9. QED BY <1>2, <2>3, <2>7, <2>8 DEF v, w, r, last
<1>3. QED BY <1>1, <1>2

-----------------------------------------------------------------------------
(* What the operations that remove leave behind *)

\* Entries go out of the recycle bin only and become deleted objects, and what
\* becomes a deleted object is not alive any more.
Purged(c, d) ==
    /\ DOMAIN d.groups \subseteq DOMAIN c.groups /\ DOMAIN d.entries \subseteq DOMAIN c.entries
    /\ DOMAIN c.deleted \subseteq DOMAIN d.deleted
    /\ \A e \in DOMAIN c.entries \ DOMAIN d.entries : e \in EntriesBelow(c, c.bin) /\ e \in DOMAIN d.deleted
    /\ \A x \in DOMAIN d.deleted \ DOMAIN c.deleted :
          x \in DOMAIN c.entries \ DOMAIN d.entries \/ x \in DOMAIN c.groups \ DOMAIN d.groups

\* remove_entry_permanently: out of the recycle bin, with a deleted object.
LEMMA RemoveEntryPurged ==
    ASSUME NEW I \in SUBSET Uuid, NEW c \in Content(I), NEW e, NEW now \in Time
    PROVE  RemoveEntry(c, e, now) \in Result(I) /\ Purged(c, RemoveEntry(c, e, now).db)
<1> DEFINE r == RemoveEntry(c, e, now)
<1>1. /\ r \in Result(I)
      /\ r.ok <=> e \in DOMAIN c.entries /\ e \in EntriesBelow(c, c.bin)
      /\ IF r.ok THEN Removed(c, r.db, {e}) ELSE r.db = c
  BY RemoveEntryTyped
<1> HIDE DEF r
<1>2. Purged(c, r.db) BY <1>1 DEF Purged, Removed
<1>3. QED BY <1>1, <1>2 DEF r

\* An entry removed in the first loop of remove_group_permanently, and groups after it.
LEMMA RemoveGroupPurged ==
    ASSUME NEW I \in SUBSET Uuid, NEW c \in Content(I), NEW g, NEW now \in Time
    PROVE  RemoveGroup(c, g, now) \in Result(I) /\ Purged(c, RemoveGroup(c, g, now).db)
<1> DEFINE r == RemoveGroup(c, g, now)
           v == EntryLoop(c, Walk(c, g), EntriesBelow(c, g), now)
           w == GroupLoop(v.db, Walk(v.db, g), GroupsBelow(v.db, g), now)
           p == c.groups[g].parent
           dropped == DropGroup(w.db, g)
           unlisted == UnlistGroup(dropped, p, g)
           d == Bury(unlisted, g, now)
           V == Outcome(I, "entry", c, Walk(c, g), EntriesBelow(c, g), Len(Walk(c, g)))
           W == Outcome(I, "group", v.db, Walk(v.db, g), GroupsBelow(v.db, g), Len(Walk(v.db, g)))
<1>0. IF g \notin DOMAIN c.groups \/ g \notin GroupsBelow(c, c.bin) THEN r = Err(c)
      ELSE /\ v \in V
           /\ IF ~v.ok THEN r = v
              ELSE /\ w \in W
                   /\ IF ~w.ok THEN r = w
                      ELSE IF g \notin DOMAIN w.db.groups THEN r = Err(w.db) ELSE r = Ok(d)
  BY RemoveGroupSteps
<1> HIDE DEF r, v
<1>1. CASE g \notin DOMAIN c.groups \/ g \notin GroupsBelow(c, c.bin)
  <2>1. r = Err(c) BY <1>0, <1>1
  <2>2. Purged(c, c) BY DEF Purged
  <2>3. QED BY <2>1, <2>2, Results DEF r
<1>2. CASE g \in DOMAIN c.groups /\ g \in GroupsBelow(c, c.bin)
  <2>0. g \in I /\ I \subseteq Uuid BY <1>2, ContentParts
  <2>1. v \in V BY <1>0, <1>2
  <2>2. v \in Result(I) /\ v.db \in Content(I) BY <2>1 DEF Outcome, Result
  <2>3. PICK E : (\A x \in E : Able("entry", c, x)) /\ LessBy("entry", c, v.db, E) BY <2>1 DEF Outcome
  <2>4. /\ \A x \in E : x \in DOMAIN c.entries /\ x \in EntriesBelow(c, c.bin)
        /\ Removed(c, v.db, E)
    BY <2>3 DEF Able, LessBy
  <2> HIDE DEF V
  <2>5. Purged(c, v.db) /\ DOMAIN v.db.groups = DOMAIN c.groups BY <2>4 DEF Purged, Removed
  <2>6. CASE ~v.ok
    <3>1. r = v BY <1>0, <1>2, <2>6
    <3>2. QED BY <2>2, <2>5, <3>1 DEF r
  <2>7. CASE v.ok
    <3>1. w \in W BY <1>0, <1>2, <2>7
    <3> HIDE DEF w
    <3>2. w \in Result(I) /\ w.db \in Content(I) BY <3>1 DEF Outcome, Result
    <3>3. PICK H : LessBy("group", v.db, w.db, H) BY <3>1 DEF Outcome
    <3>4. TakenGroups(v.db, w.db, H, {}) BY <3>3 DEF LessBy
    <3> HIDE DEF W
    <3>5. Purged(c, w.db) BY <2>4, <3>4 DEF Purged, Removed, TakenGroups
    <3>6. CASE ~w.ok
      <4>1. r = w BY <1>0, <1>2, <2>7, <3>6
      <4>2. QED BY <3>2, <3>5, <4>1 DEF r
    <3>7. CASE w.ok /\ g \notin DOMAIN w.db.groups
      <4>1. r = Err(w.db) BY <1>0, <1>2, <2>7, <3>7
      <4>2. QED BY <3>2, <3>5, <4>1, Results DEF r
    <3>8. CASE w.ok /\ g \in DOMAIN w.db.groups
      <4>1. r = Ok(d) BY <1>0, <1>2, <2>7, <3>8
      <4>2. /\ dropped \in Content(I) /\ DOMAIN dropped.groups = DOMAIN w.db.groups \ {g}
            /\ dropped.entries = w.db.entries /\ dropped.deleted = w.db.deleted
        BY <3>2, GroupDropped
      <4> HIDE DEF dropped
      <4>3. unlisted \in Content(I) /\ OnlyGroup(dropped, unlisted, p) BY <2>0, <4>2, GroupUnlisted
      <4> HIDE DEF unlisted
      <4>4. /\ d \in Content(I) /\ DOMAIN d.deleted = DOMAIN unlisted.deleted \cup {g}
            /\ d.groups = unlisted.groups /\ d.entries = unlisted.entries
        BY <2>0, <4>3, Buried
      <4> HIDE DEF d
      <4>5. Purged(c, d) BY <1>2, <3>5, <4>2, <4>3, <4>4 DEF Purged, OnlyGroup
      <4>6. QED BY <4>1, <4>4, <4>5, Results DEF r
    <3>9. QED BY <3>6, <3>7, <3>8
  <2>8. QED BY <2>6, <2>7
<1>3. QED BY <1>1, <1>2

\* The recycle bin with empty lists.
LEMMA EmptiedTyped ==
    ASSUME NEW I \in SUBSET Uuid, NEW c \in Content(I), c.bin \in DOMAIN c.groups
    PROVE  LET d == Emptied(c)
           IN  /\ d \in Content(I) /\ OnlyGroup(c, d, c.bin)
               /\ d.groups[c.bin] = [c.groups[c.bin] EXCEPT !.subs = <<>>, !.entries = <<>>]
<1> DEFINE v == [c.groups[c.bin] EXCEPT !.subs = <<>>, !.entries = <<>>]
           d == Emptied(c)
<1>1. c.groups[c.bin] \in Group BY ContentParts
<1>2. <<>> \in Seq(Uuid) OBVIOUS
<1>3. v \in Group BY <1>1, <1>2 DEF Group
<1>4. d = [c EXCEPT !.groups[c.bin] = v]
  <2> DEFINE b == c.bin
  <2>1. [c EXCEPT !.groups[b].subs = <<>>, !.groups[b].entries = <<>>] = [c EXCEPT !.groups[b] = v]
    <3>1. c = [groups |-> c.groups, entries |-> c.entries, bin |-> c.bin, deleted |-> c.deleted] BY DEF Content
    <3>2. c.groups = [x \in DOMAIN c.groups |-> c.groups[x]] BY ContentParts, MapIs
    <3>3. QED BY <1>1, <3>1, <3>2 DEF Group
  <2>2. QED BY <2>1 DEF Emptied
<1> HIDE DEF d, v
<1>5. /\ d \in Content(I) /\ DOMAIN d.groups = DOMAIN c.groups /\ d.groups[c.bin] = v
      /\ \A h \in DOMAIN c.groups : h # c.bin => d.groups[h] = c.groups[h]
      /\ d.entries = c.entries /\ d.bin = c.bin /\ d.deleted = c.deleted
  BY <1>3, <1>4, ChangedGroup
<1>6. QED BY <1>5 DEF d, v, OnlyGroup

\* empty_trash: what is gone was in the recycle bin and is a deleted object.
LEMMA EmptyTrashPurged ==
    ASSUME NEW I \in SUBSET Uuid, NEW c \in Content(I), NEW now \in Time
    PROVE  EmptyTrash(c, now) \in Result(I) /\ Purged(c, EmptyTrash(c, now).db)
<1> DEFINE r == EmptyTrash(c, now)
           v == BinnedEntryLoop(c, Walk(c, c.bin), EntriesBelow(c, c.bin), now)
           w == BinnedGroupLoop(v.db, Walk(v.db, v.db.bin), GroupsBelow(v.db, v.db.bin), now)
           V == Outcome(I, "binnedentry", c, Walk(c, c.bin), EntriesBelow(c, c.bin), Len(Walk(c, c.bin)))
           W == Outcome(I, "binnedgroup", v.db, Walk(v.db, v.db.bin), GroupsBelow(v.db, v.db.bin),
                        Len(Walk(v.db, v.db.bin)))
<1>0. IF c.bin \notin DOMAIN c.groups THEN r = Err(c)
      ELSE /\ v \in V
           /\ IF ~v.ok THEN r = v
              ELSE /\ w \in W
                   /\ IF ~w.ok THEN r = w
                      ELSE IF w.db.bin \notin DOMAIN w.db.groups THEN r = Err(w.db) ELSE r = Ok(Emptied(w.db))
  BY EmptyTrashSteps
<1> HIDE DEF r, v
<1>1. CASE c.bin \notin DOMAIN c.groups
  <2>1. r = Err(c) BY <1>0, <1>1
  <2>2. Purged(c, c) BY DEF Purged
  <2>3. QED BY <2>1, <2>2, Results DEF r
<1>2. CASE c.bin \in DOMAIN c.groups
  <2>1. v \in V BY <1>0, <1>2
  <2>2. v \in Result(I) /\ v.db \in Content(I) BY <2>1 DEF Outcome, Result
  <2>3. PICK E \in SUBSET EntriesBelow(c, c.bin) :
          (\A x \in E : Able("binnedentry", c, x)) /\ LessBy("binnedentry", c, v.db, E)
    BY <2>1 DEF Outcome, MetBy
  <2>4. (\A x \in E : x \in DOMAIN c.entries) /\ TakenEntries(c, v.db, E) BY <2>3 DEF Able, LessBy
  <2> HIDE DEF V
  <2>5. Purged(c, v.db) /\ DOMAIN v.db.groups = DOMAIN c.groups BY <2>3, <2>4 DEF Purged, TakenEntries
  <2>6. CASE ~v.ok
    <3>1. r = v BY <1>0, <1>2, <2>6
    <3>2. QED BY <2>2, <2>5, <3>1 DEF r
  <2>7. CASE v.ok
    <3>1. w \in W BY <1>0, <1>2, <2>7
    <3> HIDE DEF w
    <3>2. w \in Result(I) /\ w.db \in Content(I) BY <3>1 DEF Outcome, Result
    <3>3. PICK H : (\A x \in H : Able("binnedgroup", v.db, x)) /\ LessBy("binnedgroup", v.db, w.db, H)
      BY <3>1 DEF Outcome
    <3>4. (\A x \in H : x \in DOMAIN v.db.groups) /\ TakenGroups(v.db, w.db, H, H) BY <3>3 DEF Able, LessBy
    <3> HIDE DEF W
    <3>5. Purged(c, w.db) BY <2>4, <2>5, <3>4 DEF Purged, TakenEntries, TakenGroups
    <3>6. CASE ~w.ok
      <4>1. r = w BY <1>0, <1>2, <2>7, <3>6
      <4>2. QED BY <3>2, <3>5, <4>1 DEF r
    <3>7. CASE w.ok /\ w.db.bin \notin DOMAIN w.db.groups
      <4>1. r = Err(w.db) BY <1>0, <1>2, <2>7, <3>7
      <4>2. QED BY <3>2, <3>5, <4>1, Results DEF r
    <3>8. CASE w.ok /\ w.db.bin \in DOMAIN w.db.groups
      <4> DEFINE d == Emptied(w.db)
      <4>1. r = Ok(d) BY <1>0, <1>2, <2>7, <3>8
      <4>2. d \in Content(I) /\ OnlyGroup(w.db, d, w.db.bin) BY <3>2, <3>8, EmptiedTyped
      <4> HIDE DEF d
      <4>3. Purged(c, d) BY <3>5, <4>2 DEF Purged, OnlyGroup
      <4>4. QED BY <4>1, <4>2, <4>3, Results DEF r
    <3>9. QED BY <3>6, <3>7, <3>8
  <2>8. QED BY <2>6, <2>7
<1>3. QED BY <1>1, <1>2

-----------------------------------------------------------------------------
(* Copies of groups *)

\* The uuid of the copy of h.
CopyUuid(c, g, fresh, h) ==
    IF h = c.groups[g].parent THEN h
    ELSE fresh - 1 + CHOOSE i \in DOMAIN Cloned(c, g) : Cloned(c, g)[i][2] = h

\* The copy of the group x, in the group p.
GroupCopy(c, x, p, now, by) ==
    [c.groups[x] EXCEPT !.parent = p, !.mod = now, !.by = by, !.subs = <<>>, !.entries = <<>>]

\* One step of clone_group_recursive.
CopyStep(c, g, fresh, now, by, d, i) ==
    LET p == CopyUuid(c, g, fresh, Cloned(c, g)[i][1])
        x == Cloned(c, g)[i][2]
    IN  CASE HasEntry(c, x) -> CloneEntry(d, x, p, fresh + i - 1, FALSE, now, by)
          [] ~HasEntry(c, x) /\ HasGroup(c, x) -> Ok(PutGroup(ListGroup(d, p, fresh + i - 1), fresh + i - 1, GroupCopy(c, x, p, now, by)))
          [] OTHER -> Err(d)

\* The results of clone_group_recursive, from the first one.
Copying(f, c, g, fresh, now, by) ==
    /\ f[0] = Ok(c)
    /\ \A n \in 1 .. Len(Cloned(c, g)) :
          f[n] = IF f[n - 1].ok THEN CopyStep(c, g, fresh, now, by, f[n - 1].db, n) ELSE f[n - 1]

\* The uuids for n copies.
Handed(fresh, n) == fresh .. (fresh + n - 1)

\* A group, then what is below it.
LEMMA ClonedItems ==
    ASSUME NEW I \in SUBSET Uuid, NEW c \in Content(I), NEW g \in DOMAIN c.groups, c.groups[g].parent # Nil
    PROVE  /\ Cloned(c, g) \in Seq(Item) /\ Len(Cloned(c, g)) \in Nat /\ Len(Cloned(c, g)) > 0
           /\ Cloned(c, g)[1] = <<c.groups[g].parent, g>>
           /\ FromTop(Cloned(c, g), c.groups[g].parent)
           /\ ToSet(Cloned(c, g)) = {<<c.groups[g].parent, g>>} \cup ToSet(Walk(c, g))
           /\ Once(Walk(c, g)) /\ g \notin Met(Walk(c, g)) => Once(Cloned(c, g))
<1> DEFINE p == c.groups[g].parent
           t == Walk(c, g)
           s == <<<<p, g>>>> \o t
<1>1. p \in Uuid /\ g \in Uuid
  <2>1. c.groups[g] \in Group /\ g \in Uuid BY ContentParts
  <2>2. QED BY <2>1 DEF Group
<1>2. t \in Seq(Item) /\ FromTop(t, g) BY <1>1, ContentParts, WalkMeets
<1>3. Cloned(c, g) = s BY DEF Cloned
<1> HIDE DEF p, t
<1>4. /\ s \in Seq(Item) /\ ToSet(s) = {<<p, g>>} \cup ToSet(t)
      /\ Once(t) /\ g \notin Met(t) => Once(s)
      /\ FromTop(t, g) => FromTop(s, p)
  BY <1>1, <1>2, SubgroupWalk
<1>5. s[1] = <<p, g>> /\ Len(s) \in Nat /\ Len(s) > 0
  <2>1. <<<<p, g>>>> \in Seq(Item) BY <1>1 DEF Item
  <2> DEFINE u == <<<<p, g>>>>
  <2>2. Len(u) = 1 /\ u[1] = <<p, g>> OBVIOUS
  <2> HIDE DEF u
  <2>3. u \in Seq(Item) BY <2>1 DEF u
  <2>4. Len(u \o t) = Len(u) + Len(t) /\ Len(t) \in Nat BY <1>2, <2>3
  <2>6. (u \o t)[1] = u[1]
    <3>1. \A i \in 1 .. Len(u) : (u \o t)[i] = u[i] BY <1>2, <2>3
    <3>2. QED BY <2>2, <3>1
  <2>5. QED BY <2>2, <2>4, <2>6 DEF u
<1> HIDE DEF s
<1>6. QED BY <1>2, <1>3, <1>4, <1>5 DEF p, t

\* The parent of a copy is a copy, or the parent of the group that is copied.
LEMMA CopyParents ==
    ASSUME NEW I \in SUBSET Uuid, NEW c \in Content(I), NEW g \in DOMAIN c.groups, c.groups[g].parent # Nil,
           NEW fresh \in Nat, NEW n \in 1 .. Len(Cloned(c, g))
    PROVE  LET h == Cloned(c, g)[n][1] p == CopyUuid(c, g, fresh, h)
           IN  \/ h = c.groups[g].parent /\ p = h /\ p \in Uuid
               \/ /\ h # c.groups[g].parent
                  /\ \E k \in 1 .. Len(Cloned(c, g)) : Cloned(c, g)[k][2] = h /\ p = fresh - 1 + k
                  /\ \E j \in 1 .. (n - 1) : Cloned(c, g)[j][2] = h
<1> DEFINE s == Cloned(c, g)
           h == s[n][1]
           q == c.groups[g].parent
           p == CopyUuid(c, g, fresh, h)
           k == CHOOSE i \in DOMAIN s : s[i][2] = h
<1>1. s \in Seq(Item) /\ FromTop(s, q) BY ClonedItems
<1>2. p = IF h = q THEN h ELSE fresh - 1 + k BY DEF CopyUuid
<1> HIDE DEF s
<1>3. DOMAIN s = 1 .. Len(s) /\ n \in DOMAIN s BY <1>1 DEF s
<1>4. h = q \/ \E j \in 1 .. (n - 1) : s[j][2] = h BY <1>1, <1>3 DEF FromTop
<1>5. CASE h = q
  <2>1. s[n] \in Item BY <1>1, <1>3
  <2>2. h \in Uuid BY <2>1 DEF Item
  <2>3. QED BY <1>2, <1>5, <2>2 DEF s
<1>6. CASE h # q
  <2>1. PICK j \in 1 .. (n - 1) : s[j][2] = h BY <1>4, <1>6
  <2>2. j \in DOMAIN s BY <1>1, <1>3
  <2>3. k \in DOMAIN s /\ s[k][2] = h BY <2>1, <2>2
  <2> HIDE DEF k
  <2>4. QED BY <1>2, <1>3, <1>6, <2>1, <2>3 DEF s
<1>7. QED BY <1>5, <1>6

\* clone_group, in steps
LEMMA CloneGroupSteps ==
    ASSUME NEW I \in SUBSET Uuid, NEW c \in Content(I), NEW g \in DOMAIN c.groups, c.groups[g].parent # Nil,
           NEW fresh \in Nat, Handed(fresh, Len(Cloned(c, g))) \subseteq I, NEW now \in Time, NEW by \in Devices
    PROVE  \E f : /\ Copying(f, c, g, fresh, now, by)
                  /\ \A n \in 0 .. Len(Cloned(c, g)) :
                        f[n] \in Result(I) /\ Kept(c, f[n].db, Handed(fresh, Len(Cloned(c, g))))
                  /\ CloneGroup(c, g, fresh, now, by) = f[Len(Cloned(c, g))]
<1> DEFINE s == Cloned(c, g)
           N == Len(s)
           new == Handed(fresh, N)
           Good == {v \in Result(I) : Kept(c, v.db, new)}
           Next(v, n) == IF v.ok THEN CopyStep(c, g, fresh, now, by, v.db, n) ELSE v
           G == [n \in 0 .. N |-> Good]
           F == [n \in 1 .. N |-> [v \in Result(I) |-> Next(v, n)]]
           After(f) == f = [n \in 0 .. N |-> IF n = 0 THEN Ok(c) ELSE Next(f[n - 1], n)]
           after == CHOOSE f : After(f)
<1>1. s \in Seq(Item) /\ N \in Nat /\ DOMAIN s = 1 .. N BY ClonedItems
<1>2. CloneGroup(c, g, fresh, now, by) = after[N]
  <2> DEFINE ids == [i \in DOMAIN s |-> i]
  <2>1. ids = [i \in 1 .. N |-> i] BY <1>1
  <2>2. ids \in Seq(Nat) /\ Len(ids) = N
    <3>1. ids \in [1 .. N -> Nat] /\ DOMAIN ids = 1 .. N BY <1>1, <2>1
    <3> HIDE DEF ids, N
    <3>2. QED BY <1>1, <3>1
  <2> DEFINE Step(d, i) == CopyStep(c, g, fresh, now, by, d, i)
             Real(f) == f = [n \in 0 .. Len(ids) |-> IF n = 0 THEN Ok(c)
                              ELSE IF f[n - 1].ok THEN Step(f[n - 1].db, ids[n]) ELSE f[n - 1]]
  <2>3. CloneGroup(c, g, fresh, now, by) = (CHOOSE f : Real(f))[Len(ids)]
    BY DEF CloneGroup, ForEach, CopyStep, CopyUuid, GroupCopy, HasGroup
  <2>4. ASSUME NEW f PROVE Real(f) <=> After(f)
    <3> HIDE DEF s, N
    <3>1. \A n \in 0 .. N : n # 0 => ids[n] = n BY <1>1, <2>1
    <3> HIDE DEF ids, Step
    <3>2. [n \in 0 .. N |-> IF n = 0 THEN Ok(c) ELSE IF f[n - 1].ok THEN Step(f[n - 1].db, ids[n]) ELSE f[n - 1]]
            = [n \in 0 .. N |-> IF n = 0 THEN Ok(c) ELSE IF f[n - 1].ok THEN Step(f[n - 1].db, n) ELSE f[n - 1]]
      BY <3>1
    <3>3. QED BY <2>2, <3>2 DEF Step
  <2> HIDE DEF Real, After, ids, N
  <2>5. (CHOOSE f : Real(f)) = (CHOOSE f : After(f)) BY <2>4
  <2>6. QED BY <2>2, <2>3, <2>5
<1> HIDE DEF N, after, s
<1>3. Ok(c) \in G[0]
  <2>1. Ok(c) \in Result(I) /\ Ok(c).db = c BY Results
  <2>2. Kept(c, c, new) BY DEF Kept
  <2>3. QED BY <1>1, <2>1, <2>2
<1>4. ASSUME NEW n \in 1 .. N, NEW v \in Good PROVE Next(v, n) \in Good
  <2> DEFINE d == v.db
             x == s[n][2]
             p == CopyUuid(c, g, fresh, s[n][1])
             id == fresh + n - 1
             listed == ListGroup(d, p, id)
             group == GroupCopy(c, x, p, now, by)
             put == PutGroup(listed, id, group)
  <2>1. v \in Result(I) /\ d \in Content(I) /\ Kept(c, d, new) BY DEF Result
  <2>2. CASE ~v.ok BY <2>2
  <2>3. CASE v.ok
    <3>1. Next(v, n) = CASE HasEntry(c, x) -> CloneEntry(d, x, p, id, FALSE, now, by)
                         [] ~HasEntry(c, x) /\ HasGroup(c, x) -> Ok(put)
                         [] OTHER -> Err(d)
      BY <2>3 DEF CopyStep, s
    <3>2. id \in new /\ id \in I /\ id \in Uuid BY <1>1 DEF Handed, N, s
    <3>3. p \in Uuid
      <4>1. \A k \in 1 .. N : fresh - 1 + k \in Uuid BY <1>1 DEF Handed, N, s
      <4>2. n \in 1 .. Len(Cloned(c, g)) BY DEF N, s
      <4>3. \/ p \in Uuid
            \/ \E k \in 1 .. Len(Cloned(c, g)) : p = fresh - 1 + k
        BY <4>2, CopyParents DEF s
      <4>4. QED BY <4>1, <4>3 DEF N, s
    <3> HIDE DEF p, id, d, x, Next, new
    <3>4. CASE HasEntry(c, x)
      <4> DEFINE r == CloneEntry(d, x, p, id, FALSE, now, by)
      <4>1. Next(v, n) = r BY <3>1, <3>4
      <4>2. r \in Result(I) /\ Kept(d, r.db, {id}) BY <2>1, <3>2, CloneEntryTyped
      <4> HIDE DEF r
      <4>3. Kept(c, r.db, new) BY <2>1, <3>2, <4>2 DEF Kept
      <4>4. QED BY <4>1, <4>2, <4>3
    <3>5. CASE ~HasEntry(c, x) /\ HasGroup(c, x)
      <4>1. Next(v, n) = Ok(put) BY <3>1, <3>5
      <4>2. c.groups[x] \in Group BY <3>5, ContentParts DEF HasGroup
      <4>3. <<>> \in Seq(Uuid) OBVIOUS
      <4>4. group \in Group BY <3>3, <4>2, <4>3 DEF GroupCopy, Group
      <4> HIDE DEF group
      <4>5. listed \in Content(I) /\ OnlyGroup(d, listed, p) BY <2>1, <3>2, GroupListed
      <4> HIDE DEF listed
      <4>6. /\ put \in Content(I) /\ DOMAIN put.groups = DOMAIN listed.groups \cup {id}
            /\ put.entries = listed.entries /\ put.deleted = listed.deleted
        BY <3>2, <4>4, <4>5, GroupPut
      <4> HIDE DEF put
      <4>7. Kept(c, put, new) BY <2>1, <3>2, <4>5, <4>6 DEF Kept, OnlyGroup
      <4>8. Ok(put) \in Result(I) /\ Ok(put).db = put BY <4>6, Results
      <4>9. QED BY <4>1, <4>7, <4>8
    <3>6. CASE ~HasEntry(c, x) /\ ~HasGroup(c, x)
      <4>1. Next(v, n) = Err(d) BY <3>1, <3>6
      <4>2. Err(d) \in Result(I) /\ Err(d).db = d BY <2>1, Results
      <4>3. QED BY <2>1, <4>1, <4>2
    <3>7. QED BY <3>4, <3>5, <3>6
  <2>4. QED BY <2>2, <2>3
<1>5. PICK f : /\ DOMAIN f = 0 .. N /\ f[0] = Ok(c) /\ \A n \in 1 .. N : f[n] = F[n][f[n - 1]]
               /\ \A n \in 0 .. N : f[n] \in G[n]
  <2> DEFINE r == Ok(c)
  <2>1. ASSUME NEW n \in 1 .. N, NEW v \in G[n - 1] PROVE F[n][v] \in G[n]
    <3>1. n - 1 \in 0 .. N /\ n \in 0 .. N BY <1>1
    <3>2. v \in Good /\ G[n] = Good BY <3>1
    <3>3. F[n][v] = Next(v, n) BY <3>2
    <3>4. QED BY <1>4, <3>2, <3>3
  <2> HIDE DEF F, G
  <2>2. Leads(N, G, F) BY <2>1 DEF Leads
  <2>3. r \in G[0] BY <1>3
  <2> HIDE DEF r
  <2>4. \E f : LoopThrough(f, N, r, G, F) BY <1>1, <2>2, <2>3, LoopRule
  <2>5. QED BY <2>4 DEF LoopThrough, r
<1>6. \A n \in 0 .. N : f[n] \in Good BY <1>5
<1>7. ASSUME NEW n \in 1 .. N PROVE f[n] = Next(f[n - 1], n)
  <2>1. n - 1 \in 0 .. N BY <1>1
  <2>2. f[n - 1] \in Result(I) BY <1>6, <2>1
  <2>3. QED BY <1>5, <2>2
<1>8. after[N] = f[N]
  <2> HIDE DEF Next, F, G, Good
  <2>1. After([n \in 0 .. N |-> f[n]])
    <3> DEFINE e == [n \in 0 .. N |-> f[n]]
    <3>1. ASSUME NEW n \in 0 .. N PROVE e[n] = IF n = 0 THEN Ok(c) ELSE Next(e[n - 1], n)
      <4>1. CASE n = 0 BY <1>5, <4>1
      <4>2. CASE n # 0
        <5>1. n \in 1 .. N /\ n - 1 \in 0 .. N BY <1>1, <4>2
        <5>2. e[n - 1] = f[n - 1] BY <5>1
        <5>3. QED BY <1>7, <4>2, <5>1, <5>2
      <4>3. QED BY <4>1, <4>2
    <3>2. QED BY <3>1
  <2>2. After(after) BY <2>1 DEF after
  <2>3. after[0] = f[0] BY <1>1, <1>5, <2>2
  <2>4. ASSUME NEW n \in 1 .. N, after[n - 1] = f[n - 1] PROVE after[n] = f[n]
    <3>1. after[n] = Next(after[n - 1], n) BY <1>1, <2>2
    <3>2. QED BY <1>7, <2>4, <3>1
  <2>5. \A n \in 0 .. N : after[n] = f[n]
    <3>1. Alike(N, after, f) BY <2>4 DEF Alike
    <3>2. QED BY <1>1, <2>3, <3>1, SameLoop
  <2>6. QED BY <1>1, <2>5
<1>9. Copying(f, c, g, fresh, now, by)
  <2>1. \A n \in 1 .. N : f[n] = IF f[n - 1].ok THEN CopyStep(c, g, fresh, now, by, f[n - 1].db, n) ELSE f[n - 1]
    BY <1>7
  <2>2. QED BY <1>5, <2>1 DEF Copying, N, s
<1>10. \A n \in 0 .. N : f[n] \in Result(I) /\ Kept(c, f[n].db, new) BY <1>6
<1>11. QED BY <1>2, <1>8, <1>9, <1>10 DEF N, s

-----------------------------------------------------------------------------
(* The uuids that are listed as groups *)

Named(c) == UNION {Subs(c, h) : h \in DOMAIN c.groups}

\* The same groups are there, and no other is listed.
SameGroups(c, d) == DOMAIN d.groups = DOMAIN c.groups /\ Named(d) \subseteq Named(c) /\ d.bin = c.bin

\* One group has another list.
LEMMA NamedWith ==
    ASSUME NEW c, NEW d, NEW p, NEW N, OnlyGroup(c, d, p),
           p \in DOMAIN c.groups => Subs(d, p) \subseteq Subs(c, p) \cup N
    PROVE  Named(d) \subseteq Named(c) \cup N
<1>1. ASSUME NEW h \in DOMAIN c.groups PROVE Subs(d, h) \subseteq Subs(c, h) \cup N
  <2>1. CASE h = p BY <2>1
  <2>2. CASE h # p BY <2>2 DEF OnlyGroup, Subs
  <2>3. QED BY <2>1, <2>2
<1>2. DOMAIN d.groups = DOMAIN c.groups BY DEF OnlyGroup
<1>3. QED BY <1>1, <1>2 DEF Named

\* Lists that are one longer or one shorter.
LEMMA NamedSteps ==
    ASSUME NEW I \in SUBSET Uuid, NEW c \in Content(I), NEW p, NEW x \in Uuid
    PROVE  /\ Named(ListGroup(c, p, x)) \subseteq Named(c) \cup {x}
           /\ Named(UnlistGroup(c, p, x)) \subseteq Named(c)
           /\ Named(ListEntry(c, p, x)) \subseteq Named(c)
           /\ Named(UnlistEntry(c, p, x)) \subseteq Named(c)
<1>0. p \in DOMAIN c.groups => c.groups[p] \in Group BY ContentParts
<1>1. Named(ListGroup(c, p, x)) \subseteq Named(c) \cup {x}
  <2> DEFINE d == ListGroup(c, p, x)
  <2>1. /\ OnlyGroup(c, d, p)
        /\ p \in DOMAIN c.groups => d.groups[p] = [c.groups[p] EXCEPT !.subs = Append(c.groups[p].subs, x)]
    BY GroupListed
  <2> HIDE DEF d
  <2>2. ASSUME p \in DOMAIN c.groups PROVE Subs(d, p) \subseteq Subs(c, p) \cup {x}
    <3>1. c.groups[p].subs \in Seq(Uuid) BY <1>0, <2>2 DEF Group
    <3>2. ToSet(Append(c.groups[p].subs, x)) = ToSet(c.groups[p].subs) \cup {x} BY <3>1, AppendedElements
    <3>3. d.groups[p].subs = Append(c.groups[p].subs, x) BY <1>0, <2>1, <2>2 DEF Group
    <3>4. QED BY <3>2, <3>3 DEF Subs
  <2>3. QED BY <2>1, <2>2, NamedWith DEF d
<1>2. Named(UnlistGroup(c, p, x)) \subseteq Named(c)
  <2> DEFINE d == UnlistGroup(c, p, x)
  <2>1. /\ OnlyGroup(c, d, p)
        /\ p \in DOMAIN c.groups => d.groups[p] = [c.groups[p] EXCEPT !.subs = Retained(c.groups[p].subs, x)]
    BY GroupUnlisted
  <2> HIDE DEF d
  <2>2. ASSUME p \in DOMAIN c.groups PROVE Subs(d, p) \subseteq Subs(c, p) \cup {}
    <3>1. c.groups[p].subs \in Seq(Uuid) BY <1>0, <2>2 DEF Group
    <3>2. ToSet(Retained(c.groups[p].subs, x)) \subseteq ToSet(c.groups[p].subs) BY <3>1, RetainedItems
    <3>3. d.groups[p].subs = Retained(c.groups[p].subs, x) BY <1>0, <2>1, <2>2 DEF Group
    <3>4. QED BY <3>2, <3>3 DEF Subs
  <2>3. Named(d) \subseteq Named(c) \cup {} BY <2>1, <2>2, NamedWith
  <2>4. QED BY <2>3 DEF d
<1>3. Named(ListEntry(c, p, x)) \subseteq Named(c)
  <2> DEFINE d == ListEntry(c, p, x)
  <2>1. /\ OnlyGroup(c, d, p)
        /\ p \in DOMAIN c.groups => d.groups[p] = [c.groups[p] EXCEPT !.entries = Append(c.groups[p].entries, x)]
    BY EntryListed
  <2> HIDE DEF d
  <2>2. p \in DOMAIN c.groups => Subs(d, p) \subseteq Subs(c, p) \cup {} BY <1>0, <2>1 DEF Group, Subs
  <2>3. Named(d) \subseteq Named(c) \cup {} BY <2>1, <2>2, NamedWith
  <2>4. QED BY <2>3 DEF d
<1>4. Named(UnlistEntry(c, p, x)) \subseteq Named(c)
  <2> DEFINE d == UnlistEntry(c, p, x)
  <2>1. /\ OnlyGroup(c, d, p)
        /\ p \in DOMAIN c.groups => d.groups[p] = [c.groups[p] EXCEPT !.entries = Retained(c.groups[p].entries, x)]
    BY EntryUnlisted
  <2> HIDE DEF d
  <2>2. p \in DOMAIN c.groups => Subs(d, p) \subseteq Subs(c, p) \cup {} BY <1>0, <2>1 DEF Group, Subs
  <2>3. Named(d) \subseteq Named(c) \cup {} BY <2>1, <2>2, NamedWith
  <2>4. QED BY <2>3 DEF d
<1>5. QED BY <1>1, <1>2, <1>3, <1>4

\* A group that is put in the map, with the lists that it has.
LEMMA NamedPut ==
    ASSUME NEW I \in SUBSET Uuid, NEW c \in Content(I), NEW x \in I, NEW v \in Group
    PROVE  Named(PutGroup(c, x, v)) \subseteq Named(c) \cup ToSet(v.subs)
<1> DEFINE d == PutGroup(c, x, v)
<1>1. /\ DOMAIN d.groups = DOMAIN c.groups \cup {x} /\ d.groups[x] = v
      /\ (\A y \in DOMAIN c.groups : y # x => d.groups[y] = c.groups[y])
  BY GroupPut
<1> HIDE DEF d
<1>2. ASSUME NEW h \in DOMAIN d.groups PROVE Subs(d, h) \subseteq Named(c) \cup ToSet(v.subs)
  <2>1. CASE h = x BY <1>1, <2>1 DEF Subs
  <2>2. CASE h # x
    <3>1. h \in DOMAIN c.groups /\ Subs(d, h) = Subs(c, h) BY <1>1, <2>2 DEF Subs
    <3>2. QED BY <3>1 DEF Named
  <2>3. QED BY <2>1, <2>2
<1>3. QED BY <1>2 DEF Named, d

\* The groups and their lists are as they were, or some are gone.
LEMMA NamedFewer ==
    ASSUME NEW c, NEW d, DOMAIN d.groups \subseteq DOMAIN c.groups,
           \A h \in DOMAIN d.groups : Subs(d, h) \subseteq Subs(c, h)
    PROVE  Named(d) \subseteq Named(c)
  BY DEF Named

\* insert_group lists no uuid but that of the new group, and nothing if it is there.
LEMMA InsertGroupNames ==
    ASSUME NEW I \in SUBSET Uuid, NEW c \in Content(I), NEW g \in I, NEW group \in Group, group.subs = <<>>
    PROVE  LET d == InsertGroup(c, g, group).db
           IN  Named(d) \subseteq Named(c) \cup {g} /\ (g \in DOMAIN c.groups => d = c)
<1> DEFINE listed == ListGroup(c, group.parent, g)
           put == PutGroup(listed, g, group)
<1>1. Ok(put).db = put /\ Err(c).db = c BY DEF Ok, Err
<1>2. listed \in Content(I) BY GroupListed
<1>3. Named(listed) \subseteq Named(c) \cup {g} BY NamedSteps
<1>4. InsertGroup(c, g, group) = IF group.parent = Nil \/ ~HasGroup(c, group.parent) \/ HasGroup(c, g)
                                 THEN Err(c) ELSE Ok(put)
  BY DEF InsertGroup
<1> HIDE DEF listed
<1>5. ToSet(group.subs) = {} BY EmptyList
<1>6. Named(put) \subseteq Named(listed) \cup ToSet(group.subs) BY <1>2, NamedPut
<1> HIDE DEF put
<1>7. QED BY <1>1, <1>3, <1>4, <1>5, <1>6 DEF HasGroup

\* move_group lists no uuid but that of the group it moves.
LEMMA MoveGroupNames ==
    ASSUME NEW I \in SUBSET Uuid, NEW c \in Content(I), NEW g \in Uuid, NEW p \in Uuid, NEW now \in Time
    PROVE  Named(MoveGroup(c, g, p, now).db) \subseteq Named(c) \cup {g}
<1> DEFINE v == [c.groups[g] EXCEPT !.parent = p, !.moved = now]
           moved == [c EXCEPT !.groups[g] = v]
           listed == ListGroup(moved, p, g)
           d == UnlistGroup(listed, c.groups[g].parent, g)
<1>1. CASE MoveGroup(c, g, p, now) = Err(c) BY <1>1, Results
<1>2. CASE MoveGroup(c, g, p, now) # Err(c)
  <2>1. g \in DOMAIN c.groups /\ MoveGroup(c, g, p, now) = Ok(d) BY <1>2 DEF MoveGroup, HasGroup
  <2>2. c.groups[g] \in Group BY <2>1, ContentParts
  <2>3. v \in Group /\ v.subs = c.groups[g].subs BY <2>2 DEF Group
  <2> HIDE DEF v
  <2>4. moved \in Content(I) /\ OnlyGroup(c, moved, g) /\ moved.groups[g] = v
    BY <2>1, <2>3, ChangedGroup DEF OnlyGroup
  <2> HIDE DEF moved
  <2>5. Subs(moved, g) \subseteq Subs(c, g) \cup {g} BY <2>3, <2>4 DEF Subs
  <2>6. Named(moved) \subseteq Named(c) \cup {g} BY <2>4, <2>5, NamedWith
  <2>7. listed \in Content(I) BY <2>4, GroupListed
  <2>8. Named(listed) \subseteq Named(moved) \cup {g} BY <2>4, NamedSteps
  <2> HIDE DEF listed
  <2>9. Named(d) \subseteq Named(listed) BY <2>7, NamedSteps
  <2>10. Ok(d).db = d BY DEF Ok
  <2> HIDE DEF d
  <2>11. QED BY <2>1, <2>6, <2>8, <2>9, <2>10
<1>3. QED BY <1>1, <1>2

\* insert_entry leaves the lists of groups alone.
LEMMA InsertEntryNames ==
    ASSUME NEW I \in SUBSET Uuid, NEW c \in Content(I), NEW e \in I, NEW entry \in Entry
    PROVE  SameGroups(c, InsertEntry(c, e, entry).db)
<1> DEFINE listed == ListEntry(c, entry.parent, e)
           put == PutEntry(listed, e, entry)
<1>1. Ok(put).db = put /\ Err(c).db = c BY DEF Ok, Err
<1>2. listed \in Content(I) /\ OnlyGroup(c, listed, entry.parent) BY EntryListed
<1>3. Named(listed) \subseteq Named(c) BY NamedSteps
<1>4. InsertEntry(c, e, entry) = Err(c) \/ InsertEntry(c, e, entry) = Ok(put) BY DEF InsertEntry
<1> HIDE DEF listed
<1>5. put.groups = listed.groups /\ put.bin = listed.bin BY <1>2, EntryPut
<1> HIDE DEF put
<1>6. Named(put) \subseteq Named(c) BY <1>3, <1>5 DEF Named, Subs
<1>8. SameGroups(c, put) BY <1>2, <1>5, <1>6 DEF SameGroups, OnlyGroup
<1>9. SameGroups(c, c) BY DEF SameGroups
<1>7. QED BY <1>1, <1>4, <1>8, <1>9

\* move_entry leaves the lists of groups alone.
LEMMA MoveEntryNames ==
    ASSUME NEW I \in SUBSET Uuid, NEW c \in Content(I), NEW e \in Uuid, NEW p \in Uuid, NEW now \in Time
    PROVE  Named(MoveEntry(c, e, p, now).db) \subseteq Named(c)
<1> DEFINE v == [c.entries[e] EXCEPT !.parent = p, !.moved = now]
           moved == [c EXCEPT !.entries[e] = v]
           listed == ListEntry(moved, p, e)
           d == UnlistEntry(listed, c.entries[e].parent, e)
<1>1. CASE MoveEntry(c, e, p, now) = Err(c) BY <1>1, Results
<1>2. CASE MoveEntry(c, e, p, now) # Err(c)
  <2>1. e \in DOMAIN c.entries /\ MoveEntry(c, e, p, now) = Ok(d) BY <1>2 DEF MoveEntry, HasEntry
  <2>2. c.entries[e] \in Entry BY <2>1, ContentParts
  <2>3. v \in Entry BY <2>2 DEF Entry
  <2> HIDE DEF v
  <2>4. moved \in Content(I) /\ moved.groups = c.groups BY <2>1, <2>3, ChangedEntry
  <2> HIDE DEF moved
  <2>6. Named(moved) = Named(c) BY <2>4 DEF Named, Subs
  <2>7. listed \in Content(I) BY <2>4, EntryListed
  <2>8. Named(listed) \subseteq Named(moved) BY <2>4, NamedSteps
  <2> HIDE DEF listed
  <2>9. Named(d) \subseteq Named(listed) BY <2>7, NamedSteps
  <2>10. Ok(d).db = d BY DEF Ok
  <2> HIDE DEF d
  <2>11. QED BY <2>1, <2>6, <2>8, <2>9, <2>10
<1>3. QED BY <1>1, <1>2

\* What is listed below a group is listed.
LEMMA BelowNamed ==
    ASSUME NEW I \in SUBSET Uuid, NEW c \in Content(I), NEW g
    PROVE  GroupsBelow(c, g) \subseteq Named(c)
<1>1. IsFiniteSet(DOMAIN c.groups) BY ContentParts
<1>2. Entered(c, g) \subseteq DOMAIN c.groups BY <1>1, EnteredGroups
<1>3. QED BY <1>2 DEF GroupsBelow, Named, Subs

\* What is listed below a group that is below another one is below that one too.
LEMMA BelowWithin ==
    ASSUME NEW I \in SUBSET Uuid, NEW c \in Content(I), NEW b, NEW g \in GroupsBelow(c, b), g \in DOMAIN c.groups
    PROVE  GroupsBelow(c, g) \subseteq GroupsBelow(c, b)
<1>1. IsFiniteSet(DOMAIN c.groups) BY ContentParts
<1>2. PICK h \in Entered(c, b) : g \in ToSet(c.groups[h].subs) BY DEF GroupsBelow
<1>3. Closed(c, Entered(c, b)) BY <1>1, EnteredGroups
<1>4. g \in Entered(c, b) BY <1>2, <1>3 DEF Closed, Children
<1>5. Entered(c, g) \subseteq Entered(c, b) BY <1>1, <1>4, EnteredGroups
<1>6. QED BY <1>5 DEF GroupsBelow

\* The same lists have the same below a group.
LEMMA SameBelow ==
    ASSUME NEW I \in SUBSET Uuid, NEW c \in Content(I), NEW d, DOMAIN d.groups = DOMAIN c.groups,
           \A h \in DOMAIN c.groups : d.groups[h].subs = c.groups[h].subs, NEW g
    PROVE  GroupsBelow(d, g) = GroupsBelow(c, g)
<1>1. IsFiniteSet(DOMAIN c.groups) BY ContentParts
<1>2. \A h \in DOMAIN c.groups : ToSet(d.groups[h].subs) = ToSet(c.groups[h].subs) OBVIOUS
<1>3. Entered(d, g) = Entered(c, g) BY <1>1, <1>2, SameWalk
<1>4. Entered(c, g) \subseteq DOMAIN c.groups BY <1>1, EnteredGroups
<1>5. QED BY <1>3, <1>4 DEF GroupsBelow

\* A group that a walk which ends begins with is not below itself.
LEMMA FirstNotBelow ==
    ASSUME NEW I \in SUBSET Uuid, NEW c \in Content(I), NEW g \in DOMAIN c.groups, ~Endless(c, g)
    PROVE  g \notin GroupsBelow(c, g)
<1>1. IsFiniteSet(DOMAIN c.groups) BY ContentParts
<1>2. SUFFICES ASSUME NEW h \in Entered(c, g), g \in ToSet(c.groups[h].subs) PROVE FALSE BY DEF GroupsBelow
<1>3. g \in Children(c, h) BY <1>2 DEF Children
<1>4. g \in Entered(c, g) BY <1>1, EnteredGroups
<1>5. ~Endless(c, h) /\ \A x \in Children(c, h) : h \notin Entered(c, x) BY <1>1, <1>2, NotBelowItself
<1>6. h \notin Entered(c, g) BY <1>3, <1>5
<1>7. QED BY <1>2, <1>6

\* The lists are the same.
LEMMA SameNames ==
    ASSUME NEW c, NEW d, SamePlaces(c, d) PROVE Named(d) = Named(c)
  BY DEF SamePlaces, Named, Subs

\* recycle_bin_group and move_to_recycle_bin!
LEMMA DiscardNames ==
    ASSUME NEW I \in SUBSET Uuid, NEW c \in Content(I), NEW x \in Uuid, NEW fresh, c.bin = Nil => fresh \in I,
           NEW now \in Time, NEW by \in Devices
    PROVE  /\ Named(WithBin(c, fresh, now, by)) \subseteq Named(c) \cup {fresh}
           /\ Named(MoveGroupToRecycleBin(c, x, fresh, now, by).db) \subseteq Named(c) \cup {fresh, x}
           /\ Named(MoveEntryToRecycleBin(c, x, fresh, now, by).db) \subseteq Named(c) \cup {fresh}
<1> DEFINE d == WithBin(c, fresh, now, by)
           r == MoveGroup(d, x, d.bin, now)
           s == MoveEntry(d, x, d.bin, now)
<1>1. Named(d) \subseteq Named(c) \cup {fresh}
  <2>1. CASE c.bin # Nil
    <3>1. d = c BY <2>1 DEF WithBin
    <3>2. QED BY <3>1
  <2>2. CASE c.bin = Nil
    <3> DEFINE named == [c EXCEPT !.bin = fresh]
               group == NewGroup(RootGroup, now, by)
    <3>1. d = InsertGroup(named, fresh, group).db BY <2>2 DEF WithBin
    <3>2. group \in Group BY NewTyped, UuidsThere
    <3>3. group.subs = <<>> BY DEF NewGroup
    <3> HIDE DEF group
    <3>4. named \in Content(I) BY <2>2, OtherParts
    <3>5. named.groups = c.groups BY DEF Content
    <3> HIDE DEF named
    <3>6. Named(InsertGroup(named, fresh, group).db) \subseteq Named(named) \cup {fresh}
      BY <2>2, <3>2, <3>3, <3>4, InsertGroupNames
    <3>7. Named(named) = Named(c) BY <3>5 DEF Named, Subs
    <3> HIDE DEF d
    <3>8. QED BY <3>1, <3>6, <3>7
  <2>3. QED BY <2>1, <2>2
<1>2. d \in Content(I) BY WithBinTyped
<1>3. /\ MoveGroupToRecycleBin(c, x, fresh, now, by) = IF HasGroup(d, d.bin) THEN r ELSE Err(d)
      /\ MoveEntryToRecycleBin(c, x, fresh, now, by) = IF HasGroup(d, d.bin) THEN s ELSE Err(d)
  BY DEF MoveGroupToRecycleBin, MoveEntryToRecycleBin
<1> HIDE DEF d
<1>4. Err(d).db = d BY <1>2, Results
<1>5. ASSUME HasGroup(d, d.bin)
      PROVE  Named(r.db) \subseteq Named(d) \cup {x} /\ Named(s.db) \subseteq Named(d)
  <2>1. d.bin \in Uuid BY <1>2, <1>5, ContentParts DEF HasGroup
  <2>2. QED BY <1>2, <2>1, MoveGroupNames, MoveEntryNames
<1> HIDE DEF r, s
<1>6. QED BY <1>1, <1>3, <1>4, <1>5 DEF d

\* clone_entry
LEMMA CloneEntryNames ==
    ASSUME NEW I \in SUBSET Uuid, NEW c \in Content(I), NEW e, NEW p, NEW fresh \in I, NEW keep \in BOOLEAN,
           NEW now \in Time, NEW by \in Devices
    PROVE  SameGroups(c, CloneEntry(c, e, p, fresh, keep, now, by).db)
<1> DEFINE v == [c.entries[e] EXCEPT !.parent = p, !.mod = now, !.by = by,
                                     !.history = IF keep THEN c.entries[e].history ELSE <<>>]
           listed == ListEntry(c, p, fresh)
           put == PutEntry(listed, fresh, v)
           r == CloneEntry(c, e, p, fresh, keep, now, by)
<1>1. r = Err(c) \/ r = Ok(put) BY DEF CloneEntry
<1>2. Err(c).db = c /\ Ok(put).db = put BY DEF Ok, Err
<1>3. listed \in Content(I) /\ OnlyGroup(c, listed, p) BY EntryListed
<1>4. Named(listed) \subseteq Named(c) BY NamedSteps
<1>5. put.groups = listed.groups /\ put.bin = listed.bin
  <2> HIDE DEF listed, v
  <2>1. QED BY <1>3 DEF PutEntry, Content
<1> HIDE DEF put, r
<1>6. DOMAIN put.groups = DOMAIN c.groups /\ put.bin = c.bin BY <1>3, <1>5 DEF OnlyGroup
<1>7. Named(put) \subseteq Named(c) BY <1>4, <1>5 DEF Named, Subs
<1>8. QED BY <1>1, <1>2, <1>6, <1>7 DEF r, SameGroups

\* remove_group_permanently
LEMMA RemoveGroupNames ==
    ASSUME NEW I \in SUBSET Uuid, NEW c \in Content(I), NEW g, NEW now \in Time
    PROVE  LET d == RemoveGroup(c, g, now).db
           IN  DOMAIN c.groups \ DOMAIN d.groups \subseteq GroupsBelow(c, c.bin) /\ Named(d) \subseteq Named(c) /\ d.bin = c.bin
<1> DEFINE r == RemoveGroup(c, g, now)
           v == EntryLoop(c, Walk(c, g), EntriesBelow(c, g), now)
           w == GroupLoop(v.db, Walk(v.db, g), GroupsBelow(v.db, g), now)
           p == c.groups[g].parent
           dropped == DropGroup(w.db, g)
           unlisted == UnlistGroup(dropped, p, g)
           d == Bury(unlisted, g, now)
           V == Outcome(I, "entry", c, Walk(c, g), EntriesBelow(c, g), Len(Walk(c, g)))
           W == Outcome(I, "group", v.db, Walk(v.db, g), GroupsBelow(v.db, g), Len(Walk(v.db, g)))
<1>0. IF g \notin DOMAIN c.groups \/ g \notin GroupsBelow(c, c.bin) THEN r = Err(c)
      ELSE /\ v \in V
           /\ IF ~v.ok THEN r = v
              ELSE /\ w \in W
                   /\ IF ~w.ok THEN r = w
                      ELSE IF g \notin DOMAIN w.db.groups THEN r = Err(w.db) ELSE r = Ok(d)
  BY RemoveGroupSteps
<1> HIDE DEF r, v
<1>1. CASE g \notin DOMAIN c.groups \/ g \notin GroupsBelow(c, c.bin)
  <2>1. r = Err(c) BY <1>0, <1>1
  <2>2. r.db = c BY <2>1, Results
  <2>3. QED BY <2>2 DEF r
<1>2. CASE g \in DOMAIN c.groups /\ g \in GroupsBelow(c, c.bin)
  <2>0. g \in I /\ I \subseteq Uuid /\ g \in GroupsBelow(c, c.bin) BY <1>2, ContentParts
  <2>1. v \in V BY <1>0, <1>2
  <2>2. v.db \in Content(I) BY <2>1 DEF Outcome, Result
  <2>3. PICK E : LessBy("entry", c, v.db, E) BY <2>1 DEF Outcome
  <2>4. Removed(c, v.db, E) BY <2>3 DEF LessBy
  <2> HIDE DEF V
  <2>5. DOMAIN v.db.groups = DOMAIN c.groups /\ Named(v.db) = Named(c) /\ v.db.bin = c.bin BY <2>4 DEF Removed, Named, Subs
  <2>6. GroupsBelow(v.db, g) \subseteq GroupsBelow(c, c.bin)
    <3>1. GroupsBelow(v.db, g) = GroupsBelow(c, g) BY <2>4, SameBelow DEF Removed
    <3>2. QED BY <1>2, <3>1, BelowWithin
  <2>7. CASE ~v.ok
    <3>1. r = v BY <1>0, <1>2, <2>7
    <3>2. QED BY <2>5, <3>1 DEF r
  <2>8. CASE v.ok
    <3>1. w \in W BY <1>0, <1>2, <2>8
    <3> HIDE DEF w
    <3>2. w.db \in Content(I) BY <3>1 DEF Outcome, Result
    <3>3. PICK H \in SUBSET GroupsBelow(v.db, g) : LessBy("group", v.db, w.db, H) BY <3>1 DEF Outcome, MetBy
    <3>4. TakenGroups(v.db, w.db, H, {}) BY <3>3 DEF LessBy
    <3> HIDE DEF W
    <3>5. H \subseteq GroupsBelow(c, c.bin) BY <2>6, <3>3
    <3>6. Named(w.db) \subseteq Named(v.db) BY <3>4 DEF TakenGroups, Named, Subs
    <3>7. DOMAIN c.groups \ DOMAIN w.db.groups \subseteq GroupsBelow(c, c.bin) /\ Named(w.db) \subseteq Named(c) /\ w.db.bin = c.bin
      BY <2>5, <3>4, <3>5, <3>6 DEF TakenGroups
    <3>8. CASE ~w.ok
      <4>1. r = w BY <1>0, <1>2, <2>8, <3>8
      <4>2. QED BY <3>7, <4>1 DEF r
    <3>9. CASE w.ok /\ g \notin DOMAIN w.db.groups
      <4>1. r = Err(w.db) BY <1>0, <1>2, <2>8, <3>9
      <4>3. r.db = w.db BY <3>2, <4>1, Results
      <4>2. QED BY <3>7, <4>3 DEF r
    <3>10. CASE w.ok /\ g \in DOMAIN w.db.groups
      <4>1. r = Ok(d) BY <1>0, <1>2, <2>8, <3>10
      <4>2. /\ dropped \in Content(I) /\ DOMAIN dropped.groups = DOMAIN w.db.groups \ {g}
            /\ (\A y \in DOMAIN w.db.groups : y # g => dropped.groups[y] = w.db.groups[y])
            /\ dropped.bin = w.db.bin
        BY <3>2, GroupDropped
      <4> HIDE DEF dropped
      <4>5. Named(dropped) \subseteq Named(w.db) BY <4>2 DEF Named, Subs
      <4>9. Named(unlisted) \subseteq Named(dropped) BY <2>0, <4>2, NamedSteps
      <4>3. unlisted \in Content(I) /\ OnlyGroup(dropped, unlisted, p) BY <2>0, <4>2, GroupUnlisted
      <4> HIDE DEF unlisted
      <4>4. d.groups = unlisted.groups /\ d.bin = unlisted.bin BY <2>0, <4>3, Buried
      <4>7. r.db = d BY <4>1 DEF Ok
      <4> HIDE DEF d
      <4>8. Named(d) = Named(unlisted) BY <4>4 DEF Named, Subs
      <4>6. QED BY <2>0, <3>7, <4>2, <4>3, <4>4, <4>5, <4>7, <4>8, <4>9 DEF OnlyGroup, r
    <3>11. QED BY <3>8, <3>9, <3>10
  <2>9. QED BY <2>7, <2>8
<1>3. QED BY <1>1, <1>2

\* empty_trash
LEMMA EmptyTrashNames ==
    ASSUME NEW I \in SUBSET Uuid, NEW c \in Content(I), NEW now \in Time
    PROVE  LET d == EmptyTrash(c, now).db
           IN  DOMAIN c.groups \ DOMAIN d.groups \subseteq GroupsBelow(c, c.bin) /\ Named(d) \subseteq Named(c) /\ d.bin = c.bin
<1> DEFINE r == EmptyTrash(c, now)
           v == BinnedEntryLoop(c, Walk(c, c.bin), EntriesBelow(c, c.bin), now)
           w == BinnedGroupLoop(v.db, Walk(v.db, v.db.bin), GroupsBelow(v.db, v.db.bin), now)
           V == Outcome(I, "binnedentry", c, Walk(c, c.bin), EntriesBelow(c, c.bin), Len(Walk(c, c.bin)))
           W == Outcome(I, "binnedgroup", v.db, Walk(v.db, v.db.bin), GroupsBelow(v.db, v.db.bin),
                        Len(Walk(v.db, v.db.bin)))
<1>0. IF c.bin \notin DOMAIN c.groups THEN r = Err(c)
      ELSE /\ v \in V
           /\ IF ~v.ok THEN r = v
              ELSE /\ w \in W
                   /\ IF ~w.ok THEN r = w
                      ELSE IF w.db.bin \notin DOMAIN w.db.groups THEN r = Err(w.db) ELSE r = Ok(Emptied(w.db))
  BY EmptyTrashSteps
<1> HIDE DEF r, v
<1>1. CASE c.bin \notin DOMAIN c.groups
  <2>1. r = Err(c) BY <1>0, <1>1
  <2>2. r.db = c BY <2>1, Results
  <2>3. QED BY <2>2 DEF r
<1>2. CASE c.bin \in DOMAIN c.groups
  <2>1. v \in V BY <1>0, <1>2
  <2>2. v.db \in Content(I) BY <2>1 DEF Outcome, Result
  <2>3. PICK E : LessBy("binnedentry", c, v.db, E) BY <2>1 DEF Outcome
  <2>4. TakenEntries(c, v.db, E) BY <2>3 DEF LessBy
  <2> HIDE DEF V
  <2>5. DOMAIN v.db.groups = DOMAIN c.groups /\ Named(v.db) = Named(c) /\ v.db.bin = c.bin BY <2>4 DEF TakenEntries, Named, Subs
  <2>6. GroupsBelow(v.db, v.db.bin) = GroupsBelow(c, c.bin)
    <3>1. DOMAIN v.db.groups = DOMAIN c.groups /\ \A h \in DOMAIN c.groups : v.db.groups[h].subs = c.groups[h].subs
      BY <2>4 DEF TakenEntries
    <3>2. QED BY <2>5, <3>1, SameBelow
  <2>7. CASE ~v.ok
    <3>1. r = v BY <1>0, <1>2, <2>7
    <3>2. QED BY <2>5, <3>1 DEF r
  <2>8. CASE v.ok
    <3>1. w \in W BY <1>0, <1>2, <2>8
    <3> HIDE DEF w
    <3>2. w.db \in Content(I) BY <3>1 DEF Outcome, Result
    <3>3. PICK H \in SUBSET GroupsBelow(v.db, v.db.bin) : LessBy("binnedgroup", v.db, w.db, H)
      BY <3>1 DEF Outcome, MetBy
    <3>4. TakenGroups(v.db, w.db, H, H) BY <3>3 DEF LessBy
    <3> HIDE DEF W
    <3>5. H \subseteq GroupsBelow(c, c.bin) BY <2>6, <3>3
    <3>6. Named(w.db) \subseteq Named(v.db) BY <3>4 DEF TakenGroups, Named, Subs
    <3>7. DOMAIN c.groups \ DOMAIN w.db.groups \subseteq GroupsBelow(c, c.bin) /\ Named(w.db) \subseteq Named(c) /\ w.db.bin = c.bin
      BY <2>5, <3>4, <3>5, <3>6 DEF TakenGroups
    <3>8. CASE ~w.ok
      <4>1. r = w BY <1>0, <1>2, <2>8, <3>8
      <4>2. QED BY <3>7, <4>1 DEF r
    <3>9. CASE w.ok /\ w.db.bin \notin DOMAIN w.db.groups
      <4>1. r = Err(w.db) BY <1>0, <1>2, <2>8, <3>9
      <4>3. r.db = w.db BY <3>2, <4>1, Results
      <4>2. QED BY <3>7, <4>3 DEF r
    <3>10. CASE w.ok /\ w.db.bin \in DOMAIN w.db.groups
      <4> DEFINE d == Emptied(w.db)
      <4>1. r = Ok(d) BY <1>0, <1>2, <2>8, <3>10
      <4>2. /\ OnlyGroup(w.db, d, w.db.bin)
            /\ d.groups[w.db.bin] = [w.db.groups[w.db.bin] EXCEPT !.subs = <<>>, !.entries = <<>>]
        BY <3>2, <3>10, EmptiedTyped
      <4> HIDE DEF d
      <4>3. w.db.groups[w.db.bin] \in Group BY <3>2, <3>10, ContentParts
      <4>4. Subs(d, w.db.bin) = {} BY <4>2, <4>3, EmptyList DEF Group, Subs
      <4>5. Named(d) \subseteq Named(w.db) \cup {} BY <4>2, <4>4, NamedWith
      <4>6. r.db = d BY <4>1 DEF Ok
      <4>7. QED BY <3>7, <4>2, <4>5, <4>6 DEF OnlyGroup, r
    <3>11. QED BY <3>8, <3>9, <3>10
  <2>9. QED BY <2>7, <2>8
<1>3. QED BY <1>1, <1>2

\* The uuids handed out for copies of entries, and those for copies of groups.
EntryCopies(c, g, fresh) ==
    {fresh + i - 1 : i \in {i \in 1 .. Len(Cloned(c, g)) : HasEntry(c, Cloned(c, g)[i][2])}}
GroupCopies(c, g, fresh) ==
    {fresh + i - 1 : i \in {i \in 1 .. Len(Cloned(c, g)) : ~HasEntry(c, Cloned(c, g)[i][2])}}

\* A copy of a group is a group.
LEMMA GroupCopyTyped ==
    ASSUME NEW I \in SUBSET Uuid, NEW c \in Content(I), NEW g \in DOMAIN c.groups, c.groups[g].parent # Nil,
           NEW fresh \in Nat, Handed(fresh, Len(Cloned(c, g))) \subseteq I, NEW now \in Time, NEW by \in Devices,
           NEW n \in 1 .. Len(Cloned(c, g)), HasGroup(c, Cloned(c, g)[n][2])
    PROVE  LET p == CopyUuid(c, g, fresh, Cloned(c, g)[n][1])
               v == GroupCopy(c, Cloned(c, g)[n][2], p, now, by)
           IN  p \in Uuid /\ v \in Group /\ v.subs = <<>> /\ v.entries = <<>> /\ v.parent = p
<1> DEFINE s == Cloned(c, g)
           N == Len(s)
           x == s[n][2]
           p == CopyUuid(c, g, fresh, s[n][1])
           v == GroupCopy(c, x, p, now, by)
<1>1. N \in Nat BY ClonedItems
<1>2. p \in Uuid
  <2>1. \A k \in 1 .. N : fresh - 1 + k \in Uuid BY <1>1 DEF Handed
  <2>2. \/ p \in Uuid
        \/ \E k \in 1 .. Len(Cloned(c, g)) : p = fresh - 1 + k
    BY CopyParents
  <2>3. QED BY <2>1, <2>2
<1>3. c.groups[x] \in Group BY ContentParts DEF HasGroup
<1>4. <<>> \in Seq(Uuid) OBVIOUS
<1> HIDE DEF p, x
<1>5. v \in Group /\ v.subs = <<>> /\ v.entries = <<>> /\ v.parent = p BY <1>2, <1>3, <1>4 DEF GroupCopy, Group
<1>6. QED BY <1>2, <1>5 DEF p, x

\* The new groups and entries of clone_group are copies of groups and of entries.
LEMMA CloneGroupKinds ==
    ASSUME NEW I \in SUBSET Uuid, NEW c \in Content(I), NEW g \in DOMAIN c.groups, c.groups[g].parent # Nil,
           NEW fresh \in Nat, Handed(fresh, Len(Cloned(c, g))) \subseteq I, NEW now \in Time, NEW by \in Devices
    PROVE  LET d == CloneGroup(c, g, fresh, now, by).db
           IN  /\ DOMAIN d.entries \subseteq DOMAIN c.entries \cup EntryCopies(c, g, fresh)
               /\ DOMAIN d.groups \subseteq DOMAIN c.groups \cup GroupCopies(c, g, fresh)
               /\ Named(d) \subseteq Named(c) \cup Handed(fresh, Len(Cloned(c, g)))
               /\ EntryCopies(c, g, fresh) \cap GroupCopies(c, g, fresh) = {} /\ d.bin = c.bin
<1> DEFINE s == Cloned(c, g)
           N == Len(s)
           new == Handed(fresh, N)
           E == EntryCopies(c, g, fresh)
           G == GroupCopies(c, g, fresh)
           Fits(d) == /\ DOMAIN d.entries \subseteq DOMAIN c.entries \cup E
                      /\ DOMAIN d.groups \subseteq DOMAIN c.groups \cup G
                      /\ Named(d) \subseteq Named(c) \cup new /\ d.bin = c.bin
<1>1. N \in Nat BY ClonedItems
<1>2. PICK f : /\ Copying(f, c, g, fresh, now, by)
               /\ \A n \in 0 .. N : f[n] \in Result(I)
               /\ CloneGroup(c, g, fresh, now, by) = f[N]
  BY CloneGroupSteps
<1>3. E \cap G = {} BY DEF EntryCopies, GroupCopies
<1>4. ASSUME NEW n \in 1 .. N, Fits(f[n - 1].db) PROVE Fits(f[n].db)
  <2> DEFINE v == f[n - 1]
             d == v.db
             x == s[n][2]
             p == CopyUuid(c, g, fresh, s[n][1])
             id == fresh + n - 1
             listed == ListGroup(d, p, id)
             group == GroupCopy(c, x, p, now, by)
             put == PutGroup(listed, id, group)
  <2>1. f[n] = IF v.ok THEN CopyStep(c, g, fresh, now, by, d, n) ELSE v BY <1>2 DEF Copying
  <2>2. v \in Result(I) /\ d \in Content(I)
    <3>1. n - 1 \in 0 .. N BY <1>1
    <3>2. v \in Result(I) BY <1>2, <3>1
    <3>3. QED BY <3>2 DEF Result
  <2>3. id \in I /\ id \in Uuid /\ id \in new BY <1>1 DEF Handed
  <2>4. CASE ~v.ok BY <1>4, <2>1, <2>4
  <2>5. CASE v.ok
    <3>1. f[n] = CASE HasEntry(c, x) -> CloneEntry(d, x, p, id, FALSE, now, by)
                   [] ~HasEntry(c, x) /\ HasGroup(c, x) -> Ok(put)
                   [] OTHER -> Err(d)
      BY <2>1, <2>5 DEF CopyStep
    <3>2. HasEntry(c, x) => id \in E BY DEF EntryCopies
    <3>3. ~HasEntry(c, x) => id \in G BY DEF GroupCopies
    <3>4. CASE HasEntry(c, x)
      <4> DEFINE r == CloneEntry(d, x, p, id, FALSE, now, by)
      <4>1. f[n] = r BY <3>1, <3>4
      <4> HIDE DEF p, id, x, v, E, G, new, s
      <4>2. Kept(d, r.db, {id}) BY <2>2, <2>3, CloneEntryTyped
      <4>3. SameGroups(d, r.db) BY <2>2, <2>3, CloneEntryNames
      <4> HIDE DEF r
      <4>4. Fits(r.db) BY <1>4, <3>2, <3>4, <4>2, <4>3 DEF Kept, SameGroups, v
      <4>5. QED BY <4>1, <4>4
    <3>5. CASE ~HasEntry(c, x) /\ HasGroup(c, x)
      <4>1. f[n] = Ok(put) BY <3>1, <3>5
      <4>2. group \in Group /\ group.subs = <<>> BY <3>5, GroupCopyTyped
      <4>10. Fits(d) BY <1>4
      <4> HIDE DEF group, p, id, x, v, E, G, new, s
      <4>3. listed \in Content(I) /\ OnlyGroup(d, listed, p) BY <2>2, <2>3, GroupListed
      <4>4. Named(listed) \subseteq Named(d) \cup {id} BY <2>2, <2>3, NamedSteps
      <4> HIDE DEF listed
      <4>5. put.entries = listed.entries /\ put.bin = listed.bin /\ DOMAIN put.groups = DOMAIN listed.groups \cup {id}
        BY <2>3, <4>2, <4>3, GroupPut
      <4>6. Named(put) \subseteq Named(listed) \cup ToSet(group.subs) BY <2>3, <4>2, <4>3, NamedPut
      <4>7. ToSet(group.subs) = {} BY <4>2, EmptyList
      <4>8. Ok(put).db = put BY DEF Ok
      <4> HIDE DEF put
      <4>9. Fits(put) BY <2>3, <3>3, <3>5, <4>3, <4>4, <4>5, <4>6, <4>7, <4>10 DEF OnlyGroup
      <4>11. QED BY <4>1, <4>8, <4>9
    <3>6. CASE ~HasEntry(c, x) /\ ~HasGroup(c, x)
      <4>1. f[n] = Err(d) BY <3>1, <3>6
      <4>2. Err(d).db = d BY DEF Err
      <4>3. QED BY <1>4, <4>1, <4>2
    <3>7. QED BY <3>4, <3>5, <3>6
  <2>6. QED BY <2>4, <2>5
<1>5. Fits(f[0].db)
  <2>1. f[0].db = c BY <1>2 DEF Copying, Ok
  <2>2. QED BY <2>1
<1>6. Fits(f[N].db)
  <2> DEFINE S == {n \in Nat : n <= N => Fits(f[n].db)}
  <2> HIDE DEF Fits, N
  <2>1. 0 \in S BY <1>5
  <2>2. ASSUME NEW n \in Nat, n \in S PROVE n + 1 \in S
    <3>1. CASE n + 1 <= N
      <4>1. n + 1 \in 1 .. N /\ (n + 1) - 1 = n /\ n <= N BY <1>1, <3>1
      <4>2. Fits(f[n].db) BY <2>2, <4>1
      <4>3. QED BY <1>4, <4>1, <4>2
    <3>2. QED BY <1>1, <3>1
  <2>3. Nat \subseteq S
    <3> HIDE DEF S
    <3>1. QED BY <2>1, <2>2, AllNumbers
  <2>4. QED BY <1>1, <2>3
<1>7. QED BY <1>2, <1>3, <1>6

-----------------------------------------------------------------------------
(* What every operation of a client leaves behind *)
\* The root group is there, and no group lists it.
Rooted(c) == RootGroup \in DOMAIN c.groups /\ RootGroup \notin Named(c)

\* From c to d: nothing goes, or entries go out of the recycle bin; nothing is
\* new but uuids of N, none of them as a group and as an entry; the root group
\* stays where it is, and the recycle bin is made once and stays.
Own(c, d, N) ==
    /\ Kept(c, d, N) \/ Purged(c, d)
    /\ d.bin \in {c.bin} \cup N
    /\ ((DOMAIN d.groups \ DOMAIN c.groups) \cup ({d.bin} \ {c.bin}))
          \cap (DOMAIN d.entries \ DOMAIN c.entries) = {}
    /\ Rooted(c) => Rooted(d)
    /\ c.bin # Nil => d.bin = c.bin
    /\ c.bin \in DOMAIN c.groups => c.bin \in DOMAIN d.groups

\* An operation that changes nothing.
LEMMA NothingOwn ==
    ASSUME NEW c, NEW N PROVE Own(c, c, N)
BY DEF Own, Kept, Rooted

\* An operation that changes no place and no list.
LEMMA SamePlacesOwn ==
    ASSUME NEW c, NEW d, SamePlaces(c, d), NEW N PROVE Own(c, d, N)
<1>1. Named(d) = Named(c) BY SameNames
<1>2. Kept(c, d, N) BY DEF SamePlaces, Kept
<1> QED BY <1>1, <1>2 DEF Own, SamePlaces, Rooted

\* insert_group brings one new group.
LEMMA InsertGroupOwn ==
    ASSUME NEW I \in SUBSET Uuid, NEW c \in Content(I), NEW g \in I \ {RootGroup}, NEW group \in Group, group.subs = <<>>
    PROVE  Own(c, InsertGroup(c, g, group).db, {g})
<1> DEFINE d == InsertGroup(c, g, group).db
<1>1. Kept(c, d, {g}) /\ d.entries = c.entries /\ d.bin = c.bin BY InsertGroupTyped
<1>2. Named(d) \subseteq Named(c) \cup {g} BY InsertGroupNames
<1> HIDE DEF d
<1>9. Own(c, d, {g}) BY <1>1, <1>2 DEF Own, Kept, Rooted
<1> QED BY <1>9 DEF d

\* insert_entry brings one new entry.
LEMMA InsertEntryOwn ==
    ASSUME NEW I \in SUBSET Uuid, NEW c \in Content(I), NEW e \in I, NEW entry \in Entry
    PROVE  Own(c, InsertEntry(c, e, entry).db, {e})
<1> DEFINE d == InsertEntry(c, e, entry).db
<1>1. Kept(c, d, {e}) /\ d.bin = c.bin BY InsertEntryTyped
<1>2. SameGroups(c, d) BY InsertEntryNames
<1> HIDE DEF d
<1>9. Own(c, d, {e}) BY <1>1, <1>2 DEF Own, Kept, Rooted, SameGroups
<1> QED BY <1>9 DEF d

\* move_group brings nothing new.
LEMMA MoveGroupOwn ==
    ASSUME NEW I \in SUBSET Uuid, NEW c \in Content(I), NEW g \in Uuid \ {RootGroup}, NEW p \in Uuid, NEW now \in Time
    PROVE  Own(c, MoveGroup(c, g, p, now).db, {})
<1> DEFINE d == MoveGroup(c, g, p, now).db
<1>1. Kept(c, d, {}) /\ d.entries = c.entries /\ d.bin = c.bin BY MoveGroupTyped
<1>2. Named(d) \subseteq Named(c) \cup {g} BY MoveGroupNames
<1> HIDE DEF d
<1>9. Own(c, d, {}) BY <1>1, <1>2 DEF Own, Kept, Rooted
<1> QED BY <1>9 DEF d

\* move_entry brings nothing new.
LEMMA MoveEntryOwn ==
    ASSUME NEW I \in SUBSET Uuid, NEW c \in Content(I), NEW e \in Uuid, NEW p \in Uuid, NEW now \in Time
    PROVE  Own(c, MoveEntry(c, e, p, now).db, {})
<1> DEFINE d == MoveEntry(c, e, p, now).db
<1>1. Kept(c, d, {}) /\ d.bin = c.bin BY MoveEntryTyped
<1>2. Named(d) \subseteq Named(c) BY MoveEntryNames
<1> HIDE DEF d
<1>9. Own(c, d, {}) BY <1>1, <1>2 DEF Own, Kept, Rooted
<1> QED BY <1>9 DEF d

\* clone_entry brings one copy of an entry.
LEMMA CloneEntryOwn ==
    ASSUME NEW I \in SUBSET Uuid, NEW c \in Content(I), NEW e, NEW p, NEW fresh \in I, NEW keep \in BOOLEAN,
           NEW now \in Time, NEW by \in Devices
    PROVE  Own(c, CloneEntry(c, e, p, fresh, keep, now, by).db, {fresh})
<1> DEFINE d == CloneEntry(c, e, p, fresh, keep, now, by).db
<1>1. Kept(c, d, {fresh}) BY CloneEntryTyped
<1>2. SameGroups(c, d) BY CloneEntryNames
<1> HIDE DEF d
<1>9. Own(c, d, {fresh}) BY <1>1, <1>2 DEF Own, Kept, Rooted, SameGroups
<1> QED BY <1>9 DEF d

\* clone_group brings copies of groups and copies of entries.
LEMMA CloneGroupOwn ==
    ASSUME NEW I \in SUBSET Uuid, NEW c \in Content(I), NEW g \in DOMAIN c.groups,
           NEW fresh \in Nat, Handed(fresh, FreshFor(c, g)) \subseteq I, RootGroup \notin Handed(fresh, FreshFor(c, g)),
           NEW now \in Time, NEW by \in Devices
    PROVE  /\ CloneGroup(c, g, fresh, now, by) \in Result(I)
           /\ Own(c, CloneGroup(c, g, fresh, now, by).db, Handed(fresh, FreshFor(c, g)))
<1> DEFINE N == Handed(fresh, FreshFor(c, g)) r == CloneGroup(c, g, fresh, now, by)
<1>0. FreshFor(c, g) = Len(Cloned(c, g)) BY DEF FreshFor, HasGroup
<1>1. CASE c.groups[g].parent = Nil
  <2>1. r = Err(c) BY <1>1 DEF CloneGroup
  <2>2. r \in Result(I) /\ r.db = c BY <2>1, Results
  <2> HIDE DEF r, N
  <2>3. Own(c, r.db, N) BY <2>2, NothingOwn
  <2> QED BY <2>2, <2>3 DEF r, N
<1>2. CASE c.groups[g].parent # Nil
  <2>1. PICK f : /\ Copying(f, c, g, fresh, now, by)
                 /\ \A n \in 0 .. Len(Cloned(c, g)) :
                       f[n] \in Result(I) /\ Kept(c, f[n].db, Handed(fresh, Len(Cloned(c, g))))
                 /\ CloneGroup(c, g, fresh, now, by) = f[Len(Cloned(c, g))]
    BY <1>0, <1>2, CloneGroupSteps
  <2>2. Len(Cloned(c, g)) \in 0 .. Len(Cloned(c, g)) BY <1>2, ClonedItems
  <2>3. r \in Result(I) /\ Kept(c, r.db, N) BY <2>1, <2>2, <1>0
  <2>4. /\ DOMAIN r.db.entries \subseteq DOMAIN c.entries \cup EntryCopies(c, g, fresh)
        /\ DOMAIN r.db.groups \subseteq DOMAIN c.groups \cup GroupCopies(c, g, fresh)
        /\ Named(r.db) \subseteq Named(c) \cup N
        /\ EntryCopies(c, g, fresh) \cap GroupCopies(c, g, fresh) = {} /\ r.db.bin = c.bin
    BY <1>0, <1>2, CloneGroupKinds
  <2>5. RootGroup \notin N OBVIOUS
  <2> HIDE DEF r, N
  <2>6. Own(c, r.db, N) BY <2>3, <2>4, <2>5 DEF Own, Kept, Rooted
  <2> QED BY <2>3, <2>6 DEF r, N
<1> QED BY <1>1, <1>2

\* sort_sub_groups
LEMMA SortOwn ==
    ASSUME NEW I \in SUBSET Uuid, NEW c \in Content(I), NEW g, NEW criteria
    PROVE  Own(c, SortSubGroups(c, g, criteria).db, {})
<1> DEFINE d == SortSubGroups(c, g, criteria).db
<1>1. /\ DOMAIN d.groups = DOMAIN c.groups /\ \A h \in DOMAIN c.groups : Subs(d, h) = Subs(c, h)
      /\ d.entries = c.entries /\ d.bin = c.bin /\ d.deleted = c.deleted
  BY SortTyped
<1> HIDE DEF d
<1>2. Named(d) \subseteq Named(c) BY <1>1, NamedFewer
<1>9. Own(c, d, {}) BY <1>1, <1>2 DEF Own, Kept, Rooted
<1> QED BY <1>9 DEF d

\* move_to_recycle_bin!, which makes the recycle bin if there is none
LEMMA DiscardOwn ==
    ASSUME NEW I \in SUBSET Uuid, NEW c \in Content(I), NEW x \in Uuid, NEW fresh, NEW N,
           c.bin = Nil => fresh \in I \ {RootGroup} /\ fresh \in N,
           NEW now \in Time, NEW by \in Devices
    PROVE  /\ x # RootGroup => Own(c, MoveGroupToRecycleBin(c, x, fresh, now, by).db, N)
           /\ Own(c, MoveEntryToRecycleBin(c, x, fresh, now, by).db, N)
<1> DEFINE b == WithBin(c, fresh, now, by)
           d == MoveGroupToRecycleBin(c, x, fresh, now, by).db
           f == MoveEntryToRecycleBin(c, x, fresh, now, by).db
<1>0. c.bin = Nil => fresh \in I OBVIOUS
<1>1. /\ b \in Content(I) /\ Kept(c, b, {fresh}) /\ (c.bin # Nil => b = c)
      /\ (c.bin = Nil => b.bin = fresh) /\ b.entries = c.entries
  <2>1. b \in Content(I) /\ Kept(c, b, {fresh}) /\ b.entries = c.entries BY <1>0, WithBinTyped
  <2>2. ASSUME c.bin # Nil PROVE b = c BY <1>0, <2>1, <2>2, WithBinTyped
  <2>3. ASSUME c.bin = Nil PROVE b.bin = fresh BY <1>0, <2>1, <2>3, WithBinTyped
  <2> HIDE DEF b
  <2> QED BY <2>1, <2>2, <2>3
<1>2. /\ Named(b) \subseteq Named(c) \cup {fresh}
      /\ Named(d) \subseteq Named(c) \cup {fresh, x} /\ Named(f) \subseteq Named(c) \cup {fresh}
  BY <1>0, DiscardNames
<1>3. d = IF HasGroup(b, b.bin) THEN MoveGroup(b, x, b.bin, now).db ELSE b
  BY DEF MoveGroupToRecycleBin, Err
<1>4. f = IF HasGroup(b, b.bin) THEN MoveEntry(b, x, b.bin, now).db ELSE b
  BY DEF MoveEntryToRecycleBin, Err
<1> HIDE DEF b, d, f
<1>5. HasGroup(b, b.bin) => b.bin \in Uuid BY <1>1, ContentParts DEF HasGroup
<1>6. Own(c, b, N) BY <1>1, <1>2 DEF Own, Kept, Rooted
<1>7. ASSUME x # RootGroup PROVE Own(c, d, N)
  <2>1. CASE ~HasGroup(b, b.bin) BY <1>3, <1>6, <2>1
  <2>2. CASE HasGroup(b, b.bin)
    <3>1. Kept(b, d, {}) /\ d.entries = b.entries /\ d.bin = b.bin BY <1>1, <1>3, <1>5, <2>2, MoveGroupTyped
    <3>2. Own(b, d, {}) BY <1>1, <1>3, <1>5, <1>7, <2>2, MoveGroupOwn
    <3>3. CASE c.bin = Nil BY <1>1, <1>6, <3>1, <3>2, <3>3 DEF Own, Kept, Rooted
    <3>4. CASE c.bin # Nil BY <1>1, <3>1, <3>2, <3>4 DEF Own, Kept, Rooted
    <3> QED BY <3>3, <3>4
  <2> QED BY <2>1, <2>2
<1>8. Own(c, f, N)
  <2>1. CASE ~HasGroup(b, b.bin) BY <1>4, <1>6, <2>1
  <2>2. CASE HasGroup(b, b.bin)
    <3>1. Kept(b, f, {}) /\ f.bin = b.bin BY <1>1, <1>4, <1>5, <2>2, MoveEntryTyped
    <3>2. Own(b, f, {}) BY <1>1, <1>4, <1>5, <2>2, MoveEntryOwn
    <3>3. CASE c.bin = Nil BY <1>1, <1>6, <3>1, <3>2, <3>3 DEF Own, Kept, Rooted
    <3>4. CASE c.bin # Nil BY <1>1, <3>1, <3>2, <3>4 DEF Own, Kept, Rooted
    <3> QED BY <3>3, <3>4
  <2> QED BY <2>1, <2>2
<1> QED BY <1>7, <1>8 DEF d, f

\* remove_entry_permanently, remove_group_permanently and empty_trash
LEMMA RemoveEntryOwn ==
    ASSUME NEW I \in SUBSET Uuid, NEW c \in Content(I), NEW e, NEW now \in Time, NEW N
    PROVE  RemoveEntry(c, e, now) \in Result(I) /\ Own(c, RemoveEntry(c, e, now).db, N)
<1> DEFINE r == RemoveEntry(c, e, now)
<1>1. r \in Result(I) /\ (IF r.ok THEN Removed(c, r.db, {e}) ELSE r.db = c) BY RemoveEntryTyped
<1>2. Purged(c, r.db) BY RemoveEntryPurged
<1> HIDE DEF r
<1>3. CASE r.ok
  <2>1. Removed(c, r.db, {e}) BY <1>1, <1>3
  <2>2. \A h \in DOMAIN r.db.groups : Subs(r.db, h) \subseteq Subs(c, h) BY <2>1 DEF Removed, Subs
  <2>3. DOMAIN r.db.groups = DOMAIN c.groups /\ r.db.bin = c.bin BY <2>1 DEF Removed
  <2>4. Named(r.db) \subseteq Named(c) BY <2>2, <2>3, NamedFewer
  <2>5. Own(c, r.db, N) BY <1>2, <2>3, <2>4 DEF Own, Purged, Rooted
  <2> QED BY <1>1, <2>5 DEF r
<1>4. CASE ~r.ok
  <2>1. Own(c, r.db, N) BY <1>1, <1>4, NothingOwn
  <2> QED BY <1>1, <2>1 DEF r
<1> QED BY <1>3, <1>4

\* remove_group_permanently takes the root group away only if it is listed, and never the
\* recycle bin.
LEMMA RemoveGroupOwn ==
    ASSUME NEW I \in SUBSET Uuid, NEW c \in Content(I), NEW g, NEW now \in Time, NEW N, ~Endless(c, c.bin)
    PROVE  Own(c, RemoveGroup(c, g, now).db, N)
<1> DEFINE d == RemoveGroup(c, g, now).db
<1>1. Purged(c, d) BY RemoveGroupPurged
<1>2. DOMAIN c.groups \ DOMAIN d.groups \subseteq GroupsBelow(c, c.bin) /\ Named(d) \subseteq Named(c) /\ d.bin = c.bin
  BY RemoveGroupNames
<1>3. GroupsBelow(c, c.bin) \subseteq Named(c) BY BelowNamed
<1>4. c.bin \in DOMAIN c.groups => c.bin \notin GroupsBelow(c, c.bin) BY FirstNotBelow
<1> HIDE DEF d
<1>9. Own(c, d, N) BY <1>1, <1>2, <1>3, <1>4 DEF Own, Purged, Rooted
<1> QED BY <1>9 DEF d

\* empty_trash takes the root group away only if it is listed, and never the
\* recycle bin.
LEMMA EmptyTrashOwn ==
    ASSUME NEW I \in SUBSET Uuid, NEW c \in Content(I), NEW now \in Time, NEW N, ~Endless(c, c.bin)
    PROVE  Own(c, EmptyTrash(c, now).db, N)
<1> DEFINE d == EmptyTrash(c, now).db
<1>1. Purged(c, d) BY EmptyTrashPurged
<1>2. DOMAIN c.groups \ DOMAIN d.groups \subseteq GroupsBelow(c, c.bin) /\ Named(d) \subseteq Named(c) /\ d.bin = c.bin
  BY EmptyTrashNames
<1>3. GroupsBelow(c, c.bin) \subseteq Named(c) BY BelowNamed
<1>4. c.bin \in DOMAIN c.groups => c.bin \notin GroupsBelow(c, c.bin) BY FirstNotBelow
<1> HIDE DEF d
<1>9. Own(c, d, N) BY <1>1, <1>2, <1>3, <1>4 DEF Own, Purged, Rooted
<1> QED BY <1>9 DEF d

-----------------------------------------------------------------------------
(* One copy as a tree: what holds as long as nothing is merged into it, or *)
(* only what a merge does not take apart                                   *)

\* Whatever groups are taken, without the root group, the parent of one of them
\* is another: the way up ends at the root group.
Up(c) ==
    \A S \in SUBSET (DOMAIN c.groups) :
        S # {} /\ RootGroup \notin S => \E x \in S : c.groups[x].parent \notin S

\* The two ways a place is written down agree, under one root group.
Placed(c) ==
    /\ ListedByParent(c)
    /\ RootGroup \in DOMAIN c.groups /\ c.groups[RootGroup].parent = Nil
    /\ DOMAIN c.groups \cap DOMAIN c.entries = {}

Tree(c) == Placed(c) /\ Up(c)

\* The recycle bin is there if it has been made.
BinThere(c) == c.bin \in {Nil} \cup (DOMAIN c.groups \ {RootGroup})

\* The lists are those of the parents.
LEMMA PlacedLists ==
    ASSUME NEW c, Placed(c)
    PROVE  /\ \A h \in DOMAIN c.groups :
                 /\ IsInjective(c.groups[h].subs) /\ IsInjective(c.groups[h].entries)
                 /\ Subs(c, h) = {g \in DOMAIN c.groups : c.groups[g].parent = h}
                 /\ Children(c, h) = Subs(c, h)
                 /\ Ents(c, h) = {e \in DOMAIN c.entries : c.entries[e].parent = h}
           /\ \A g \in DOMAIN c.groups \ {RootGroup} : c.groups[g].parent \in DOMAIN c.groups
           /\ \A e \in DOMAIN c.entries : c.entries[e].parent \in DOMAIN c.groups
           /\ OneParent(c) /\ Apart(c)
<1>1. /\ \A h \in DOMAIN c.groups :
            /\ IsInjective(c.groups[h].subs) /\ IsInjective(c.groups[h].entries)
            /\ Subs(c, h) = {g \in DOMAIN c.groups : c.groups[g].parent = h}
            /\ Ents(c, h) = {e \in DOMAIN c.entries : c.entries[e].parent = h}
      /\ \A g \in DOMAIN c.groups \ {RootGroup} : c.groups[g].parent \in DOMAIN c.groups
      /\ \A e \in DOMAIN c.entries : c.entries[e].parent \in DOMAIN c.groups
  BY DEF Placed, ListedByParent, Subs, Ents
<1>2. \A h \in DOMAIN c.groups : Children(c, h) = Subs(c, h) BY <1>1 DEF Children, Subs
<1>3. OneParent(c) BY <1>1, <1>2 DEF OneParent
<1>4. DOMAIN c.groups \cap DOMAIN c.entries = {} BY DEF Placed
<1>5. Apart(c)
  <2>1. \A h \in DOMAIN c.groups : Subs(c, h) \cap Ents(c, h) = {} BY <1>1, <1>4
  <2>2. ASSUME NEW h \in DOMAIN c.groups, NEW k \in DOMAIN c.groups, NEW x \in Listed(c, h) \cap Listed(c, k)
        PROVE  h = k
    <3>1. x \in Subs(c, h) \cup Ents(c, h) /\ x \in Subs(c, k) \cup Ents(c, k) BY DEF Listed
    <3>2. CASE x \in DOMAIN c.groups
      <4>1. c.groups[x].parent = h /\ c.groups[x].parent = k BY <1>1, <1>4, <3>1, <3>2
      <4> QED BY <4>1
    <3>3. CASE x \notin DOMAIN c.groups
      <4>1. c.entries[x].parent = h /\ c.entries[x].parent = k BY <1>1, <3>1, <3>3
      <4> QED BY <4>1
    <3> QED BY <3>2, <3>3
  <2> QED BY <1>1, <2>1, <2>2 DEF Apart
<1> QED BY <1>1, <1>2, <1>3, <1>5

\* So they are in a tree.
LEMMA TreeLists ==
    ASSUME NEW c, Tree(c)
    PROVE  /\ \A h \in DOMAIN c.groups :
                 /\ IsInjective(c.groups[h].subs) /\ IsInjective(c.groups[h].entries)
                 /\ Subs(c, h) = {g \in DOMAIN c.groups : c.groups[g].parent = h}
                 /\ Children(c, h) = Subs(c, h)
                 /\ Ents(c, h) = {e \in DOMAIN c.entries : c.entries[e].parent = h}
           /\ \A g \in DOMAIN c.groups \ {RootGroup} : c.groups[g].parent \in DOMAIN c.groups
           /\ \A e \in DOMAIN c.entries : c.entries[e].parent \in DOMAIN c.groups
           /\ OneParent(c) /\ Apart(c)
<1>1. Placed(c) BY DEF Tree
<1> QED BY <1>1, PlacedLists

\* In a tree every walk ends, and the walk from the root group enters all groups.
LEMMA TreeWalks ==
    ASSUME NEW I \in SUBSET Uuid, NEW c \in Content(I), Tree(c)
    PROVE  (\A g : ~Endless(c, g)) /\ Entered(c, RootGroup) = DOMAIN c.groups
<1>0. IsFiniteSet(DOMAIN c.groups) /\ DOMAIN c.groups \subseteq Uuid
  <2>1. IsFiniteSet(DOMAIN c.groups) /\ DOMAIN c.groups \in SUBSET I BY ContentParts
  <2> QED BY <2>1
<1>1. \A g : Entered(c, g) \subseteq DOMAIN c.groups BY <1>0, EnteredGroups
<1>2. /\ \A h \in DOMAIN c.groups : /\ Subs(c, h) = {g \in DOMAIN c.groups : c.groups[g].parent = h}
                                    /\ Children(c, h) = Subs(c, h)
      /\ \A g \in DOMAIN c.groups \ {RootGroup} : c.groups[g].parent \in DOMAIN c.groups
  BY TreeLists
<1>3. Up(c) /\ RootGroup \in DOMAIN c.groups /\ c.groups[RootGroup].parent = Nil BY DEF Tree, Placed
<1>4. ASSUME NEW S \in SUBSET (DOMAIN c.groups), S # {}, \A h \in S : Subs(c, h) \cap S # {} PROVE FALSE
  <2> DEFINE P == {x \in S : c.groups[x].parent \in S}
             f == [x \in P |-> c.groups[x].parent]
  <2>1. f \in [P -> S] OBVIOUS
  <2>2. \A h \in S : \E x \in P : f[x] = h BY <1>2, <1>4
  <2>3. f \in Surjection(P, S) BY <2>1, <2>2 DEF Surjection
  <2>4. IsFiniteSet(S) BY <1>0, FS_Subset
  <2> HIDE DEF f
  <2>5. P \in SUBSET S OBVIOUS
  <2>6. IsFiniteSet(P) /\ Cardinality(P) <= Cardinality(S) /\ (Cardinality(S) = Cardinality(P) => S = P)
    BY <2>4, <2>5, FS_Subset
  <2>7. Cardinality(S) <= Cardinality(P) BY <2>3, <2>6, FS_Surjection
  <2>8. Cardinality(S) \in Nat /\ Cardinality(P) \in Nat BY <2>4, <2>6, FS_CardinalityType
  <2>9. S = P BY <2>6, <2>7, <2>8
  <2>10. RootGroup \notin S
    <3>1. Nil \notin S BY <1>0, UuidsThere
    <3> QED BY <1>3, <2>9, <3>1
  <2> QED BY <1>3, <1>4, <2>9, <2>10 DEF Up
<1>5. ASSUME NEW g, Endless(c, g) PROVE FALSE
  <2>1. PICK S \in SUBSET Entered(c, g) : S # {} /\ \A h \in S : ToSet(c.groups[h].subs) \cap S # {}
    BY <1>5 DEF Endless
  <2> QED BY <1>1, <1>4, <2>1 DEF Subs
<1>6. Entered(c, RootGroup) = DOMAIN c.groups
  <2> DEFINE S == DOMAIN c.groups \ Entered(c, RootGroup)
  <2>1. RootGroup \in Entered(c, RootGroup) /\ Closed(c, Entered(c, RootGroup)) BY <1>0, <1>3, EnteredGroups
  <2>2. ASSUME S # {} PROVE FALSE
    <3>1. PICK x \in S : c.groups[x].parent \notin S BY <1>3, <2>1, <2>2 DEF Up
    <3>2. c.groups[x].parent \in Entered(c, RootGroup) BY <1>2, <2>1, <3>1
    <3>3. x \in Children(c, c.groups[x].parent) BY <1>1, <1>2, <3>2
    <3> QED BY <2>1, <3>2, <3>3 DEF Closed
  <2> QED BY <1>1, <2>2
<1> QED BY <1>5, <1>6

\* In a tree the groups below a group are those that a walk from it enters after
\* it, and the entries below it are those of the groups it enters.
LEMMA TreeBelow ==
    ASSUME NEW I \in SUBSET Uuid, NEW c \in Content(I), Tree(c), NEW g \in DOMAIN c.groups
    PROVE  /\ g \in Entered(c, g) /\ Entered(c, g) \subseteq DOMAIN c.groups
           /\ GroupsBelow(c, g) = Entered(c, g) \ {g}
           /\ EntriesBelow(c, g) = {e \in DOMAIN c.entries : c.entries[e].parent \in Entered(c, g)}
           /\ \A x \in DOMAIN c.groups : c.groups[x].parent \in Entered(c, g) => x \in Entered(c, g) \ {g}
           /\ \A x \in Entered(c, g) \ {g} : c.groups[x].parent \in Entered(c, g)
           /\ g # RootGroup => RootGroup \notin Entered(c, g)
<1> DEFINE G == Entered(c, g)
<1>0. IsFiniteSet(DOMAIN c.groups) /\ DOMAIN c.groups \subseteq Uuid
  <2>1. IsFiniteSet(DOMAIN c.groups) /\ DOMAIN c.groups \in SUBSET I BY ContentParts
  <2> QED BY <2>1
<1>1. g \in G /\ G \subseteq DOMAIN c.groups /\ Closed(c, G) BY <1>0, EnteredGroups
<1>2. /\ \A h \in DOMAIN c.groups : /\ Subs(c, h) = {x \in DOMAIN c.groups : c.groups[x].parent = h}
                                    /\ Children(c, h) = Subs(c, h)
                                    /\ Ents(c, h) = {e \in DOMAIN c.entries : c.entries[e].parent = h}
      /\ \A x \in DOMAIN c.groups \ {RootGroup} : c.groups[x].parent \in DOMAIN c.groups
      /\ OneParent(c)
  BY TreeLists
<1>3. ~Endless(c, g) BY TreeWalks
<1>4. ASSUME NEW x \in DOMAIN c.groups, c.groups[x].parent \in G PROVE x \in G
  BY <1>1, <1>2, <1>4 DEF Closed
<1>5. c.groups[g].parent \notin G
  <2> SUFFICES ASSUME c.groups[g].parent \in G PROVE FALSE OBVIOUS
  <2> DEFINE q == c.groups[g].parent
  <2>1. g \in Children(c, q) BY <1>1, <1>2
  <2>2. \A x \in Children(c, g) : g \notin Entered(c, x) BY <1>0, <1>1, <1>3, NotBelowItself
  <2>3. q = g \/ \E x \in Children(c, g) : q \in Entered(c, x) BY <1>0, <1>1, EnteredGroups
  <2>4. CASE q = g BY <1>1, <2>1, <2>2, <2>4
  <2>5. CASE \E x \in Children(c, g) : q \in Entered(c, x)
    <3>1. PICK x \in Children(c, g) : q \in Entered(c, x) BY <2>5
    <3>2. Closed(c, Entered(c, x)) BY <1>0, EnteredGroups
    <3>3. g \in Entered(c, x) BY <2>1, <3>1, <3>2 DEF Closed
    <3> QED BY <2>2, <3>1, <3>3
  <2> QED BY <2>3, <2>4, <2>5
<1>6. \A x \in DOMAIN c.groups : c.groups[x].parent \in G => x \in G \ {g} BY <1>4, <1>5
<1>7. ASSUME NEW x \in G \ {g} PROVE c.groups[x].parent \in G
  <2>0. \A h \in G : h = g \/ \E y \in Children(c, g) : h \in Entered(c, y) BY <1>0, <1>1, EnteredGroups
  <2>1. CASE x = RootGroup
    <3>1. \A y : Entered(c, y) \subseteq DOMAIN c.groups /\ \A h \in Entered(c, y) : Entered(c, h) \subseteq Entered(c, y)
      BY <1>0, EnteredGroups
    <3>2. Entered(c, RootGroup) = DOMAIN c.groups BY TreeWalks
    <3>3. PICK y \in Children(c, g) : x \in Entered(c, y) BY <2>0
    <3>4. g \in Entered(c, y) BY <1>1, <2>1, <3>1, <3>2, <3>3
    <3>5. g \notin Entered(c, y) BY <1>0, <1>1, <1>3, <3>3, NotBelowItself
    <3> QED BY <3>4, <3>5
  <2>2. CASE x # RootGroup
    <3>1. c.groups[x].parent \in DOMAIN c.groups BY <1>1, <1>2, <2>2
    <3>2. x \in Children(c, c.groups[x].parent) BY <1>1, <1>2, <3>1
    <3> QED BY <1>0, <1>2, <3>1, <3>2, ParentEntered
  <2> QED BY <2>1, <2>2
<1>8. GroupsBelow(c, g) = G \ {g}
  <2>1. ASSUME NEW x \in GroupsBelow(c, g) PROVE x \in G \ {g}
    <3>1. PICK h \in G : x \in Subs(c, h) BY DEF GroupsBelow, Subs
    <3> QED BY <1>1, <1>2, <1>6, <3>1
  <2>2. ASSUME NEW x \in G \ {g} PROVE x \in GroupsBelow(c, g)
    <3>1. x \in Subs(c, c.groups[x].parent) BY <1>1, <1>2, <1>7
    <3> QED BY <1>7, <3>1 DEF GroupsBelow, Subs
  <2> QED BY <2>1, <2>2
<1>9. EntriesBelow(c, g) = {e \in DOMAIN c.entries : c.entries[e].parent \in G}
  <2>1. ASSUME NEW x \in EntriesBelow(c, g) PROVE x \in DOMAIN c.entries /\ c.entries[x].parent \in G
    <3>1. PICK h \in G : x \in Ents(c, h) BY DEF EntriesBelow, Ents
    <3> QED BY <1>1, <1>2, <3>1
  <2>2. ASSUME NEW x \in DOMAIN c.entries, c.entries[x].parent \in G PROVE x \in EntriesBelow(c, g)
    <3>1. x \in Ents(c, c.entries[x].parent) BY <1>1, <1>2, <2>2
    <3> QED BY <2>2, <3>1 DEF EntriesBelow, Ents
  <2> QED BY <2>1, <2>2
<1>10. ASSUME g # RootGroup, RootGroup \in G PROVE FALSE
  <2>1. c.groups[RootGroup].parent \in G BY <1>7, <1>10
  <2>2. c.groups[RootGroup].parent = Nil BY DEF Tree, Placed
  <2> QED BY <1>0, <1>1, <2>1, <2>2, UuidsThere
<1> QED BY <1>1, <1>6, <1>7, <1>8, <1>9, <1>10

-----------------------------------------------------------------------------
(* Changes that leave a tree a tree                                        *)

\* The lists of a group name nothing twice.
Neat(c, h) == IsInjective(c.groups[h].subs) /\ IsInjective(c.groups[h].entries)

\* d is c without the groups of H and the entries of E, and what is below a
\* group of H is gone too.
Gone(c, d, H, E) ==
    /\ DOMAIN d.groups = DOMAIN c.groups \ H /\ DOMAIN d.entries = DOMAIN c.entries \ E
    /\ RootGroup \notin H
    /\ \A x \in DOMAIN c.groups : c.groups[x].parent \in H => x \in H
    /\ \A e \in DOMAIN c.entries : c.entries[e].parent \in H => e \in E
    /\ \A h \in DOMAIN d.groups :
          /\ d.groups[h].parent = c.groups[h].parent
          /\ Subs(d, h) = Subs(c, h) \ H /\ Ents(d, h) = Ents(c, h) \ E
          /\ Neat(c, h) => Neat(d, h)
    /\ \A e \in DOMAIN d.entries : d.entries[e].parent = c.entries[e].parent

\* d is c with a new group x, without children, in the group p.
GroupAdded(c, d, x, p) ==
    /\ x \notin DOMAIN c.groups /\ x \notin DOMAIN c.entries /\ p \in DOMAIN c.groups
    /\ DOMAIN d.groups = DOMAIN c.groups \cup {x} /\ DOMAIN d.entries = DOMAIN c.entries
    /\ d.groups[x].parent = p /\ Subs(d, x) = {} /\ Ents(d, x) = {} /\ Neat(d, x)
    /\ \A h \in DOMAIN c.groups :
          /\ d.groups[h].parent = c.groups[h].parent
          /\ Subs(d, h) = IF h = p THEN Subs(c, h) \cup {x} ELSE Subs(c, h)
          /\ Ents(d, h) = Ents(c, h)
          /\ Neat(c, h) /\ x \notin Subs(c, h) => Neat(d, h)
    /\ \A e \in DOMAIN c.entries : d.entries[e].parent = c.entries[e].parent

\* d is c with a new entry x in the group p.
EntryAdded(c, d, x, p) ==
    /\ x \notin DOMAIN c.groups /\ x \notin DOMAIN c.entries /\ p \in DOMAIN c.groups
    /\ DOMAIN d.groups = DOMAIN c.groups /\ DOMAIN d.entries = DOMAIN c.entries \cup {x}
    /\ d.entries[x].parent = p
    /\ \A h \in DOMAIN c.groups :
          /\ d.groups[h].parent = c.groups[h].parent
          /\ Subs(d, h) = Subs(c, h)
          /\ Ents(d, h) = IF h = p THEN Ents(c, h) \cup {x} ELSE Ents(c, h)
          /\ Neat(c, h) /\ x \notin Ents(c, h) => Neat(d, h)
    /\ \A e \in DOMAIN c.entries : d.entries[e].parent = c.entries[e].parent

\* d is c with the group x in the group p.
GroupMoved(c, d, x, p) ==
    /\ x \in DOMAIN c.groups \ {RootGroup} /\ p \in DOMAIN c.groups
    /\ DOMAIN d.groups = DOMAIN c.groups /\ DOMAIN d.entries = DOMAIN c.entries
    /\ d.groups[x].parent = p
    /\ \A h \in DOMAIN c.groups :
          /\ h # x => d.groups[h].parent = c.groups[h].parent
          /\ Subs(d, h) = IF h = p THEN Subs(c, h) \cup {x}
                          ELSE IF h = c.groups[x].parent THEN Subs(c, h) \ {x} ELSE Subs(c, h)
          /\ Ents(d, h) = Ents(c, h)
          /\ Neat(c, h) /\ (h = p => x \notin Subs(c, h)) => Neat(d, h)
    /\ c.groups[x].parent # p
    /\ \A e \in DOMAIN c.entries : d.entries[e].parent = c.entries[e].parent

\* d is c with the entry x in the group p.
EntryMoved(c, d, x, p) ==
    /\ x \in DOMAIN c.entries /\ p \in DOMAIN c.groups /\ c.entries[x].parent # p
    /\ DOMAIN d.groups = DOMAIN c.groups /\ DOMAIN d.entries = DOMAIN c.entries
    /\ d.entries[x].parent = p
    /\ \A h \in DOMAIN c.groups :
          /\ d.groups[h].parent = c.groups[h].parent
          /\ Subs(d, h) = Subs(c, h)
          /\ Ents(d, h) = IF h = p THEN Ents(c, h) \cup {x}
                          ELSE IF h = c.entries[x].parent THEN Ents(c, h) \ {x} ELSE Ents(c, h)
          /\ Neat(c, h) /\ (h = p => x \notin Ents(c, h)) => Neat(d, h)
    /\ \A e \in DOMAIN c.entries : e # x => d.entries[e].parent = c.entries[e].parent

\* The lists, by the names of the changes.
LEMMA PlacedNeat ==
    ASSUME NEW c, Placed(c)
    PROVE  /\ \A h \in DOMAIN c.groups : Neat(c, h)
           /\ \A h \in DOMAIN c.groups : Subs(c, h) = {g \in DOMAIN c.groups : c.groups[g].parent = h}
           /\ \A h \in DOMAIN c.groups : Ents(c, h) = {e \in DOMAIN c.entries : c.entries[e].parent = h}
           /\ \A g \in DOMAIN c.groups \ {RootGroup} : c.groups[g].parent \in DOMAIN c.groups
           /\ \A e \in DOMAIN c.entries : c.entries[e].parent \in DOMAIN c.groups
           /\ RootGroup \in DOMAIN c.groups /\ c.groups[RootGroup].parent = Nil
           /\ DOMAIN c.groups \cap DOMAIN c.entries = {}
BY PlacedLists DEF Placed, Neat

LEMMA TreeNeat ==
    ASSUME NEW c, Tree(c)
    PROVE  /\ \A h \in DOMAIN c.groups : Neat(c, h)
           /\ \A h \in DOMAIN c.groups : Subs(c, h) = {g \in DOMAIN c.groups : c.groups[g].parent = h}
           /\ \A h \in DOMAIN c.groups : Ents(c, h) = {e \in DOMAIN c.entries : c.entries[e].parent = h}
           /\ \A g \in DOMAIN c.groups \ {RootGroup} : c.groups[g].parent \in DOMAIN c.groups
           /\ \A e \in DOMAIN c.entries : c.entries[e].parent \in DOMAIN c.groups
           /\ RootGroup \in DOMAIN c.groups /\ c.groups[RootGroup].parent = Nil
           /\ DOMAIN c.groups \cap DOMAIN c.entries = {} /\ Up(c)
BY PlacedNeat DEF Tree

\* And these make it agree.
LEMMA NeatPlaced ==
    ASSUME NEW c,
           \A h \in DOMAIN c.groups : Neat(c, h),
           \A h \in DOMAIN c.groups : Subs(c, h) = {g \in DOMAIN c.groups : c.groups[g].parent = h},
           \A h \in DOMAIN c.groups : Ents(c, h) = {e \in DOMAIN c.entries : c.entries[e].parent = h},
           \A g \in DOMAIN c.groups \ {RootGroup} : c.groups[g].parent \in DOMAIN c.groups,
           \A e \in DOMAIN c.entries : c.entries[e].parent \in DOMAIN c.groups,
           RootGroup \in DOMAIN c.groups, c.groups[RootGroup].parent = Nil,
           DOMAIN c.groups \cap DOMAIN c.entries = {}
    PROVE  Placed(c)
<1>1. ListedByParent(c) BY DEF ListedByParent, Neat, Subs, Ents
<1> QED BY <1>1 DEF Placed

\* What is cut off with all below it leaves the places of the rest.
LEMMA GonePlaced ==
    ASSUME NEW c, Placed(c), NEW d, NEW H, NEW E, Gone(c, d, H, E)
    PROVE  Placed(d)
<1>1. \A h \in DOMAIN d.groups : Neat(d, h) BY PlacedNeat DEF Gone
<1>2. ASSUME NEW h \in DOMAIN d.groups
      PROVE  Subs(d, h) = {g \in DOMAIN d.groups : d.groups[g].parent = h}
  <2>1. Subs(c, h) = {g \in DOMAIN c.groups : c.groups[g].parent = h} BY PlacedNeat DEF Gone
  <2> QED BY <2>1 DEF Gone
<1>3. ASSUME NEW h \in DOMAIN d.groups
      PROVE  Ents(d, h) = {e \in DOMAIN d.entries : d.entries[e].parent = h}
  <2>1. Ents(c, h) = {e \in DOMAIN c.entries : c.entries[e].parent = h} BY PlacedNeat DEF Gone
  <2> QED BY <2>1 DEF Gone
<1>4. \A g \in DOMAIN d.groups \ {RootGroup} : d.groups[g].parent \in DOMAIN d.groups BY PlacedNeat DEF Gone
<1>5. \A e \in DOMAIN d.entries : d.entries[e].parent \in DOMAIN d.groups BY PlacedNeat DEF Gone
<1>6. RootGroup \in DOMAIN d.groups /\ d.groups[RootGroup].parent = Nil BY PlacedNeat DEF Gone
<1>7. DOMAIN d.groups \cap DOMAIN d.entries = {} BY PlacedNeat DEF Gone
<1> QED BY <1>1, <1>2, <1>3, <1>4, <1>5, <1>6, <1>7, NeatPlaced

\* What is cut off with all below it leaves a tree.
LEMMA GoneTree ==
    ASSUME NEW c, Tree(c), NEW d, NEW H, NEW E, Gone(c, d, H, E)
    PROVE  Tree(d)
<1>1. Placed(d) BY GonePlaced DEF Tree
<1>2. Up(d)
  <2> SUFFICES ASSUME NEW S \in SUBSET (DOMAIN d.groups), S # {}, RootGroup \notin S
               PROVE  \E x \in S : d.groups[x].parent \notin S
    BY DEF Up
  <2>1. S \in SUBSET (DOMAIN c.groups) /\ Up(c) BY TreeNeat DEF Gone
  <2>2. PICK x \in S : c.groups[x].parent \notin S BY <2>1 DEF Up
  <2> QED BY <2>2 DEF Gone
<1> QED BY <1>1, <1>2 DEF Tree

\* A new group is in one place.
LEMMA GroupAddedPlaced ==
    ASSUME NEW c, Placed(c), Nil \notin DOMAIN c.groups, NEW d, NEW x, NEW p, x # Nil, GroupAdded(c, d, x, p)
    PROVE  Placed(d)
<1>0. \A h \in DOMAIN c.groups : x \notin Subs(c, h) BY PlacedNeat DEF GroupAdded
<1>a. x # RootGroup /\ \A g \in DOMAIN c.groups : c.groups[g].parent # x BY PlacedNeat DEF GroupAdded
<1>1. \A h \in DOMAIN d.groups : Neat(d, h) BY PlacedNeat, <1>0 DEF GroupAdded
<1>2. ASSUME NEW h \in DOMAIN d.groups
      PROVE  Subs(d, h) = {g \in DOMAIN d.groups : d.groups[g].parent = h}
  <2>1. CASE h = x BY <1>a, <2>1 DEF GroupAdded
  <2>2. CASE h # x
    <3>1. h \in DOMAIN c.groups BY <2>2 DEF GroupAdded
    <3>2. Subs(c, h) = {g \in DOMAIN c.groups : c.groups[g].parent = h} BY <3>1, PlacedNeat
    <3>3. CASE h = p BY <3>1, <3>2, <3>3 DEF GroupAdded
    <3>4. CASE h # p BY <3>1, <3>2, <3>4 DEF GroupAdded
    <3> QED BY <3>3, <3>4
  <2> QED BY <2>1, <2>2
<1>3. ASSUME NEW h \in DOMAIN d.groups
      PROVE  Ents(d, h) = {e \in DOMAIN d.entries : d.entries[e].parent = h}
  <2>1. CASE h = x
    <3>1. \A e \in DOMAIN c.entries : c.entries[e].parent # x BY PlacedNeat DEF GroupAdded
    <3> QED BY <2>1, <3>1 DEF GroupAdded
  <2>2. CASE h # x
    <3>1. h \in DOMAIN c.groups BY <2>2 DEF GroupAdded
    <3>2. Ents(c, h) = {e \in DOMAIN c.entries : c.entries[e].parent = h} BY <3>1, PlacedNeat
    <3> QED BY <3>1, <3>2 DEF GroupAdded
  <2> QED BY <2>1, <2>2
<1>4. \A g \in DOMAIN d.groups \ {RootGroup} : d.groups[g].parent \in DOMAIN d.groups BY PlacedNeat DEF GroupAdded
<1>5. \A e \in DOMAIN d.entries : d.entries[e].parent \in DOMAIN d.groups BY PlacedNeat DEF GroupAdded
<1>6. RootGroup \in DOMAIN d.groups /\ d.groups[RootGroup].parent = Nil BY PlacedNeat DEF GroupAdded
<1>7. DOMAIN d.groups \cap DOMAIN d.entries = {} BY PlacedNeat DEF GroupAdded
<1> QED BY <1>1, <1>2, <1>3, <1>4, <1>5, <1>6, <1>7, NeatPlaced

\* A new group is a new leaf.
LEMMA GroupAddedTree ==
    ASSUME NEW c, Tree(c), Nil \notin DOMAIN c.groups, NEW d, NEW x, NEW p, x # Nil, GroupAdded(c, d, x, p)
    PROVE  Tree(d)
<1>0. x # RootGroup /\ \A g \in DOMAIN c.groups : c.groups[g].parent # x BY TreeNeat DEF GroupAdded
<1>1. Placed(d) BY GroupAddedPlaced DEF Tree
<1>2. Up(d)
  <2> SUFFICES ASSUME NEW S \in SUBSET (DOMAIN d.groups), S # {}, RootGroup \notin S
               PROVE  \E y \in S : d.groups[y].parent \notin S
    BY DEF Up
  <2>1. CASE S \subseteq {x}
    <3>1. x \in S /\ p # x BY <2>1 DEF GroupAdded
    <3> QED BY <2>1, <3>1 DEF GroupAdded
  <2>2. CASE ~(S \subseteq {x})
    <3>1. S \ {x} \in SUBSET (DOMAIN c.groups) /\ S \ {x} # {} /\ Up(c) BY <2>2, TreeNeat DEF GroupAdded
    <3>2. PICK y \in S \ {x} : c.groups[y].parent \notin S \ {x} BY <3>1 DEF Up
    <3>3. c.groups[y].parent # x /\ d.groups[y].parent = c.groups[y].parent BY <3>1, <1>0 DEF GroupAdded
    <3> QED BY <3>2, <3>3
  <2> QED BY <2>1, <2>2
<1> QED BY <1>1, <1>2 DEF Tree

\* A new entry is in one place.
LEMMA EntryAddedPlaced ==
    ASSUME NEW c, Placed(c), NEW d, NEW x, NEW p, EntryAdded(c, d, x, p)
    PROVE  Placed(d)
<1>0. \A h \in DOMAIN c.groups : x \notin Ents(c, h) BY PlacedNeat DEF EntryAdded
<1>1. \A h \in DOMAIN d.groups : Neat(d, h) BY PlacedNeat, <1>0 DEF EntryAdded
<1>2. ASSUME NEW h \in DOMAIN d.groups
      PROVE  Subs(d, h) = {g \in DOMAIN d.groups : d.groups[g].parent = h}
  <2>1. Subs(c, h) = {g \in DOMAIN c.groups : c.groups[g].parent = h} BY PlacedNeat DEF EntryAdded
  <2> QED BY <2>1 DEF EntryAdded
<1>3. ASSUME NEW h \in DOMAIN d.groups
      PROVE  Ents(d, h) = {e \in DOMAIN d.entries : d.entries[e].parent = h}
  <2>1. h \in DOMAIN c.groups /\ Ents(c, h) = {e \in DOMAIN c.entries : c.entries[e].parent = h}
    BY PlacedNeat DEF EntryAdded
  <2>2. CASE h = p BY <2>1, <2>2 DEF EntryAdded
  <2>3. CASE h # p BY <2>1, <2>3 DEF EntryAdded
  <2> QED BY <2>2, <2>3
<1>4. \A g \in DOMAIN d.groups \ {RootGroup} : d.groups[g].parent \in DOMAIN d.groups BY PlacedNeat DEF EntryAdded
<1>5. \A e \in DOMAIN d.entries : d.entries[e].parent \in DOMAIN d.groups BY PlacedNeat DEF EntryAdded
<1>6. RootGroup \in DOMAIN d.groups /\ d.groups[RootGroup].parent = Nil BY PlacedNeat DEF EntryAdded
<1>7. DOMAIN d.groups \cap DOMAIN d.entries = {} BY PlacedNeat DEF EntryAdded
<1> QED BY <1>1, <1>2, <1>3, <1>4, <1>5, <1>6, <1>7, NeatPlaced

\* A new entry.
LEMMA EntryAddedTree ==
    ASSUME NEW c, Tree(c), NEW d, NEW x, NEW p, EntryAdded(c, d, x, p)
    PROVE  Tree(d)
<1>1. Placed(d) BY EntryAddedPlaced DEF Tree
<1>2. Up(d)
  <2> SUFFICES ASSUME NEW S \in SUBSET (DOMAIN d.groups), S # {}, RootGroup \notin S
               PROVE  \E y \in S : d.groups[y].parent \notin S
    BY DEF Up
  <2>1. S \in SUBSET (DOMAIN c.groups) /\ Up(c) BY TreeNeat DEF EntryAdded
  <2>2. PICK y \in S : c.groups[y].parent \notin S BY <2>1 DEF Up
  <2> QED BY <2>1, <2>2 DEF EntryAdded
<1> QED BY <1>1, <1>2 DEF Tree

\* A group that moves is in its new place only.
LEMMA GroupMovedPlaced ==
    ASSUME NEW c, Placed(c), NEW d, NEW x, NEW p, GroupMoved(c, d, x, p)
    PROVE  Placed(d)
<1>0. p # c.groups[x].parent /\ x \notin Subs(c, p) BY PlacedNeat DEF GroupMoved
<1>1. \A h \in DOMAIN d.groups : Neat(d, h) BY PlacedNeat, <1>0 DEF GroupMoved
<1>2. ASSUME NEW h \in DOMAIN d.groups
      PROVE  Subs(d, h) = {g \in DOMAIN d.groups : d.groups[g].parent = h}
  <2>1. h \in DOMAIN c.groups /\ Subs(c, h) = {g \in DOMAIN c.groups : c.groups[g].parent = h}
    BY PlacedNeat DEF GroupMoved
  <2>2. CASE h = p
    <3>1. Subs(d, h) = Subs(c, h) \cup {x} BY <2>1, <2>2 DEF GroupMoved
    <3> QED BY <2>1, <2>2, <3>1 DEF GroupMoved
  <2>3. CASE h # p /\ h = c.groups[x].parent
    <3>1. Subs(d, h) = Subs(c, h) \ {x} BY <2>1, <2>3 DEF GroupMoved
    <3> QED BY <2>1, <2>3, <3>1 DEF GroupMoved
  <2>4. CASE h # p /\ h # c.groups[x].parent
    <3>1. Subs(d, h) = Subs(c, h) BY <2>1, <2>4 DEF GroupMoved
    <3> QED BY <2>1, <2>4, <3>1 DEF GroupMoved
  <2> QED BY <2>2, <2>3, <2>4
<1>3. ASSUME NEW h \in DOMAIN d.groups
      PROVE  Ents(d, h) = {e \in DOMAIN d.entries : d.entries[e].parent = h}
  <2>1. h \in DOMAIN c.groups /\ Ents(c, h) = {e \in DOMAIN c.entries : c.entries[e].parent = h}
    BY PlacedNeat DEF GroupMoved
  <2> QED BY <2>1 DEF GroupMoved
<1>4. \A g \in DOMAIN d.groups \ {RootGroup} : d.groups[g].parent \in DOMAIN d.groups BY PlacedNeat DEF GroupMoved
<1>5. \A e \in DOMAIN d.entries : d.entries[e].parent \in DOMAIN d.groups BY PlacedNeat DEF GroupMoved
<1>6. RootGroup \in DOMAIN d.groups /\ d.groups[RootGroup].parent = Nil BY PlacedNeat DEF GroupMoved
<1>7. DOMAIN d.groups \cap DOMAIN d.entries = {} BY PlacedNeat DEF GroupMoved
<1> QED BY <1>1, <1>2, <1>3, <1>4, <1>5, <1>6, <1>7, NeatPlaced

\* A group that moves takes all below it along: the way up from there still
\* ends, because the new parent is not among it.
LEMMA GroupMovedTree ==
    ASSUME NEW I \in SUBSET Uuid, NEW c \in Content(I), Tree(c), NEW d, NEW x, NEW p, p \notin Entered(c, x),
           GroupMoved(c, d, x, p)
    PROVE  Tree(d)
<1>1. Placed(d) BY GroupMovedPlaced DEF Tree
<1>2. Up(d)
  <2> SUFFICES ASSUME NEW S \in SUBSET (DOMAIN d.groups), S # {}, RootGroup \notin S
               PROVE  \E y \in S : d.groups[y].parent \notin S
    BY DEF Up
  <2>0. S \in SUBSET (DOMAIN c.groups) /\ Up(c) BY TreeNeat DEF GroupMoved
  <2>1. CASE x \notin S
    <3>1. PICK y \in S : c.groups[y].parent \notin S BY <2>0 DEF Up
    <3> QED BY <2>0, <2>1, <3>1 DEF GroupMoved
  <2>2. CASE x \in S
    <3>1. x \in DOMAIN c.groups BY DEF GroupMoved
    <3>2. /\ x \in Entered(c, x)
          /\ \A y \in DOMAIN c.groups : c.groups[y].parent \in Entered(c, x) => y \in Entered(c, x) \ {x}
      BY <3>1, TreeBelow
    <3>3. CASE S \subseteq Entered(c, x) BY <2>2, <3>3 DEF GroupMoved
    <3>4. CASE ~(S \subseteq Entered(c, x))
      <4> DEFINE T == S \ Entered(c, x)
      <4>1. T \in SUBSET (DOMAIN c.groups) /\ T # {} /\ RootGroup \notin T BY <2>0, <3>4
      <4>2. PICK y \in T : c.groups[y].parent \notin T BY <2>0, <4>1 DEF Up
      <4>3. y # x /\ c.groups[y].parent \notin S BY <2>0, <3>2, <4>2
      <4> QED BY <2>0, <4>2, <4>3 DEF GroupMoved
    <3> QED BY <3>3, <3>4
  <2> QED BY <2>1, <2>2
<1> QED BY <1>1, <1>2 DEF Tree

\* An entry that moves is in its new place only.
LEMMA EntryMovedPlaced ==
    ASSUME NEW c, Placed(c), NEW d, NEW x, NEW p, EntryMoved(c, d, x, p)
    PROVE  Placed(d)
<1>0. x \notin Ents(c, p) BY PlacedNeat DEF EntryMoved
<1>1. \A h \in DOMAIN d.groups : Neat(d, h) BY PlacedNeat, <1>0 DEF EntryMoved
<1>2. ASSUME NEW h \in DOMAIN d.groups
      PROVE  Subs(d, h) = {g \in DOMAIN d.groups : d.groups[g].parent = h}
  <2>1. Subs(c, h) = {g \in DOMAIN c.groups : c.groups[g].parent = h} BY PlacedNeat DEF EntryMoved
  <2> QED BY <2>1 DEF EntryMoved
<1>3. ASSUME NEW h \in DOMAIN d.groups
      PROVE  Ents(d, h) = {e \in DOMAIN d.entries : d.entries[e].parent = h}
  <2>1. h \in DOMAIN c.groups /\ Ents(c, h) = {e \in DOMAIN c.entries : c.entries[e].parent = h}
    BY PlacedNeat DEF EntryMoved
  <2>2. CASE h = p
    <3>1. Ents(d, h) = Ents(c, h) \cup {x} BY <2>1, <2>2 DEF EntryMoved
    <3> QED BY <2>1, <2>2, <3>1 DEF EntryMoved
  <2>3. CASE h # p /\ h = c.entries[x].parent
    <3>1. Ents(d, h) = Ents(c, h) \ {x} BY <2>1, <2>3 DEF EntryMoved
    <3> QED BY <2>1, <2>3, <3>1 DEF EntryMoved
  <2>4. CASE h # p /\ h # c.entries[x].parent
    <3>1. Ents(d, h) = Ents(c, h) BY <2>1, <2>4 DEF EntryMoved
    <3> QED BY <2>1, <2>4, <3>1 DEF EntryMoved
  <2> QED BY <2>2, <2>3, <2>4
<1>4. \A g \in DOMAIN d.groups \ {RootGroup} : d.groups[g].parent \in DOMAIN d.groups BY PlacedNeat DEF EntryMoved
<1>5. \A e \in DOMAIN d.entries : d.entries[e].parent \in DOMAIN d.groups BY PlacedNeat DEF EntryMoved
<1>6. RootGroup \in DOMAIN d.groups /\ d.groups[RootGroup].parent = Nil BY PlacedNeat DEF EntryMoved
<1>7. DOMAIN d.groups \cap DOMAIN d.entries = {} BY PlacedNeat DEF EntryMoved
<1> QED BY <1>1, <1>2, <1>3, <1>4, <1>5, <1>6, <1>7, NeatPlaced

\* An entry that moves.
LEMMA EntryMovedTree ==
    ASSUME NEW c, Tree(c), NEW d, NEW x, NEW p, EntryMoved(c, d, x, p)
    PROVE  Tree(d)
<1>1. Placed(d) BY EntryMovedPlaced DEF Tree
<1>2. Up(d)
  <2> SUFFICES ASSUME NEW S \in SUBSET (DOMAIN d.groups), S # {}, RootGroup \notin S
               PROVE  \E y \in S : d.groups[y].parent \notin S
    BY DEF Up
  <2>1. S \in SUBSET (DOMAIN c.groups) /\ Up(c) BY TreeNeat DEF EntryMoved
  <2>2. PICK y \in S : c.groups[y].parent \notin S BY <2>1 DEF Up
  <2> QED BY <2>1, <2>2 DEF EntryMoved
<1> QED BY <1>1, <1>2 DEF Tree

-----------------------------------------------------------------------------
(* What the operations on one group or entry make of a tree                *)

\* A call that keeps the tree and the recycle bin, and if it fails all entries
\* and deleted objects.
Steady(c, r) ==
    /\ Tree(r.db) /\ BinThere(r.db)
    /\ ~r.ok => r.db.entries = c.entries /\ r.db.deleted = c.deleted

\* The pushes and retains on the lists of a group, by what is listed.
LEMMA GroupLists ==
    ASSUME NEW I \in SUBSET Uuid, NEW c \in Content(I), NEW p \in DOMAIN c.groups, NEW x \in Uuid
    PROVE  LET d == ListGroup(c, p, x) e == UnlistGroup(c, p, x)
           IN  \A h \in DOMAIN c.groups :
                  /\ d.groups[h].parent = c.groups[h].parent /\ e.groups[h].parent = c.groups[h].parent
                  /\ Subs(d, h) = IF h = p THEN Subs(c, h) \cup {x} ELSE Subs(c, h)
                  /\ Subs(e, h) = IF h = p THEN Subs(c, h) \ {x} ELSE Subs(c, h)
                  /\ Ents(d, h) = Ents(c, h) /\ Ents(e, h) = Ents(c, h)
                  /\ Neat(c, h) /\ (h = p => x \notin Subs(c, h)) => Neat(d, h)
                  /\ Neat(c, h) => Neat(e, h)
<1> DEFINE d == ListGroup(c, p, x)
           e == UnlistGroup(c, p, x)
           s == c.groups[p].subs
<1>1. OnlyGroup(c, d, p) /\ d.groups[p] = [c.groups[p] EXCEPT !.subs = Append(s, x)] BY GroupListed
<1>2. OnlyGroup(c, e, p) /\ e.groups[p] = [c.groups[p] EXCEPT !.subs = Retained(s, x)] BY GroupUnlisted
<1>3. c.groups[p] \in Group /\ s \in Seq(Uuid)
  <2>1. c.groups[p] \in Group BY ContentParts
  <2> QED BY <2>1 DEF Group
<1>4. /\ ToSet(Append(s, x)) = ToSet(s) \cup {x} /\ ToSet(Retained(s, x)) = ToSet(s) \ {x}
      /\ IsInjective(s) /\ x \notin ToSet(s) => IsInjective(Append(s, x))
      /\ IsInjective(s) => IsInjective(Retained(s, x))
  BY <1>3, AppendedElements, AppendedInjective, RetainedItems
<1>5. /\ d.groups[p].parent = c.groups[p].parent /\ d.groups[p].subs = Append(s, x)
      /\ d.groups[p].entries = c.groups[p].entries
  BY <1>1, <1>3 DEF Group
<1>6. /\ e.groups[p].parent = c.groups[p].parent /\ e.groups[p].subs = Retained(s, x)
      /\ e.groups[p].entries = c.groups[p].entries
  BY <1>2, <1>3 DEF Group
<1> HIDE DEF d, e
<1>7. ASSUME NEW h \in DOMAIN c.groups
      PROVE  /\ d.groups[h].parent = c.groups[h].parent /\ e.groups[h].parent = c.groups[h].parent
             /\ Subs(d, h) = IF h = p THEN Subs(c, h) \cup {x} ELSE Subs(c, h)
             /\ Subs(e, h) = IF h = p THEN Subs(c, h) \ {x} ELSE Subs(c, h)
             /\ Ents(d, h) = Ents(c, h) /\ Ents(e, h) = Ents(c, h)
             /\ Neat(c, h) /\ (h = p => x \notin Subs(c, h)) => Neat(d, h)
             /\ Neat(c, h) => Neat(e, h)
  <2>1. CASE h = p BY <1>4, <1>5, <1>6, <2>1 DEF Subs, Ents, Neat
  <2>2. CASE h # p BY <1>1, <1>2, <2>2 DEF OnlyGroup, Subs, Ents, Neat
  <2> QED BY <2>1, <2>2
<1> QED BY <1>7 DEF d, e

\* The same for the entries of a group.
LEMMA EntryLists ==
    ASSUME NEW I \in SUBSET Uuid, NEW c \in Content(I), NEW p \in DOMAIN c.groups, NEW x \in Uuid
    PROVE  LET d == ListEntry(c, p, x) e == UnlistEntry(c, p, x)
           IN  \A h \in DOMAIN c.groups :
                  /\ d.groups[h].parent = c.groups[h].parent /\ e.groups[h].parent = c.groups[h].parent
                  /\ Ents(d, h) = IF h = p THEN Ents(c, h) \cup {x} ELSE Ents(c, h)
                  /\ Ents(e, h) = IF h = p THEN Ents(c, h) \ {x} ELSE Ents(c, h)
                  /\ Subs(d, h) = Subs(c, h) /\ Subs(e, h) = Subs(c, h)
                  /\ Neat(c, h) /\ (h = p => x \notin Ents(c, h)) => Neat(d, h)
                  /\ Neat(c, h) => Neat(e, h)
<1> DEFINE d == ListEntry(c, p, x)
           e == UnlistEntry(c, p, x)
           s == c.groups[p].entries
<1>1. OnlyGroup(c, d, p) /\ d.groups[p] = [c.groups[p] EXCEPT !.entries = Append(s, x)] BY EntryListed
<1>2. OnlyGroup(c, e, p) /\ e.groups[p] = [c.groups[p] EXCEPT !.entries = Retained(s, x)] BY EntryUnlisted
<1>3. c.groups[p] \in Group /\ s \in Seq(Uuid)
  <2>1. c.groups[p] \in Group BY ContentParts
  <2> QED BY <2>1 DEF Group
<1>4. /\ ToSet(Append(s, x)) = ToSet(s) \cup {x} /\ ToSet(Retained(s, x)) = ToSet(s) \ {x}
      /\ IsInjective(s) /\ x \notin ToSet(s) => IsInjective(Append(s, x))
      /\ IsInjective(s) => IsInjective(Retained(s, x))
  BY <1>3, AppendedElements, AppendedInjective, RetainedItems
<1>5. /\ d.groups[p].parent = c.groups[p].parent /\ d.groups[p].entries = Append(s, x)
      /\ d.groups[p].subs = c.groups[p].subs
  BY <1>1, <1>3 DEF Group
<1>6. /\ e.groups[p].parent = c.groups[p].parent /\ e.groups[p].entries = Retained(s, x)
      /\ e.groups[p].subs = c.groups[p].subs
  BY <1>2, <1>3 DEF Group
<1> HIDE DEF d, e
<1>7. ASSUME NEW h \in DOMAIN c.groups
      PROVE  /\ d.groups[h].parent = c.groups[h].parent /\ e.groups[h].parent = c.groups[h].parent
             /\ Ents(d, h) = IF h = p THEN Ents(c, h) \cup {x} ELSE Ents(c, h)
             /\ Ents(e, h) = IF h = p THEN Ents(c, h) \ {x} ELSE Ents(c, h)
             /\ Subs(d, h) = Subs(c, h) /\ Subs(e, h) = Subs(c, h)
             /\ Neat(c, h) /\ (h = p => x \notin Ents(c, h)) => Neat(d, h)
             /\ Neat(c, h) => Neat(e, h)
  <2>1. CASE h = p BY <1>4, <1>5, <1>6, <2>1 DEF Subs, Ents, Neat
  <2>2. CASE h # p BY <1>1, <1>2, <2>2 DEF OnlyGroup, Subs, Ents, Neat
  <2> QED BY <2>1, <2>2
<1> QED BY <1>7 DEF d, e

\* What is in no list and no map is not known; the uuids of a tree are of I.
LEMMA TreeUuids ==
    ASSUME NEW I \in SUBSET Uuid, NEW c \in Content(I)
    PROVE  DOMAIN c.groups \subseteq I /\ DOMAIN c.entries \subseteq I /\ Nil \notin DOMAIN c.groups
BY ContentParts, UuidsThere

\* A call that fails and changes nothing.
LEMMA RefusedSteady ==
    ASSUME NEW c, Tree(c), BinThere(c), NEW r, r.db = c
    PROVE  Steady(c, r)
BY DEF Steady

\* What keeps all places is a cut of nothing.
LEMMA NothingGone ==
    ASSUME NEW c, Placed(c), NEW d, SamePlaces(c, d)
    PROVE  Gone(c, d, {}, {})
BY PlacedNeat DEF SamePlaces, Gone, Subs, Ents, Neat

\* A change of no place: update_group, update_entry and the deletion of versions.
LEMMA SamePlacesSteady ==
    ASSUME NEW c, Tree(c), BinThere(c), NEW r, SamePlaces(c, r.db), r.ok = TRUE
    PROVE  Steady(c, r)
<1>1. Gone(c, r.db, {}, {}) BY NothingGone DEF Tree
<1>2. Tree(r.db) BY <1>1, GoneTree
<1>3. BinThere(r.db) BY DEF BinThere, SamePlaces
<1> QED BY <1>2, <1>3 DEF Steady

\* insert_group, of a group with a new uuid
LEMMA InsertGroupAdds ==
    ASSUME NEW I \in SUBSET Uuid, NEW c \in Content(I),
           NEW g \in I, g \notin DOMAIN c.groups \cup DOMAIN c.entries,
           NEW group \in Group, group.parent \in DOMAIN c.groups, group.subs = <<>>, group.entries = <<>>
    PROVE  LET r == InsertGroup(c, g, group)
           IN  r.ok = TRUE /\ GroupAdded(c, r.db, g, group.parent)
<1> DEFINE p == group.parent
           listed == ListGroup(c, p, g)
           put == PutGroup(listed, g, group)
           r == InsertGroup(c, g, group)
<1>0. p # Nil /\ g # Nil /\ g \in Uuid /\ Nil \notin DOMAIN c.groups BY TreeUuids, UuidsThere
<1>1. r = Ok(put) BY <1>0 DEF InsertGroup, HasGroup
<1>2. listed \in Content(I) /\ OnlyGroup(c, listed, p) BY <1>0, GroupListed
<1>a. p \in DOMAIN c.groups OBVIOUS
<1> HIDE DEF p
<1>3. \A h \in DOMAIN c.groups :
          /\ listed.groups[h].parent = c.groups[h].parent
          /\ Subs(listed, h) = IF h = p THEN Subs(c, h) \cup {g} ELSE Subs(c, h)
          /\ Ents(listed, h) = Ents(c, h)
          /\ Neat(c, h) /\ (h = p => g \notin Subs(c, h)) => Neat(listed, h)
  BY <1>0, <1>a, GroupLists
<1> HIDE DEF listed
<1>4. /\ put \in Content(I)
      /\ DOMAIN put.groups = DOMAIN listed.groups \cup {g} /\ put.groups[g] = group
      /\ (\A y \in DOMAIN listed.groups : y # g => put.groups[y] = listed.groups[y])
      /\ put.entries = listed.entries
  BY <1>2, GroupPut
<1> HIDE DEF put
<1>5. Subs(put, g) = {} /\ Ents(put, g) = {} /\ Neat(put, g)
  BY <1>4, EmptyList DEF Subs, Ents, Neat
<1>6. \A h \in DOMAIN c.groups : /\ h # g /\ put.groups[h] = listed.groups[h]
                                 /\ Subs(put, h) = Subs(listed, h) /\ Ents(put, h) = Ents(listed, h)
                                 /\ (Neat(put, h) <=> Neat(listed, h))
  BY <1>2, <1>4 DEF OnlyGroup, Subs, Ents, Neat
<1>7. GroupAdded(c, put, g, p) BY <1>2, <1>3, <1>4, <1>5, <1>6 DEF OnlyGroup, GroupAdded, p
<1>8. r.ok = TRUE /\ r.db = put BY <1>1, <1>4, Results
<1> HIDE DEF r
<1> QED BY <1>7, <1>8 DEF r, p

LEMMA InsertGroupSteady ==
    ASSUME NEW I \in SUBSET Uuid, NEW c \in Content(I), Tree(c),
           NEW g \in I, g \notin DOMAIN c.groups \cup DOMAIN c.entries,
           NEW group \in Group, group.parent \in DOMAIN c.groups, group.subs = <<>>, group.entries = <<>>
    PROVE  LET r == InsertGroup(c, g, group)
           IN  r.ok = TRUE /\ GroupAdded(c, r.db, g, group.parent) /\ Tree(r.db)
<1> DEFINE r == InsertGroup(c, g, group)
<1>1. r.ok = TRUE /\ GroupAdded(c, r.db, g, group.parent) BY InsertGroupAdds
<1>2. g # Nil /\ Nil \notin DOMAIN c.groups BY TreeUuids, UuidsThere
<1> HIDE DEF r
<1>3. Tree(r.db) BY <1>1, <1>2, GroupAddedTree
<1> QED BY <1>1, <1>3 DEF r

\* insert_entry, of an entry with a new uuid, and clone_entry
LEMMA EntryPutAdds ==
    ASSUME NEW I \in SUBSET Uuid, NEW c \in Content(I),
           NEW e \in I, e \notin DOMAIN c.groups \cup DOMAIN c.entries,
           NEW entry \in Entry, entry.parent \in DOMAIN c.groups
    PROVE  LET d == PutEntry(ListEntry(c, entry.parent, e), e, entry)
           IN  /\ d \in Content(I) /\ EntryAdded(c, d, e, entry.parent) /\ d.bin = c.bin
               /\ d.entries[e] = entry /\ \A y \in DOMAIN c.entries : d.entries[y] = c.entries[y]
<1> DEFINE p == entry.parent
           listed == ListEntry(c, p, e)
           put == PutEntry(listed, e, entry)
<1>0. e \in Uuid OBVIOUS
<1>2. listed \in Content(I) /\ OnlyGroup(c, listed, p) BY <1>0, EntryListed
<1>a. p \in DOMAIN c.groups OBVIOUS
<1> HIDE DEF p
<1>3. \A h \in DOMAIN c.groups :
          /\ listed.groups[h].parent = c.groups[h].parent
          /\ Subs(listed, h) = Subs(c, h)
          /\ Ents(listed, h) = IF h = p THEN Ents(c, h) \cup {e} ELSE Ents(c, h)
          /\ Neat(c, h) /\ (h = p => e \notin Ents(c, h)) => Neat(listed, h)
  BY <1>0, <1>a, EntryLists
<1> HIDE DEF listed
<1>4. /\ put \in Content(I)
      /\ DOMAIN put.entries = DOMAIN listed.entries \cup {e} /\ put.entries[e] = entry
      /\ (\A y \in DOMAIN listed.entries : y # e => put.entries[y] = listed.entries[y])
      /\ put.groups = listed.groups /\ put.bin = listed.bin
  BY <1>2, EntryPut
<1> HIDE DEF put
<1>5. \A h \in DOMAIN c.groups : /\ put.groups[h] = listed.groups[h]
                                 /\ Subs(put, h) = Subs(listed, h) /\ Ents(put, h) = Ents(listed, h)
                                 /\ (Neat(put, h) <=> Neat(listed, h))
  BY <1>2, <1>4 DEF OnlyGroup, Subs, Ents, Neat
<1>6. EntryAdded(c, put, e, p) BY <1>2, <1>3, <1>4, <1>5 DEF OnlyGroup, EntryAdded, p
<1>7. put.bin = c.bin /\ \A y \in DOMAIN c.entries : put.entries[y] = c.entries[y]
  BY <1>2, <1>4 DEF OnlyGroup
<1> QED BY <1>4, <1>6, <1>7 DEF put, listed, p

LEMMA EntryPutTree ==
    ASSUME NEW I \in SUBSET Uuid, NEW c \in Content(I), Tree(c),
           NEW e \in I, e \notin DOMAIN c.groups \cup DOMAIN c.entries,
           NEW entry \in Entry, entry.parent \in DOMAIN c.groups
    PROVE  LET d == PutEntry(ListEntry(c, entry.parent, e), e, entry)
           IN  d \in Content(I) /\ EntryAdded(c, d, e, entry.parent) /\ Tree(d) /\ d.bin = c.bin
<1> DEFINE d == PutEntry(ListEntry(c, entry.parent, e), e, entry)
<1>1. d \in Content(I) /\ EntryAdded(c, d, e, entry.parent) /\ d.bin = c.bin BY EntryPutAdds
<1> HIDE DEF d
<1>2. Tree(d) BY <1>1, EntryAddedTree
<1> QED BY <1>1, <1>2 DEF d

\* insert_entry
LEMMA InsertEntrySteady ==
    ASSUME NEW I \in SUBSET Uuid, NEW c \in Content(I), Tree(c), BinThere(c),
           NEW e \in I, e \notin DOMAIN c.groups \cup DOMAIN c.entries,
           NEW entry \in Entry, entry.parent \in DOMAIN c.groups
    PROVE  Steady(c, InsertEntry(c, e, entry))
<1> DEFINE d == PutEntry(ListEntry(c, entry.parent, e), e, entry)
<1>1. d \in Content(I) /\ EntryAdded(c, d, e, entry.parent) /\ Tree(d) /\ d.bin = c.bin BY EntryPutTree
<1>2. InsertEntry(c, e, entry) = Ok(d) BY DEF InsertEntry, HasGroup, HasEntry
<1> HIDE DEF d
<1>3. Ok(d).ok = TRUE /\ Ok(d).db = d BY <1>1, Results
<1>4. BinThere(d) BY <1>1 DEF BinThere, EntryAdded
<1> QED BY <1>1, <1>2, <1>3, <1>4 DEF Steady

\* clone_entry
LEMMA CloneEntrySteady ==
    ASSUME NEW I \in SUBSET Uuid, NEW c \in Content(I), Tree(c), BinThere(c), NEW e \in DOMAIN c.entries,
           NEW p \in DOMAIN c.groups, NEW fresh \in I, fresh \notin DOMAIN c.groups \cup DOMAIN c.entries,
           NEW keep \in BOOLEAN, NEW now \in Time, NEW by \in Devices
    PROVE  Steady(c, CloneEntry(c, e, p, fresh, keep, now, by))
<1> DEFINE past == IF keep THEN c.entries[e].history ELSE <<>>
           v == [c.entries[e] EXCEPT !.parent = p, !.mod = now, !.by = by, !.history = past]
           d == PutEntry(ListEntry(c, p, fresh), fresh, v)
<1>1. CloneEntry(c, e, p, fresh, keep, now, by) = Ok(d) BY DEF CloneEntry, HasGroup, HasEntry
<1>2. c.entries[e] \in Entry /\ p \in Uuid BY ContentParts
<1>3. past \in Seq(Version) BY <1>2 DEF Entry
<1> HIDE DEF past
<1>4. v \in Entry /\ v.parent = p BY <1>2, <1>3 DEF Entry
<1> HIDE DEF v
<1>5. d \in Content(I) /\ EntryAdded(c, d, fresh, p) /\ Tree(d) /\ d.bin = c.bin BY <1>4, EntryPutTree
<1> HIDE DEF d
<1>6. Ok(d).ok = TRUE /\ Ok(d).db = d BY <1>5, Results
<1>7. BinThere(d) BY <1>5 DEF BinThere, EntryAdded
<1> QED BY <1>1, <1>5, <1>6, <1>7 DEF Steady

\* move_group
LEMMA MoveGroupMoves ==
    ASSUME NEW I \in SUBSET Uuid, NEW c \in Content(I), NEW g \in Uuid, NEW p \in Uuid,
           g \in DOMAIN c.groups => g # RootGroup /\ c.groups[g].parent \in DOMAIN c.groups, NEW now \in Time
    PROVE  LET r == MoveGroup(c, g, p, now)
           IN  r = Err(c) \/ (r.ok /\ GroupMoved(c, r.db, g, p) /\ r.db.bin = c.bin)
<1> DEFINE v == [c.groups[g] EXCEPT !.parent = p, !.moved = now]
           moved == [c EXCEPT !.groups[g] = v]
           listed == ListGroup(moved, p, g)
           q == c.groups[g].parent
           d == UnlistGroup(listed, q, g)
           r == MoveGroup(c, g, p, now)
<1>1. CASE r = Err(c) BY <1>1
<1>2. CASE r # Err(c)
  <2>1. g \in DOMAIN c.groups /\ p \in DOMAIN c.groups /\ g # p /\ q # p /\ r = Ok(d)
    BY <1>2 DEF MoveGroup, HasGroup
  <2>2. c.groups[g] \in Group /\ g # RootGroup BY <2>1, ContentParts
  <2>3. q \in DOMAIN c.groups BY <2>1
  <2>4. v \in Group /\ v.parent = p /\ v.subs = c.groups[g].subs /\ v.entries = c.groups[g].entries
    BY <2>2 DEF Group
  <2> HIDE DEF v, q
  <2>5. /\ moved \in Content(I) /\ DOMAIN moved.groups = DOMAIN c.groups /\ moved.groups[g] = v
        /\ \A h \in DOMAIN c.groups : h # g => moved.groups[h] = c.groups[h]
        /\ moved.entries = c.entries /\ moved.bin = c.bin
    BY <2>1, <2>4, ChangedGroup
  <2> HIDE DEF moved
  <2>6. \A h \in DOMAIN c.groups : /\ Subs(moved, h) = Subs(c, h) /\ Ents(moved, h) = Ents(c, h)
                                   /\ (Neat(moved, h) <=> Neat(c, h))
    BY <2>4, <2>5 DEF Subs, Ents, Neat
  <2>7. listed \in Content(I) /\ OnlyGroup(moved, listed, p) BY <2>5, GroupListed
  <2>8. \A h \in DOMAIN c.groups :
            /\ listed.groups[h].parent = moved.groups[h].parent
            /\ Subs(listed, h) = IF h = p THEN Subs(moved, h) \cup {g} ELSE Subs(moved, h)
            /\ Ents(listed, h) = Ents(moved, h)
            /\ Neat(moved, h) /\ (h = p => g \notin Subs(moved, h)) => Neat(listed, h)
    BY <2>1, <2>5, GroupLists
  <2> HIDE DEF listed
  <2>9. d \in Content(I) /\ OnlyGroup(listed, d, q) BY <2>7, GroupUnlisted
  <2>10. DOMAIN listed.groups = DOMAIN c.groups BY <2>5, <2>7 DEF OnlyGroup
  <2>11. \A h \in DOMAIN c.groups :
            /\ d.groups[h].parent = listed.groups[h].parent
            /\ Subs(d, h) = IF h = q THEN Subs(listed, h) \ {g} ELSE Subs(listed, h)
            /\ Ents(d, h) = Ents(listed, h)
            /\ Neat(listed, h) => Neat(d, h)
    BY <2>3, <2>7, <2>10, GroupLists
  <2> HIDE DEF d
  <2>12. /\ DOMAIN d.groups = DOMAIN c.groups /\ d.entries = c.entries /\ d.bin = c.bin
    BY <2>5, <2>7, <2>9 DEF OnlyGroup
  <2>13. \A h \in DOMAIN c.groups :
            /\ h # g => d.groups[h].parent = c.groups[h].parent
            /\ Subs(d, h) = IF h = p THEN Subs(c, h) \cup {g} ELSE IF h = q THEN Subs(c, h) \ {g} ELSE Subs(c, h)
            /\ Ents(d, h) = Ents(c, h)
            /\ Neat(c, h) /\ (h = p => g \notin Subs(c, h)) => Neat(d, h)
    BY <2>1, <2>5, <2>6, <2>8, <2>11
  <2>14. d.groups[g].parent = p BY <2>1, <2>4, <2>5, <2>8, <2>11
  <2>15. GroupMoved(c, d, g, p) BY <2>1, <2>2, <2>12, <2>13, <2>14 DEF GroupMoved, q
  <2>16. r.ok = TRUE /\ r.db = d BY <2>1, <2>9, Results
  <2> HIDE DEF r
  <2>17. r.ok /\ GroupMoved(c, r.db, g, p) /\ r.db.bin = c.bin BY <2>12, <2>15, <2>16
  <2> QED BY <2>17 DEF r
<1> QED BY <1>1, <1>2

\* To a place that is not below the group it keeps the tree.
LEMMA MoveGroupSteady ==
    ASSUME NEW I \in SUBSET Uuid, NEW c \in Content(I), Tree(c), BinThere(c), NEW g \in Uuid, NEW p \in Uuid,
           g \in DOMAIN c.groups => g # RootGroup /\ p \notin Entered(c, g), NEW now \in Time
    PROVE  Steady(c, MoveGroup(c, g, p, now))
<1> DEFINE r == MoveGroup(c, g, p, now)
<1>1. g \in DOMAIN c.groups => g # RootGroup /\ c.groups[g].parent \in DOMAIN c.groups BY TreeNeat
<1>2. r = Err(c) \/ (r.ok /\ GroupMoved(c, r.db, g, p) /\ r.db.bin = c.bin) BY <1>1, MoveGroupMoves
<1> HIDE DEF r
<1>3. CASE r = Err(c)
  <2>1. r.db = c BY <1>3, Results
  <2>2. Steady(c, r) BY <2>1, RefusedSteady
  <2> QED BY <2>2 DEF r
<1>4. CASE r.ok /\ GroupMoved(c, r.db, g, p) /\ r.db.bin = c.bin
  <2>1. p \notin Entered(c, g) BY <1>4 DEF GroupMoved
  <2>2. Tree(r.db) BY <1>4, <2>1, GroupMovedTree
  <2>3. BinThere(r.db) BY <1>4 DEF BinThere, GroupMoved
  <2>4. Steady(c, r) BY <1>4, <2>2, <2>3 DEF Steady
  <2> QED BY <2>4 DEF r
<1> QED BY <1>2, <1>3, <1>4

\* move_entry
LEMMA MoveEntryMoves ==
    ASSUME NEW I \in SUBSET Uuid, NEW c \in Content(I), NEW e \in Uuid, NEW p \in Uuid, NEW now \in Time
    PROVE  LET r == MoveEntry(c, e, p, now)
           IN  r = Err(c) \/ (r.ok /\ EntryMoved(c, r.db, e, p) /\ r.db.bin = c.bin)
<1> DEFINE v == [c.entries[e] EXCEPT !.parent = p, !.moved = now]
           moved == [c EXCEPT !.entries[e] = v]
           listed == ListEntry(moved, p, e)
           q == c.entries[e].parent
           d == UnlistEntry(listed, q, e)
           r == MoveEntry(c, e, p, now)
<1>1. CASE r = Err(c) BY <1>1
<1>2. CASE r # Err(c)
  <2>1. e \in DOMAIN c.entries /\ p \in DOMAIN c.groups /\ q \in DOMAIN c.groups /\ q # p /\ r = Ok(d)
    BY <1>2 DEF MoveEntry, HasGroup, HasEntry
  <2>2. c.entries[e] \in Entry BY <2>1, ContentParts
  <2>4. v \in Entry /\ v.parent = p BY <2>2 DEF Entry
  <2> HIDE DEF v, q
  <2>5. /\ moved \in Content(I) /\ DOMAIN moved.entries = DOMAIN c.entries /\ moved.entries[e] = v
        /\ \A h \in DOMAIN c.entries : h # e => moved.entries[h] = c.entries[h]
        /\ moved.groups = c.groups /\ moved.bin = c.bin
    BY <2>1, <2>4, ChangedEntry
  <2> HIDE DEF moved
  <2>6. \A h \in DOMAIN c.groups : /\ Subs(moved, h) = Subs(c, h) /\ Ents(moved, h) = Ents(c, h)
                                   /\ (Neat(moved, h) <=> Neat(c, h))
    BY <2>5 DEF Subs, Ents, Neat
  <2>7. listed \in Content(I) /\ OnlyGroup(moved, listed, p) BY <2>5, EntryListed
  <2>8. \A h \in DOMAIN c.groups :
            /\ listed.groups[h].parent = moved.groups[h].parent
            /\ Ents(listed, h) = IF h = p THEN Ents(moved, h) \cup {e} ELSE Ents(moved, h)
            /\ Subs(listed, h) = Subs(moved, h)
            /\ Neat(moved, h) /\ (h = p => e \notin Ents(moved, h)) => Neat(listed, h)
    BY <2>1, <2>5, EntryLists
  <2> HIDE DEF listed
  <2>9. d \in Content(I) /\ OnlyGroup(listed, d, q) BY <2>7, EntryUnlisted
  <2>10. DOMAIN listed.groups = DOMAIN c.groups BY <2>5, <2>7 DEF OnlyGroup
  <2>11. \A h \in DOMAIN c.groups :
            /\ d.groups[h].parent = listed.groups[h].parent
            /\ Ents(d, h) = IF h = q THEN Ents(listed, h) \ {e} ELSE Ents(listed, h)
            /\ Subs(d, h) = Subs(listed, h)
            /\ Neat(listed, h) => Neat(d, h)
    BY <2>1, <2>7, <2>10, EntryLists
  <2> HIDE DEF d
  <2>12. /\ DOMAIN d.groups = DOMAIN c.groups /\ d.entries = moved.entries /\ d.bin = c.bin
    BY <2>5, <2>7, <2>9 DEF OnlyGroup
  <2>13. \A h \in DOMAIN c.groups :
            /\ d.groups[h].parent = c.groups[h].parent
            /\ Ents(d, h) = IF h = p THEN Ents(c, h) \cup {e} ELSE IF h = q THEN Ents(c, h) \ {e} ELSE Ents(c, h)
            /\ Subs(d, h) = Subs(c, h)
            /\ Neat(c, h) /\ (h = p => e \notin Ents(c, h)) => Neat(d, h)
    BY <2>1, <2>5, <2>6, <2>8, <2>11
  <2>15. EntryMoved(c, d, e, p) BY <2>1, <2>4, <2>5, <2>12, <2>13 DEF EntryMoved, q
  <2>16. r.ok = TRUE /\ r.db = d BY <2>1, <2>9, Results
  <2> HIDE DEF r
  <2>17. r.ok /\ EntryMoved(c, r.db, e, p) /\ r.db.bin = c.bin BY <2>12, <2>15, <2>16
  <2> QED BY <2>17 DEF r
<1> QED BY <1>1, <1>2

LEMMA MoveEntrySteady ==
    ASSUME NEW I \in SUBSET Uuid, NEW c \in Content(I), Tree(c), BinThere(c), NEW e \in Uuid, NEW p \in Uuid,
           NEW now \in Time
    PROVE  Steady(c, MoveEntry(c, e, p, now))
<1> DEFINE r == MoveEntry(c, e, p, now)
<1>1. r = Err(c) \/ (r.ok /\ EntryMoved(c, r.db, e, p) /\ r.db.bin = c.bin) BY MoveEntryMoves
<1> HIDE DEF r
<1>2. CASE r = Err(c)
  <2>1. r.db = c BY <1>2, Results
  <2>2. Steady(c, r) BY <2>1, RefusedSteady
  <2> QED BY <2>2 DEF r
<1>3. CASE r.ok /\ EntryMoved(c, r.db, e, p) /\ r.db.bin = c.bin
  <2>1. Tree(r.db) BY <1>3, EntryMovedTree
  <2>2. BinThere(r.db) BY <1>3 DEF BinThere, EntryMoved
  <2>3. Steady(c, r) BY <1>3, <2>1, <2>2 DEF Steady
  <2> QED BY <2>3 DEF r
<1> QED BY <1>1, <1>2, <1>3

\* recycle_bin_group: the recycle bin is there afterwards, in the root group if
\* it has been made.
LEMMA WithBinTree ==
    ASSUME NEW I \in SUBSET Uuid, NEW c \in Content(I), Tree(c), BinThere(c), NEW fresh,
           c.bin = Nil => fresh \in I /\ fresh \notin DOMAIN c.groups \cup DOMAIN c.entries,
           NEW now \in Time, NEW by \in Devices
    PROVE  LET d == WithBin(c, fresh, now, by)
           IN  /\ Tree(d) /\ d.bin \in DOMAIN d.groups \ {RootGroup} /\ BinThere(d) /\ d.deleted = c.deleted
               /\ DOMAIN c.groups \subseteq DOMAIN d.groups
               /\ c.bin = Nil => d.groups[d.bin].parent = RootGroup /\ d.bin \notin DOMAIN c.groups
<1> DEFINE d == WithBin(c, fresh, now, by)
           named == [c EXCEPT !.bin = fresh]
           group == NewGroup(RootGroup, now, by)
           made == InsertGroup(named, fresh, group).db
<1>1. CASE c.bin # Nil
  <2>1. d = c BY <1>1 DEF WithBin
  <2> HIDE DEF d
  <2>2. c.bin \in DOMAIN c.groups \ {RootGroup} BY <1>1 DEF BinThere
  <2> QED BY <1>1, <2>1, <2>2 DEF d
<1>2. CASE c.bin = Nil
  <2>1. d = made BY <1>2 DEF WithBin
  <2>2. group \in Group /\ group.parent = RootGroup /\ group.subs = <<>> /\ group.entries = <<>>
    BY NewTyped, UuidsThere DEF NewGroup
  <2> HIDE DEF group
  <2>3. named \in Content(I) BY <1>2, OtherParts
  <2>4. named.groups = c.groups /\ named.entries = c.entries /\ named.deleted = c.deleted /\ named.bin = fresh
    BY DEF Content
  <2> HIDE DEF named
  <2>5. Gone(c, named, {}, {}) BY <2>4, TreeNeat DEF Gone, Subs, Ents, Neat
  <2>6. Tree(named) BY <2>5, GoneTree
  <2>7. RootGroup \in DOMAIN named.groups BY <2>6, TreeNeat
  <2>8. GroupAdded(named, made, fresh, RootGroup) /\ Tree(made)
    BY <1>2, <2>2, <2>3, <2>4, <2>6, <2>7, InsertGroupSteady
  <2>b. fresh \in I BY <1>2
  <2>c. group \in Group BY <2>2
  <2>9. /\ InsertGroup(named, fresh, group) \in Result(I)
        /\ Kept(named, InsertGroup(named, fresh, group).db, {fresh})
        /\ InsertGroup(named, fresh, group).db.entries = named.entries
        /\ InsertGroup(named, fresh, group).db.bin = named.bin
    BY <2>b, <2>c, <2>3, InsertGroupTyped
  <2> HIDE DEF made
  <2>10. made.bin = fresh /\ made.deleted = c.deleted /\ DOMAIN c.groups \subseteq DOMAIN made.groups
    BY <2>4, <2>9 DEF Kept, made
  <2>11. fresh \in DOMAIN made.groups /\ fresh \notin DOMAIN c.groups /\ made.groups[fresh].parent = RootGroup
    BY <2>4, <2>8 DEF GroupAdded
  <2>12. fresh # RootGroup BY <2>4, <2>7, <2>11
  <2>13. BinThere(made) BY <2>10, <2>11, <2>12 DEF BinThere
  <2> HIDE DEF d
  <2> QED BY <2>1, <2>8, <2>10, <2>11, <2>12, <2>13 DEF d
<1> QED BY <1>1, <1>2

\* What a call keeps after the recycle bin has been made, it keeps altogether.
LEMMA SteadyAfter ==
    ASSUME NEW c, NEW d, NEW r, Steady(d, r), d.entries = c.entries, d.deleted = c.deleted
    PROVE  Steady(c, r)
BY DEF Steady

\* move_to_recycle_bin! for a group that does not hold the recycle bin
LEMMA DiscardGroupSteady ==
    ASSUME NEW I \in SUBSET Uuid, NEW c \in Content(I), Tree(c), BinThere(c),
           NEW x \in DOMAIN c.groups \ {RootGroup}, c.bin # Nil => c.bin \notin Entered(c, x), NEW fresh,
           c.bin = Nil => fresh \in I /\ fresh \notin DOMAIN c.groups \cup DOMAIN c.entries,
           NEW now \in Time, NEW by \in Devices
    PROVE  Steady(c, MoveGroupToRecycleBin(c, x, fresh, now, by))
<1> DEFINE d == WithBin(c, fresh, now, by)
           r == MoveGroup(d, x, d.bin, now)
<1>0. c.bin = Nil => fresh \in I OBVIOUS
<1>1. /\ d \in Content(I) /\ Kept(c, d, {fresh}) /\ (c.bin # Nil => d = c)
      /\ (c.bin = Nil => d.bin = fresh) /\ d.entries = c.entries
  BY <1>0, WithBinTyped
<1>2. /\ Tree(d) /\ d.bin \in DOMAIN d.groups \ {RootGroup} /\ BinThere(d) /\ d.deleted = c.deleted
      /\ DOMAIN c.groups \subseteq DOMAIN d.groups
      /\ c.bin = Nil => d.groups[d.bin].parent = RootGroup /\ d.bin \notin DOMAIN c.groups
  BY WithBinTree
<1>3. MoveGroupToRecycleBin(c, x, fresh, now, by) = r BY <1>2 DEF MoveGroupToRecycleBin, HasGroup
<1> HIDE DEF d
<1>4. d.bin \notin Entered(d, x)
  <2>1. CASE c.bin # Nil BY <1>1, <2>1
  <2>2. CASE c.bin = Nil
    <3>1. x \in DOMAIN d.groups /\ d.bin # x BY <1>2, <2>2
    <3>2. /\ \A y \in Entered(d, x) \ {x} : d.groups[y].parent \in Entered(d, x)
          /\ RootGroup \notin Entered(d, x)
      BY <1>1, <1>2, <3>1, TreeBelow
    <3> QED BY <1>2, <2>2, <3>1, <3>2
  <2> QED BY <2>1, <2>2
<1>5. x \in Uuid /\ d.bin \in Uuid BY <1>1, <1>2, TreeUuids
<1>6. Steady(d, r) BY <1>1, <1>2, <1>4, <1>5, MoveGroupSteady
<1> QED BY <1>1, <1>2, <1>3, <1>6, SteadyAfter

\* move_to_recycle_bin! for an entry
LEMMA DiscardEntrySteady ==
    ASSUME NEW I \in SUBSET Uuid, NEW c \in Content(I), Tree(c), BinThere(c),
           NEW x \in DOMAIN c.entries, NEW fresh,
           c.bin = Nil => fresh \in I /\ fresh \notin DOMAIN c.groups \cup DOMAIN c.entries,
           NEW now \in Time, NEW by \in Devices
    PROVE  Steady(c, MoveEntryToRecycleBin(c, x, fresh, now, by))
<1> DEFINE d == WithBin(c, fresh, now, by)
           r == MoveEntry(d, x, d.bin, now)
<1>0. c.bin = Nil => fresh \in I OBVIOUS
<1>1. /\ d \in Content(I) /\ Kept(c, d, {fresh}) /\ (c.bin # Nil => d = c)
      /\ (c.bin = Nil => d.bin = fresh) /\ d.entries = c.entries
  BY <1>0, WithBinTyped
<1>2. Tree(d) /\ d.bin \in DOMAIN d.groups /\ BinThere(d) /\ d.deleted = c.deleted BY WithBinTree
<1>3. MoveEntryToRecycleBin(c, x, fresh, now, by) = r BY <1>2 DEF MoveEntryToRecycleBin, HasGroup
<1> HIDE DEF d
<1>5. x \in Uuid /\ d.bin \in Uuid BY <1>1, <1>2, TreeUuids
<1>6. Steady(d, r) BY <1>1, <1>2, <1>5, MoveEntrySteady
<1> QED BY <1>1, <1>2, <1>3, <1>6, SteadyAfter

\* sort_sub_groups
LEMMA SortSteady ==
    ASSUME NEW I \in SUBSET Uuid, NEW c \in Content(I), Tree(c), BinThere(c), NEW g, NEW criteria
    PROVE  Steady(c, SortSubGroups(c, g, criteria))
<1> DEFINE r == SortSubGroups(c, g, criteria)
           d == r.db
<1>1. /\ DOMAIN d.groups = DOMAIN c.groups
      /\ \A h \in DOMAIN c.groups :
            /\ d.groups[h].parent = c.groups[h].parent /\ d.groups[h].entries = c.groups[h].entries
            /\ Subs(d, h) = Subs(c, h)
            /\ IsInjective(c.groups[h].subs) => IsInjective(d.groups[h].subs)
      /\ d.entries = c.entries /\ d.bin = c.bin /\ d.deleted = c.deleted
  BY SortTyped
<1> HIDE DEF r
<1>2. Gone(c, d, {}, {}) BY <1>1, TreeNeat DEF Gone, Ents, Neat
<1>3. Tree(d) BY <1>2, GoneTree
<1>4. BinThere(d) BY <1>1 DEF BinThere
<1> QED BY <1>1, <1>3, <1>4 DEF Steady, r

\* Entries that are removed out of a tree.
LEMMA RemovedGone ==
    ASSUME NEW c, Tree(c), NEW d, NEW E, Removed(c, d, E)
    PROVE  Gone(c, d, {}, E) /\ Tree(d) /\ (BinThere(c) => BinThere(d))
<1>1. ASSUME NEW h \in DOMAIN c.groups PROVE Ents(d, h) = Ents(c, h) \ E
  <2>1. \A x \in Ents(c, h) : c.entries[x].parent = h BY TreeNeat
  <2>2. Ents(d, h) = {x \in Ents(c, h) : x \notin E \/ c.entries[x].parent # h} BY DEF Removed
  <2> QED BY <2>1, <2>2
<1>2. \A h \in DOMAIN c.groups : /\ d.groups[h].parent = c.groups[h].parent /\ Subs(d, h) = Subs(c, h)
                                 /\ Neat(c, h) => Neat(d, h)
  BY DEF Removed, Subs, Neat
<1>3. \A x \in DOMAIN c.groups \cup DOMAIN c.entries : x \notin {} OBVIOUS
<1>4. Gone(c, d, {}, E) BY <1>1, <1>2 DEF Removed, Gone
<1>5. BinThere(c) => BinThere(d) BY DEF Removed, BinThere
<1> QED BY <1>4, <1>5, GoneTree

\* remove_entry_permanently
LEMMA RemoveEntrySteady ==
    ASSUME NEW I \in SUBSET Uuid, NEW c \in Content(I), Tree(c), BinThere(c), NEW e, NEW now \in Time
    PROVE  Steady(c, RemoveEntry(c, e, now))
<1> DEFINE r == RemoveEntry(c, e, now)
<1>1. IF r.ok THEN Removed(c, r.db, {e}) ELSE r.db = c BY RemoveEntryTyped
<1> HIDE DEF r
<1>2. r.ok => Steady(c, r) BY <1>1, RemovedGone DEF Steady
<1>3. ~r.ok => Steady(c, r) BY <1>1, RefusedSteady
<1> QED BY <1>2, <1>3 DEF r

-----------------------------------------------------------------------------
(* Removing what is below a group                                          *)

\* A walk that ends meets all that is below the group, once.
LEMMA WalkBelow ==
    ASSUME NEW I \in SUBSET Uuid, NEW c \in Content(I), NEW g \in DOMAIN c.groups, ~Endless(c, g), Apart(c)
    PROVE  /\ Walk(c, g) \in Seq(Item) /\ Once(Walk(c, g))
           /\ Met(Walk(c, g)) = GroupsBelow(c, g) \cup EntriesBelow(c, g)
<1>1. Lists(c) /\ g \in {Nil} \cup Uuid /\ DOMAIN c.groups \subseteq Uuid /\ IsFiniteSet(DOMAIN c.groups)
  BY ContentParts
<1>2. Walk(c, g) \in Seq(Item) /\ ToSet(Walk(c, g)) = Ways(c, g) /\ Once(Walk(c, g)) BY <1>1, WalkMeets
<1>3. Met(Walk(c, g)) = {item[2] : item \in Ways(c, g)} BY <1>2, MetItems
<1>4. Entered(c, g) \subseteq DOMAIN c.groups BY <1>1, EnteredGroups
<1>5. \A h \in DOMAIN c.groups : Subs(c, h) \subseteq Uuid /\ Ents(c, h) \subseteq Uuid BY <1>1, FewGroups
<1>6. {item[2] : item \in Ways(c, g)} = GroupsBelow(c, g) \cup EntriesBelow(c, g)
  <2>1. ASSUME NEW item \in Ways(c, g) PROVE item[2] \in GroupsBelow(c, g) \cup EntriesBelow(c, g)
    BY DEF Ways, Listed, Subs, Ents, GroupsBelow, EntriesBelow
  <2>2. ASSUME NEW x \in GroupsBelow(c, g) \cup EntriesBelow(c, g) PROVE \E item \in Ways(c, g) : item[2] = x
    <3>1. PICK h \in Entered(c, g) : x \in Listed(c, h)
      BY DEF Listed, Subs, Ents, GroupsBelow, EntriesBelow
    <3>2. h \in Uuid /\ x \in Uuid BY <1>1, <1>4, <1>5, <3>1 DEF Listed
    <3>3. <<h, x>> \in Ways(c, g) BY <3>1, <3>2 DEF Ways, Item
    <3> QED BY <3>3
  <2> QED BY <2>1, <2>2
<1> QED BY <1>2, <1>3, <1>6

\* A loop over what can all be removed removes all of it.
LEMMA LoopRemovesAll ==
    ASSUME NEW I, NEW kind \in Kinds, NEW c, NEW s \in Seq(Item), NEW ids,
           NEW v \in Outcome(I, kind, c, s, ids, Len(s)), Once(s), NEW E, E = Met(s) \cap ids,
           \A x \in E : Able(kind, c, x)
    PROVE  v.ok = TRUE /\ v.db \in Content(I) /\ LessBy(kind, c, v.db, E)
<1>1. DOMAIN s = 1 .. Len(s) OBVIOUS
<1>2. MetBy(s, Len(s), ids) = E BY <1>1 DEF MetBy, Met
<1>3. v \in Result(I) BY DEF Outcome
<1>4. v.db \in Content(I) BY <1>3 DEF Result
<1>5. PICK F \in SUBSET MetBy(s, Len(s), ids) :
          /\ LessBy(kind, c, v.db, F)
          /\ Once(s) /\ (\A x \in MetBy(s, Len(s), ids) : Able(kind, c, x))
               => v.ok = TRUE /\ F = MetBy(s, Len(s), ids)
  BY DEF Outcome
<1> QED BY <1>2, <1>4, <1>5

\* A group below the recycle bin does not hold it.
LEMMA BelowBin ==
    ASSUME NEW I \in SUBSET Uuid, NEW c \in Content(I), Tree(c), NEW b, NEW g \in GroupsBelow(c, b)
    PROVE  /\ b \in DOMAIN c.groups /\ g \in DOMAIN c.groups /\ g # RootGroup
           /\ Entered(c, g) \subseteq Entered(c, b) /\ b \notin Entered(c, g)
<1>0. IsFiniteSet(DOMAIN c.groups) BY ContentParts
<1>1. b \in DOMAIN c.groups BY <1>0, EnteredGroups DEF GroupsBelow
<1>2. GroupsBelow(c, b) = Entered(c, b) \ {b} /\ Entered(c, b) \subseteq DOMAIN c.groups BY <1>1, TreeBelow
<1>3. g \in Entered(c, b) /\ g # b /\ g \in DOMAIN c.groups BY <1>2
<1>4. Entered(c, g) \subseteq Entered(c, b) BY <1>0, <1>3, EnteredGroups
<1>5. PICK x \in Children(c, b) : g \in Entered(c, x) BY <1>0, <1>1, <1>3, EnteredGroups
<1>6. ~Endless(c, b) BY TreeWalks
<1>7. b \in Entered(c, b) BY <1>0, <1>1, EnteredGroups
<1>8. b \notin Entered(c, x) BY <1>0, <1>5, <1>6, <1>7, NotBelowItself
<1>9. b \notin Entered(c, g) BY <1>0, <1>5, <1>8, EnteredGroups
<1>10. g # RootGroup
  <2>1. Entered(c, RootGroup) = DOMAIN c.groups BY TreeWalks
  <2> QED BY <1>1, <1>9, <2>1
<1> QED BY <1>1, <1>3, <1>4, <1>9, <1>10

\* remove_group_permanently: in a tree no step of it fails, and the group goes
\* with all that is below it.
LEMMA RemoveGroupSteady ==
    ASSUME NEW I \in SUBSET Uuid, NEW c \in Content(I), Tree(c), BinThere(c), NEW g, NEW now \in Time
    PROVE  Steady(c, RemoveGroup(c, g, now))
<1> DEFINE r == RemoveGroup(c, g, now)
           v == EntryLoop(c, Walk(c, g), EntriesBelow(c, g), now)
           w == GroupLoop(v.db, Walk(v.db, g), GroupsBelow(v.db, g), now)
           p == c.groups[g].parent
           G == Entered(c, g)
           E == EntriesBelow(c, g)
<1>1. IF g \notin DOMAIN c.groups \/ g \notin GroupsBelow(c, c.bin) THEN r = Err(c)
      ELSE /\ v \in Outcome(I, "entry", c, Walk(c, g), EntriesBelow(c, g), Len(Walk(c, g)))
           /\ IF ~v.ok THEN r = v
              ELSE /\ w \in Outcome(I, "group", v.db, Walk(v.db, g), GroupsBelow(v.db, g), Len(Walk(v.db, g)))
                   /\ IF ~w.ok THEN r = w
                      ELSE IF g \notin DOMAIN w.db.groups THEN r = Err(w.db)
                           ELSE r = Ok(Bury(UnlistGroup(DropGroup(w.db, g), p, g), g, now))
  BY RemoveGroupSteps
<1> HIDE DEF r, w
<1>2. CASE g \notin DOMAIN c.groups \/ g \notin GroupsBelow(c, c.bin)
  <2>1. r.db = c BY <1>1, <1>2, Results
  <2>2. Steady(c, r) BY <2>1, RefusedSteady
  <2> QED BY <2>2 DEF r
<1>3. CASE g \in DOMAIN c.groups /\ g \in GroupsBelow(c, c.bin)
  <2> HIDE DEF v
  <2>1. v \in Outcome(I, "entry", c, Walk(c, g), E, Len(Walk(c, g))) BY <1>1, <1>3
  <2>2. /\ c.bin \in DOMAIN c.groups /\ g # RootGroup
        /\ Entered(c, g) \subseteq Entered(c, c.bin) /\ c.bin \notin Entered(c, g)
    BY <1>3, BelowBin
  <2>3. /\ g \in G /\ G \subseteq DOMAIN c.groups /\ GroupsBelow(c, g) = G \ {g}
        /\ E = {e \in DOMAIN c.entries : c.entries[e].parent \in G}
        /\ \A x \in DOMAIN c.groups : c.groups[x].parent \in G => x \in G \ {g}
        /\ \A x \in G \ {g} : c.groups[x].parent \in G
        /\ RootGroup \notin G
    BY <1>3, <2>2, TreeBelow
  <2>4. EntriesBelow(c, c.bin) = {e \in DOMAIN c.entries : c.entries[e].parent \in Entered(c, c.bin)}
    BY <2>2, TreeBelow
  <2>5. ~Endless(c, g) /\ Apart(c) BY TreeWalks, TreeLists
  <2>6. /\ Walk(c, g) \in Seq(Item) /\ Once(Walk(c, g))
        /\ Met(Walk(c, g)) = GroupsBelow(c, g) \cup EntriesBelow(c, g)
    BY <1>3, <2>5, WalkBelow
  <2>7. E = Met(Walk(c, g)) \cap E /\ \A x \in E : Able("entry", c, x)
    BY <2>2, <2>3, <2>4, <2>6 DEF Able
  <2> HIDE DEF E, G
  <2>8. v.ok = TRUE /\ v.db \in Content(I) /\ LessBy("entry", c, v.db, E)
    BY <2>1, <2>6, <2>7, LoopRemovesAll DEF Kinds
  <2>9. Removed(c, v.db, E) BY <2>8 DEF LessBy
  <2>10. Tree(v.db) BY <2>9, RemovedGone
  <2>11. Entered(v.db, g) = G /\ GroupsBelow(v.db, g) = G \ {g} BY <2>3, <2>9, RemovedWalks DEF G
  <2>12. DOMAIN v.db.groups = DOMAIN c.groups /\ v.db.bin = c.bin BY <2>9 DEF Removed
  <2>13. ~Endless(v.db, g) /\ Apart(v.db) BY <2>8, <2>10, TreeWalks, TreeLists
  <2>14. /\ Walk(v.db, g) \in Seq(Item) /\ Once(Walk(v.db, g))
         /\ Met(Walk(v.db, g)) = GroupsBelow(v.db, g) \cup EntriesBelow(v.db, g)
    BY <1>3, <2>8, <2>12, <2>13, WalkBelow
  <2>15. w \in Outcome(I, "group", v.db, Walk(v.db, g), GroupsBelow(v.db, g), Len(Walk(v.db, g)))
    BY <1>1, <1>3, <2>8
  <2> DEFINE H == G \ {g}
  <2>16. /\ H = Met(Walk(v.db, g)) \cap GroupsBelow(v.db, g)
         /\ \A x \in H : Able("group", v.db, x)
    BY <2>3, <2>11, <2>12, <2>14 DEF Able
  <2> HIDE DEF H
  <2>17. w.ok = TRUE /\ w.db \in Content(I) /\ LessBy("group", v.db, w.db, H)
    BY <2>14, <2>15, <2>16, LoopRemovesAll DEF Kinds
  <2>18. /\ w.db.entries = v.db.entries /\ w.db.bin = v.db.bin
         /\ DOMAIN w.db.groups = DOMAIN v.db.groups \ (G \ {g})
         /\ \A h \in DOMAIN w.db.groups : w.db.groups[h] = v.db.groups[h]
    BY <2>17 DEF LessBy, TakenGroups, H
  <2> DEFINE cut == DropGroup(w.db, g)
             out == UnlistGroup(cut, p, g)
             d == Bury(out, g, now)
  <2>19. g \in DOMAIN w.db.groups BY <1>3, <2>12, <2>18
  <2>20. r = Ok(d) BY <1>1, <1>3, <2>8, <2>17, <2>19
  <2>21. g \in I /\ g \in Uuid BY <1>3, TreeUuids
  <2>22. /\ cut \in Content(I) /\ DOMAIN cut.groups = DOMAIN w.db.groups \ {g}
         /\ (\A y \in DOMAIN w.db.groups : y # g => cut.groups[y] = w.db.groups[y])
         /\ cut.entries = w.db.entries /\ cut.bin = w.db.bin
    BY <2>17, GroupDropped
  <2> HIDE DEF cut
  <2>23. p \in DOMAIN cut.groups
    <3>1. p \in DOMAIN c.groups /\ p \notin G BY <1>3, <2>2, <2>3, TreeNeat
    <3> QED BY <2>3, <2>12, <2>18, <2>22, <3>1
  <2> HIDE DEF p
  <2>24. out \in Content(I) /\ OnlyGroup(cut, out, p) BY <2>21, <2>22, GroupUnlisted
  <2>25. \A h \in DOMAIN cut.groups :
            /\ out.groups[h].parent = cut.groups[h].parent
            /\ Subs(out, h) = IF h = p THEN Subs(cut, h) \ {g} ELSE Subs(cut, h)
            /\ Ents(out, h) = Ents(cut, h)
            /\ Neat(cut, h) => Neat(out, h)
    BY <2>21, <2>22, <2>23, GroupLists
  <2> HIDE DEF out
  <2>26. d \in Content(I) /\ d.groups = out.groups /\ d.entries = out.entries /\ d.bin = out.bin
    BY <2>21, <2>24, Buried
  <2> HIDE DEF d
  <2>27. /\ DOMAIN d.groups = DOMAIN c.groups \ G /\ DOMAIN d.entries = DOMAIN c.entries \ E
         /\ d.bin = c.bin /\ \A e \in DOMAIN d.entries : d.entries[e] = c.entries[e]
    BY <2>3, <2>9, <2>12, <2>18, <2>22, <2>24, <2>26 DEF OnlyGroup, Removed
  <2>28. ASSUME NEW h \in DOMAIN d.groups
         PROVE  /\ d.groups[h].parent = c.groups[h].parent
                /\ Subs(d, h) = Subs(c, h) \ G /\ Ents(d, h) = Ents(c, h) \ E
                /\ Neat(c, h) => Neat(d, h)
    <3>1. h \in DOMAIN c.groups /\ h \notin G /\ h \in DOMAIN cut.groups /\ cut.groups[h] = v.db.groups[h]
      BY <2>3, <2>12, <2>18, <2>22, <2>27
    <3>2. Gone(c, v.db, {}, E) BY <2>9, RemovedGone
    <3>3. /\ v.db.groups[h].parent = c.groups[h].parent /\ Subs(v.db, h) = Subs(c, h)
          /\ Ents(v.db, h) = Ents(c, h) \ E /\ (Neat(c, h) => Neat(v.db, h))
      BY <2>12, <3>1, <3>2 DEF Gone
    <3>4. Subs(cut, h) = Subs(v.db, h) /\ Ents(cut, h) = Ents(v.db, h) /\ (Neat(cut, h) <=> Neat(v.db, h))
      BY <3>1 DEF Subs, Ents, Neat
    <3>5. /\ d.groups[h].parent = out.groups[h].parent
          /\ Subs(d, h) = Subs(out, h) /\ Ents(d, h) = Ents(out, h) /\ (Neat(d, h) <=> Neat(out, h))
      BY <2>26 DEF Subs, Ents, Neat
    <3>6. Subs(c, h) = {x \in DOMAIN c.groups : c.groups[x].parent = h} BY <3>1, TreeNeat
    <3>7. \A x \in Subs(c, h) : x \in G => x = g BY <2>3, <3>1, <3>6
    <3>8. g \in Subs(c, h) <=> h = p BY <1>3, <3>6 DEF p
    <3>9. (IF h = p THEN Subs(c, h) \ {g} ELSE Subs(c, h)) = Subs(c, h) \ G BY <2>3, <3>7, <3>8
    <3> QED BY <2>25, <3>1, <3>3, <3>4, <3>5, <3>9
  <2>29. Gone(c, d, G, E) BY <2>3, <2>27, <2>28 DEF Gone, E, G
  <2>30. Tree(d) BY <2>29, GoneTree
  <2>31. BinThere(d) BY <2>2, <2>27 DEF BinThere, G
  <2>32. r.ok = TRUE /\ r.db = d BY <2>20, <2>26, Results
  <2>33. Steady(c, r) BY <2>30, <2>31, <2>32 DEF Steady
  <2> QED BY <2>33 DEF r
<1> QED BY <1>2, <1>3

\* empty_trash: in a tree no step of it fails either, and all below the recycle
\* bin goes.
LEMMA EmptyTrashSteady ==
    ASSUME NEW I \in SUBSET Uuid, NEW c \in Content(I), Tree(c), BinThere(c), NEW now \in Time
    PROVE  Steady(c, EmptyTrash(c, now))
<1> DEFINE r == EmptyTrash(c, now)
           b == c.bin
           v == BinnedEntryLoop(c, Walk(c, b), EntriesBelow(c, b), now)
           w == BinnedGroupLoop(v.db, Walk(v.db, v.db.bin), GroupsBelow(v.db, v.db.bin), now)
           H == Entered(c, b) \ {b}
           E == EntriesBelow(c, b)
<1>1. IF b \notin DOMAIN c.groups THEN r = Err(c)
      ELSE /\ v \in Outcome(I, "binnedentry", c, Walk(c, b), EntriesBelow(c, b), Len(Walk(c, b)))
           /\ IF ~v.ok THEN r = v
              ELSE /\ w \in Outcome(I, "binnedgroup", v.db, Walk(v.db, v.db.bin),
                                    GroupsBelow(v.db, v.db.bin), Len(Walk(v.db, v.db.bin)))
                   /\ IF ~w.ok THEN r = w
                      ELSE IF w.db.bin \notin DOMAIN w.db.groups THEN r = Err(w.db)
                           ELSE r = Ok(Emptied(w.db))
  BY EmptyTrashSteps
<1> HIDE DEF r, w
<1>2. CASE b \notin DOMAIN c.groups
  <2>1. r.db = c BY <1>1, <1>2, Results
  <2>2. Steady(c, r) BY <2>1, RefusedSteady
  <2> QED BY <2>2 DEF r
<1>3. CASE b \in DOMAIN c.groups
  <2> HIDE DEF v
  <2>1. v \in Outcome(I, "binnedentry", c, Walk(c, b), E, Len(Walk(c, b))) BY <1>1, <1>3
  <2>2. b # RootGroup
    <3>1. b # Nil BY <1>3, TreeUuids
    <3> QED BY <3>1 DEF BinThere
  <2>3. /\ b \in Entered(c, b) /\ Entered(c, b) \subseteq DOMAIN c.groups /\ GroupsBelow(c, b) = H
        /\ E = {e \in DOMAIN c.entries : c.entries[e].parent \in Entered(c, b)}
        /\ \A x \in DOMAIN c.groups : c.groups[x].parent \in Entered(c, b) => x \in H
        /\ \A x \in H : c.groups[x].parent \in Entered(c, b)
        /\ RootGroup \notin Entered(c, b)
    BY <1>3, <2>2, TreeBelow
  <2>5. ~Endless(c, b) /\ Apart(c) BY TreeWalks, TreeLists
  <2>6. /\ Walk(c, b) \in Seq(Item) /\ Once(Walk(c, b))
        /\ Met(Walk(c, b)) = GroupsBelow(c, b) \cup EntriesBelow(c, b)
    BY <1>3, <2>5, WalkBelow
  <2>7. E = Met(Walk(c, b)) \cap E /\ \A x \in E : Able("binnedentry", c, x) BY <2>3, <2>6 DEF Able
  <2> HIDE DEF E, b
  <2>8. v.ok = TRUE /\ v.db \in Content(I) /\ LessBy("binnedentry", c, v.db, E)
    BY <2>1, <2>6, <2>7, LoopRemovesAll DEF Kinds
  <2>9. /\ v.db.groups = c.groups /\ v.db.bin = b
        /\ DOMAIN v.db.entries = DOMAIN c.entries \ E
        /\ \A e \in DOMAIN v.db.entries : v.db.entries[e] = c.entries[e]
    BY <2>8 DEF LessBy, TakenEntries, b
  <2>10. IsFiniteSet(DOMAIN c.groups) BY ContentParts
  <2>11. Entered(v.db, b) = Entered(c, b) /\ ~Endless(v.db, b) BY <2>5, <2>9, <2>10, SameWalk
  <2>12. GroupsBelow(v.db, b) = H BY <2>3, <2>9, <2>11 DEF GroupsBelow
  <2>13. Apart(v.db) BY <2>5, <2>9 DEF Apart, Subs, Ents, Listed
  <2>14. /\ Walk(v.db, b) \in Seq(Item) /\ Once(Walk(v.db, b))
         /\ Met(Walk(v.db, b)) = GroupsBelow(v.db, b) \cup EntriesBelow(v.db, b)
    BY <1>3, <2>8, <2>9, <2>11, <2>13, WalkBelow
  <2>15. w \in Outcome(I, "binnedgroup", v.db, Walk(v.db, b), GroupsBelow(v.db, b), Len(Walk(v.db, b)))
    BY <1>1, <1>3, <2>8, <2>9
  <2>16. /\ H = Met(Walk(v.db, b)) \cap GroupsBelow(v.db, b)
         /\ \A x \in H : Able("binnedgroup", v.db, x)
    BY <2>3, <2>9, <2>12, <2>14 DEF Able
  <2> HIDE DEF H
  <2>17. w.ok = TRUE /\ w.db \in Content(I) /\ LessBy("binnedgroup", v.db, w.db, H)
    BY <2>14, <2>15, <2>16, LoopRemovesAll DEF Kinds
  <2>18. /\ w.db.entries = v.db.entries /\ w.db.bin = b
         /\ DOMAIN w.db.groups = DOMAIN c.groups \ H
         /\ \A h \in DOMAIN w.db.groups : w.db.groups[h] = c.groups[h]
    BY <2>9, <2>17 DEF LessBy, TakenGroups
  <2> DEFINE d == Emptied(w.db)
  <2>19. b \in DOMAIN w.db.groups BY <1>3, <2>18 DEF H
  <2>20. r = Ok(d) BY <1>1, <1>3, <2>8, <2>17, <2>18, <2>19
  <2>21. /\ d \in Content(I) /\ OnlyGroup(w.db, d, b)
         /\ d.groups[b] = [w.db.groups[b] EXCEPT !.subs = <<>>, !.entries = <<>>]
    BY <2>17, <2>18, <2>19, EmptiedTyped
  <2> HIDE DEF d
  <2>22. c.groups[b] \in Group BY <1>3, ContentParts
  <2>23. d.groups[b].parent = c.groups[b].parent /\ d.groups[b].subs = <<>> /\ d.groups[b].entries = <<>>
    BY <2>18, <2>19, <2>21, <2>22 DEF Group
  <2>24. /\ DOMAIN d.groups = DOMAIN c.groups \ H /\ DOMAIN d.entries = DOMAIN c.entries \ E
         /\ d.bin = b /\ \A e \in DOMAIN d.entries : d.entries[e] = c.entries[e]
    BY <2>9, <2>18, <2>21 DEF OnlyGroup
  <2>25. ASSUME NEW h \in DOMAIN d.groups
         PROVE  /\ d.groups[h].parent = c.groups[h].parent
                /\ Subs(d, h) = Subs(c, h) \ H /\ Ents(d, h) = Ents(c, h) \ E
                /\ Neat(c, h) => Neat(d, h)
    <3>1. h \in DOMAIN c.groups /\ h \notin H /\ h \in DOMAIN w.db.groups BY <2>18, <2>24
    <3>2. /\ Subs(c, h) = {x \in DOMAIN c.groups : c.groups[x].parent = h}
          /\ Ents(c, h) = {e \in DOMAIN c.entries : c.entries[e].parent = h}
      BY <3>1, TreeNeat
    <3>3. CASE h = b
      <4>1. Subs(c, h) \ H = {} /\ Ents(c, h) \ E = {} BY <2>3, <3>2, <3>3
      <4>2. Subs(d, h) = {} /\ Ents(d, h) = {} /\ Neat(d, h) BY <2>23, <3>3, EmptyList DEF Subs, Ents, Neat
      <4> QED BY <2>23, <3>3, <4>1, <4>2
    <3>4. CASE h # b
      <4>1. h \notin Entered(c, b) BY <3>1, <3>4 DEF H
      <4>2. Subs(c, h) \cap H = {} /\ Ents(c, h) \cap E = {} BY <2>3, <3>2, <4>1
      <4>3. d.groups[h] = c.groups[h] BY <2>18, <2>21, <3>1, <3>4 DEF OnlyGroup
      <4>4. Subs(d, h) = Subs(c, h) /\ Ents(d, h) = Ents(c, h) /\ (Neat(c, h) => Neat(d, h))
        BY <4>3 DEF Subs, Ents, Neat
      <4> QED BY <4>2, <4>3, <4>4
    <3> QED BY <3>3, <3>4
  <2>26. H \subseteq Entered(c, b) BY DEF H
  <2>29. Gone(c, d, H, E) BY <2>3, <2>24, <2>25, <2>26 DEF Gone
  <2>30. Tree(d) BY <2>29, GoneTree
  <2>31. BinThere(d) BY <1>3, <2>2, <2>24 DEF BinThere, H
  <2>32. r.ok = TRUE /\ r.db = d BY <2>20, <2>21, Results
  <2>33. Steady(c, r) BY <2>30, <2>31, <2>32 DEF Steady
  <2> QED BY <2>33 DEF r
<1> QED BY <1>2, <1>3

-----------------------------------------------------------------------------
(* Copying a part of a tree                                                *)

\* What clone_group goes through in a tree: groups and entries that are there,
\* each once, listed by groups that are there.
LEMMA ClonedTree ==
    ASSUME NEW I \in SUBSET Uuid, NEW c \in Content(I), Tree(c),
           NEW g \in DOMAIN c.groups, c.groups[g].parent # Nil
    PROVE  /\ Once(Cloned(c, g)) /\ c.groups[g].parent \in DOMAIN c.groups
           /\ \A n \in 1 .. Len(Cloned(c, g)) :
                 /\ Cloned(c, g)[n][1] \in DOMAIN c.groups
                 /\ Cloned(c, g)[n][2] \in DOMAIN c.groups \cup DOMAIN c.entries
<1> DEFINE s == Cloned(c, g)
           p == c.groups[g].parent
<1>1. g # RootGroup BY TreeNeat
<1>2. p \in DOMAIN c.groups BY <1>1, TreeNeat
<1>3. ~Endless(c, g) /\ Apart(c) BY TreeWalks, TreeLists
<1>4. Once(Walk(c, g)) /\ Met(Walk(c, g)) = GroupsBelow(c, g) \cup EntriesBelow(c, g) BY <1>3, WalkBelow
<1>5. /\ GroupsBelow(c, g) = Entered(c, g) \ {g} /\ Entered(c, g) \subseteq DOMAIN c.groups
      /\ EntriesBelow(c, g) \subseteq DOMAIN c.entries
  BY TreeBelow
<1>6. DOMAIN c.groups \cap DOMAIN c.entries = {} BY TreeNeat
<1>7. g \notin Met(Walk(c, g)) BY <1>4, <1>5, <1>6
<1>8. /\ s \in Seq(Item) /\ Len(s) \in Nat /\ ToSet(s) = {<<p, g>>} \cup ToSet(Walk(c, g)) /\ Once(s)
  BY <1>4, <1>7, ClonedItems
<1>9. Lists(c) /\ g \in {Nil} \cup Uuid
  <2>1. Lists(c) /\ DOMAIN c.groups \in SUBSET I BY ContentParts
  <2> QED BY <2>1
<1>10. ToSet(Walk(c, g)) \subseteq Ways(c, g) BY <1>9, WalkMeets
<1>11. \A h \in DOMAIN c.groups : Listed(c, h) \subseteq DOMAIN c.groups \cup DOMAIN c.entries
  BY TreeNeat DEF Listed
<1> HIDE DEF s, p
<1>12. ASSUME NEW n \in 1 .. Len(s)
       PROVE  s[n][1] \in DOMAIN c.groups /\ s[n][2] \in DOMAIN c.groups \cup DOMAIN c.entries
  <2>1. s[n] \in ToSet(s) BY <1>8, ElementsOf
  <2>2. CASE s[n] = <<p, g>> BY <1>2, <2>2
  <2>3. CASE s[n] \in Ways(c, g)
    <3>1. s[n][1] \in Entered(c, g) /\ s[n][2] \in Listed(c, s[n][1]) BY <2>3 DEF Ways
    <3> QED BY <1>5, <1>11, <3>1
  <2> QED BY <1>8, <1>10, <2>1, <2>2, <2>3
<1> QED BY <1>2, <1>8, <1>12 DEF s, p

\* After n steps of clone_group: d is a tree with the first n copies.
Copied(c, g, fresh, d, n) ==
    /\ Tree(d) /\ d.bin = c.bin /\ DOMAIN c.groups \subseteq DOMAIN d.groups
    /\ DOMAIN c.entries \subseteq DOMAIN d.entries
    /\ DOMAIN d.groups \cup DOMAIN d.entries
         \subseteq DOMAIN c.groups \cup DOMAIN c.entries \cup Handed(fresh, n)
    /\ \A i \in 1 .. n : Cloned(c, g)[i][2] \in DOMAIN c.groups => fresh + i - 1 \in DOMAIN d.groups

\* The copy of the parent of what a step copies is there already.
LEMMA CopyPlace ==
    ASSUME NEW I \in SUBSET Uuid, NEW c \in Content(I), Tree(c),
           NEW g \in DOMAIN c.groups, c.groups[g].parent # Nil, NEW fresh \in Nat,
           NEW n \in 1 .. Len(Cloned(c, g)), NEW d, Copied(c, g, fresh, d, n - 1)
    PROVE  CopyUuid(c, g, fresh, Cloned(c, g)[n][1]) \in DOMAIN d.groups
<1> DEFINE s == Cloned(c, g)
           q == c.groups[g].parent
           h == s[n][1]
           p == CopyUuid(c, g, fresh, h)
           k == CHOOSE i \in DOMAIN s : s[i][2] = h
<1>1. s \in Seq(Item) /\ Len(s) \in Nat /\ FromTop(s, q) BY ClonedItems
<1>2. p = IF h = q THEN h ELSE fresh - 1 + k BY DEF CopyUuid
<1>3. Once(s) /\ q \in DOMAIN c.groups /\ h \in DOMAIN c.groups BY ClonedTree
<1> HIDE DEF s
<1>4. DOMAIN s = 1 .. Len(s) /\ n \in DOMAIN s BY <1>1 DEF s
<1>7. DOMAIN c.groups \subseteq DOMAIN d.groups BY DEF Copied
<1>5. CASE h = q
  <2> HIDE DEF k, q
  <2>1. p = h BY <1>2, <1>5
  <2> HIDE DEF p, h
  <2> QED BY <1>3, <1>7, <2>1 DEF s, p, h
<1>6. CASE h # q
  <2>1. PICK j \in 1 .. (n - 1) : s[j][2] = h BY <1>1, <1>4, <1>6 DEF FromTop
  <2>2. fresh + j - 1 \in DOMAIN d.groups BY <1>3, <2>1 DEF Copied, s
  <2>3. j \in DOMAIN s /\ j \in Nat BY <1>1, <1>4
  <2>4. k \in DOMAIN s /\ s[k][2] = h BY <2>1, <2>3
  <2>5. k = j BY <1>3, <2>1, <2>3, <2>4 DEF Once
  <2> HIDE DEF k
  <2>6. p = fresh + j - 1 BY <1>2, <1>6, <2>3, <2>5
  <2> QED BY <2>2, <2>6 DEF s
<1> QED BY <1>5, <1>6 DEF s

\* A step of it adds one more.
LEMMA CopyStepTree ==
    ASSUME NEW I \in SUBSET Uuid, NEW c \in Content(I), Tree(c),
           NEW g \in DOMAIN c.groups, c.groups[g].parent # Nil,
           NEW fresh \in Nat, Handed(fresh, Len(Cloned(c, g))) \subseteq I,
           Handed(fresh, Len(Cloned(c, g))) \cap (DOMAIN c.groups \cup DOMAIN c.entries) = {},
           NEW now \in Time, NEW by \in Devices,
           NEW n \in 1 .. Len(Cloned(c, g)), NEW d \in Content(I), Copied(c, g, fresh, d, n - 1)
    PROVE  LET r == CopyStep(c, g, fresh, now, by, d, n)
           IN  r.ok = TRUE /\ Copied(c, g, fresh, r.db, n)
<1> DEFINE s == Cloned(c, g)
           N == Len(s)
           h == s[n][1]
           x == s[n][2]
           p == CopyUuid(c, g, fresh, h)
           id == fresh + n - 1
           known == DOMAIN c.groups \cup DOMAIN c.entries
           group == GroupCopy(c, x, p, now, by)
           put == PutGroup(ListGroup(d, p, id), id, group)
           r == CopyStep(c, g, fresh, now, by, d, n)
<1>1. N \in Nat /\ n \in Nat /\ n - 1 \in Nat /\ n <= N /\ 1 <= n BY ClonedItems
<1>2. /\ Once(s) /\ c.groups[g].parent \in DOMAIN c.groups
      /\ h \in DOMAIN c.groups /\ x \in DOMAIN c.groups \cup DOMAIN c.entries
  BY ClonedTree
<1>3. p \in DOMAIN d.groups BY CopyPlace
<1>4. /\ id \in Handed(fresh, N) /\ id \notin Handed(fresh, n - 1)
      /\ Handed(fresh, n) = Handed(fresh, n - 1) \cup {id}
  BY <1>1 DEF Handed
<1>5. id \in I /\ id \in Uuid /\ id \notin DOMAIN d.groups \cup DOMAIN d.entries BY <1>4 DEF Copied
<1>6. r = CASE HasEntry(c, x) -> CloneEntry(d, x, p, id, FALSE, now, by)
            [] ~HasEntry(c, x) /\ HasGroup(c, x) -> Ok(put)
            [] OTHER -> Err(d)
  BY DEF CopyStep
<1>7. DOMAIN c.groups \cap DOMAIN c.entries = {} BY TreeNeat
<1>8. \A i \in 1 .. n : i \in 1 .. (n - 1) \/ i = n BY <1>1
<1>9. Tree(d) /\ d.bin = c.bin BY DEF Copied
<1>10. CASE x \in DOMAIN c.entries
  <2> DEFINE past == <<>>
             v == [d.entries[x] EXCEPT !.parent = p, !.mod = now, !.by = by, !.history = past]
             e == PutEntry(ListEntry(d, p, id), id, v)
  <2>1. x \in DOMAIN d.entries BY <1>10 DEF Copied
  <2>2. r = Ok(e) BY <1>3, <1>6, <1>10, <2>1 DEF CloneEntry, HasEntry, HasGroup
  <2>3. x \notin DOMAIN c.groups BY <1>7, <1>10
  <2>4. d.entries[x] \in Entry /\ p \in Uuid BY <1>3, <2>1, ContentParts
  <2> HIDE DEF x, p, id, s, r
  <2>5. v \in Entry /\ v.parent = p BY <2>4, EmptyList DEF Entry
  <2> HIDE DEF v
  <2>6. e \in Content(I) /\ EntryAdded(d, e, id, p) /\ Tree(e) /\ e.bin = d.bin
    BY <1>3, <1>5, <1>9, <2>5, EntryPutTree
  <2> HIDE DEF e
  <2>7. Ok(e).ok = TRUE /\ Ok(e).db = e BY <2>6, Results
  <2>8. Copied(c, g, fresh, e, n)
    <3>1. DOMAIN e.groups = DOMAIN d.groups /\ DOMAIN e.entries = DOMAIN d.entries \cup {id}
      BY <2>6 DEF EntryAdded
    <3>2. \A i \in 1 .. n : Cloned(c, g)[i][2] \in DOMAIN c.groups => fresh + i - 1 \in DOMAIN d.groups
      BY <1>8, <2>3 DEF Copied, x, s
    <3> QED BY <1>4, <2>6, <3>1, <3>2 DEF Copied
  <2>9. r.ok = TRUE /\ Copied(c, g, fresh, r.db, n) BY <2>2, <2>7, <2>8
  <2> QED BY <2>9 DEF r
<1>11. CASE x \notin DOMAIN c.entries
  <2>1. x \in DOMAIN c.groups BY <1>2, <1>11
  <2>2. r = Ok(put) BY <1>6, <1>11, <2>1 DEF HasEntry, HasGroup
  <2>3. group \in Group /\ group.subs = <<>> /\ group.entries = <<>> /\ group.parent = p
    BY <2>1, GroupCopyTyped DEF HasGroup
  <2>4. p # Nil BY <1>3, TreeUuids
  <2> HIDE DEF group, x, p, id, s, r
  <2>5. InsertGroup(d, id, group) = Ok(put) BY <1>3, <1>5, <2>3, <2>4 DEF InsertGroup, HasGroup
  <2>6. /\ InsertGroup(d, id, group).ok = TRUE /\ GroupAdded(d, InsertGroup(d, id, group).db, id, group.parent)
        /\ Tree(InsertGroup(d, id, group).db)
    BY <1>3, <1>5, <1>9, <2>3, InsertGroupSteady
  <2>7. put.bin = d.bin BY DEF PutGroup, ListGroup
  <2> HIDE DEF put
  <2>8. Ok(put).db = put BY DEF Ok
  <2>9. GroupAdded(d, put, id, p) /\ Tree(put) /\ put.bin = d.bin BY <2>3, <2>5, <2>6, <2>7, <2>8
  <2>10. Copied(c, g, fresh, put, n)
    <3>1. DOMAIN put.groups = DOMAIN d.groups \cup {id} /\ DOMAIN put.entries = DOMAIN d.entries
      BY <2>9 DEF GroupAdded
    <3>2. \A i \in 1 .. n : Cloned(c, g)[i][2] \in DOMAIN c.groups => fresh + i - 1 \in DOMAIN put.groups
      BY <1>8, <3>1 DEF Copied, id
    <3> QED BY <1>4, <1>9, <2>9, <3>1, <3>2 DEF Copied
  <2>11. r.ok = TRUE /\ Copied(c, g, fresh, r.db, n) BY <2>2, <2>5, <2>6, <2>8, <2>10
  <2> QED BY <2>11 DEF r
<1> QED BY <1>10, <1>11

\* clone_group: in a tree no step of it fails.
LEMMA CloneGroupSteady ==
    ASSUME NEW I \in SUBSET Uuid, NEW c \in Content(I), Tree(c), BinThere(c), NEW g \in DOMAIN c.groups,
           NEW fresh \in Nat, Handed(fresh, FreshFor(c, g)) \subseteq I,
           Handed(fresh, FreshFor(c, g)) \cap (DOMAIN c.groups \cup DOMAIN c.entries) = {},
           NEW now \in Time, NEW by \in Devices
    PROVE  Steady(c, CloneGroup(c, g, fresh, now, by))
<1> DEFINE r == CloneGroup(c, g, fresh, now, by)
           s == Cloned(c, g)
           N == Len(s)
<1>1. CASE c.groups[g].parent = Nil
  <2>1. r = Err(c) BY <1>1 DEF CloneGroup
  <2>2. r.db = c BY <2>1, Results
  <2> HIDE DEF r
  <2>3. Steady(c, r) BY <2>2, RefusedSteady
  <2> QED BY <2>3 DEF r
<1>2. CASE c.groups[g].parent # Nil
  <2>1. FreshFor(c, g) = N BY DEF FreshFor, HasGroup
  <2>2. PICK f : /\ Copying(f, c, g, fresh, now, by)
                 /\ \A n \in 0 .. N : f[n] \in Result(I) /\ Kept(c, f[n].db, Handed(fresh, N))
                 /\ r = f[N]
    BY <1>2, <2>1, CloneGroupSteps
  <2>3. N \in Nat BY <1>2, ClonedItems
  <2> HIDE DEF r, N, s
  <2> DEFINE Fits(v, n) == v.ok = TRUE /\ Copied(c, g, fresh, v.db, n)
             S == {n \in Nat : n <= N => Fits(f[n], n)}
  <2>4. Fits(f[0], 0)
    <3>1. f[0].ok = TRUE /\ f[0].db = c BY <2>2 DEF Copying, Ok
    <3>2. Handed(fresh, 0) = {} BY DEF Handed
    <3>3. Copied(c, g, fresh, c, 0) BY <3>2 DEF Copied
    <3> QED BY <3>1, <3>3
  <2>5. ASSUME NEW n \in 1 .. N, Fits(f[n - 1], n - 1) PROVE Fits(f[n], n)
    <3> DEFINE d == f[n - 1].db
               t == CopyStep(c, g, fresh, now, by, d, n)
    <3>1. f[n - 1].ok = TRUE /\ Copied(c, g, fresh, d, n - 1) BY <2>5
    <3>2. f[n] = t BY <2>2, <3>1 DEF Copying, N, s
    <3>3. n - 1 \in 0 .. N BY <2>3
    <3>4. f[n - 1] \in Result(I) BY <2>2, <3>3
    <3>5. d \in Content(I) BY <3>4 DEF Result
    <3>6. n \in 1 .. Len(Cloned(c, g)) BY DEF N, s
    <3>7. /\ Handed(fresh, Len(Cloned(c, g))) \subseteq I
          /\ Handed(fresh, Len(Cloned(c, g))) \cap (DOMAIN c.groups \cup DOMAIN c.entries) = {}
      BY <2>1 DEF N, s
    <3> HIDE DEF d
    <3>8. t.ok = TRUE /\ Copied(c, g, fresh, t.db, n) BY <1>2, <3>1, <3>5, <3>6, <3>7, CopyStepTree
    <3> QED BY <3>2, <3>8
  <2> HIDE DEF Fits
  <2>6. 0 \in S BY <2>3, <2>4
  <2>7. ASSUME NEW n \in Nat, n \in S PROVE n + 1 \in S
    <3>1. CASE n + 1 <= N
      <4>1. n + 1 \in 1 .. N /\ (n + 1) - 1 = n /\ n <= N BY <2>3, <3>1
      <4>2. Fits(f[n], n) BY <2>7, <4>1
      <4> QED BY <2>5, <4>1, <4>2
    <3> QED BY <2>3, <3>1
  <2> HIDE DEF S
  <2>8. Nat \subseteq S BY <2>6, <2>7, AllNumbers
  <2>9. Fits(f[N], N) BY <2>3, <2>8 DEF S
  <2>10. r.ok = TRUE /\ Copied(c, g, fresh, r.db, N) BY <2>2, <2>9 DEF Fits
  <2>11. BinThere(r.db) BY <2>10 DEF BinThere, Copied
  <2>12. Steady(c, r) BY <2>10, <2>11 DEF Steady, Copied
  <2> QED BY <2>12 DEF r
<1> QED BY <1>1, <1>2
=============================================================================
