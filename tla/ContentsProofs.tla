--------------------------- MODULE ContentsProofs ---------------------------
(* That the user finds what was attached, for every number of devices, edits, *)
(* versions and attachments.                                                  *)
EXTENDS Contents, FiniteSetTheorems, SequenceTheorems, WellFoundedInduction, TLAPS

-----------------------------------------------------------------------------
(* Numbers, sequences and loops *)

\* A set of numbers that holds one holds a least one.
LEMMA Least ==
    ASSUME NEW T, T \subseteq Nat, T # {}
    PROVE  \E x \in T : \A y \in T : x <= y
<1>1. PICK x \in T : \A y \in T : ~(<<y, x>> \in OpToRel(<, Nat))
  BY WFMin, NatLessThanWellFounded
<1>2. ASSUME NEW y \in T PROVE x <= y
  <2>1. SUFFICES ASSUME y < x PROVE FALSE
    OBVIOUS
  <2>2. <<y, x>> \in OpToRel(<, Nat) BY <2>1 DEF OpToRel
  <2>3. QED BY <1>1, <2>2
<1>3. QED BY <1>2

\* A set that holds 0, and with every number the next, holds all numbers.
LEMMA AllNumbers ==
    ASSUME NEW S, 0 \in S, \A n \in Nat : n \in S => n + 1 \in S
    PROVE  Nat \subseteq S
<1> DEFINE T == Nat \ S
<1>1. SUFFICES ASSUME T # {} PROVE FALSE
  OBVIOUS
<1>2. T \subseteq Nat OBVIOUS
<1>3. PICK x \in T : \A y \in T : x <= y
  <2> HIDE DEF T
  <2>1. QED BY <1>1, <1>2, Least
<1>4. x # 0 /\ x \in Nat OBVIOUS
<1>5. x - 1 \in Nat /\ ~(x <= x - 1) BY <1>4
<1>6. x - 1 \in S BY <1>3, <1>5
<1>7. (x - 1) + 1 = x BY <1>4
<1>8. QED BY <1>5, <1>6, <1>7

\* A sequence over S holds only elements of S, each at one of its places.
LEMMA ElementsOf ==
    ASSUME NEW S, NEW s \in Seq(S)
    PROVE  /\ Len(s) \in Nat /\ ToSet(s) \subseteq S
           /\ \A i \in 1 .. Len(s) : s[i] \in ToSet(s) /\ s[i] \in S
           /\ \A x \in ToSet(s) : \E i \in 1 .. Len(s) : x = s[i]
  BY DEF ToSet

\* What is pushed on a sequence is one more of its elements.
LEMMA AppendedElements ==
    ASSUME NEW S, NEW s \in Seq(S), NEW x \in S
    PROVE  Append(s, x) \in Seq(S) /\ ToSet(Append(s, x)) = ToSet(s) \cup {x}
<1>1. Len(s) \in Nat /\ Append(s, x) \in Seq(S) /\ Len(Append(s, x)) = Len(s) + 1 OBVIOUS
<1>2. \A i \in 1 .. Len(s) : Append(s, x)[i] = s[i] OBVIOUS
<1>3. Append(s, x)[Len(s) + 1] = x OBVIOUS
<1> DEFINE t == Append(s, x)
<1> HIDE DEF t
<1>4. t \in Seq(S) /\ Len(t) = Len(s) + 1 BY <1>1 DEF t
<1>5. ASSUME NEW y \in ToSet(t) PROVE y \in ToSet(s) \cup {x}
  <2>1. PICK i \in 1 .. Len(t) : y = t[i] BY <1>4, ElementsOf
  <2>2. CASE i = Len(s) + 1 BY <2>1, <2>2, <1>3 DEF t
  <2>3. CASE i # Len(s) + 1
    <3>1. i \in 1 .. Len(s) BY <1>1, <1>4, <2>3
    <3>2. y = s[i] BY <1>2, <2>1, <3>1 DEF t
    <3>3. QED BY <3>1, <3>2, ElementsOf
  <2>4. QED BY <2>2, <2>3
<1>6. ASSUME NEW y \in ToSet(s) PROVE y \in ToSet(t)
  <2>1. PICK i \in 1 .. Len(s) : y = s[i] BY ElementsOf
  <2>2. i \in 1 .. Len(t) /\ t[i] = y BY <1>1, <1>2, <1>4, <2>1 DEF t
  <2>3. QED BY <1>4, <2>2, ElementsOf
<1>7. x \in ToSet(t)
  <2>1. Len(t) \in 1 .. Len(t) /\ t[Len(t)] = x BY <1>1, <1>3, <1>4 DEF t
  <2>2. QED BY <1>4, <2>1, ElementsOf
<1>8. QED BY <1>4, <1>5, <1>6, <1>7 DEF t

\* A sequence behind another holds the elements of both.
LEMMA ConcatenatedElements ==
    ASSUME NEW S, NEW s \in Seq(S), NEW t \in Seq(S)
    PROVE  s \o t \in Seq(S) /\ ToSet(s \o t) = ToSet(s) \cup ToSet(t)
<1>1. Len(s) \in Nat /\ Len(t) \in Nat /\ s \o t \in Seq(S) /\ Len(s \o t) = Len(s) + Len(t) OBVIOUS
<1>2. \A i \in 1 .. Len(s) : (s \o t)[i] = s[i] OBVIOUS
<1>3. \A i \in 1 .. Len(t) : (s \o t)[Len(s) + i] = t[i] OBVIOUS
<1> DEFINE u == s \o t
<1>4. u \in Seq(S) /\ Len(u) = Len(s) + Len(t) BY <1>1
<1> HIDE DEF u
<1>5. ASSUME NEW y \in ToSet(u) PROVE y \in ToSet(s) \cup ToSet(t)
  <2>1. PICK i \in 1 .. Len(u) : y = u[i] BY <1>4, ElementsOf
  <2>2. CASE i <= Len(s)
    <3>1. i \in 1 .. Len(s) BY <1>1, <2>2
    <3>2. y = s[i] BY <1>2, <2>1, <3>1 DEF u
    <3>3. QED BY <3>1, <3>2, ElementsOf
  <2>3. CASE ~(i <= Len(s))
    <3>1. i - Len(s) \in 1 .. Len(t) /\ Len(s) + (i - Len(s)) = i BY <1>1, <1>4, <2>3
    <3>2. y = t[i - Len(s)] BY <1>3, <2>1, <3>1 DEF u
    <3>3. QED BY <3>1, <3>2, ElementsOf
  <2>4. QED BY <2>2, <2>3
<1>6. ASSUME NEW y \in ToSet(s) PROVE y \in ToSet(u)
  <2>1. PICK i \in 1 .. Len(s) : y = s[i] BY ElementsOf
  <2>2. i \in 1 .. Len(u) /\ u[i] = y BY <1>1, <1>2, <1>4, <2>1 DEF u
  <2>3. QED BY <1>4, <2>2, ElementsOf
<1>7. ASSUME NEW y \in ToSet(t) PROVE y \in ToSet(u)
  <2>1. PICK i \in 1 .. Len(t) : y = t[i] BY ElementsOf
  <2>2. Len(s) + i \in 1 .. Len(u) /\ u[Len(s) + i] = y BY <1>1, <1>3, <1>4, <2>1 DEF u
  <2>3. QED BY <1>4, <2>2, ElementsOf
<1>8. QED BY <1>4, <1>5, <1>6, <1>7 DEF u

\* With different weights, every rank is that of one element.
LEMMA Ranks ==
    ASSUME NEW I, IsFiniteSet(I), NEW f \in [I -> Nat], \A i, j \in I : f[i] = f[j] => i = j
    PROVE  /\ Cardinality(I) \in Nat
           /\ \A n \in 1 .. Cardinality(I) : \E i \in I : Cardinality({j \in I : f[j] < f[i]}) = n - 1
           /\ \A i \in I : Cardinality({j \in I : f[j] < f[i]}) + 1 \in 1 .. Cardinality(I)
           /\ \A i, k \in I : Cardinality({j \in I : f[j] < f[i]}) = Cardinality({j \in I : f[j] < f[k]})
                                => i = k
<1> DEFINE Below(i) == {j \in I : f[j] < f[i]}
           r == [i \in I |-> Cardinality(Below(i)) + 1]
           N == Cardinality(I)
<1>1. N \in Nat BY FS_CardinalityType
<1>2. ASSUME NEW i \in I
      PROVE  IsFiniteSet(Below(i)) /\ Cardinality(Below(i)) \in Nat /\ Cardinality(Below(i)) + 1 <= N
  <2>1. Below(i) \subseteq I \ {i} OBVIOUS
  <2>2. IsFiniteSet(I \ {i}) /\ Cardinality(I \ {i}) = N - 1 BY FS_RemoveElement
  <2>3. IsFiniteSet(Below(i)) /\ Cardinality(Below(i)) <= N - 1
    <3> HIDE DEF Below, N
    <3>1. QED BY <2>1, <2>2, FS_Subset
  <2>4. Cardinality(Below(i)) \in Nat BY <2>3, FS_CardinalityType
  <2>5. QED
    <3> HIDE DEF Below, N
    <3>1. QED BY <1>1, <2>3, <2>4
<1>3. ASSUME NEW i \in I, NEW k \in I, f[i] < f[k]
      PROVE  Cardinality(Below(i)) < Cardinality(Below(k))
  <2>1. Below(i) \cup {i} \subseteq Below(k) /\ i \notin Below(i) BY <1>3
  <2>2. IsFiniteSet(Below(i)) /\ IsFiniteSet(Below(k)) BY <1>2
  <2>3. Cardinality(Below(i) \cup {i}) = Cardinality(Below(i)) + 1
    <3> HIDE DEF Below
    <3>1. QED BY <2>1, <2>2, FS_AddElement
  <2>4. Cardinality(Below(i) \cup {i}) <= Cardinality(Below(k))
    <3> HIDE DEF Below
    <3>1. QED BY <2>1, <2>2, FS_Subset
  <2>5. Cardinality(Below(i)) \in Nat /\ Cardinality(Below(k)) \in Nat BY <1>2
  <2>6. QED
    <3> HIDE DEF Below
    <3>1. QED BY <2>3, <2>4, <2>5
<1>4. ASSUME NEW i \in I, NEW k \in I, Cardinality(Below(i)) = Cardinality(Below(k)) PROVE i = k
  <2>1. Cardinality(Below(i)) \in Nat BY <1>2
  <2>2. ~(f[i] < f[k]) /\ ~(f[k] < f[i])
    <3> HIDE DEF Below
    <3>1. QED BY <1>3, <1>4, <2>1
  <2>3. f[i] \in Nat /\ f[k] \in Nat OBVIOUS
  <2>4. QED BY <2>2, <2>3
<1>5. r \in Injection(I, 1 .. N)
  <2>1. r \in [I -> 1 .. N]
    <3> HIDE DEF Below, N
    <3>1. QED BY <1>1, <1>2
  <2>2. \A i, k \in I : r[i] = r[k] => i = k
    <3>1. ASSUME NEW i \in I, NEW k \in I, r[i] = r[k] PROVE i = k
      <4>1. Cardinality(Below(i)) \in Nat /\ Cardinality(Below(k)) \in Nat BY <1>2
      <4>2. Cardinality(Below(i)) + 1 = Cardinality(Below(k)) + 1 BY <3>1
      <4>3. Cardinality(Below(i)) = Cardinality(Below(k))
        <5> HIDE DEF Below
        <5>1. QED BY <4>1, <4>2
      <4>4. QED
        <5> HIDE DEF Below
        <5>1. QED BY <1>4, <4>3
    <3>2. QED BY <3>1
  <2>3. QED
    <3> HIDE DEF r, N
    <3>1. QED BY <2>1, <2>2 DEF Injection, IsInjective
<1>6. IsFiniteSet(1 .. N) /\ Cardinality(1 .. N) = N
  <2> HIDE DEF N
  <2>1. 1 \in Int /\ N \in Int BY <1>1
  <2>2. QED BY <1>1, <2>1, FS_Interval
<1>7. r \in Surjection(I, 1 .. N)
  <2>1. Cardinality(I) = Cardinality(1 .. N) BY <1>6
  <2> HIDE DEF r, N
  <2>2. QED BY <1>5, <1>6, <2>1, FS_Injection
<1>8. ASSUME NEW n \in 1 .. N PROVE \E i \in I : Cardinality(Below(i)) = n - 1
  <2>1. PICK i \in I : r[i] = n
    <3> HIDE DEF r, N
    <3>1. QED BY <1>7 DEF Surjection
  <2>2. Cardinality(Below(i)) + 1 = n BY <2>1
  <2>3. Cardinality(Below(i)) \in Nat BY <1>2
  <2>4. Cardinality(Below(i)) = n - 1
    <3> HIDE DEF Below, N
    <3>1. QED BY <2>2, <2>3
  <2>5. QED BY <2>4
<1>9. \A i \in I : Cardinality(Below(i)) + 1 \in 1 .. N
  <2> HIDE DEF Below, N
  <2>1. QED BY <1>1, <1>2
<1>10. QED
  <2>1. \A n \in 1 .. N : \E i \in I : Cardinality(Below(i)) = n - 1 BY <1>8
  <2>2. \A i, k \in I : Cardinality(Below(i)) = Cardinality(Below(k)) => i = k BY <1>4
  <2>3. QED BY <1>1, <1>9, <2>1, <2>2

Joins(flat, N, seqs) ==
    flat[1] = seqs[1] /\ \A i \in 1 .. N : i # 1 => flat[i] = flat[i - 1] \o seqs[i]

\* FlattenSeq puts one sequence after the other.
LEMMA FlattenSteps ==
    ASSUME NEW N \in Nat, NEW seqs, DOMAIN seqs = 1 .. N, Len(seqs) = N, N > 0
    PROVE  \E flat : FlattenSeq(seqs) = flat[N] /\ Joins(flat, N, seqs)
<1> DEFINE Upto(n, f) == f = [i \in 1 .. n |-> IF i = 1 THEN seqs[i] ELSE f[i - 1] \o seqs[i]]
           S == {n \in Nat : \E f : Upto(n, f)}
<1>1. 0 \in S
  <2> DEFINE f == [i \in 1 .. 0 |-> seqs[i]]
  <2>1. f = [i \in 1 .. 0 |-> IF i = 1 THEN seqs[i] ELSE f[i - 1] \o seqs[i]] OBVIOUS
  <2>2. Upto(0, f) BY <2>1
  <2>3. QED BY <2>2
<1>2. ASSUME NEW n \in Nat, n \in S PROVE n + 1 \in S
  <2>1. PICK f : Upto(n, f) BY <1>2
  <2> DEFINE g == [i \in 1 .. (n + 1) |-> IF i = n + 1 THEN (IF i = 1 THEN seqs[i] ELSE f[n] \o seqs[i]) ELSE f[i]]
  <2>2. ASSUME NEW i \in 1 .. (n + 1)
        PROVE  g[i] = IF i = 1 THEN seqs[i] ELSE g[i - 1] \o seqs[i]
    <3>1. CASE i = n + 1 /\ i = 1 BY <3>1
    <3>2. CASE i = n + 1 /\ i # 1
      <4>1. i - 1 = n /\ n \in 1 .. (n + 1) /\ n # n + 1 BY <3>2
      <4>2. g[i - 1] = f[n] BY <4>1
      <4>3. QED BY <3>2, <4>2
    <3>3. CASE i # n + 1 /\ i = 1
      <4>1. i \in 1 .. n BY <3>3
      <4>2. QED BY <2>1, <3>3, <4>1
    <3>4. CASE i # n + 1 /\ i # 1
      <4>1. i \in 1 .. n /\ i - 1 \in 1 .. n /\ i - 1 \in 1 .. (n + 1) /\ i - 1 # n + 1 BY <3>4
      <4>2. f[i] = f[i - 1] \o seqs[i] BY <2>1, <3>4, <4>1
      <4>3. g[i] = f[i] /\ g[i - 1] = f[i - 1] BY <3>4, <4>1
      <4>4. QED BY <3>4, <4>2, <4>3
    <3>5. QED BY <3>1, <3>2, <3>3, <3>4
  <2>3. Upto(n + 1, g)
    <3>1. g = [i \in 1 .. (n + 1) |-> g[i]] OBVIOUS
    <3> HIDE DEF g
    <3>2. QED BY <2>2, <3>1
  <2>4. QED
    <3> HIDE DEF Upto
    <3>1. QED BY <2>3
<1>3. N \in S
  <2> HIDE DEF S
  <2>1. \A n \in Nat : n \in S => n + 1 \in S BY <1>2
  <2>2. QED BY <1>1, <2>1, AllNumbers
<1> DEFINE flat == CHOOSE f : Upto(N, f)
<1>4. FlattenSeq(seqs) = flat[N] BY DEF FlattenSeq
<1>5. Upto(N, flat)
  <2>1. \E f : Upto(N, f) BY <1>3
  <2> HIDE DEF Upto
  <2>2. QED BY <2>1
<1> HIDE DEF flat
<1>6. \A i \in 1 .. N : flat[i] = IF i = 1 THEN seqs[i] ELSE flat[i - 1] \o seqs[i] BY <1>5
<1>7. 1 \in 1 .. N OBVIOUS
<1>8. flat[1] = seqs[1] BY <1>6, <1>7
<1>9. \A i \in 1 .. N : i # 1 => flat[i] = flat[i - 1] \o seqs[i] BY <1>6
<1>10. QED BY <1>4, <1>8, <1>9 DEF Joins

Typed(pair, version, current) ==
  LET r == TypeToIndex(version, pair[2], current) IN <<Append(pair[1], r[1]), r[2]>>
Trimmed(vs, limits) == IF TooMany(vs, limits) \/ TooLarge(vs, limits) THEN RemoveOldest(vs) ELSE vs
NothingTyped(list) == << <<>>, list >>
NothingWritten == [binaries |-> <<>>, index_refs |-> <<>>, written |-> 0]

\* TypesToIndexes goes through the versions with the list it extends.
LEMMA TypingSteps ==
    ASSUME NEW versions, NEW list, NEW current, Len(versions) \in Nat
    PROVE  \E after : /\ TypesToIndexes(versions, list, current) = after[Len(versions)]
                    /\ after[0] = NothingTyped(list)
                    /\ \A n \in 1 .. Len(versions) : after[n] = Typed(after[n - 1], versions[n], current)
<1> DEFINE Upto(n, f) == f = [i \in 0 .. n |-> IF i = 0 THEN NothingTyped(list) ELSE Typed(f[i - 1], versions[i], current)]
           S == {n \in Nat : \E f : Upto(n, f)}
<1>1. 0 \in S
  <2> DEFINE f == [i \in 0 .. 0 |-> NothingTyped(list)]
  <2>1. f = [i \in 0 .. 0 |-> IF i = 0 THEN NothingTyped(list) ELSE Typed(f[i - 1], versions[i], current)]
    OBVIOUS
  <2>2. Upto(0, f) BY <2>1
  <2>3. QED BY <2>2
<1>2. ASSUME NEW n \in Nat, n \in S PROVE n + 1 \in S
  <2>1. PICK f : Upto(n, f) BY <1>2
  <2> DEFINE g == [i \in 0 .. (n + 1) |-> IF i = n + 1 THEN Typed(f[i - 1], versions[i], current) ELSE f[i]]
  <2>2. ASSUME NEW i \in 0 .. (n + 1)
        PROVE  g[i] = IF i = 0 THEN NothingTyped(list) ELSE Typed(g[i - 1], versions[i], current)
    <3>1. CASE i = n + 1
      <4>1. i # 0 /\ i - 1 \in 0 .. (n + 1) /\ i - 1 # n + 1 BY <3>1
      <4>2. g[i - 1] = f[i - 1] BY <4>1
      <4>3. g[i] = Typed(f[i - 1], versions[i], current) BY <3>1
      <4> HIDE DEF g
      <4>4. QED BY <4>1, <4>2, <4>3
    <3>2. CASE i # n + 1 /\ i = 0
      <4>1. i \in 0 .. n BY <3>2
      <4>2. f[i] = NothingTyped(list) BY <2>1, <3>2, <4>1
      <4>3. g[i] = f[i] BY <3>2
      <4> HIDE DEF g
      <4>4. QED BY <3>2, <4>2, <4>3
    <3>3. CASE i # n + 1 /\ i # 0
      <4>1. i \in 0 .. n /\ i - 1 \in 0 .. n /\ i - 1 \in 0 .. (n + 1) /\ i - 1 # n + 1 BY <3>3
      <4>2. f[i] = Typed(f[i - 1], versions[i], current) BY <2>1, <3>3, <4>1
      <4>3. g[i] = f[i] /\ g[i - 1] = f[i - 1] BY <3>3, <4>1
      <4> HIDE DEF g
      <4>4. QED BY <3>3, <4>2, <4>3
    <3>4. QED BY <3>1, <3>2, <3>3
  <2>3. Upto(n + 1, g)
    <3>1. g = [i \in 0 .. (n + 1) |-> g[i]] OBVIOUS
    <3> HIDE DEF g
    <3>2. QED BY <2>2, <3>1
  <2>4. QED
    <3> HIDE DEF Upto
    <3>1. QED BY <2>3
<1>3. Len(versions) \in S
  <2> HIDE DEF S
  <2>1. \A n \in Nat : n \in S => n + 1 \in S BY <1>2
  <2>2. QED BY <1>1, <2>1, AllNumbers
<1> DEFINE after == CHOOSE f : Upto(Len(versions), f)
<1>4. TypesToIndexes(versions, list, current) = after[Len(versions)] BY DEF TypesToIndexes, Typed, NothingTyped
<1>5. Upto(Len(versions), after)
  <2>1. \E f : Upto(Len(versions), f) BY <1>3
  <2> HIDE DEF Upto
  <2>2. QED BY <2>1
<1> HIDE DEF after
<1>6. after[0] = NothingTyped(list) BY <1>5
<1>7. ASSUME NEW n \in 1 .. Len(versions) PROVE after[n] = Typed(after[n - 1], versions[n], current)
  <2>1. n \in 0 .. Len(versions) /\ n # 0 OBVIOUS
  <2>2. after[n] = IF n = 0 THEN NothingTyped(list) ELSE Typed(after[n - 1], versions[n], current) BY <1>5, <2>1
  <2>3. QED BY <2>1, <2>2
<1>8. QED BY <1>4, <1>6, <1>7

\* trim_histories removes the oldest version as long as there are too many.
LEMMA TrimmingSteps ==
    ASSUME NEW versions, NEW limits, Len(versions) \in Nat
    PROVE  \E after : /\ trim_histories(versions, limits) = after[Len(versions)]
                    /\ after[0] = versions
                    /\ \A n \in 1 .. Len(versions) : after[n] = Trimmed(after[n - 1], limits)
<1> DEFINE Upto(n, f) == f = [i \in 0 .. n |-> IF i = 0 THEN versions ELSE Trimmed(f[i - 1], limits)]
           S == {n \in Nat : \E f : Upto(n, f)}
<1>1. 0 \in S
  <2> DEFINE f == [i \in 0 .. 0 |-> versions]
  <2>1. f = [i \in 0 .. 0 |-> IF i = 0 THEN versions ELSE Trimmed(f[i - 1], limits)] OBVIOUS
  <2>2. Upto(0, f) BY <2>1
  <2>3. QED BY <2>2
<1>2. ASSUME NEW n \in Nat, n \in S PROVE n + 1 \in S
  <2>1. PICK f : Upto(n, f) BY <1>2
  <2> DEFINE g == [i \in 0 .. (n + 1) |-> IF i = n + 1 THEN Trimmed(f[i - 1], limits) ELSE f[i]]
  <2>2. ASSUME NEW i \in 0 .. (n + 1)
        PROVE  g[i] = IF i = 0 THEN versions ELSE Trimmed(g[i - 1], limits)
    <3>1. CASE i = n + 1
      <4>1. i # 0 /\ i - 1 \in 0 .. (n + 1) /\ i - 1 # n + 1 BY <3>1
      <4>2. g[i - 1] = f[i - 1] BY <4>1
      <4>3. g[i] = Trimmed(f[i - 1], limits) BY <3>1
      <4> HIDE DEF g
      <4>4. QED BY <4>1, <4>2, <4>3
    <3>2. CASE i # n + 1 /\ i = 0
      <4>1. i \in 0 .. n BY <3>2
      <4>2. f[i] = versions BY <2>1, <3>2, <4>1
      <4>3. g[i] = f[i] BY <3>2
      <4> HIDE DEF g
      <4>4. QED BY <3>2, <4>2, <4>3
    <3>3. CASE i # n + 1 /\ i # 0
      <4>1. i \in 0 .. n /\ i - 1 \in 0 .. n /\ i - 1 \in 0 .. (n + 1) /\ i - 1 # n + 1 BY <3>3
      <4>2. f[i] = Trimmed(f[i - 1], limits) BY <2>1, <3>3, <4>1
      <4>3. g[i] = f[i] /\ g[i - 1] = f[i - 1] BY <3>3, <4>1
      <4> HIDE DEF g
      <4>4. QED BY <3>3, <4>2, <4>3
    <3>4. QED BY <3>1, <3>2, <3>3
  <2>3. Upto(n + 1, g)
    <3>1. g = [i \in 0 .. (n + 1) |-> g[i]] OBVIOUS
    <3> HIDE DEF g
    <3>2. QED BY <2>2, <3>1
  <2>4. QED
    <3> HIDE DEF Upto
    <3>1. QED BY <2>3
<1>3. Len(versions) \in S
  <2> HIDE DEF S
  <2>1. \A n \in Nat : n \in S => n + 1 \in S BY <1>2
  <2>2. QED BY <1>1, <2>1, AllNumbers
<1> DEFINE after == CHOOSE f : Upto(Len(versions), f)
<1>4. trim_histories(versions, limits) = after[Len(versions)] BY DEF trim_histories, Trimmed
<1>5. Upto(Len(versions), after)
  <2>1. \E f : Upto(Len(versions), f) BY <1>3
  <2> HIDE DEF Upto
  <2>2. QED BY <2>1
<1> HIDE DEF after
<1>6. after[0] = versions BY <1>5
<1>7. ASSUME NEW n \in 1 .. Len(versions) PROVE after[n] = Trimmed(after[n - 1], limits)
  <2>1. n \in 0 .. Len(versions) /\ n # 0 OBVIOUS
  <2>2. after[n] = IF n = 0 THEN versions ELSE Trimmed(after[n - 1], limits) BY <1>5, <2>1
  <2>3. QED BY <2>1, <2>2
<1>8. QED BY <1>4, <1>6, <1>7

\* read_binaries adds the binaries in their order.
LEMMA ReadingSteps ==
    ASSUME NEW set, NEW binaries, Len(binaries) \in Nat
    PROVE  \E after : /\ read_binaries(set, binaries) = after[Len(binaries)]
                    /\ after[0] = set
                    /\ \A n \in 1 .. Len(binaries) : after[n] = add(after[n - 1], binaries[n])
<1> DEFINE Upto(n, f) == f = [i \in 0 .. n |-> IF i = 0 THEN set ELSE add(f[i - 1], binaries[i])]
           S == {n \in Nat : \E f : Upto(n, f)}
<1>1. 0 \in S
  <2> DEFINE f == [i \in 0 .. 0 |-> set]
  <2>1. f = [i \in 0 .. 0 |-> IF i = 0 THEN set ELSE add(f[i - 1], binaries[i])] OBVIOUS
  <2>2. Upto(0, f) BY <2>1
  <2>3. QED BY <2>2
<1>2. ASSUME NEW n \in Nat, n \in S PROVE n + 1 \in S
  <2>1. PICK f : Upto(n, f) BY <1>2
  <2> DEFINE g == [i \in 0 .. (n + 1) |-> IF i = n + 1 THEN add(f[i - 1], binaries[i]) ELSE f[i]]
  <2>2. ASSUME NEW i \in 0 .. (n + 1)
        PROVE  g[i] = IF i = 0 THEN set ELSE add(g[i - 1], binaries[i])
    <3>1. CASE i = n + 1
      <4>1. i # 0 /\ i - 1 \in 0 .. (n + 1) /\ i - 1 # n + 1 BY <3>1
      <4>2. g[i - 1] = f[i - 1] BY <4>1
      <4>3. g[i] = add(f[i - 1], binaries[i]) BY <3>1
      <4> HIDE DEF g
      <4>4. QED BY <4>1, <4>2, <4>3
    <3>2. CASE i # n + 1 /\ i = 0
      <4>1. i \in 0 .. n BY <3>2
      <4>2. f[i] = set BY <2>1, <3>2, <4>1
      <4>3. g[i] = f[i] BY <3>2
      <4> HIDE DEF g
      <4>4. QED BY <3>2, <4>2, <4>3
    <3>3. CASE i # n + 1 /\ i # 0
      <4>1. i \in 0 .. n /\ i - 1 \in 0 .. n /\ i - 1 \in 0 .. (n + 1) /\ i - 1 # n + 1 BY <3>3
      <4>2. f[i] = add(f[i - 1], binaries[i]) BY <2>1, <3>3, <4>1
      <4>3. g[i] = f[i] /\ g[i - 1] = f[i - 1] BY <3>3, <4>1
      <4> HIDE DEF g
      <4>4. QED BY <3>3, <4>2, <4>3
    <3>4. QED BY <3>1, <3>2, <3>3
  <2>3. Upto(n + 1, g)
    <3>1. g = [i \in 0 .. (n + 1) |-> g[i]] OBVIOUS
    <3> HIDE DEF g
    <3>2. QED BY <2>2, <3>1
  <2>4. QED
    <3> HIDE DEF Upto
    <3>1. QED BY <2>3
<1>3. Len(binaries) \in S
  <2> HIDE DEF S
  <2>1. \A n \in Nat : n \in S => n + 1 \in S BY <1>2
  <2>2. QED BY <1>1, <2>1, AllNumbers
<1> DEFINE after == CHOOSE f : Upto(Len(binaries), f)
<1>4. read_binaries(set, binaries) = after[Len(binaries)] BY DEF read_binaries
<1>5. Upto(Len(binaries), after)
  <2>1. \E f : Upto(Len(binaries), f) BY <1>3
  <2> HIDE DEF Upto
  <2>2. QED BY <2>1
<1> HIDE DEF after
<1>6. after[0] = set BY <1>5
<1>7. ASSUME NEW n \in 1 .. Len(binaries) PROVE after[n] = add(after[n - 1], binaries[n])
  <2>1. n \in 0 .. Len(binaries) /\ n # 0 OBVIOUS
  <2>2. after[n] = IF n = 0 THEN set ELSE add(after[n - 1], binaries[n]) BY <1>5, <2>1
  <2>3. QED BY <2>1, <2>2
<1>8. QED BY <1>4, <1>6, <1>7

\* write_all_bytes takes the hashes in their order.
LEMMA WritingSteps ==
    ASSUME NEW set, NEW hashes, Len(hashes) \in Nat
    PROVE  \E after : /\ write_all_bytes(set, hashes) =
                         [binaries |-> after[Len(hashes)].binaries,
                          set |-> [set EXCEPT !.hash_index_ref = after[Len(hashes)].index_refs]]
                    /\ after[0] = NothingWritten
                    /\ \A n \in 1 .. Len(hashes) : after[n] = write_bytes(set, after[n - 1], hashes[n])
<1> DEFINE Upto(n, f) == f = [i \in 0 .. n |-> IF i = 0 THEN NothingWritten ELSE write_bytes(set, f[i - 1], hashes[i])]
           S == {n \in Nat : \E f : Upto(n, f)}
<1>1. 0 \in S
  <2> DEFINE f == [i \in 0 .. 0 |-> NothingWritten]
  <2>1. f = [i \in 0 .. 0 |-> IF i = 0 THEN NothingWritten ELSE write_bytes(set, f[i - 1], hashes[i])] OBVIOUS
  <2>2. Upto(0, f) BY <2>1
  <2>3. QED BY <2>2
<1>2. ASSUME NEW n \in Nat, n \in S PROVE n + 1 \in S
  <2>1. PICK f : Upto(n, f) BY <1>2
  <2> DEFINE g == [i \in 0 .. (n + 1) |-> IF i = n + 1 THEN write_bytes(set, f[i - 1], hashes[i]) ELSE f[i]]
  <2>2. ASSUME NEW i \in 0 .. (n + 1)
        PROVE  g[i] = IF i = 0 THEN NothingWritten ELSE write_bytes(set, g[i - 1], hashes[i])
    <3>1. CASE i = n + 1
      <4>1. i # 0 /\ i - 1 \in 0 .. (n + 1) /\ i - 1 # n + 1 BY <3>1
      <4>2. g[i - 1] = f[i - 1] BY <4>1
      <4>3. g[i] = write_bytes(set, f[i - 1], hashes[i]) BY <3>1
      <4> HIDE DEF g
      <4>4. QED BY <4>1, <4>2, <4>3
    <3>2. CASE i # n + 1 /\ i = 0
      <4>1. i \in 0 .. n BY <3>2
      <4>2. f[i] = NothingWritten BY <2>1, <3>2, <4>1
      <4>3. g[i] = f[i] BY <3>2
      <4> HIDE DEF g
      <4>4. QED BY <3>2, <4>2, <4>3
    <3>3. CASE i # n + 1 /\ i # 0
      <4>1. i \in 0 .. n /\ i - 1 \in 0 .. n /\ i - 1 \in 0 .. (n + 1) /\ i - 1 # n + 1 BY <3>3
      <4>2. f[i] = write_bytes(set, f[i - 1], hashes[i]) BY <2>1, <3>3, <4>1
      <4>3. g[i] = f[i] /\ g[i - 1] = f[i - 1] BY <3>3, <4>1
      <4> HIDE DEF g
      <4>4. QED BY <3>3, <4>2, <4>3
    <3>4. QED BY <3>1, <3>2, <3>3
  <2>3. Upto(n + 1, g)
    <3>1. g = [i \in 0 .. (n + 1) |-> g[i]] OBVIOUS
    <3> HIDE DEF g
    <3>2. QED BY <2>2, <3>1
  <2>4. QED
    <3> HIDE DEF Upto
    <3>1. QED BY <2>3
<1>3. Len(hashes) \in S
  <2> HIDE DEF S
  <2>1. \A n \in Nat : n \in S => n + 1 \in S BY <1>2
  <2>2. QED BY <1>1, <2>1, AllNumbers
<1> DEFINE after == CHOOSE f : Upto(Len(hashes), f)
<1>4. write_all_bytes(set, hashes) =
        [binaries |-> after[Len(hashes)].binaries,
         set |-> [set EXCEPT !.hash_index_ref = after[Len(hashes)].index_refs]]
  BY DEF write_all_bytes, NothingWritten
<1>5. Upto(Len(hashes), after)
  <2>1. \E f : Upto(Len(hashes), f) BY <1>3
  <2> HIDE DEF Upto
  <2>2. QED BY <2>1
<1> HIDE DEF after
<1>6. after[0] = NothingWritten BY <1>5
<1>7. ASSUME NEW n \in 1 .. Len(hashes) PROVE after[n] = write_bytes(set, after[n - 1], hashes[n])
  <2>1. n \in 0 .. Len(hashes) /\ n # 0 OBVIOUS
  <2>2. after[n] = IF n = 0 THEN NothingWritten ELSE write_bytes(set, after[n - 1], hashes[n]) BY <1>5, <2>1
  <2>3. QED BY <2>1, <2>2
<1>8. QED BY <1>4, <1>6, <1>7

-----------------------------------------------------------------------------
(* Versions and what they have attached *)

\* A sequence of versions is told by its places.
LEMMA AttachedAt ==
    ASSUME NEW vs, NEW M, AllAttached(vs, M)
    PROVE  /\ Len(vs) \in Nat /\ DOMAIN vs = 1 .. Len(vs) /\ vs \in Seq(ToSet(vs))
           /\ \A i \in 1 .. Len(vs) : Attached(vs[i], M) /\ vs[i] \in ToSet(vs)
<1>1. vs \in Seq(ToSet(vs)) BY DEF AllAttached
<1>2. \A i \in 1 .. Len(vs) : vs[i] \in ToSet(vs) BY <1>1, ElementsOf
<1>3. QED BY <1>1, <1>2 DEF AllAttached

\* And built by them.
LEMMA AttachedFrom ==
    ASSUME NEW n \in Nat, NEW vs, vs = [i \in 1 .. n |-> vs[i]], NEW M,
           \A i \in 1 .. n : Attached(vs[i], M)
    PROVE  AllAttached(vs, M) /\ Len(vs) = n
<1>1. vs \in [1 .. n -> ToSet(vs)]
  <2>1. DOMAIN vs = 1 .. n OBVIOUS
  <2>2. \A i \in 1 .. n : vs[i] \in ToSet(vs) BY <2>1 DEF ToSet
  <2>3. QED BY <2>2
<1>2. vs \in Seq(ToSet(vs)) /\ Len(vs) = n BY <1>1
<1>3. \A v \in ToSet(vs) : Attached(v, M) BY <1>1 DEF ToSet
<1>4. QED BY <1>2, <1>3 DEF AllAttached

\* A sequence over such versions is one of them.
LEMMA SomeAttached ==
    ASSUME NEW S, NEW M, \A x \in S : Attached(x, M), NEW vs \in Seq(S)
    PROVE  AllAttached(vs, M)
<1>1. ToSet(vs) \subseteq S BY ElementsOf
<1>2. vs \in Seq(ToSet(vs)) BY ElementsOf
<1>3. QED BY <1>1, <1>2 DEF AllAttached

\* No version refers to anything.
LEMMA NoVersions ==
    ASSUME NEW M
    PROVE  AllAttached(<<>>, M)
<1>1. ToSet(<<>>) = {} /\ <<>> \in Seq({}) BY DEF ToSet
<1>2. QED BY <1>1 DEF AllAttached

\* One more version.
LEMMA AppendAttached ==
    ASSUME NEW vs, NEW M, AllAttached(vs, M), NEW v, Attached(v, M)
    PROVE  AllAttached(Append(vs, v), M) /\ Len(Append(vs, v)) = Len(vs) + 1
<1> DEFINE S == ToSet(vs) \cup {v}
<1>1. vs \in Seq(S) /\ v \in S BY AttachedAt
<1>2. \A x \in S : Attached(x, M) BY DEF AllAttached
<1> HIDE DEF S
<1>3. Append(vs, v) \in Seq(S) /\ Len(Append(vs, v)) = Len(vs) + 1 BY <1>1
<1>4. QED BY <1>2, <1>3, SomeAttached

\* Two sequences of versions.
LEMMA ConcatenatedAttached ==
    ASSUME NEW vs, NEW ws, NEW M, AllAttached(vs, M), AllAttached(ws, M)
    PROVE  AllAttached(vs \o ws, M) /\ Len(vs \o ws) = Len(vs) + Len(ws)
<1> DEFINE S == ToSet(vs) \cup ToSet(ws)
<1>1. vs \in Seq(S) /\ ws \in Seq(S) BY AttachedAt
<1>2. \A x \in S : Attached(x, M) BY DEF AllAttached
<1> HIDE DEF S
<1>3. vs \o ws \in Seq(S) /\ Len(vs \o ws) = Len(vs) + Len(ws) BY <1>1
<1>4. QED BY <1>2, <1>3, SomeAttached

\* Removing one version leaves the others.
LEMMA RemovedAttached ==
    ASSUME NEW vs, NEW M, AllAttached(vs, M), NEW k \in 1 .. Len(vs)
    PROVE  AllAttached(RemoveAt(vs, k), M) /\ Len(RemoveAt(vs, k)) = Len(vs) - 1
<1> DEFINE S == ToSet(vs)
           before == SubSeq(vs, 1, k - 1)
           after == SubSeq(vs, k + 1, Len(vs))
<1>1. Len(vs) \in Nat /\ (\A i \in 1 .. Len(vs) : vs[i] \in S) /\ \A x \in S : Attached(x, M)
  BY AttachedAt DEF AllAttached
<1> HIDE DEF S
<1>2. before \in Seq(S) /\ Len(before) = k - 1
  <2>1. 1 \in Int /\ k - 1 \in Int /\ \A i \in 1 .. (k - 1) : vs[i] \in S BY <1>1
  <2>2. /\ SubSeq(vs, 1, k - 1) \in Seq(S)
        /\ Len(SubSeq(vs, 1, k - 1)) = IF 1 <= k - 1 THEN (k - 1) - 1 + 1 ELSE 0
    BY <2>1, SubSeqProperties
  <2>3. QED BY <2>2, <1>1
<1>3. after \in Seq(S) /\ Len(after) = Len(vs) - k
  <2>1. k + 1 \in Int /\ Len(vs) \in Int /\ \A i \in (k + 1) .. Len(vs) : vs[i] \in S BY <1>1
  <2>2. /\ SubSeq(vs, k + 1, Len(vs)) \in Seq(S)
        /\ Len(SubSeq(vs, k + 1, Len(vs))) = IF k + 1 <= Len(vs) THEN Len(vs) - (k + 1) + 1 ELSE 0
    BY <2>1, SubSeqProperties
  <2>3. QED BY <2>2, <1>1
<1>4. RemoveAt(vs, k) = before \o after BY DEF RemoveAt
<1> HIDE DEF before, after
<1>5. before \o after \in Seq(S) /\ Len(before \o after) = Len(vs) - 1 BY <1>1, <1>2, <1>3
<1>6. QED BY <1>1, <1>4, <1>5, SomeAttached

\* Of some versions one is the oldest.
LEMMA OldestThere ==
    ASSUME NEW vs, NEW M, AllAttached(vs, M), Len(vs) > 0
    PROVE  \E k \in 1 .. Len(vs) : RemoveOldest(vs) = RemoveAt(vs, k)
<1>1. Len(vs) \in Nat /\ DOMAIN vs = 1 .. Len(vs) /\ \A i \in 1 .. Len(vs) : vs[i].time \in Nat
  BY AttachedAt DEF Attached
<1> DEFINE I == DOMAIN vs
           times == {vs[i].time : i \in I}
<1>2. PICK t \in times : \A u \in times : t <= u
  <2>1. times \subseteq Nat /\ times # {} BY <1>1
  <2> HIDE DEF times
  <2>2. QED BY <2>1, Least
<1> DEFINE J == {i \in I : vs[i].time = t}
<1>3. PICK k \in J : \A j \in J : k <= j
  <2>1. J \subseteq Nat /\ J # {} BY <1>1, <1>2
  <2> HIDE DEF J
  <2>2. QED BY <2>1, Least
<1>4. \A j \in I : vs[k].time <= vs[j].time /\ (vs[k].time = vs[j].time => k <= j) BY <1>2, <1>3
<1> DEFINE oldest == CHOOSE i \in DOMAIN vs :
                       \A j \in DOMAIN vs : /\ vs[i].time <= vs[j].time
                                            /\ vs[i].time = vs[j].time => i <= j
<1>5. oldest \in DOMAIN vs BY <1>3, <1>4
<1>6. RemoveOldest(vs) = RemoveAt(vs, oldest) BY DEF RemoveOldest
<1> HIDE DEF oldest
<1>7. QED BY <1>1, <1>5, <1>6

\* What the limits leave of the versions.
LEMMA TrimmedAttached ==
    ASSUME NEW vs, NEW M, AllAttached(vs, M), NEW limits
    PROVE  AllAttached(trim_histories(vs, limits), M)
<1>1. Len(vs) \in Nat BY AttachedAt
<1>2. PICK left : /\ trim_histories(vs, limits) = left[Len(vs)]
                  /\ left[0] = vs
                  /\ \A n \in 1 .. Len(vs) : left[n] = Trimmed(left[n - 1], limits)
  BY <1>1, TrimmingSteps
<1> DEFINE S == {n \in Nat : n <= Len(vs) => AllAttached(left[n], M) /\ Len(left[n]) + n >= Len(vs)}
<1>3. 0 \in S BY <1>1, <1>2
<1>4. ASSUME NEW n \in Nat, n \in S PROVE n + 1 \in S
  <2> DEFINE m == n + 1
  <2>0. m \in Nat OBVIOUS
  <2> SUFFICES m <= Len(vs) => AllAttached(left[m], M) /\ Len(left[m]) + m >= Len(vs)
    BY <2>0
  <2>1. SUFFICES ASSUME m <= Len(vs)
                 PROVE  AllAttached(left[m], M) /\ Len(left[m]) + m >= Len(vs)
    OBVIOUS
  <2>2. AllAttached(left[n], M) /\ Len(left[n]) + n >= Len(vs) BY <1>1, <1>4, <2>1
  <2>3. Len(left[n]) \in Nat BY <2>2, AttachedAt
  <2>4. left[m] = Trimmed(left[n], limits)
    <3>1. n + 1 \in 1 .. Len(vs) /\ (n + 1) - 1 = n BY <1>1, <2>1
    <3>2. QED BY <1>2, <3>1
  <2>5. CASE TooMany(left[n], limits) \/ TooLarge(left[n], limits)
    <3>1. Len(left[n]) > 0 BY <1>1, <2>1, <2>2, <2>3
    <3>2. PICK k \in 1 .. Len(left[n]) : RemoveOldest(left[n]) = RemoveAt(left[n], k)
      BY <2>2, <3>1, OldestThere
    <3>3. AllAttached(RemoveAt(left[n], k), M) /\ Len(RemoveAt(left[n], k)) = Len(left[n]) - 1
      BY <2>2, RemovedAttached
    <3>4. left[m] = RemoveAt(left[n], k) BY <2>4, <2>5, <3>2 DEF Trimmed
    <3>5. QED BY <1>1, <2>2, <2>3, <3>3, <3>4
  <2>6. CASE ~(TooMany(left[n], limits) \/ TooLarge(left[n], limits))
    <3>1. left[m] = left[n] BY <2>4, <2>6 DEF Trimmed
    <3> DEFINE w == left[n]
    <3>3. AllAttached(w, M) /\ Len(w) + n >= Len(vs) /\ Len(w) \in Nat /\ left[m] = w BY <2>2, <2>3, <3>1
    <3> HIDE DEF w
    <3> HIDE DEF m
    <3>4. AllAttached(left[m], M) BY <3>3
    <3>5. Len(left[m]) = Len(w) BY <3>3
    <3>6. m = n + 1 BY DEF m
    <3>7. Len(left[m]) + m >= Len(vs) BY <3>3, <3>5, <3>6, <1>1
    <3>2. QED BY <3>4, <3>7
  <2>7. QED BY <2>5, <2>6
<1>5. Len(vs) \in S
  <2> HIDE DEF S
  <2>1. \A n \in Nat : n \in S => n + 1 \in S BY <1>4
  <2>2. QED BY <1>1, <1>3, <2>1, AllNumbers
<1>6. QED BY <1>1, <1>2, <1>5

-----------------------------------------------------------------------------
(* The operations on an entry and its versions *)

Kept(e, M) == Attached(e, M) /\ AllAttached(e.history, M)
Alike(e, f) == DOMAIN e = DOMAIN f /\ e.time = f.time /\ e.bins = f.bins /\ e.was = f.was

\* What differs in type, versions or share alone has the same attached.
LEMMA AlikeAttached ==
    ASSUME NEW e, NEW f, NEW M, Alike(e, f), Attached(f, M)
    PROVE  Attached(e, M)
  BY DEF Alike, Attached

\* A change of the type alone.
LEMMA IndexedAttached ==
    ASSUME NEW v, NEW M, Attached(v, M), NEW types
    PROVE  Attached(IndexToType(v, types), M)
  BY DEF Attached, IndexToType, VersionFields

\* Taking the type out of a version leaves what it has attached.
LEMMA TypedAttached ==
    ASSUME NEW v, NEW M, Attached(v, M), NEW types, NEW current
    PROVE  Attached(TypeToIndex(v, types, current)[1], M)
  BY DEF Attached, TypeToIndex, VersionFields

\* Of all versions.
LEMMA AllTypedAttached ==
    ASSUME NEW vs, NEW M, AllAttached(vs, M), NEW list, NEW current
    PROVE  AllAttached(TypesToIndexes(vs, list, current)[1], M)
<1>1. Len(vs) \in Nat /\ \A i \in 1 .. Len(vs) : Attached(vs[i], M) BY AttachedAt
<1>2. PICK after : /\ TypesToIndexes(vs, list, current) = after[Len(vs)]
                   /\ after[0] = NothingTyped(list)
                   /\ \A n \in 1 .. Len(vs) : after[n] = Typed(after[n - 1], vs[n], current)
  BY <1>1, TypingSteps
<1> DEFINE S == {n \in Nat : n <= Len(vs) => AllAttached(after[n][1], M)}
<1>3. 0 \in S
  <2>1. after[0][1] = <<>> BY <1>2 DEF NothingTyped
  <2>2. AllAttached(after[0][1], M) BY <2>1, NoVersions
  <2>3. QED BY <2>2
<1>4. ASSUME NEW n \in Nat, n \in S PROVE n + 1 \in S
  <2> DEFINE m == n + 1
  <2>1. m \in Nat OBVIOUS
  <2>2. ASSUME m <= Len(vs) PROVE AllAttached(after[m][1], M)
    <3>1. AllAttached(after[n][1], M) BY <1>1, <1>4, <2>2
    <3>2. m \in 1 .. Len(vs) /\ m - 1 = n BY <1>1, <2>2
    <3>3. after[m] = Typed(after[n], vs[m], current)
      <4> HIDE DEF m
      <4>1. QED BY <1>2, <3>2
    <3> HIDE DEF m
    <3>4. after[m][1] = Append(after[n][1], TypeToIndex(vs[m], after[n][2], current)[1])
      BY <3>3 DEF Typed
    <3>5. Attached(vs[m], M) BY <1>1, <3>2
    <3>6. Attached(TypeToIndex(vs[m], after[n][2], current)[1], M) BY <3>5, TypedAttached
    <3> DEFINE w == TypeToIndex(vs[m], after[n][2], current)[1]
               u == after[n][1]
    <3>7. Attached(w, M) /\ AllAttached(u, M) /\ after[m][1] = Append(u, w) BY <3>1, <3>4, <3>6
    <3> HIDE DEF w, u
    <3>8. AllAttached(Append(u, w), M) /\ Len(Append(u, w)) = Len(u) + 1 BY <3>7, AppendAttached
    <3>9. QED BY <3>7, <3>8
  <2>3. QED BY <2>1, <2>2
<1>5. Len(vs) \in S
  <2> HIDE DEF S
  <2>1. \A n \in Nat : n \in S => n + 1 \in S BY <1>4
  <2>2. QED BY <1>1, <1>3, <2>1, AllNumbers
<1>6. AllAttached(after[Len(vs)][1], M) BY <1>1, <1>5
<1>7. QED BY <1>2, <1>6

\* The version just made is the present entry without its own versions.
LEMMA CreatedAttached ==
    ASSUME NEW e, NEW M, Kept(e, M), NEW limits
    PROVE  AllAttached(create_histories(e, limits), M)
<1> DEFINE v == [e EXCEPT !.cd.list = <<>>, !.history = <<>>, !.share = <<>>]
           vs == Append(e.history, v)
<1>1. Attached(v, M) BY DEF Kept, Attached, VersionFields
<1>2. AllAttached(e.history, M) BY DEF Kept
<1>3. create_histories(e, limits) = trim_histories(vs, limits) BY DEF create_histories
<1>4. AllAttached(vs, M) /\ Len(vs) = Len(e.history) + 1
  <2> HIDE DEF v
  <2>1. QED BY <1>1, <1>2, AppendAttached
<1> HIDE DEF vs
<1>5. AllAttached(trim_histories(vs, limits), M) BY <1>4, TrimmedAttached
<1>6. QED BY <1>3, <1>5

\* Trimming an entry in place.
LEMMA MaintainedKept ==
    ASSUME NEW e, NEW M, Kept(e, M), NEW limits
    PROVE  Kept(maintain_history(e, limits), M)
<1>1. AllAttached(trim_histories(e.history, limits), M) BY TrimmedAttached DEF Kept
<1> DEFINE h == trim_histories(e.history, limits)
           f == maintain_history(e, limits)
<1>2. f.history = h /\ Alike(f, e) BY DEF maintain_history, Kept, Attached, VersionFields, Alike
<1> HIDE DEF h, f
<1>3. Attached(f, M) BY <1>2, AlikeAttached DEF Kept
<1>4. AllAttached(f.history, M) BY <1>1, <1>2 DEF h
<1>5. QED BY <1>3, <1>4 DEF Kept, f

\* The last version gives its type to the list.
LEMMA SerializedAttached ==
    ASSUME NEW e, DOMAIN e = VersionFields, NEW M, AllAttached(e.history, M)
    PROVE  LET f == serialize_last_history_entry_entry_type_data(e)
           IN  Alike(f, e) /\ AllAttached(f.history, M)
<1> DEFINE f == serialize_last_history_entry_entry_type_data(e)
           k == Len(e.history)
           r == TypeToIndex(Last(e.history), e.cd.list, e.cd.data)
           h == [e.history EXCEPT ![k] = r[1]]
<1>1. CASE e.history = <<>>
  <2>1. f = e BY <1>1 DEF serialize_last_history_entry_entry_type_data
  <2>2. QED BY <2>1 DEF Alike
<1>2. CASE e.history # <<>>
  <2>1. k \in Nat /\ DOMAIN e.history = 1 .. k /\ e.history \in Seq(ToSet(e.history))
        /\ \A i \in 1 .. k : Attached(e.history[i], M) BY AttachedAt
  <2>2. k \in 1 .. k BY <1>2, <2>1
  <2>3. Attached(r[1], M)
    <3>1. Attached(Last(e.history), M) BY <2>1, <2>2 DEF Last
    <3>2. QED BY <3>1, TypedAttached
  <2>4. f = [e EXCEPT !.history[k] = r[1], !.cd.list = r[2]]
    BY <1>2 DEF serialize_last_history_entry_entry_type_data
  <2> HIDE DEF r
  <2>5. Alike(f, e) /\ f.history = h
    <3> HIDE DEF f, k
    <3>1. QED BY <2>4 DEF Alike, VersionFields
  <2>6. h = [i \in 1 .. k |-> h[i]] BY <2>1
  <2>7. \A i \in 1 .. k : Attached(h[i], M) BY <2>1, <2>3
  <2>8. AllAttached(h, M) /\ Len(h) = k
    <3> HIDE DEF h, k
    <3>1. QED BY <2>1, <2>6, <2>7, AttachedFrom
  <2>9. QED
    <3> HIDE DEF f, h
    <3>1. Alike(f, e) /\ AllAttached(f.history, M) BY <2>5, <2>8
    <3>2. QED BY <3>1 DEF f
<1>3. QED
  <2>1. Alike(f, e) /\ AllAttached(f.history, M) BY <1>1, <1>2
  <2>2. QED BY <2>1

\* An operation on every version on its own.
LEMMA AllIndexedAttached ==
    ASSUME NEW vs, NEW M, AllAttached(vs, M), NEW types
    PROVE  AllAttached([i \in DOMAIN vs |-> IndexToType(vs[i], types)], M)
<1> DEFINE ws == [i \in DOMAIN vs |-> IndexToType(vs[i], types)]
           n == Len(vs)
<1>1. n \in Nat /\ DOMAIN vs = 1 .. n /\ \A i \in 1 .. n : Attached(vs[i], M) BY AttachedAt
<1>2. ws = [i \in 1 .. n |-> ws[i]] BY <1>1
<1>3. \A i \in 1 .. n : Attached(ws[i], M)
  <2>1. \A i \in 1 .. n : Attached(IndexToType(vs[i], types), M) BY <1>1, IndexedAttached
  <2>2. QED BY <1>1, <2>1
<1> HIDE DEF ws, n
<1>4. AllAttached(ws, M) /\ Len(ws) = n BY <1>1, <1>2, <1>3, AttachedFrom
<1>5. QED BY <1>4 DEF ws

\* The present type leaves the list.
LEMMA AdjustedAttached ==
    ASSUME NEW e, DOMAIN e = VersionFields, NEW M, AllAttached(e.history, M)
    PROVE  LET f == adjust_history_entries_entry_type_indexes(e)
           IN  Alike(f, e) /\ AllAttached(f.history, M)
<1> DEFINE f == adjust_history_entries_entry_type_indexes(e)
           typed == [i \in DOMAIN e.history |-> IndexToType(e.history[i], e.cd.list)]
           list == SelectSeq(e.cd.list, LAMBDA t : t # e.cd.data)
           r == TypesToIndexes(typed, list, e.cd.data)
<1>1. CASE e.cd.data = None \/ ~Contains(e.cd.list, e.cd.data)
  <2>1. f = e BY <1>1 DEF adjust_history_entries_entry_type_indexes
  <2>2. QED BY <2>1 DEF Alike
<1>2. CASE ~(e.cd.data = None \/ ~Contains(e.cd.list, e.cd.data))
  <2>1. f = [e EXCEPT !.history = r[1], !.cd.list = r[2]]
    BY <1>2 DEF adjust_history_entries_entry_type_indexes
  <2>2. AllAttached(typed, M) BY AllIndexedAttached
  <2> HIDE DEF typed, list
  <2>3. AllAttached(r[1], M) BY <2>2, AllTypedAttached
  <2> HIDE DEF r, f
  <2>4. f.history = r[1] /\ Alike(f, e) BY <2>1 DEF Alike, VersionFields
  <2>5. Alike(f, e) /\ AllAttached(f.history, M) BY <2>3, <2>4
  <2>6. QED BY <2>5 DEF f
<1>3. QED
  <2>1. Alike(f, e) /\ AllAttached(f.history, M) BY <1>1, <1>2
  <2>2. QED BY <2>1

\* An edit pushes the present content and takes the new one.
LEMMA UpdatedAttached ==
    ASSUME NEW e, NEW M, Kept(e, M), NEW form, NEW customs, NEW limits, NEW now
    PROVE  LET u == update(e, form, customs, limits, now)
           IN  /\ DOMAIN u = VersionFields /\ u.time = now /\ u.bins = form.bins
               /\ AllAttached(u.history, M)
<1> DEFINE h == create_histories(e, limits)
           typed == [e EXCEPT !.history = h, !.time = now, !.bins = form.bins, !.type = form.type,
                              !.cd = copy_to_custom_data(@, form.type, customs)]
           s == serialize_last_history_entry_entry_type_data(typed)
           u == update(e, form, customs, limits, now)
<1>1. AllAttached(h, M) BY CreatedAttached
<1>2. u = adjust_history_entries_entry_type_indexes(s) BY DEF update
<1> HIDE DEF h, u
<1>3. DOMAIN typed = VersionFields /\ typed.time = now /\ typed.bins = form.bins /\ typed.history = h
  BY DEF Kept, Attached, VersionFields
<1> HIDE DEF typed
<1>4. AllAttached(typed.history, M) BY <1>1, <1>3
<1>5. Alike(s, typed) /\ AllAttached(s.history, M) BY <1>3, <1>4, SerializedAttached
<1> HIDE DEF s
<1>6. DOMAIN s = VersionFields BY <1>3, <1>5 DEF Alike
<1>7. Alike(u, s) /\ AllAttached(u.history, M) BY <1>2, <1>5, <1>6, AdjustedAttached
<1>8. DOMAIN u = VersionFields /\ u.time = now /\ u.bins = form.bins BY <1>3, <1>5, <1>6, <1>7 DEF Alike
<1>9. QED BY <1>7, <1>8 DEF u

\* Deleting one version of an entry.
LEMMA DeletedKept ==
    ASSUME NEW e, NEW M, Kept(e, M), NEW k \in DOMAIN e.history
    PROVE  Kept(delete_history_entry_by_index(e, k), M)
<1> DEFINE gone == e.history[k].cd.index
           left == RemoveAt(e.history, k)
           unused == /\ gone # None /\ gone # Len(e.cd.list)
                     /\ \A j \in DOMAIN left : left[j].cd.index # gone
           list == IF unused THEN RemoveAt(e.cd.list, gone + 1) ELSE e.cd.list
           shifted(v) == IF unused /\ v.cd.index # None /\ v.cd.index > gone
                         THEN [v EXCEPT !.cd.index = @ - 1] ELSE v
           h == [j \in DOMAIN left |-> shifted(left[j])]
           l == IF left = <<>> THEN <<>> ELSE list
           f == delete_history_entry_by_index(e, k)
<1>1. f = [e EXCEPT !.history = h, !.cd.list = l] BY DEF delete_history_entry_by_index
<1>2. AllAttached(left, M)
  <2>1. AllAttached(e.history, M) /\ k \in 1 .. Len(e.history) BY AttachedAt DEF Kept
  <2>2. QED BY <2>1, RemovedAttached
<1>3. AllAttached(h, M)
  <2> DEFINE n == Len(left)
  <2> HIDE DEF gone, left, unused
  <2>1. n \in Nat /\ DOMAIN left = 1 .. n /\ \A j \in 1 .. n : Attached(left[j], M) BY <1>2, AttachedAt
  <2>2. \A j \in 1 .. n : Attached(shifted(left[j]), M) BY <2>1 DEF Attached, VersionFields
  <2> HIDE DEF shifted, n
  <2>3. h = [j \in 1 .. n |-> h[j]] /\ \A j \in 1 .. n : Attached(h[j], M) BY <2>1, <2>2
  <2> HIDE DEF h
  <2>4. AllAttached(h, M) /\ Len(h) = n BY <2>1, <2>3, AttachedFrom
  <2>5. QED BY <2>4
<1> HIDE DEF h, l, f
<1>4. f.history = h /\ Alike(f, e) BY <1>1 DEF Kept, Attached, Alike, VersionFields
<1>5. Attached(f, M) BY <1>4, AlikeAttached DEF Kept
<1>6. QED BY <1>3, <1>4, <1>5 DEF Kept, f

\* Deleting all of them.
LEMMA AllDeletedKept ==
    ASSUME NEW e, NEW M, Kept(e, M)
    PROVE  Kept(delete_history_entries(e), M)
<1> DEFINE f == delete_history_entries(e)
<1>1. f.history = <<>> /\ Alike(f, e)
  BY DEF delete_history_entries, Kept, Attached, Alike, VersionFields
<1> HIDE DEF f
<1>2. Attached(f, M) BY <1>1, AlikeAttached DEF Kept
<1>3. AllAttached(f.history, M) BY <1>1, NoVersions
<1>4. QED BY <1>2, <1>3 DEF Kept, f

\* Sorting by time and dropping what has the time of another.
LEMMA SortedAttached ==
    ASSUME NEW vs, NEW M, AllAttached(vs, M)
    PROVE  AllAttached(SortedByTime(vs), M)
<1> DEFINE N == Len(vs)
           first == {i \in DOMAIN vs : \A j \in 1 .. i - 1 : vs[j].time # vs[i].time}
           Rank(i) == Cardinality({j \in first : vs[j].time < vs[i].time})
           f == [i \in first |-> vs[i].time]
           C == Cardinality(first)
           sorted == [k \in 1 .. C |-> vs[CHOOSE i \in first : Rank(i) = k - 1]]
<1>1. N \in Nat /\ DOMAIN vs = 1 .. N /\ \A i \in 1 .. N : Attached(vs[i], M) BY AttachedAt
<1>2. first \subseteq 1 .. N BY <1>1
<1>3. IsFiniteSet(first)
  <2>1. 1 \in Int /\ N \in Int BY <1>1
  <2>2. IsFiniteSet(1 .. N) BY <2>1, FS_Interval
  <2> HIDE DEF first, N
  <2>3. QED BY <1>2, <2>2, FS_Subset
<1>4. f \in [first -> Nat]
  <2>1. \A i \in first : vs[i].time \in Nat BY <1>1, <1>2 DEF Attached
  <2>2. QED BY <2>1
<1>5. ASSUME NEW i \in first, NEW j \in first, f[i] = f[j] PROVE i = j
  <2>1. i \in 1 .. N /\ j \in 1 .. N BY <1>2
  <2>2. vs[i].time = vs[j].time BY <1>5
  <2>3. ~(i \in 1 .. j - 1) /\ ~(j \in 1 .. i - 1) BY <2>2
  <2>4. QED BY <1>1, <2>1, <2>3
<1>6. \A i \in first : {j \in first : f[j] < f[i]} = {j \in first : vs[j].time < vs[i].time} OBVIOUS
<1>7. C \in Nat /\ \A n \in 1 .. C : \E i \in first : Rank(i) = n - 1
  <2> HIDE DEF f, first
  <2>1. /\ Cardinality(first) \in Nat
        /\ \A n \in 1 .. Cardinality(first) : \E i \in first : Cardinality({j \in first : f[j] < f[i]}) = n - 1
        /\ \A i \in first : Cardinality({j \in first : f[j] < f[i]}) + 1 \in 1 .. Cardinality(first)
        /\ \A i, k \in first : Cardinality({j \in first : f[j] < f[i]}) = Cardinality({j \in first : f[j] < f[k]})
                                => i = k
    <3>1. \A i, j \in first : f[i] = f[j] => i = j BY <1>5
    <3>2. QED BY <1>3, <1>4, <3>1, Ranks
  <2>2. QED BY <2>1, <1>6
<1>8. SortedByTime(vs) = sorted BY DEF SortedByTime
<1> HIDE DEF Rank, C
<1>9. \A k \in 1 .. C : Attached(sorted[k], M)
  <2>1. ASSUME NEW k \in 1 .. C PROVE Attached(sorted[k], M)
    <3> DEFINE i == CHOOSE i \in first : Rank(i) = k - 1
    <3> HIDE DEF first
    <3>1. i \in first BY <1>7
    <3>2. sorted[k] = vs[i] OBVIOUS
    <3> HIDE DEF i
    <3>3. i \in 1 .. N BY <1>2, <3>1
    <3>4. QED BY <1>1, <3>2, <3>3
  <2>2. QED BY <2>1
<1>10. sorted = [k \in 1 .. C |-> sorted[k]] OBVIOUS
<1>11. C \in Nat BY <1>7
<1> HIDE DEF sorted
<1>12. AllAttached(sorted, M) /\ Len(sorted) = C BY <1>9, <1>10, <1>11, AttachedFrom
<1>13. QED BY <1>8, <1>12

\* The versions a merge keeps, with the list made of their types.
LEMMA MergedSet ==
    ASSUME NEW e, NEW M, Attached(e, M), NEW vs, AllAttached(vs, M)
    PROVE  Kept(set_merged_histories(e, vs), M)
<1> DEFINE types == FoldLeft(LAMBDA acc, v : IF v.cd.data = None \/ Contains(acc, v.cd.data) THEN acc
                                             ELSE Append(acc, v.cd.data), <<>>, vs)
           h == TypesToIndexes(vs, types, e.cd.data)[1]
           f == [e EXCEPT !.cd.list = types, !.history = h]
           g == adjust_history_entries_entry_type_indexes(f)
<1>1. set_merged_histories(e, vs) = g BY DEF set_merged_histories
<1> HIDE DEF types
<1>2. AllAttached(h, M) BY AllTypedAttached
<1> HIDE DEF h
<1>3. DOMAIN f = VersionFields /\ f.history = h /\ Alike(f, e) BY DEF Attached, Alike, VersionFields
<1> HIDE DEF f
<1>4. AllAttached(f.history, M) BY <1>2, <1>3
<1>5. Alike(g, f) /\ AllAttached(g.history, M) BY <1>3, <1>4, AdjustedAttached
<1> HIDE DEF g
<1>6. Attached(f, M) BY <1>3, AlikeAttached
<1>7. Attached(g, M) BY <1>5, <1>6, AlikeAttached
<1>8. QED BY <1>1, <1>5, <1>7 DEF Kept

\* Before a merge every version takes its type back.
LEMMA ReplacedAttached ==
    ASSUME NEW e, NEW vs, NEW M, AllAttached(vs, M)
    PROVE  AllAttached(replace_index_by_entry_types_data(e, vs), M)
<1> DEFINE types == encoded_entry_types(e.cd, TRUE)
<1>1. replace_index_by_entry_types_data(e, vs) = [i \in DOMAIN vs |-> IndexToType(vs[i], types)]
  BY DEF replace_index_by_entry_types_data
<1> HIDE DEF types
<1>2. QED BY <1>1, AllIndexedAttached

\* Merging the versions of two copies of an entry.
LEMMA MergedKept ==
    ASSUME NEW from, NEW to, NEW M, Kept(from, M), Kept(to, M), NEW limits
    PROVE  Kept(merge_histories(from, to, limits), M)
<1> DEFINE ours == replace_index_by_entry_types_data(to, to.history)
           theirs == replace_index_by_entry_types_data(from, create_histories(from, limits))
           all == SortedByTime(ours \o theirs)
<1>1. merge_histories(from, to, limits) = set_merged_histories(to, all) BY DEF merge_histories
<1>2. AllAttached(ours, M) BY ReplacedAttached DEF Kept
<1>3. AllAttached(theirs, M)
  <2>1. AllAttached(create_histories(from, limits), M) BY CreatedAttached
  <2>2. QED BY <2>1, ReplacedAttached
<1> HIDE DEF ours, theirs
<1>4. AllAttached(ours \o theirs, M) /\ Len(ours \o theirs) = Len(ours) + Len(theirs)
  BY <1>2, <1>3, ConcatenatedAttached
<1>5. AllAttached(all, M) BY <1>4, SortedAttached
<1> HIDE DEF all
<1>6. QED BY <1>1, <1>5, MergedSet DEF Kept

-----------------------------------------------------------------------------
(* References to attachments *)

\* What a reference in memory means: the bytes of its hash, when A are known.
InMemory(A) == [b \in [index_ref : Nat, data_hash : A] |-> b.data_hash]

RefersBy(v, g) == [v EXCEPT !.bins = [i \in DOMAIN v.bins |-> g[v.bins[i]]]]

\* References replaced by others of the same meaning.
LEMMA RefersAttached ==
    ASSUME NEW v, NEW M, NEW M2, Attached(v, M), NEW g,
           \A b \in DOMAIN M : g[b] \in DOMAIN M2 /\ M2[g[b]] = M[b]
    PROVE  Attached(RefersBy(v, g), M2)
<1> DEFINE n == Len(v.bins)
           bins == [i \in DOMAIN v.bins |-> g[v.bins[i]]]
           w == RefersBy(v, g)
<1>1. v.bins \in Seq(DOMAIN M) /\ n \in Nat /\ DOMAIN v.bins = 1 .. n /\ \A i \in 1 .. n : v.bins[i] \in DOMAIN M
  BY DEF Attached
<1>2. bins \in Seq(DOMAIN M2) /\ DOMAIN bins = 1 .. n
  <2>1. bins \in [1 .. n -> DOMAIN M2] BY <1>1
  <2> HIDE DEF bins, n
  <2>2. QED BY <1>1, <2>1
<1>3. \A i \in 1 .. n : M2[bins[i]] = M[v.bins[i]] BY <1>1
<1>4. DOMAIN w = VersionFields /\ w.time = v.time /\ w.was = v.was /\ w.bins = bins
  BY DEF RefersBy, Attached, VersionFields
<1>5. v.was.docs = [i \in 1 .. n |-> M[v.bins[i]]] /\ v.time \in Nat
  <2> HIDE DEF n, bins, w
  <2>1. QED BY <1>1 DEF Attached
<1> HIDE DEF n, bins, w
<1>6. w.was.docs = [i \in DOMAIN w.bins |-> M2[w.bins[i]]] BY <1>2, <1>3, <1>4, <1>5
<1>7. Attached(w, M2) BY <1>2, <1>4, <1>5, <1>6 DEF Attached
<1>8. QED BY <1>7 DEF w

\* In all versions.
LEMMA AllReferAttached ==
    ASSUME NEW vs, NEW M, NEW M2, AllAttached(vs, M), NEW g,
           \A b \in DOMAIN M : g[b] \in DOMAIN M2 /\ M2[g[b]] = M[b]
    PROVE  AllAttached([i \in DOMAIN vs |-> RefersBy(vs[i], g)], M2)
<1> DEFINE ws == [i \in DOMAIN vs |-> RefersBy(vs[i], g)]
           n == Len(vs)
<1>1. n \in Nat /\ DOMAIN vs = 1 .. n /\ \A i \in 1 .. n : Attached(vs[i], M) BY AttachedAt
<1>2. \A i \in 1 .. n : Attached(RefersBy(vs[i], g), M2) BY <1>1, RefersAttached
<1>3. ws = [i \in 1 .. n |-> ws[i]] /\ \A i \in 1 .. n : Attached(ws[i], M2) BY <1>1, <1>2
<1> HIDE DEF ws, n
<1>4. AllAttached(ws, M2) /\ Len(ws) = n BY <1>1, <1>3, AttachedFrom
<1>5. QED BY <1>4 DEF ws

\* Both for an entry.
AllReferBy(e, g) ==
  [RefersBy(e, g) EXCEPT !.history = [i \in DOMAIN e.history |-> RefersBy(e.history[i], g)]]

\* In an entry and its versions.
LEMMA ReferringKept ==
    ASSUME NEW e, NEW M, NEW M2, Kept(e, M), NEW g,
           \A b \in DOMAIN M : g[b] \in DOMAIN M2 /\ M2[g[b]] = M[b]
    PROVE  Kept(AllReferBy(e, g), M2)
<1> DEFINE h == [i \in DOMAIN e.history |-> RefersBy(e.history[i], g)]
           own == RefersBy(e, g)
           f == AllReferBy(e, g)
<1>1. AllAttached(h, M2) BY AllReferAttached DEF Kept
<1>2. Attached(own, M2) BY RefersAttached DEF Kept
<1>3. f = [own EXCEPT !.history = h] BY DEF AllReferBy
<1> HIDE DEF h, own, f
<1>4. f.history = h /\ Alike(f, own) BY <1>2, <1>3 DEF Attached, VersionFields, Alike
<1>5. Attached(f, M2) BY <1>2, <1>4, AlikeAttached
<1>6. QED BY <1>1, <1>4, <1>5 DEF Kept, f

\* References that mean the same in a larger set of bytes.
LEMMA SameMeaning ==
    ASSUME NEW v, NEW M, NEW M2, Attached(v, M),
           \A b \in DOMAIN M : b \in DOMAIN M2 /\ M2[b] = M[b]
    PROVE  Attached(v, M2)
<1> DEFINE n == Len(v.bins)
<1>1. v.bins \in Seq(DOMAIN M) /\ n \in Nat /\ DOMAIN v.bins = 1 .. n /\ \A i \in 1 .. n : v.bins[i] \in DOMAIN M
  BY DEF Attached
<1>2. v.bins \in Seq(DOMAIN M2) BY <1>1
<1>3. \A i \in 1 .. n : M2[v.bins[i]] = M[v.bins[i]] BY <1>1
<1>4. [i \in DOMAIN v.bins |-> M[v.bins[i]]] = [i \in DOMAIN v.bins |-> M2[v.bins[i]]] BY <1>1, <1>3
<1>5. QED BY <1>2, <1>4 DEF Attached

\* For an entry and its versions.
LEMMA SameMeaningKept ==
    ASSUME NEW e, NEW M, NEW M2, Kept(e, M),
           \A b \in DOMAIN M : b \in DOMAIN M2 /\ M2[b] = M[b]
    PROVE  Kept(e, M2)
<1>1. Attached(e, M2) BY SameMeaning DEF Kept
<1>2. \A v \in ToSet(e.history) : Attached(v, M2)
  <2>1. ASSUME NEW v \in ToSet(e.history) PROVE Attached(v, M2)
    <3>1. Attached(v, M) BY DEF Kept, AllAttached
    <3>2. QED BY <3>1, SameMeaning
  <2>2. QED BY <2>1
<1>3. AllAttached(e.history, M2) BY <1>2 DEF Kept, AllAttached
<1>4. QED BY <1>1, <1>3 DEF Kept

\* More bytes in memory change no meaning.
LEMMA MoreKnown ==
    ASSUME NEW A, NEW B, A \subseteq B, NEW e, Kept(e, InMemory(A))
    PROVE  Kept(e, InMemory(B))
<1> DEFINE M == InMemory(A)
           M2 == InMemory(B)
<1>1. \A b \in DOMAIN M : b \in DOMAIN M2 /\ M2[b] = M[b] BY DEF InMemory
<1> HIDE DEF M, M2
<1>2. Kept(e, M) BY DEF M
<1>3. Kept(e, M2) BY <1>1, <1>2, SameMeaningKept
<1>4. QED BY <1>3 DEF M2

Relinked(b, hashes) ==
  IF b.index_ref \in DOMAIN hashes THEN [b EXCEPT !.data_hash = hashes[b.index_ref]] ELSE b
Renumbered(b, refs) ==
  IF b.data_hash \in DOMAIN refs THEN [b EXCEPT !.index_ref = refs[b.data_hash]] ELSE b

\* After reading, a reference has the hash of its position.
LEMMA SetHashes ==
    ASSUME NEW e, NEW hashes, NEW M, Kept(e, M)
    PROVE  set_attachment_hashes(e, hashes) =
             AllReferBy(e, [b \in DOMAIN M |-> Relinked(b, hashes)])
<1> DEFINE g == [b \in DOMAIN M |-> Relinked(b, hashes)]
           Bins(v) == [v EXCEPT !.bins = [i \in DOMAIN v.bins |-> Relinked(v.bins[i], hashes)]]
<1>1. set_attachment_hashes(e, hashes) =
        [Bins(e) EXCEPT !.history = [i \in DOMAIN e.history |-> Bins(e.history[i])]]
  BY DEF set_attachment_hashes, Relinked, OnReferences
<1>2. ASSUME NEW v, Attached(v, M) PROVE Bins(v) = RefersBy(v, g)
  <2>1. \A i \in DOMAIN v.bins : v.bins[i] \in DOMAIN M BY <1>2 DEF Attached
  <2>2. \A i \in DOMAIN v.bins : g[v.bins[i]] = Relinked(v.bins[i], hashes) BY <2>1
  <2> HIDE DEF g
  <2>3. [i \in DOMAIN v.bins |-> Relinked(v.bins[i], hashes)] = [i \in DOMAIN v.bins |-> g[v.bins[i]]] BY <2>2
  <2>4. QED BY <2>3 DEF RefersBy
<1>3. Attached(e, M) /\ \A i \in DOMAIN e.history : Attached(e.history[i], M)
  <2>1. AllAttached(e.history, M) /\ Attached(e, M) BY DEF Kept
  <2>2. QED BY <2>1, AttachedAt
<1> HIDE DEF Bins, g
<1>4. Bins(e) = RefersBy(e, g) BY <1>2, <1>3
<1>5. [i \in DOMAIN e.history |-> Bins(e.history[i])] = [i \in DOMAIN e.history |-> RefersBy(e.history[i], g)]
  BY <1>2, <1>3
<1>6. set_attachment_hashes(e, hashes) = AllReferBy(e, g) BY <1>1, <1>4, <1>5 DEF AllReferBy
<1>7. QED BY <1>6 DEF g

\* Before writing, a reference has the position of its hash.
LEMMA SetPositions ==
    ASSUME NEW e, NEW refs, NEW M, Kept(e, M)
    PROVE  set_attachment_index_refs(e, refs) =
             AllReferBy(e, [b \in DOMAIN M |-> Renumbered(b, refs)])
<1> DEFINE g == [b \in DOMAIN M |-> Renumbered(b, refs)]
           Bins(v) == [v EXCEPT !.bins = [i \in DOMAIN v.bins |-> Renumbered(v.bins[i], refs)]]
<1>1. set_attachment_index_refs(e, refs) =
        [Bins(e) EXCEPT !.history = [i \in DOMAIN e.history |-> Bins(e.history[i])]]
  BY DEF set_attachment_index_refs, Renumbered, OnReferences
<1>2. ASSUME NEW v, Attached(v, M) PROVE Bins(v) = RefersBy(v, g)
  <2>1. \A i \in DOMAIN v.bins : v.bins[i] \in DOMAIN M BY <1>2 DEF Attached
  <2>2. \A i \in DOMAIN v.bins : g[v.bins[i]] = Renumbered(v.bins[i], refs) BY <2>1
  <2> HIDE DEF g
  <2>3. [i \in DOMAIN v.bins |-> Renumbered(v.bins[i], refs)] = [i \in DOMAIN v.bins |-> g[v.bins[i]]] BY <2>2
  <2>4. QED BY <2>3 DEF RefersBy
<1>3. Attached(e, M) /\ \A i \in DOMAIN e.history : Attached(e.history[i], M)
  <2>1. AllAttached(e.history, M) /\ Attached(e, M) BY DEF Kept
  <2>2. QED BY <2>1, AttachedAt
<1> HIDE DEF Bins, g
<1>4. Bins(e) = RefersBy(e, g) BY <1>2, <1>3
<1>5. [i \in DOMAIN e.history |-> Bins(e.history[i])] = [i \in DOMAIN e.history |-> RefersBy(e.history[i], g)]
  BY <1>2, <1>3
<1>6. set_attachment_index_refs(e, refs) = AllReferBy(e, g) BY <1>1, <1>4, <1>5 DEF AllReferBy
<1>7. QED BY <1>6 DEF g

\* The XML keeps the positions only.
LEMMA WithoutHashes ==
    ASSUME NEW e, NEW M, Kept(e, M)
    PROVE  OnReferences(e, LAMBDA b : [b EXCEPT !.data_hash = NoHash]) =
             AllReferBy(e, [b \in DOMAIN M |-> [b EXCEPT !.data_hash = NoHash]])
<1> DEFINE g == [b \in DOMAIN M |-> [b EXCEPT !.data_hash = NoHash]]
           Bins(v) == [v EXCEPT !.bins = [i \in DOMAIN v.bins |-> [v.bins[i] EXCEPT !.data_hash = NoHash]]]
<1>1. OnReferences(e, LAMBDA b : [b EXCEPT !.data_hash = NoHash]) =
        [Bins(e) EXCEPT !.history = [i \in DOMAIN e.history |-> Bins(e.history[i])]]
  BY DEF OnReferences
<1>2. ASSUME NEW v, Attached(v, M) PROVE Bins(v) = RefersBy(v, g)
  <2>1. \A i \in DOMAIN v.bins : v.bins[i] \in DOMAIN M BY <1>2 DEF Attached
  <2>2. \A i \in DOMAIN v.bins : g[v.bins[i]] = [v.bins[i] EXCEPT !.data_hash = NoHash] BY <2>1
  <2> HIDE DEF g
  <2>3. [i \in DOMAIN v.bins |-> [v.bins[i] EXCEPT !.data_hash = NoHash]] = [i \in DOMAIN v.bins |-> g[v.bins[i]]]
    BY <2>2
  <2>4. QED BY <2>3 DEF RefersBy
<1>3. Attached(e, M) /\ \A i \in DOMAIN e.history : Attached(e.history[i], M)
  <2>1. AllAttached(e.history, M) /\ Attached(e, M) BY DEF Kept
  <2>2. QED BY <2>1, AttachedAt
<1> HIDE DEF Bins, g
<1>4. Bins(e) = RefersBy(e, g) BY <1>2, <1>3
<1>5. [i \in DOMAIN e.history |-> Bins(e.history[i])] = [i \in DOMAIN e.history |-> RefersBy(e.history[i], g)]
  BY <1>2, <1>3
<1>6. OnReferences(e, LAMBDA b : [b EXCEPT !.data_hash = NoHash]) = AllReferBy(e, g)
  BY <1>1, <1>4, <1>5 DEF AllReferBy
<1>7. QED BY <1>6 DEF g

-----------------------------------------------------------------------------
(* The bytes of a file *)

SetFields == {"attachments", "index_ref_hash", "hash_index_ref"}

\* With every content once, a position read is the position in the file.
LEMMA BinariesRead ==
    ASSUME NEW binaries, binaries \in Seq(ToSet(binaries)), IsInjective(binaries)
    PROVE  LET set == read_binaries(NoAttachments, binaries)
           IN  /\ DOMAIN set = SetFields /\ set.attachments = ToSet(binaries)
               /\ set.index_ref_hash = [i \in 0 .. Len(binaries) - 1 |-> binaries[i + 1]]
<1> DEFINE N == Len(binaries)
           First(n) == {binaries[i] : i \in 1 .. n}
           Positions(n) == [i \in 0 .. n - 1 |-> binaries[i + 1]]
<1>1. N \in Nat /\ DOMAIN binaries = 1 .. N OBVIOUS
<1>2. PICK after : /\ read_binaries(NoAttachments, binaries) = after[Len(binaries)]
                   /\ after[0] = NoAttachments
                   /\ \A n \in 1 .. Len(binaries) : after[n] = add(after[n - 1], binaries[n])
  BY <1>1, ReadingSteps
<1> DEFINE Good(n) == /\ DOMAIN after[n] = SetFields /\ after[n].attachments = First(n)
                      /\ after[n].index_ref_hash = Positions(n)
                      /\ IsFiniteSet(First(n)) /\ Cardinality(First(n)) = n
           S == {n \in Nat : n <= N => Good(n)}
<1>3. 0 \in S
  <2>1. First(0) = {} OBVIOUS
  <2>2. Positions(0) = <<>> OBVIOUS
  <2>3. IsFiniteSet(First(0)) /\ Cardinality(First(0)) = 0 BY <2>1, FS_EmptySet
  <2>4. DOMAIN after[0] = SetFields /\ after[0].attachments = {} /\ after[0].index_ref_hash = <<>>
    BY <1>2 DEF NoAttachments, SetFields
  <2> HIDE DEF First, Positions
  <2>5. QED BY <2>1, <2>2, <2>3, <2>4
<1>4. ASSUME NEW n \in Nat, n \in S PROVE n + 1 \in S
  <2> DEFINE m == n + 1
  <2>1. m \in Nat OBVIOUS
  <2>2. ASSUME m <= N PROVE Good(m)
    <3>1. Good(n) BY <1>1, <1>4, <2>2
    <3>2. m \in 1 .. N /\ m - 1 = n BY <1>1, <2>2
    <3>3. after[m] = add(after[n], binaries[m])
      <4> HIDE DEF m
      <4>1. QED BY <1>2, <3>2
    <3>4. First(m) = First(n) \cup {binaries[m]}
      <4>1. ASSUME NEW x \in First(m) PROVE x \in First(n) \cup {binaries[m]}
        <5>1. PICK i \in 1 .. m : x = binaries[i] OBVIOUS
        <5>2. i \in 1 .. n \/ i = m OBVIOUS
        <5>3. QED BY <5>1, <5>2
      <4>2. ASSUME NEW x \in First(n) PROVE x \in First(m)
        <5>1. PICK i \in 1 .. n : x = binaries[i] OBVIOUS
        <5>2. i \in 1 .. m OBVIOUS
        <5>3. QED BY <5>1, <5>2
      <4>3. binaries[m] \in First(m)
        <5>1. m \in 1 .. m BY <2>1, <3>2
        <5>2. QED BY <5>1
      <4>4. QED BY <4>1, <4>2, <4>3
    <3>5. binaries[m] \notin First(n)
      <4>1. SUFFICES ASSUME NEW i \in 1 .. n, binaries[m] = binaries[i] PROVE FALSE
        OBVIOUS
      <4>2. i \in DOMAIN binaries /\ m \in DOMAIN binaries /\ i # m BY <1>1, <3>2
      <4>3. QED BY <4>1, <4>2 DEF IsInjective
    <3>6. IsFiniteSet(First(m)) /\ Cardinality(First(m)) = n + 1
      <4> DEFINE T == First(n)
                 x == binaries[m]
      <4>1. IsFiniteSet(T) /\ Cardinality(T) = n /\ x \notin T /\ First(m) = T \cup {x} BY <3>1, <3>4, <3>5
      <4> HIDE DEF T, x, First, m
      <4>2. /\ IsFiniteSet(T \cup {x})
            /\ Cardinality(T \cup {x}) = IF x \in T THEN Cardinality(T) ELSE Cardinality(T) + 1
        BY <4>1, FS_AddElement
      <4>3. QED BY <4>1, <4>2
    <3>7. Positions(m) = [i \in DOMAIN Positions(n) \cup {n} |-> IF i = n THEN binaries[m] ELSE Positions(n)[i]]
      <4>1. 0 .. m - 1 = (0 .. n - 1) \cup {n} OBVIOUS
      <4>2. QED BY <4>1
    <3> DEFINE u == after[n]
               x == binaries[m]
               known == u.attachments \cup {x}
               at == Cardinality(known) - 1
    <3>8. after[m] = [u EXCEPT !.attachments = known,
                        !.index_ref_hash = [i \in DOMAIN u.index_ref_hash \cup {at} |->
                                              IF i = at THEN x ELSE u.index_ref_hash[i]]]
      BY <3>3 DEF add
    <3>9. known = First(m) /\ at = n
      <4>1. known = First(m) BY <3>1, <3>4
      <4> HIDE DEF First, known, u, x
      <4>2. QED BY <3>6, <4>1
    <3>10. DOMAIN u = SetFields /\ u.index_ref_hash = Positions(n) BY <3>1
    <3>11. Positions(m) = [i \in DOMAIN Positions(n) \cup {n} |-> IF i = n THEN x ELSE Positions(n)[i]] BY <3>7
    <3>12. QED
      <4>1. Cardinality(First(m)) = m BY <3>6
      <4> HIDE DEF First, Positions, m, u, x, known, at
      <4>2. after[m].attachments = First(m) /\ DOMAIN after[m] = SetFields BY <3>8, <3>9, <3>10 DEF SetFields
      <4>3. after[m].index_ref_hash = Positions(m) BY <3>11, <3>8, <3>9, <3>10 DEF SetFields
      <4>4. QED BY <3>6, <4>1, <4>2, <4>3
  <2> HIDE DEF Good
  <2>3. QED BY <2>1, <2>2
<1>5. N \in S
  <2> HIDE DEF S, N
  <2>1. \A n \in Nat : n \in S => n + 1 \in S BY <1>4
  <2>2. QED BY <1>1, <1>3, <2>1, AllNumbers
<1>6. Good(N)
  <2> HIDE DEF Good
  <2>1. QED BY <1>1, <1>5
<1>7. First(N) = ToSet(binaries) BY <1>1 DEF ToSet
<1>8. QED BY <1>2, <1>6, <1>7

\* All hashes an entry and its versions refer to.
LEMMA HashesMet ==
    ASSUME NEW A, NEW e, Kept(e, InMemory(A))
    PROVE  LET hs == get_attachment_hashes(e)
           IN  hs \in Seq(A) /\ Kept(e, InMemory(ToSet(hs)))
<1> DEFINE own(v) == [i \in DOMAIN v.bins |-> v.bins[i].data_hash]
           seqs == [i \in DOMAIN e.history |-> own(e.history[i])]
           flat == FlattenSeq(seqs)
           hs == get_attachment_hashes(e)
           N == Len(e.history)
<1>1. hs = own(e) \o flat BY DEF get_attachment_hashes
<1>2. N \in Nat /\ DOMAIN e.history = 1 .. N /\ \A i \in 1 .. N : Attached(e.history[i], InMemory(A))
  <2>1. AllAttached(e.history, InMemory(A)) BY DEF Kept
  <2>2. QED BY <2>1, AttachedAt
<1>3. ASSUME NEW v, Attached(v, InMemory(A))
      PROVE  own(v) \in Seq(A) /\ \A i \in DOMAIN v.bins : v.bins[i].data_hash \in ToSet(own(v))
  <2>1. v.bins \in Seq([index_ref : Nat, data_hash : A]) BY <1>3 DEF Attached, InMemory
  <2> DEFINE R == [index_ref : Nat, data_hash : A]
             n == Len(v.bins)
             o == own(v)
  <2>2. n \in Nat /\ DOMAIN v.bins = 1 .. n /\ \A i \in 1 .. n : v.bins[i] \in R
    <3> HIDE DEF R
    <3>1. v.bins \in Seq(R) BY <2>1 DEF R
    <3>2. QED BY <3>1
  <2>3. \A i \in 1 .. n : v.bins[i].data_hash \in A BY <2>2
  <2> HIDE DEF R, n
  <2>4. o \in [1 .. n -> A] BY <2>2, <2>3
  <2>5. DOMAIN o = 1 .. n /\ \A i \in 1 .. n : o[i] = v.bins[i].data_hash BY <2>2
  <2> HIDE DEF o
  <2>6. o \in Seq(A) BY <2>2, <2>4
  <2>7. \A i \in DOMAIN v.bins : v.bins[i].data_hash \in ToSet(o) BY <2>2, <2>5 DEF ToSet
  <2>8. QED BY <2>6, <2>7 DEF o
<1>4. Attached(e, InMemory(A)) BY DEF Kept
<1>5. DOMAIN seqs = 1 .. N /\ Len(seqs) = N BY <1>2
<1>6. \A i \in 1 .. N : seqs[i] = own(e.history[i]) BY <1>2
<1>7. \A i \in 1 .. N : seqs[i] \in Seq(A)
  <2> HIDE DEF seqs, own
  <2>1. QED BY <1>2, <1>3, <1>6
<1>8. flat \in Seq(A) /\ \A i \in 1 .. N : ToSet(seqs[i]) \subseteq ToSet(flat)
  <2> HIDE DEF seqs, N
  <2>1. CASE N = 0
    <3>1. flat = seqs BY <1>5, <2>1 DEF FlattenSeq
    <3>2. seqs \in Seq(A)
      <4>1. seqs = [i \in DOMAIN seqs |-> seqs[i]] BY DEF seqs
      <4>2. 1 .. N = {} BY <2>1
      <4>3. DOMAIN seqs = 1 .. 0 BY <1>5, <2>1
      <4>4. seqs = [i \in 1 .. 0 |-> seqs[i]] BY <4>1, <4>3
      <4>5. seqs \in [1 .. 0 -> A] BY <4>4
      <4>6. QED BY <4>5
    <3>3. 1 .. N = {} BY <2>1
    <3> HIDE DEF flat
    <3>4. QED BY <3>1, <3>2, <3>3
  <2>2. CASE N > 0
    <3>1. PICK f : FlattenSeq(seqs) = f[N] /\ Joins(f, N, seqs) BY <1>2, <1>5, <2>2, FlattenSteps
    <3> DEFINE Joined(n) == f[n] \in Seq(A) /\ \A i \in 1 .. n : ToSet(seqs[i]) \subseteq ToSet(f[n])
               S == {n \in Nat : n + 1 <= N => Joined(n + 1)}
    <3>2. 0 \in S
      <4>1. f[1] = seqs[1] /\ seqs[1] \in Seq(A) BY <3>1, <1>2, <1>7, <2>2 DEF Joins
      <4>2. Joined(1) BY <4>1
      <4>3. QED BY <4>2
    <3>3. ASSUME NEW n \in Nat, n \in S PROVE n + 1 \in S
      <4> DEFINE k == n + 1
                 m == k + 1
      <4>1. k \in Nat /\ m \in Nat OBVIOUS
      <4>2. ASSUME m <= N PROVE Joined(m)
        <5>1. Joined(k) BY <3>3, <4>2, <1>2
        <5>2. m \in 1 .. N /\ m # 1 /\ m - 1 = k BY <1>2, <4>2
        <5> HIDE DEF k
        <5>3. f[m] = f[k] \o seqs[m] BY <3>1, <5>2 DEF Joins
        <5> DEFINE s == f[k]
                   t == seqs[m]
        <5>4. s \in Seq(A) /\ t \in Seq(A) /\ f[m] = s \o t BY <1>7, <5>1, <5>2, <5>3
        <5> HIDE DEF s, t, m
        <5>5. s \o t \in Seq(A) /\ ToSet(s \o t) = ToSet(s) \cup ToSet(t) BY <5>4, ConcatenatedElements
        <5>6. ASSUME NEW i \in 1 .. m PROVE ToSet(seqs[i]) \subseteq ToSet(f[m])
          <6>1. CASE i = m BY <5>4, <5>5, <6>1 DEF t
          <6>2. CASE i # m
            <7>1. i \in 1 .. k BY <5>2, <6>2, <4>1
            <7>2. ToSet(seqs[i]) \subseteq ToSet(s) BY <5>1, <7>1 DEF s
            <7>3. QED BY <5>4, <5>5, <7>2
          <6>3. QED BY <6>1, <6>2
        <5>7. QED BY <5>4, <5>5, <5>6
      <4>3. m = (n + 1) + 1 OBVIOUS
      <4> HIDE DEF Joined, k, m
      <4>4. QED BY <4>1, <4>2, <4>3 DEF k
    <3>4. N - 1 \in S
      <4>1. N - 1 \in Nat BY <1>2, <2>2
      <4> HIDE DEF S
      <4>2. \A n \in Nat : n \in S => n + 1 \in S BY <3>3
      <4>3. QED BY <4>1, <3>2, <4>2, AllNumbers
    <3>5. Joined(N)
      <4>1. (N - 1) + 1 = N /\ N <= N BY <1>2
      <4> HIDE DEF Joined
      <4>2. QED BY <3>4, <4>1
    <3>6. QED BY <3>1, <3>5
  <2>3. QED BY <2>1, <2>2, <1>2
<1> HIDE DEF flat, seqs, own
<1>9. own(e) \in Seq(A) BY <1>3, <1>4
<1>10. hs \in Seq(A) /\ ToSet(hs) = ToSet(own(e)) \cup ToSet(flat)
  <2> DEFINE s == own(e)
  <2>1. s \in Seq(A) /\ flat \in Seq(A) /\ hs = s \o flat BY <1>1, <1>8, <1>9
  <2> HIDE DEF s, hs
  <2>2. s \o flat \in Seq(A) /\ ToSet(s \o flat) = ToSet(s) \cup ToSet(flat) BY <2>1, ConcatenatedElements
  <2>3. QED BY <2>1, <2>2 DEF s
<1> HIDE DEF hs
<1> DEFINE B == ToSet(hs)
<1>11. ASSUME NEW v, Attached(v, InMemory(A)), \A i \in DOMAIN v.bins : v.bins[i].data_hash \in B
       PROVE  Attached(v, InMemory(B))
  <2> DEFINE R == [index_ref : Nat, data_hash : A]
             R2 == [index_ref : Nat, data_hash : B]
             n == Len(v.bins)
  <2>1. v.bins \in Seq(R) BY <1>11 DEF Attached, InMemory
  <2>2. n \in Nat /\ DOMAIN v.bins = 1 .. n /\ \A i \in 1 .. n : v.bins[i] \in R
    <3> HIDE DEF R
    <3>1. QED BY <2>1
  <2>3. \A i \in 1 .. n : v.bins[i] \in R2
    <3> HIDE DEF B
    <3>1. QED BY <2>2, <1>11
  <2>4. v.bins \in Seq(R2)
    <3> HIDE DEF R2, R
    <3>1. QED BY <2>1, <2>2, <2>3
  <2>5. \A i \in 1 .. n : InMemory(A)[v.bins[i]] = InMemory(B)[v.bins[i]]
    <3> HIDE DEF B
    <3>1. QED BY <2>2, <2>3 DEF InMemory
  <2>6. DOMAIN InMemory(B) = R2 BY DEF InMemory
  <2> HIDE DEF B, R, R2
  <2>7. [i \in DOMAIN v.bins |-> InMemory(A)[v.bins[i]]] = [i \in DOMAIN v.bins |-> InMemory(B)[v.bins[i]]]
    BY <2>2, <2>5
  <2>8. QED BY <1>11, <2>4, <2>6, <2>7 DEF Attached
<1>12. Attached(e, InMemory(B))
  <2>1. \A i \in DOMAIN e.bins : e.bins[i].data_hash \in B BY <1>3, <1>4, <1>10
  <2>2. QED BY <1>4, <1>11, <2>1
<1>13. \A i \in 1 .. N : Attached(e.history[i], InMemory(B))
  <2>1. ASSUME NEW i \in 1 .. N PROVE Attached(e.history[i], InMemory(B))
    <3>1. Attached(e.history[i], InMemory(A)) BY <1>2
    <3>2. \A j \in DOMAIN e.history[i].bins : e.history[i].bins[j].data_hash \in ToSet(own(e.history[i]))
      BY <1>3, <3>1
    <3>3. ToSet(own(e.history[i])) \subseteq B BY <1>6, <1>8, <1>10
    <3>4. QED BY <1>11, <3>1, <3>2, <3>3
  <2>2. QED BY <2>1
<1>14. AllAttached(e.history, InMemory(B))
  <2> DEFINE vs == e.history
             M == InMemory(B)
  <2>1. AllAttached(e.history, InMemory(A)) BY DEF Kept
  <2>2. e.history \in Seq(ToSet(e.history)) BY <2>1 DEF AllAttached
  <2>3. vs = [i \in 1 .. N |-> vs[i]] /\ \A i \in 1 .. N : Attached(vs[i], M) BY <1>13, <2>2
  <2> HIDE DEF vs, M, N
  <2>4. AllAttached(vs, M) /\ Len(vs) = N BY <1>2, <2>3, AttachedFrom
  <2>5. QED BY <2>4 DEF vs, M
<1>15. QED BY <1>10, <1>12, <1>14 DEF Kept, hs

\* What has been written of an attachment set, and where.
WrittenOnce(w, A) ==
  /\ w.binaries \in Seq(A) /\ w.written = Len(w.binaries)
  /\ \A h \in DOMAIN w.index_refs : /\ w.index_refs[h] \in 0 .. Len(w.binaries) - 1
                                    /\ w.binaries[w.index_refs[h] + 1] = h
  /\ \A i \in 1 .. Len(w.binaries) : /\ w.binaries[i] \in DOMAIN w.index_refs
                                     /\ w.index_refs[w.binaries[i]] = i - 1

\* One more hash.
LEMMA WrittenNext ==
    ASSUME NEW set, NEW A, set.attachments = A, NEW w, WrittenOnce(w, A), NEW h \in A
    PROVE  LET x == write_bytes(set, w, h)
           IN  WrittenOnce(x, A) /\ DOMAIN x.index_refs = DOMAIN w.index_refs \cup {h}
<1> DEFINE x == write_bytes(set, w, h)
           n == Len(w.binaries)
<1>1. CASE h \in DOMAIN w.index_refs
  <2>1. x = w BY <1>1 DEF write_bytes
  <2> HIDE DEF x
  <2>2. WrittenOnce(x, A) /\ DOMAIN x.index_refs = DOMAIN w.index_refs \cup {h} BY <1>1, <2>1
  <2>3. QED BY <2>2 DEF x
<1>2. CASE h \notin DOMAIN w.index_refs
  <2> DEFINE bs == Append(w.binaries, h)
             refs == [k \in DOMAIN w.index_refs \cup {h} |-> IF k = h THEN w.written ELSE w.index_refs[k]]
  <2>1. x = [binaries |-> bs, index_refs |-> refs, written |-> w.written + 1] BY <1>2 DEF write_bytes
  <2>2. w.binaries \in Seq(A) /\ n \in Nat /\ w.written = n BY DEF WrittenOnce
  <2>3. /\ bs \in Seq(A) /\ Len(bs) = n + 1 /\ bs[n + 1] = h
        /\ \A i \in 1 .. n : bs[i] = w.binaries[i]
    BY <2>2
  <2>4. /\ \A k \in DOMAIN w.index_refs : /\ w.index_refs[k] \in 0 .. n - 1
                                          /\ w.binaries[w.index_refs[k] + 1] = k
        /\ \A i \in 1 .. n : /\ w.binaries[i] \in DOMAIN w.index_refs
                             /\ w.index_refs[w.binaries[i]] = i - 1
    BY DEF WrittenOnce
  <2>5. DOMAIN refs = DOMAIN w.index_refs \cup {h} OBVIOUS
  <2>6. refs[h] = n /\ \A k \in DOMAIN w.index_refs : refs[k] = w.index_refs[k] BY <1>2, <2>2
  <2> HIDE DEF bs, refs, n
  <2>7. ASSUME NEW k \in DOMAIN refs PROVE refs[k] \in 0 .. Len(bs) - 1 /\ bs[refs[k] + 1] = k
    <3>1. CASE k = h BY <2>2, <2>3, <2>6, <3>1
    <3>2. CASE k # h
      <4>1. k \in DOMAIN w.index_refs BY <2>5, <3>2
      <4>2. refs[k] = w.index_refs[k] /\ refs[k] \in 0 .. n - 1 BY <2>4, <2>6, <4>1
      <4>3. refs[k] + 1 \in 1 .. n BY <2>2, <4>2
      <4>4. bs[refs[k] + 1] = w.binaries[refs[k] + 1] BY <2>3, <4>3
      <4>5. w.binaries[refs[k] + 1] = k BY <2>4, <4>1, <4>2
      <4>6. refs[k] \in 0 .. Len(bs) - 1 BY <2>2, <2>3, <4>2
      <4>7. QED BY <4>4, <4>5, <4>6
    <3>3. QED BY <3>1, <3>2
  <2>8. ASSUME NEW i \in 1 .. Len(bs) PROVE bs[i] \in DOMAIN refs /\ refs[bs[i]] = i - 1
    <3>1. CASE i = n + 1
      <4>1. bs[i] = h BY <2>3, <3>1
      <4>2. QED BY <2>2, <2>5, <2>6, <3>1, <4>1
    <3>2. CASE i # n + 1
      <4>1. i \in 1 .. n BY <2>2, <2>3, <3>2
      <4>2. QED BY <2>3, <2>4, <2>5, <2>6, <4>1
    <3>3. QED BY <3>1, <3>2
  <2>9. x.binaries = bs /\ x.index_refs = refs /\ x.written = n + 1 BY <2>1, <2>2
  <2> HIDE DEF x
  <2>10. WrittenOnce(x, A) BY <2>3, <2>7, <2>8, <2>9 DEF WrittenOnce
  <2>11. WrittenOnce(x, A) /\ DOMAIN x.index_refs = DOMAIN w.index_refs \cup {h} BY <2>5, <2>9, <2>10
  <2>12. QED BY <2>11 DEF x
<1>3. QED BY <1>1, <1>2

\* When all bytes are known, each is written once, at the position kept for it.
LEMMA BinariesWritten ==
    ASSUME NEW set, DOMAIN set = SetFields, NEW A, set.attachments = A, NEW hs \in Seq(A)
    PROVE  \E w : /\ WrittenOnce(w, A) /\ DOMAIN w.index_refs = ToSet(hs)
                  /\ write_all_bytes(set, hs) =
                       [binaries |-> w.binaries, set |-> [set EXCEPT !.hash_index_ref = w.index_refs]]
<1> DEFINE N == Len(hs)
           First(n) == {hs[i] : i \in 1 .. n}
<1>1. N \in Nat /\ DOMAIN hs = 1 .. N /\ \A i \in 1 .. N : hs[i] \in A OBVIOUS
<1>2. PICK after :
        /\ write_all_bytes(set, hs) =
             [binaries |-> after[Len(hs)].binaries,
              set |-> [set EXCEPT !.hash_index_ref = after[Len(hs)].index_refs]]
        /\ after[0] = NothingWritten
        /\ \A n \in 1 .. Len(hs) : after[n] = write_bytes(set, after[n - 1], hs[n])
  BY <1>1, WritingSteps
<1> DEFINE Good(n) == WrittenOnce(after[n], A) /\ DOMAIN after[n].index_refs = First(n)
           S == {n \in Nat : n <= N => Good(n)}
<1>3. 0 \in S
  <2>1. /\ after[0].binaries = <<>> /\ after[0].index_refs = <<>> /\ after[0].written = 0
    BY <1>2 DEF NothingWritten
  <2>2. DOMAIN after[0].index_refs = {} /\ Len(after[0].binaries) = 0 /\ after[0].binaries \in Seq(A) BY <2>1
  <2>3. WrittenOnce(after[0], A) BY <2>1, <2>2 DEF WrittenOnce
  <2>4. First(0) = {} OBVIOUS
  <2>5. Good(0) BY <2>2, <2>3, <2>4
  <2> HIDE DEF Good
  <2>6. QED BY <2>5
<1>4. ASSUME NEW n \in Nat, n \in S PROVE n + 1 \in S
  <2> DEFINE m == n + 1
  <2>1. m \in Nat OBVIOUS
  <2>2. ASSUME m <= N PROVE Good(m)
    <3>1. Good(n) BY <1>1, <1>4, <2>2
    <3>2. m \in 1 .. N /\ m - 1 = n BY <1>1, <2>2
    <3>3. First(m) = First(n) \cup {hs[m]}
      <4>1. ASSUME NEW x \in First(m) PROVE x \in First(n) \cup {hs[m]}
        <5>1. PICK i \in 1 .. m : x = hs[i] OBVIOUS
        <5>2. i \in 1 .. n \/ i = m OBVIOUS
        <5>3. QED BY <5>1, <5>2
      <4>2. ASSUME NEW x \in First(n) PROVE x \in First(m)
        <5>1. PICK i \in 1 .. n : x = hs[i] OBVIOUS
        <5>2. i \in 1 .. m OBVIOUS
        <5>3. QED BY <5>1, <5>2
      <4>3. hs[m] \in First(m)
        <5>1. m \in 1 .. m BY <2>1, <3>2
        <5>2. QED BY <5>1
      <4>4. QED BY <4>1, <4>2, <4>3
    <3> HIDE DEF m, First
    <3> DEFINE w == after[n]
               h == hs[m]
               x == write_bytes(set, w, h)
    <3>4. after[m] = x BY <1>2, <3>2
    <3>5. WrittenOnce(w, A) /\ DOMAIN w.index_refs = First(n) /\ h \in A BY <1>1, <3>1, <3>2
    <3> HIDE DEF w, h
    <3>6. WrittenOnce(x, A) /\ DOMAIN x.index_refs = DOMAIN w.index_refs \cup {h}
      BY <3>5, WrittenNext
    <3> HIDE DEF x
    <3>7. QED BY <3>3, <3>4, <3>5, <3>6 DEF h
  <2> HIDE DEF Good
  <2>3. QED BY <2>1, <2>2
<1>5. N \in S
  <2> HIDE DEF S, N
  <2>1. \A n \in Nat : n \in S => n + 1 \in S BY <1>4
  <2>2. QED BY <1>1, <1>3, <2>1, AllNumbers
<1>6. Good(N)
  <2> HIDE DEF Good
  <2>1. QED BY <1>1, <1>5
<1>7. First(N) = ToSet(hs) BY <1>1 DEF ToSet
<1>8. QED BY <1>2, <1>6, <1>7

-----------------------------------------------------------------------------
(* Reading and writing a whole content *)

DbFields == {"customs", "type_map", "limits", "entry"}

\* What is stored is read back, and all bytes of it are known.
LEMMA ReadKept ==
    ASSUME NEW file, Stored(file)
    PROVE  LET r == Read(file, NoAttachments)
           IN  /\ DOMAIN r.set = SetFields /\ DOMAIN r.db = DbFields
               /\ Kept(r.db.entry, InMemory(r.set.attachments))
<1> DEFINE bs == file.binaries
           A == ToSet(bs)
           set == read_binaries(NoAttachments, bs)
           M == InFile(bs)
           hashes == set.index_ref_hash
           g == [b \in DOMAIN M |-> Relinked(b, hashes)]
           e == set_attachment_hashes(file.db.entry, hashes)
           customs == file.db.type_map
           f == [e EXCEPT !.share = Own, !.type = deserialize_to_entry_type(e.cd, customs)]
           r == Read(file, NoAttachments)
<1>1. bs \in Seq(A) /\ IsInjective(bs) /\ DOMAIN file.db = DbFields /\ Kept(file.db.entry, M)
  BY DEF Stored, Kept, DbFields
<1>2. /\ DOMAIN set = SetFields /\ set.attachments = A
      /\ hashes = [i \in 0 .. Len(bs) - 1 |-> bs[i + 1]]
  <2> HIDE DEF bs
  <2>1. QED BY <1>1, BinariesRead
<1>3. r = [set |-> set, db |-> [file.db EXCEPT !.customs = customs, !.entry = f]] BY DEF Read
<1>4. e = AllReferBy(file.db.entry, g)
  <2> HIDE DEF M, hashes
  <2>1. QED BY <1>1, SetHashes
<1>5. ASSUME NEW b \in DOMAIN M PROVE g[b] \in DOMAIN InMemory(A) /\ InMemory(A)[g[b]] = M[b]
  <2>1. b \in [index_ref : 0 .. Len(bs) - 1, data_hash : {NoHash}] /\ M[b] = bs[b.index_ref + 1] BY DEF InFile
  <2>2. Len(bs) \in Nat /\ b.index_ref \in 0 .. Len(bs) - 1 BY <1>1, <2>1
  <2>3. bs[b.index_ref + 1] \in A
    <3>1. b.index_ref + 1 \in 1 .. Len(bs) BY <2>2
    <3> HIDE DEF bs, A
    <3>2. QED BY <1>1, <3>1
  <2>4. b.index_ref \in DOMAIN hashes /\ hashes[b.index_ref] = bs[b.index_ref + 1]
    <3> HIDE DEF hashes, bs
    <3>1. QED BY <1>2, <2>2
  <2>5. g[b] = [b EXCEPT !.data_hash = bs[b.index_ref + 1]]
    <3> HIDE DEF M, hashes, bs
    <3>1. QED BY <2>4 DEF Relinked
  <2> HIDE DEF g, M, hashes, bs, A
  <2>6. g[b] \in [index_ref : Nat, data_hash : A] /\ g[b].data_hash = bs[b.index_ref + 1]
    BY <2>1, <2>2, <2>3, <2>5
  <2>7. QED BY <2>1, <2>6 DEF InMemory
<1>6. Kept(e, InMemory(A))
  <2> DEFINE M2 == InMemory(A)
  <2>1. \A b \in DOMAIN M : g[b] \in DOMAIN M2 /\ M2[g[b]] = M[b] BY <1>5
  <2> HIDE DEF M, M2, g, e
  <2>2. Kept(AllReferBy(file.db.entry, g), M2) BY <1>1, <2>1, ReferringKept
  <2>3. QED BY <1>4, <2>2 DEF M2
<1> HIDE DEF e, A
<1>7. Alike(f, e) /\ f.history = e.history BY <1>6 DEF Kept, Attached, VersionFields, Alike
<1> HIDE DEF f
<1>8. Kept(f, InMemory(A))
  <2>1. Attached(f, InMemory(A)) BY <1>6, <1>7, AlikeAttached DEF Kept
  <2>2. QED BY <1>6, <1>7, <2>1 DEF Kept
<1> HIDE DEF set, customs, r
<1>9. r.set = set /\ DOMAIN r.db = DbFields /\ r.db.entry = f BY <1>1, <1>3 DEF DbFields
<1>10. QED BY <1>2, <1>8, <1>9 DEF r

\* What a reference means between finding its position and forgetting its hash.
InWriting(bs) ==
  [b \in {b \in [index_ref : 0 .. Len(bs) - 1, data_hash : ToSet(bs)] : bs[b.index_ref + 1] = b.data_hash}
     |-> b.data_hash]

\* The positions found are those of the bytes in the file.
LEMMA PositionsKept ==
    ASSUME NEW A, NEW w, WrittenOnce(w, A), NEW e, Kept(e, InMemory(DOMAIN w.index_refs))
    PROVE  Kept(set_attachment_index_refs(e, w.index_refs), InWriting(w.binaries))
<1> DEFINE refs == w.index_refs
           bs == w.binaries
           B == DOMAIN refs
           M == InMemory(B)
           M2 == InWriting(bs)
           g == [b \in DOMAIN M |-> Renumbered(b, refs)]
           f == set_attachment_index_refs(e, refs)
<1>1. f = AllReferBy(e, g)
  <2> HIDE DEF M
  <2>1. Kept(e, M) BY DEF M
  <2>2. QED BY <2>1, SetPositions
<1>2. /\ bs \in Seq(A)
      /\ \A h \in B : refs[h] \in 0 .. Len(bs) - 1 /\ bs[refs[h] + 1] = h
  BY DEF WrittenOnce
<1>3. ASSUME NEW b \in DOMAIN M PROVE g[b] \in DOMAIN M2 /\ M2[g[b]] = M[b]
  <2> DEFINE h == b.data_hash
  <2>1. b \in [index_ref : Nat, data_hash : B] /\ M[b] = h BY DEF InMemory
  <2>2. h \in B /\ g[b] = [b EXCEPT !.index_ref = refs[h]] BY <2>1 DEF Renumbered
  <2>3. refs[h] \in 0 .. Len(bs) - 1 /\ bs[refs[h] + 1] = h BY <1>2, <2>2
  <2>4. h \in ToSet(bs)
    <3>1. refs[h] + 1 \in 1 .. Len(bs) BY <1>2, <2>3
    <3> HIDE DEF bs, refs
    <3>2. QED BY <1>2, <2>3, <3>1, ElementsOf
  <2>5. g[b] \in [index_ref : 0 .. Len(bs) - 1, data_hash : ToSet(bs)] /\ g[b].index_ref = refs[h]
        /\ g[b].data_hash = h
    <3> HIDE DEF g, M, bs, refs
    <3>1. QED BY <2>1, <2>2, <2>3, <2>4
  <2> HIDE DEF g, M, bs, refs, h
  <2>6. QED BY <2>1, <2>3, <2>5 DEF InWriting
<1>4. Kept(AllReferBy(e, g), M2)
  <2>1. \A b \in DOMAIN M : g[b] \in DOMAIN M2 /\ M2[g[b]] = M[b] BY <1>3
  <2>2. Kept(e, M) OBVIOUS
  <2> HIDE DEF M, M2, g
  <2>3. QED BY <2>1, <2>2, ReferringKept
<1>5. QED BY <1>1, <1>4

\* They mean the same in memory.
LEMMA WritingInMemory ==
    ASSUME NEW A, NEW bs \in Seq(A), NEW e, Kept(e, InWriting(bs))
    PROVE  Kept(e, InMemory(A))
<1> DEFINE M == InWriting(bs)
           M2 == InMemory(A)
<1>1. Len(bs) \in Nat /\ ToSet(bs) \subseteq A BY ElementsOf
<1>2. \A b \in DOMAIN M : b \in DOMAIN M2 /\ M2[b] = M[b] BY <1>1 DEF InWriting, InMemory
<1>3. Kept(e, M) OBVIOUS
<1> HIDE DEF M, M2
<1>4. Kept(e, M2) BY <1>2, <1>3, SameMeaningKept
<1>5. QED BY <1>4 DEF M2

\* And in the file without their hashes.
LEMMA ForgottenKept ==
    ASSUME NEW A, NEW bs \in Seq(A), NEW e, Kept(e, InWriting(bs))
    PROVE  Kept(OnReferences(e, LAMBDA b : [b EXCEPT !.data_hash = NoHash]), InFile(bs))
<1> DEFINE M == InWriting(bs)
           M2 == InFile(bs)
           g == [b \in DOMAIN M |-> [b EXCEPT !.data_hash = NoHash]]
           f == OnReferences(e, LAMBDA b : [b EXCEPT !.data_hash = NoHash])
<1>1. f = AllReferBy(e, g)
  <2> HIDE DEF M
  <2>1. Kept(e, M) BY DEF M
  <2>2. QED BY <2>1, WithoutHashes
<1>2. ASSUME NEW b \in DOMAIN M PROVE g[b] \in DOMAIN M2 /\ M2[g[b]] = M[b]
  <2>1. b \in [index_ref : 0 .. Len(bs) - 1, data_hash : ToSet(bs)] /\ bs[b.index_ref + 1] = M[b]
    BY DEF InWriting
  <2>2. g[b] = [b EXCEPT !.data_hash = NoHash] OBVIOUS
  <2> HIDE DEF g, M
  <2>3. g[b] \in [index_ref : 0 .. Len(bs) - 1, data_hash : {NoHash}] /\ g[b].index_ref = b.index_ref
    BY <2>1, <2>2
  <2>4. QED BY <2>1, <2>3 DEF InFile
<1>3. Kept(AllReferBy(e, g), M2)
  <2>1. \A b \in DOMAIN M : g[b] \in DOMAIN M2 /\ M2[g[b]] = M[b] BY <1>2
  <2>2. Kept(e, M) OBVIOUS
  <2> HIDE DEF M, M2, g
  <2>3. QED BY <2>1, <2>2, ReferringKept
<1>4. QED BY <1>1, <1>3

\* What is written is stored, and memory keeps what it had.
LEMMA WriteKept ==
    ASSUME NEW db, DOMAIN db = DbFields, NEW set, DOMAIN set = SetFields,
           Kept(db.entry, InMemory(set.attachments))
    PROVE  LET w == Write(db, set)
           IN  /\ Stored(w.file) /\ DOMAIN w.db = DbFields /\ DOMAIN w.set = SetFields
               /\ w.set.attachments = set.attachments
               /\ Kept(w.db.entry, InMemory(set.attachments))
<1> DEFINE A == set.attachments
           hs == get_attachment_hashes(db.entry)
           written == write_all_bytes(set, hs)
           e == set_attachment_index_refs(db.entry, written.set.hash_index_ref)
           map == copy_to_type_map(db)
           after == [db EXCEPT !.type_map = map, !.entry = e]
           xml == InXml(after)
           r == Write(db, set)
<1>1. hs \in Seq(A) /\ Kept(db.entry, InMemory(ToSet(hs))) BY HashesMet
<1> HIDE DEF hs
<1>2. PICK w : /\ WrittenOnce(w, A) /\ DOMAIN w.index_refs = ToSet(hs)
               /\ written = [binaries |-> w.binaries, set |-> [set EXCEPT !.hash_index_ref = w.index_refs]]
  BY <1>1, BinariesWritten
<1>3. after = [db EXCEPT !.type_map = copy_to_type_map(db),
                         !.entry = set_attachment_index_refs(db.entry, written.set.hash_index_ref)] OBVIOUS
<1>4. r.db = after /\ r.set = written.set /\ r.file.binaries = written.binaries /\ r.file.db = xml
  <2> HIDE DEF written, xml
  <2>1. QED BY <1>3 DEF Write, hs, written, xml
<1>5. /\ written.binaries = w.binaries /\ DOMAIN written.set = SetFields
      /\ written.set.attachments = A /\ written.set.hash_index_ref = w.index_refs
  <2> HIDE DEF written
  <2>1. QED BY <1>2 DEF SetFields
<1> DEFINE bs == w.binaries
<1>6. bs \in Seq(A) BY <1>2 DEF WrittenOnce
<1>7. Kept(e, InWriting(bs))
  <2> HIDE DEF written
  <2>1. Kept(db.entry, InMemory(DOMAIN w.index_refs)) BY <1>1, <1>2
  <2>2. Kept(set_attachment_index_refs(db.entry, w.index_refs), InWriting(w.binaries))
    BY <1>2, <2>1, PositionsKept
  <2>3. QED BY <1>5, <2>2
<1> HIDE DEF bs, map, e, written
<1>8. Kept(e, InMemory(A)) BY <1>6, <1>7, WritingInMemory
<1>9. DOMAIN after = DbFields /\ after.entry = e BY DEF DbFields
<1> HIDE DEF after
<1> DEFINE own == [e EXCEPT !.share = Own]
           f == OnReferences(own, LAMBDA b : [b EXCEPT !.data_hash = NoHash])
<1>10. DOMAIN xml = DbFields /\ xml.entry = f
  <2>1. xml = [after EXCEPT !.customs = <<>>, !.entry = f] BY <1>9 DEF InXml
  <2> HIDE DEF f, xml
  <2>2. QED BY <1>9, <2>1 DEF DbFields
<1>11. Kept(own, InWriting(bs))
  <2>1. Alike(own, e) /\ own.history = e.history BY <1>7 DEF Kept, Attached, VersionFields, Alike
  <2> HIDE DEF own
  <2>2. Attached(own, InWriting(bs)) BY <1>7, <2>1, AlikeAttached DEF Kept
  <2>3. QED BY <1>7, <2>1, <2>2 DEF Kept
<1>12. Kept(f, InFile(bs))
  <2> HIDE DEF own
  <2>1. QED BY <1>6, <1>11, ForgottenKept
<1>13. bs \in Seq(ToSet(bs)) /\ IsInjective(bs)
  <2>1. bs \in Seq(ToSet(bs)) BY <1>6, ElementsOf
  <2>2. \A i \in 1 .. Len(bs) : w.index_refs[bs[i]] = i - 1 BY <1>2 DEF WrittenOnce, bs
  <2>3. ASSUME NEW i \in DOMAIN bs, NEW j \in DOMAIN bs, bs[i] = bs[j] PROVE i = j
    <3>1. i \in 1 .. Len(bs) /\ j \in 1 .. Len(bs) /\ Len(bs) \in Nat BY <1>6
    <3>2. i - 1 = j - 1 BY <2>2, <2>3, <3>1
    <3>3. QED BY <3>1, <3>2
  <2>4. QED BY <2>1, <2>3 DEF IsInjective
<1> HIDE DEF f, xml, r
<1>14. Stored(r.file) BY <1>4, <1>5, <1>10, <1>12, <1>13 DEF Stored, Kept, DbFields, bs
<1>15. QED BY <1>4, <1>5, <1>8, <1>9, <1>14 DEF r

-----------------------------------------------------------------------------
(* The steps *)

\* No call that reads with the positions of an earlier reading.
FreshReadsOnly == \A d \in Devices : Calls[d] \cap {"reload", "lock", "merge_disk", "merge_reader"} = {}

InOrder(file, db, set, blob) ==
  /\ Stored(file) /\ blob = Closed /\ DOMAIN set = SetFields
  /\ db # Closed => DOMAIN db = DbFields /\ Kept(db.entry, InMemory(set.attachments))

ContentsInv ==
  /\ clock \in Nat
  /\ files = [d \in Devices |-> files[d]] /\ dbs = [d \in Devices |-> dbs[d]]
  /\ sets = [d \in Devices |-> sets[d]] /\ blobs = [d \in Devices |-> blobs[d]]
  /\ \A d \in Devices : InOrder(files[d], dbs[d], sets[d], blobs[d])

\* The original file on every device, none of them open.
LEMMA ContentsInit ==
    ASSUME Init
    PROVE  ContentsInv
<1>1. clock \in Nat BY FileAssumption DEF Init, Stored, Attached
<1>2. DOMAIN NoAttachments = SetFields BY DEF NoAttachments, SetFields
<1>3. ASSUME NEW d \in Devices PROVE InOrder(files[d], dbs[d], sets[d], blobs[d])
  <2>1. files[d] = OriginalFile /\ dbs[d] = Closed /\ sets[d] = NoAttachments /\ blobs[d] = Closed BY DEF Init
  <2>2. QED BY <1>2, <2>1, FileAssumption DEF InOrder
<1>4. /\ files = [d \in Devices |-> files[d]] /\ dbs = [d \in Devices |-> dbs[d]]
      /\ sets = [d \in Devices |-> sets[d]] /\ blobs = [d \in Devices |-> blobs[d]]
  BY DEF Init
<1>5. QED BY <1>1, <1>3, <1>4 DEF ContentsInv

\* A step of one device changes what belongs to it.
LEMMA DeviceStep ==
    ASSUME ContentsInv, NEW d \in Devices, NEW file, NEW db, NEW set,
           files' = [files EXCEPT ![d] = file], dbs' = [dbs EXCEPT ![d] = db], sets' = [sets EXCEPT ![d] = set],
           blobs' = blobs, clock' \in Nat, InOrder(file, db, set, Closed)
    PROVE  ContentsInv'
<1>1. ASSUME NEW c \in Devices PROVE InOrder(files'[c], dbs'[c], sets'[c], blobs'[c])
  <2>1. CASE c = d
    <3>1. files'[c] = file /\ dbs'[c] = db /\ sets'[c] = set /\ blobs'[c] = Closed
      BY <2>1 DEF ContentsInv, InOrder
    <3>2. QED BY <3>1
  <2>2. CASE c # d
    <3>1. files'[c] = files[c] /\ dbs'[c] = dbs[c] /\ sets'[c] = sets[c] /\ blobs'[c] = blobs[c]
      BY <2>2 DEF ContentsInv
    <3>2. QED BY <3>1 DEF ContentsInv
  <2>3. QED BY <2>1, <2>2
<1>2. /\ files' = [c \in Devices |-> files'[c]] /\ dbs' = [c \in Devices |-> dbs'[c]]
      /\ sets' = [c \in Devices |-> sets'[c]] /\ blobs' = [c \in Devices |-> blobs'[c]]
  BY DEF ContentsInv
<1>3. QED BY <1>1, <1>2 DEF ContentsInv

\* What is open is as it should be.
LEMMA OpenInOrder ==
    ASSUME ContentsInv, NEW d \in Devices
    PROVE  /\ Stored(files[d]) /\ blobs[d] = Closed /\ DOMAIN sets[d] = SetFields
           /\ Opened(d) => DOMAIN dbs[d] = DbFields /\ Kept(dbs[d].entry, InMemory(sets[d].attachments))
  BY DEF ContentsInv, InOrder, Opened

\* Opening reads the file.
LEMMA OpenKeeps ==
    ASSUME ContentsInv, NEW d \in Devices, Open(d)
    PROVE  ContentsInv'
<1> DEFINE r == Read(files[d], NoAttachments)
<1>1. Stored(files[d]) BY OpenInOrder
<1>2. DOMAIN r.set = SetFields /\ DOMAIN r.db = DbFields /\ Kept(r.db.entry, InMemory(r.set.attachments))
  BY <1>1, ReadKept
<1>3. dbs' = [dbs EXCEPT ![d] = r.db] /\ sets' = [sets EXCEPT ![d] = r.set]
      /\ files' = files /\ blobs' = blobs /\ clock' = clock
  BY DEF Open
<1> HIDE DEF r
<1>4. files' = [files EXCEPT ![d] = files[d]] BY <1>3 DEF ContentsInv
<1>5. InOrder(files[d], r.db, r.set, Closed) BY <1>1, <1>2 DEF InOrder
<1>6. clock' \in Nat BY <1>3 DEF ContentsInv
<1>7. QED BY <1>3, <1>4, <1>5, <1>6, DeviceStep

\* Closing forgets the content and its bytes.
LEMMA CloseKeeps ==
    ASSUME ContentsInv, NEW d \in Devices, Close(d)
    PROVE  ContentsInv'
<1>1. Stored(files[d]) BY OpenInOrder
<1>2. dbs' = [dbs EXCEPT ![d] = Closed] /\ sets' = [sets EXCEPT ![d] = NoAttachments]
      /\ files' = files /\ blobs' = blobs /\ clock' = clock
  BY DEF Close
<1>3. files' = [files EXCEPT ![d] = files[d]] BY <1>2 DEF ContentsInv
<1>4. DOMAIN NoAttachments = SetFields BY DEF NoAttachments, SetFields
<1>5. InOrder(files[d], Closed, NoAttachments, Closed) BY <1>1, <1>4 DEF InOrder
<1>6. clock' \in Nat BY <1>2 DEF ContentsInv
<1>7. QED BY <1>2, <1>3, <1>5, <1>6, DeviceStep

\* Saving renumbers the references and writes them.
LEMMA SaveKeeps ==
    ASSUME ContentsInv, NEW d \in Devices, Save(d)
    PROVE  ContentsInv'
<1> DEFINE db == dbs[d]
           set == sets[d]
           w == Write(db, set)
<1>1. dbs' = [dbs EXCEPT ![d] = w.db] /\ sets' = [sets EXCEPT ![d] = w.set]
      /\ files' = [files EXCEPT ![d] = w.file] /\ blobs' = blobs /\ clock' = clock /\ Opened(d)
  BY DEF Save
<1>2. DOMAIN db = DbFields /\ DOMAIN set = SetFields /\ Kept(db.entry, InMemory(set.attachments))
  BY <1>1, OpenInOrder
<1> HIDE DEF db, set
<1>3. /\ Stored(w.file) /\ DOMAIN w.db = DbFields /\ DOMAIN w.set = SetFields
      /\ w.set.attachments = set.attachments
      /\ Kept(w.db.entry, InMemory(set.attachments))
  BY <1>2, WriteKept
<1> HIDE DEF w
<1>4. InOrder(w.file, w.db, w.set, Closed) BY <1>3 DEF InOrder
<1>5. clock' \in Nat BY <1>1 DEF ContentsInv
<1>6. QED BY <1>1, <1>4, <1>5, DeviceStep

\* An upload adds bytes that nothing refers to.
LEMMA UploadKeeps ==
    ASSUME ContentsInv, NEW d \in Devices, Upload(d)
    PROVE  ContentsInv'
<1>1. PICK data : sets' = [sets EXCEPT ![d] = insert(@, data)] BY DEF Upload
<1>2. files' = files /\ dbs' = dbs /\ blobs' = blobs /\ clock' = clock BY DEF Upload
<1> DEFINE set == insert(sets[d], data)
           A == sets[d].attachments
           db == dbs[d]
<1>3. /\ Stored(files[d]) /\ DOMAIN sets[d] = SetFields
      /\ db # Closed => DOMAIN db = DbFields /\ Kept(db.entry, InMemory(A))
  BY OpenInOrder DEF Opened
<1>4. DOMAIN set = SetFields /\ set.attachments = A \cup {data} BY <1>3 DEF insert, SetFields
<1>5. sets' = [sets EXCEPT ![d] = set] BY <1>1
<1> HIDE DEF set, A
<1>6. db # Closed => Kept(db.entry, InMemory(set.attachments))
  <2>1. A \subseteq set.attachments BY <1>4
  <2>2. QED BY <1>3, <2>1, MoreKnown
<1>7. InOrder(files[d], db, set, Closed) BY <1>3, <1>4, <1>6 DEF InOrder
<1>8. files' = [files EXCEPT ![d] = files[d]] /\ dbs' = [dbs EXCEPT ![d] = db] BY <1>2 DEF ContentsInv
<1>9. clock' \in Nat BY <1>2 DEF ContentsInv
<1> HIDE DEF db
<1>10. QED BY <1>2, <1>5, <1>7, <1>8, <1>9, DeviceStep

\* An edit of what is open.
LEMMA EditKeeps ==
    ASSUME ContentsInv, NEW d \in Devices, Opened(d), NEW db, Edited(d, db),
           DOMAIN db = DbFields, Kept(db.entry, InMemory(sets[d].attachments)),
           files' = files, sets' = sets, blobs' = blobs, clock' \in Nat
    PROVE  ContentsInv'
<1>1. Stored(files[d]) /\ DOMAIN sets[d] = SetFields BY OpenInOrder
<1>2. InOrder(files[d], db, sets[d], Closed) BY <1>1 DEF InOrder
<1>3. files' = [files EXCEPT ![d] = files[d]] /\ sets' = [sets EXCEPT ![d] = sets[d]]
      /\ dbs' = [dbs EXCEPT ![d] = db]
  BY DEF ContentsInv, Edited
<1>4. QED BY <1>2, <1>3, DeviceStep

\* The form's references are to what the user attached.
LEMMA ReferencesTo ==
    ASSUME NEW A, NEW e, Attached(e, InMemory(A)), NEW h \in A
    PROVE  Reference(e, h) \in [index_ref : Nat, data_hash : A] /\ Reference(e, h).data_hash = h
<1> DEFINE known == {i \in DOMAIN e.bins : e.bins[i].data_hash = h}
           n == Len(e.bins)
           R == [index_ref : Nat, data_hash : A]
<1>1. n \in Nat /\ DOMAIN e.bins = 1 .. n /\ \A i \in 1 .. n : e.bins[i] \in R
  <2>1. e.bins \in Seq(R) BY DEF Attached, InMemory
  <2> HIDE DEF R
  <2>2. QED BY <2>1
<1>2. CASE known = {}
  <2>1. Reference(e, h) = [index_ref |-> 0, data_hash |-> h] BY <1>2 DEF Reference
  <2>2. QED BY <2>1
<1>3. CASE known # {}
  <2> DEFINE i == Min(known)
  <2>1. known \subseteq Nat BY <1>1
  <2>2. i \in known
    <3>1. \E x \in known : \A y \in known : x <= y
      <4> HIDE DEF known
      <4>1. QED BY <1>3, <2>1, Least
    <3> HIDE DEF known
    <3>2. QED BY <3>1 DEF Min
  <2>3. Reference(e, h) = e.bins[i] BY <1>3 DEF Reference
  <2> HIDE DEF i
  <2>4. i \in 1 .. n /\ e.bins[i].data_hash = h BY <1>1, <2>2
  <2>5. QED BY <1>1, <2>3, <2>4
<1>4. QED BY <1>2, <1>3

\* An update takes what the form names, and its bytes are known.
LEMMA UpdateEntryKeeps ==
    ASSUME ContentsInv, NEW d \in Devices, UpdateEntry(d)
    PROVE  ContentsInv'
<1> DEFINE db == dbs[d]
           e == db.entry
           A == sets[d].attachments
           R == [index_ref : Nat, data_hash : A]
<1>1. Opened(d) /\ files' = files /\ sets' = sets /\ blobs' = blobs BY DEF UpdateEntry, EditsLeft
<1>2. DOMAIN db = DbFields /\ Kept(e, InMemory(A)) BY <1>1, OpenInOrder
<1> DEFINE Form(type, doc) == [type |-> type, bins |-> [i \in DOMAIN doc |-> Reference(e, doc[i])]]
           New(type, doc, now) == update(e, Form(type, doc), Share(db).customs, Share(db).limits, now)
           Was(type, doc) == [type |-> type, docs |-> doc, known |-> Known(type.id, Share(db).customs)]
<1>3. PICK type \in Forms[d], doc \in Documents[d], now \in clock .. clock + 1 :
        /\ clock' = now /\ ToSet(doc) \subseteq A
        /\ Edited(d, [db EXCEPT !.entry = [New(type, doc, now) EXCEPT !.was = Was(type, doc)]])
  BY DEF UpdateEntry
<1> DEFINE form == Form(type, doc)
           u == New(type, doc, now)
           f == [u EXCEPT !.was = Was(type, doc)]
           bins == form.bins
<1>4. now \in Nat
  <2>1. clock \in Nat BY DEF ContentsInv
  <2>2. QED BY <2>1
<1>5. DOMAIN u = VersionFields /\ u.time = now /\ u.bins = form.bins /\ AllAttached(u.history, InMemory(A))
  <2> DEFINE customs == Share(db).customs
             limits == Share(db).limits
             M == InMemory(A)
  <2>1. Kept(e, M) BY <1>2
  <2>2. u = update(e, form, customs, limits, now) OBVIOUS
  <2> HIDE DEF u, form, customs, limits, e, M
  <2>3. QED BY <2>1, <2>2, UpdatedAttached DEF M
<1>6. doc \in Seq(A) /\ Len(doc) \in Nat /\ DOMAIN doc = 1 .. Len(doc) /\ \A i \in DOMAIN doc : doc[i] \in A
  <2>1. doc \in Seq(ToSet(doc)) BY DocumentsAssumption
  <2> HIDE DEF A
  <2>2. \A i \in 1 .. Len(doc) : doc[i] \in A BY <1>3, <2>1, ElementsOf
  <2>3. QED BY <2>1, <2>2
<1>7. \A i \in DOMAIN doc : bins[i] \in R /\ bins[i].data_hash = doc[i]
  <2>1. Attached(e, InMemory(A)) BY <1>2 DEF Kept
  <2> HIDE DEF e, A
  <2>2. \A i \in DOMAIN doc : Reference(e, doc[i]) \in R /\ Reference(e, doc[i]).data_hash = doc[i]
    BY <1>6, <2>1, ReferencesTo
  <2>3. QED BY <2>2
<1>8. DOMAIN bins = DOMAIN doc /\ bins = [i \in DOMAIN doc |-> bins[i]] OBVIOUS
<1>9. bins \in Seq(R)
  <2> HIDE DEF bins, R
  <2>1. bins \in [1 .. Len(doc) -> R] BY <1>6, <1>7, <1>8
  <2>2. QED BY <1>6, <2>1
<1> HIDE DEF u, bins, form, A
<1>10. DOMAIN f = VersionFields /\ f.time = now /\ f.bins = form.bins /\ f.history = u.history /\ f.was.docs = doc
  BY <1>5 DEF VersionFields
<1> HIDE DEF f
<1>11. Attached(f, InMemory(A))
  <2>1. f.bins = bins BY <1>10 DEF bins
  <2>2. DOMAIN InMemory(A) = R BY DEF InMemory
  <2>3. \A i \in DOMAIN bins : InMemory(A)[bins[i]] = doc[i] BY <1>7, <1>8 DEF InMemory
  <2> HIDE DEF R
  <2>4. doc = [i \in DOMAIN bins |-> InMemory(A)[bins[i]]]
    <3>1. doc = [i \in DOMAIN doc |-> doc[i]] BY <1>6
    <3>2. QED BY <2>3, <3>1, <1>8
  <2>5. QED BY <1>4, <1>9, <1>10, <2>1, <2>2, <2>4 DEF Attached
<1>12. Kept(f, InMemory(A)) BY <1>5, <1>10, <1>11 DEF Kept
<1> DEFINE new == [db EXCEPT !.entry = f]
<1>13. Edited(d, new) BY <1>3 DEF f, u, form
<1>14. DOMAIN new = DbFields /\ new.entry = f BY <1>2 DEF DbFields
<1> HIDE DEF new
<1>15. Kept(new.entry, InMemory(sets[d].attachments)) BY <1>12, <1>14 DEF A
<1>16. clock' \in Nat BY <1>3, <1>4
<1>17. QED BY <1>1, <1>13, <1>14, <1>15, <1>16, EditKeeps

\* Deleting versions.
LEMMA DeleteVersionsKeeps ==
    ASSUME ContentsInv, NEW d \in Devices, DeleteVersions(d)
    PROVE  ContentsInv'
<1> DEFINE db == dbs[d]
           e == db.entry
           M == InMemory(sets[d].attachments)
<1>1. Opened(d) /\ files' = files /\ sets' = sets /\ blobs' = blobs /\ clock' = clock
  BY DEF DeleteVersions, EditsLeft
<1>2. DOMAIN db = DbFields /\ Kept(e, M) BY <1>1, OpenInOrder
<1>3. clock' \in Nat BY <1>1 DEF ContentsInv
<1>4. ASSUME NEW f, Kept(f, M), Edited(d, [db EXCEPT !.entry = f]) PROVE ContentsInv'
  <2> DEFINE new == [db EXCEPT !.entry = f]
  <2>1. DOMAIN new = DbFields /\ new.entry = f BY <1>2 DEF DbFields
  <2>2. Edited(d, new) BY <1>4
  <2> HIDE DEF new
  <2>3. Kept(new.entry, InMemory(sets[d].attachments)) BY <1>4, <2>1
  <2>4. QED BY <1>1, <1>3, <2>1, <2>2, <2>3, EditKeeps
<1>5. CASE \E i \in DOMAIN e.history : Edited(d, [db EXCEPT !.entry = delete_history_entry_by_index(e, i)])
  <2>1. PICK i \in DOMAIN e.history : Edited(d, [db EXCEPT !.entry = delete_history_entry_by_index(e, i)])
    BY <1>5
  <2> HIDE DEF M, e, db
  <2>2. Kept(delete_history_entry_by_index(e, i), M) BY <1>2, DeletedKept
  <2>3. QED BY <1>4, <2>1, <2>2
<1>6. CASE Edited(d, [db EXCEPT !.entry = delete_history_entries(e)])
  <2> HIDE DEF M, e, db
  <2>1. Kept(delete_history_entries(e), M) BY <1>2, AllDeletedKept
  <2>2. QED BY <1>4, <1>6, <2>1
<1>7. QED BY <1>5, <1>6 DEF DeleteVersions

\* New limits, and every entry trimmed to them.
LEMMA SetLimitsKeeps ==
    ASSUME ContentsInv, NEW d \in Devices, SetLimits(d)
    PROVE  ContentsInv'
<1> DEFINE db == dbs[d]
           e == db.entry
           M == InMemory(sets[d].attachments)
<1>1. Opened(d) /\ files' = files /\ sets' = sets /\ blobs' = blobs /\ clock' = clock
  BY DEF SetLimits, EditsLeft
<1>2. DOMAIN db = DbFields /\ Kept(e, M) BY <1>1, OpenInOrder
<1>3. clock' \in Nat BY <1>1 DEF ContentsInv
<1>4. PICK l : Edited(d, [db EXCEPT !.limits = l, !.entry = maintain_history(@, l)]) BY DEF SetLimits
<1> DEFINE f == maintain_history(e, l)
           new == [db EXCEPT !.limits = l, !.entry = f]
<1>5. Kept(f, M)
  <2> HIDE DEF M, e
  <2>1. QED BY <1>2, MaintainedKept
<1>6. Edited(d, new) BY <1>4
<1> HIDE DEF f
<1>7. DOMAIN new = DbFields /\ new.entry = f BY <1>2 DEF DbFields
<1> HIDE DEF new
<1>8. Kept(new.entry, InMemory(sets[d].attachments)) BY <1>5, <1>7
<1>9. QED BY <1>1, <1>3, <1>6, <1>7, <1>8, EditKeeps

\* The custom types of the database.
LEMMA CustomsKeep ==
    ASSUME ContentsInv, NEW d \in Devices, Opened(d), NEW customs,
           Edited(d, [dbs[d] EXCEPT !.customs = customs]),
           files' = files, sets' = sets, blobs' = blobs, clock' = clock
    PROVE  ContentsInv'
<1> DEFINE db == dbs[d]
           new == [db EXCEPT !.customs = customs]
<1>1. DOMAIN db = DbFields /\ Kept(db.entry, InMemory(sets[d].attachments)) BY OpenInOrder
<1>2. DOMAIN new = DbFields /\ new.entry = db.entry BY <1>1 DEF DbFields
<1>3. Edited(d, new) OBVIOUS
<1>4. clock' \in Nat BY DEF ContentsInv
<1> HIDE DEF new, db
<1>5. Kept(new.entry, InMemory(sets[d].attachments)) BY <1>1, <1>2
<1>6. QED BY <1>2, <1>3, <1>4, <1>5, EditKeeps

\* A new custom type.
LEMMA InsertCustomTypeKeeps ==
    ASSUME ContentsInv, NEW d \in Devices, InsertCustomType(d)
    PROVE  ContentsInv'
<1>1. Opened(d) /\ files' = files /\ sets' = sets /\ blobs' = blobs /\ clock' = clock
  BY DEF InsertCustomType, EditsLeft
<1>2. PICK id : Edited(d, [dbs[d] EXCEPT !.customs = (id :> CustomTypes[id]) @@ @]) BY DEF InsertCustomType
<1> DEFINE customs == (id :> CustomTypes[id]) @@ dbs[d].customs
<1>3. Edited(d, [dbs[d] EXCEPT !.customs = customs]) BY <1>2
<1> HIDE DEF customs
<1>4. QED BY <1>1, <1>3, CustomsKeep

\* One less.
LEMMA DeleteCustomTypeKeeps ==
    ASSUME ContentsInv, NEW d \in Devices, DeleteCustomType(d)
    PROVE  ContentsInv'
<1>1. Opened(d) /\ files' = files /\ sets' = sets /\ blobs' = blobs /\ clock' = clock
  BY DEF DeleteCustomType, EditsLeft
<1>2. PICK id : Edited(d, [dbs[d] EXCEPT !.customs = [i \in DOMAIN @ \ {id} |-> @[i]]]) BY DEF DeleteCustomType
<1> DEFINE customs == [i \in DOMAIN dbs[d].customs \ {id} |-> dbs[d].customs[i]]
<1>3. Edited(d, [dbs[d] EXCEPT !.customs = customs]) BY <1>2
<1> HIDE DEF customs
<1>4. QED BY <1>1, <1>3, CustomsKeep

\* Merging another content, when the bytes of both are known.
LEMMA MergeEntryKept ==
    ASSUME NEW target, DOMAIN target = DbFields, NEW source, NEW M, Kept(target.entry, M),
           Kept(source.entry, M)
    PROVE  LET m == merge_entry(target, source) IN DOMAIN m = DbFields /\ Kept(m.entry, M)
<1> DEFINE ours == target.entry
           share == IF source.entry.share = Own THEN <<ShareOf(source)>> ELSE source.entry.share
           theirs == [source.entry EXCEPT !.share = share]
           known == \E i \in DOMAIN ours.history : ours.history[i].time = theirs.time
           limits == Share(target).limits
           limits2 == Share(source).limits
           m == merge_entry(target, source)
<1>1. Kept(theirs, M)
  <2>1. Alike(theirs, source.entry) /\ theirs.history = source.entry.history
    BY DEF Kept, Attached, VersionFields, Alike
  <2> HIDE DEF theirs
  <2>2. Attached(theirs, M) BY <2>1, AlikeAttached DEF Kept
  <2>3. QED BY <2>1, <2>2 DEF Kept
<1>2. m = IF ours.time < theirs.time
          THEN [target EXCEPT !.entry = merge_histories(ours, theirs, limits)]
          ELSE IF ours.time = theirs.time \/ known THEN target
          ELSE [target EXCEPT !.entry = merge_histories(theirs, ours, limits2)]
  BY DEF merge_entry
<1> HIDE DEF theirs, limits, limits2, known, m
<1>3. Kept(ours, M) OBVIOUS
<1> HIDE DEF ours
<1>4. Kept(merge_histories(ours, theirs, limits), M) BY <1>1, <1>3, MergedKept
<1>5. Kept(merge_histories(theirs, ours, limits2), M) BY <1>1, <1>3, MergedKept
<1>6. DOMAIN m = DbFields /\ Kept(m.entry, M) BY <1>2, <1>3, <1>4, <1>5 DEF DbFields, ours
<1>7. QED BY <1>6 DEF m

\* The whole merge.
LEMMA MergeKept ==
    ASSUME NEW target, DOMAIN target = DbFields, NEW source, NEW M, Kept(target.entry, M),
           Kept(source.entry, M)
    PROVE  LET m == Merge(target, source) IN DOMAIN m = DbFields /\ Kept(m.entry, M)
<1> DEFINE t == merge_custom_data(target, source)
           merged == merge_entry(t, source)
           limits == target.limits
           f == maintain_history(merged.entry, limits)
           m == Merge(target, source)
<1>1. DOMAIN t = DbFields /\ t.entry = target.entry BY DEF merge_custom_data, DbFields
<1>2. m = [merged EXCEPT !.entry = f] BY DEF Merge
<1> HIDE DEF t, m, limits
<1>3. Kept(t.entry, M) BY <1>1
<1>4. DOMAIN merged = DbFields /\ Kept(merged.entry, M) BY <1>1, <1>3, MergeEntryKept
<1> HIDE DEF merged
<1>5. Kept(f, M) BY <1>4, MaintainedKept
<1> HIDE DEF f
<1>6. DOMAIN m = DbFields /\ m.entry = f BY <1>2, <1>4 DEF DbFields
<1>7. DOMAIN m = DbFields /\ Kept(m.entry, M) BY <1>5, <1>6
<1>8. QED BY <1>7 DEF m

\* The bytes of the other database are known before its entry is merged.
LEMMA MergeDatabasesKeeps ==
    ASSUME ContentsInv, NEW d \in Devices, MergeDatabases(d)
    PROVE  ContentsInv'
<1>1. Opened(d) BY DEF MergeDatabases, EditsLeft
<1>2. PICK s \in Devices : MergeFrom(d, Read(files[s], NoAttachments)) BY DEF MergeDatabases
<1> DEFINE r == Read(files[s], NoAttachments)
           db == dbs[d]
           set == insert_or_update_with_attachmentset(sets[d], r.set)
           new == Merge(db, r.db)
           M == InMemory(set.attachments)
<1>3. Stored(files[s]) BY OpenInOrder
<1>4. DOMAIN r.set = SetFields /\ DOMAIN r.db = DbFields /\ Kept(r.db.entry, InMemory(r.set.attachments))
  BY <1>3, ReadKept
<1>5. /\ Stored(files[d]) /\ DOMAIN sets[d] = SetFields
      /\ DOMAIN db = DbFields /\ Kept(db.entry, InMemory(sets[d].attachments))
  BY <1>1, OpenInOrder
<1>6. sets' = [sets EXCEPT ![d] = set] /\ dbs' = [dbs EXCEPT ![d] = new]
      /\ files' = files /\ blobs' = blobs /\ clock' = clock
  BY <1>2 DEF MergeFrom, Edited
<1> HIDE DEF r, db
<1>7. DOMAIN set = SetFields /\ set.attachments = sets[d].attachments \cup r.set.attachments
  BY <1>5 DEF insert_or_update_with_attachmentset, SetFields
<1> HIDE DEF set
<1>8. Kept(db.entry, M)
  <2>1. sets[d].attachments \subseteq set.attachments BY <1>7
  <2>2. QED BY <1>5, <2>1, MoreKnown
<1>9. Kept(r.db.entry, M)
  <2>1. r.set.attachments \subseteq set.attachments BY <1>7
  <2>2. QED BY <1>4, <2>1, MoreKnown
<1>10. DOMAIN new = DbFields /\ Kept(new.entry, M)
  <2> DEFINE source == r.db
  <2>1. Kept(source.entry, M) BY <1>9
  <2> HIDE DEF source, M
  <2>2. DOMAIN Merge(db, source) = DbFields /\ Kept(Merge(db, source).entry, M)
    BY <1>5, <1>8, <2>1, MergeKept
  <2>3. QED BY <2>2 DEF source
<1> HIDE DEF new
<1>11. InOrder(files[d], new, set, Closed) BY <1>5, <1>7, <1>10 DEF InOrder
<1>12. files' = [files EXCEPT ![d] = files[d]] /\ clock' \in Nat BY <1>6 DEF ContentsInv
<1>13. QED BY <1>6, <1>11, <1>12, DeviceStep

\* Nothing changes what is read with the positions of an earlier reading.
LEMMA FreshReads ==
    ASSUME FreshReadsOnly, ContentsInv, NEW d \in Devices
    PROVE  ~Reload(d) /\ ~Lock(d) /\ ~Unlock(d) /\ ~MergeDisk(d)
<1>1. /\ "reload" \notin Calls[d] /\ "lock" \notin Calls[d]
      /\ "merge_disk" \notin Calls[d] /\ "merge_reader" \notin Calls[d]
  BY DEF FreshReadsOnly
<1>2. blobs[d] = Closed BY OpenInOrder
<1>3. QED BY <1>1, <1>2 DEF Reload, Lock, Unlock, MergeDisk, EditsLeft, Called

\* Every step of a device.
LEMMA ContentsNext ==
    ASSUME FreshReadsOnly, ContentsInv, [Next]_vars
    PROVE  ContentsInv'
<1>1. CASE UNCHANGED vars BY <1>1 DEF ContentsInv, InOrder, vars
<1>2. CASE Next
  <2>1. PICK d \in Devices :
          \/ Open(d) \/ Close(d) \/ Save(d) \/ Reload(d) \/ Lock(d) \/ Unlock(d)
          \/ Upload(d) \/ UpdateEntry(d) \/ DeleteVersions(d) \/ SetLimits(d)
          \/ InsertCustomType(d) \/ DeleteCustomType(d) \/ MergeDatabases(d) \/ MergeDisk(d)
    BY <1>2 DEF Next
  <2>2. QED
    BY <2>1, FreshReads, OpenKeeps, CloseKeeps, SaveKeeps, UploadKeeps, UpdateEntryKeeps, DeleteVersionsKeeps,
       SetLimitsKeeps, InsertCustomTypeKeeps, DeleteCustomTypeKeeps, MergeDatabasesKeeps
<1>3. QED BY <1>1, <1>2

\* What is attached as it should be is what the user finds, with its bytes.
LEMMA FoundAttached ==
    ASSUME NEW set, NEW v, Attached(v, InMemory(set.attachments))
    PROVE  /\ [j \in DOMAIN v.bins |-> v.bins[j].data_hash] = v.was.docs
           /\ \A j \in DOMAIN v.bins : get_bytes_content(set, v.bins[j].data_hash) # <<>>
<1> DEFINE A == set.attachments
           R == [index_ref : Nat, data_hash : A]
           n == Len(v.bins)
<1>1. n \in Nat /\ DOMAIN v.bins = 1 .. n /\ \A j \in 1 .. n : v.bins[j] \in R
  <2>1. v.bins \in Seq(R) BY DEF Attached, InMemory
  <2> HIDE DEF R
  <2>2. QED BY <2>1
<1>2. \A j \in DOMAIN v.bins : v.bins[j].data_hash \in A /\ InMemory(A)[v.bins[j]] = v.bins[j].data_hash
  BY <1>1 DEF InMemory
<1>3. v.was.docs = [j \in DOMAIN v.bins |-> InMemory(A)[v.bins[j]]] BY DEF Attached
<1>4. v.was.docs = [j \in DOMAIN v.bins |-> v.bins[j].data_hash] BY <1>2, <1>3
<1>5. ASSUME NEW j \in DOMAIN v.bins PROVE get_bytes_content(set, v.bins[j].data_hash) # <<>>
  <2>1. get_bytes_content(set, v.bins[j].data_hash) = <<v.bins[j].data_hash>> BY <1>2 DEF get_bytes_content
  <2>2. QED BY <2>1
<1>6. QED BY <1>4, <1>5

\* What is in order is what the property asks for.
LEMMA ContentsImplies ==
    ASSUME ContentsInv
    PROVE  AttachmentsKept
<1>1. SUFFICES ASSUME NEW d \in Devices, Opened(d)
               PROVE  \A i \in DOMAIN Everything(dbs[d].entry) :
                        LET v == Everything(dbs[d].entry)[i]
                        IN  /\ [j \in DOMAIN v.bins |-> v.bins[j].data_hash] = v.was.docs
                            /\ \A j \in DOMAIN v.bins : get_bytes_content(sets[d], v.bins[j].data_hash) # <<>>
  BY DEF AttachmentsKept
<1> DEFINE e == dbs[d].entry
           M == InMemory(sets[d].attachments)
           all == Everything(e)
<1>2. Kept(e, M) BY <1>1, OpenInOrder
<1>3. AllAttached(all, M)
  <2>1. AllAttached(<<>>, M) BY NoVersions
  <2>2. Attached(e, M) /\ AllAttached(e.history, M) BY <1>2 DEF Kept
  <2> HIDE DEF M, e
  <2>3. AllAttached(Append(<<>>, e), M) /\ Len(Append(<<>>, e)) = Len(<<>>) + 1 BY <2>1, <2>2, AppendAttached
  <2>4. Append(<<>>, e) = <<e>> OBVIOUS
  <2> DEFINE one == <<e>>
  <2>5. AllAttached(one, M) BY <2>3, <2>4
  <2>6. all = one \o e.history BY DEF Everything
  <2> HIDE DEF one, all
  <2>7. AllAttached(one \o e.history, M) /\ Len(one \o e.history) = Len(one) + Len(e.history)
    BY <2>2, <2>5, ConcatenatedAttached
  <2>8. QED BY <2>6, <2>7
<1>4. \A i \in DOMAIN all : Attached(all[i], M)
  <2> HIDE DEF all, M
  <2>1. QED BY <1>3, AttachedAt
<1> HIDE DEF all
<1>5. ASSUME NEW i \in DOMAIN all
      PROVE  /\ [j \in DOMAIN all[i].bins |-> all[i].bins[j].data_hash] = all[i].was.docs
             /\ \A j \in DOMAIN all[i].bins : get_bytes_content(sets[d], all[i].bins[j].data_hash) # <<>>
  <2> DEFINE v == all[i]
             set == sets[d]
  <2>1. Attached(v, InMemory(set.attachments)) BY <1>4
  <2> HIDE DEF v, set
  <2>2. /\ [j \in DOMAIN v.bins |-> v.bins[j].data_hash] = v.was.docs
        /\ \A j \in DOMAIN v.bins : get_bytes_content(set, v.bins[j].data_hash) # <<>>
    BY <2>1, FoundAttached
  <2>3. QED BY <2>2 DEF v, set
<1>6. QED BY <1>5 DEF all

\* The user finds at every version what it had attached when it was the present one,
\* and the bytes of it, however versions are added, trimmed, deleted, merged, saved and
\* read again, as long as nothing is read with the positions of an earlier reading.
THEOREM AttachmentsStay ==
    ASSUME FreshReadsOnly
    PROVE  Spec => []AttachmentsKept
<1>1. Init => ContentsInv BY ContentsInit
<1>2. ContentsInv /\ [Next]_vars => ContentsInv' BY ContentsNext
<1>3. ContentsInv => AttachmentsKept BY ContentsImplies
<1>4. QED BY <1>1, <1>2, <1>3, PTL DEF Spec
=============================================================================
