-------------------------- MODULE MetaMergeProofs --------------------------
(* Theorems about MetaMerge, for any number of devices, entries, icons and    *)
(* merges: a merge keeps the pictures, and once it is done it is done.        *)
EXTENDS MetaMerge, FiniteSetTheorems, WellFoundedInduction, TLAPS

-----------------------------------------------------------------------------
(* Numbers and finite sets *)

\* A set of numbers that holds one holds a least one.
LEMMA Least ==
    ASSUME NEW T, T \subseteq Nat, T # {}
    PROVE  \E x \in T : \A y \in T : x <= y
<1>1. PICK x \in T : \A y \in T : ~(<<y, x>> \in OpToRel(<, Nat))
  BY WFMin, NatLessThanWellFounded
<1>2. ASSUME NEW y \in T PROVE x <= y
  <2>1. SUFFICES ASSUME y < x PROVE FALSE
    OBVIOUS
  <2>2. <<y, x>> \in OpToRel(<, Nat) BY <2>1 DEF OpToRel
  <2>3. QED BY <1>1, <2>2
<1>3. QED BY <1>2

\* A set that holds 0, and with every number the next, holds all numbers.
LEMMA AllNumbers ==
    ASSUME NEW S, 0 \in S, \A n \in Nat : n \in S => n + 1 \in S
    PROVE  Nat \subseteq S
<1> DEFINE T == Nat \ S
<1>1. SUFFICES ASSUME T # {} PROVE FALSE
  OBVIOUS
<1>2. T \subseteq Nat OBVIOUS
<1>3. PICK x \in T : \A y \in T : x <= y
  <2> HIDE DEF T
  <2>1. QED BY <1>1, <1>2, Least
<1>4. x # 0 /\ x \in Nat OBVIOUS
<1>5. x - 1 \in Nat /\ ~(x <= x - 1) BY <1>4
<1>6. x - 1 \in S BY <1>3, <1>5
<1>7. (x - 1) + 1 = x BY <1>4
<1>8. QED BY <1>5, <1>6, <1>7

\* Max of a set with a bound is the largest element.
LEMMA Largest ==
    ASSUME NEW T, T \subseteq Nat, T # {}, NEW b \in Nat, \A x \in T : x <= b
    PROVE  Max(T) \in T /\ \A x \in T : x <= Max(T)
<1> DEFINE U == {b - x : x \in T}
<1>1. U \subseteq Nat /\ U # {}
  <2>1. ASSUME NEW x \in T PROVE b - x \in Nat
    <3>1. x \in Nat /\ x <= b OBVIOUS
    <3>2. QED BY <3>1
  <2>2. QED BY <2>1
<1>2. \E u \in U : \A y \in U : u <= y
  <2> HIDE DEF U
  <2>1. QED BY <1>1, Least
<1>3. PICK m \in T : \A y \in T : b - m <= b - y BY <1>2
<1>4. ASSUME NEW y \in T PROVE m >= y
  <2>1. b - m <= b - y /\ m \in Nat /\ y \in Nat BY <1>3
  <2>2. QED BY <2>1
<1>5. QED BY <1>4 DEF Max

\* With different weights, every rank is that of one element.
LEMMA Ranks ==
    ASSUME NEW I, IsFiniteSet(I), NEW f \in [I -> Nat], \A i, j \in I : f[i] = f[j] => i = j
    PROVE  /\ Cardinality(I) \in Nat
           /\ \A n \in 1 .. Cardinality(I) : \E i \in I : Cardinality({j \in I : f[j] < f[i]}) = n - 1
           /\ \A i \in I : Cardinality({j \in I : f[j] < f[i]}) + 1 \in 1 .. Cardinality(I)
           /\ \A i, k \in I : Cardinality({j \in I : f[j] < f[i]}) = Cardinality({j \in I : f[j] < f[k]})
                                => i = k
<1> DEFINE Below(i) == {j \in I : f[j] < f[i]}
           r == [i \in I |-> Cardinality(Below(i)) + 1]
           N == Cardinality(I)
<1>1. N \in Nat BY FS_CardinalityType
<1>2. ASSUME NEW i \in I
      PROVE  IsFiniteSet(Below(i)) /\ Cardinality(Below(i)) \in Nat /\ Cardinality(Below(i)) + 1 <= N
  <2>1. Below(i) \subseteq I \ {i} OBVIOUS
  <2>2. IsFiniteSet(I \ {i}) /\ Cardinality(I \ {i}) = N - 1 BY FS_RemoveElement
  <2>3. IsFiniteSet(Below(i)) /\ Cardinality(Below(i)) <= N - 1
    <3> HIDE DEF Below, N
    <3>1. QED BY <2>1, <2>2, FS_Subset
  <2>4. Cardinality(Below(i)) \in Nat BY <2>3, FS_CardinalityType
  <2>5. QED
    <3> HIDE DEF Below, N
    <3>1. QED BY <1>1, <2>3, <2>4
<1>3. ASSUME NEW i \in I, NEW k \in I, f[i] < f[k]
      PROVE  Cardinality(Below(i)) < Cardinality(Below(k))
  <2>1. Below(i) \cup {i} \subseteq Below(k) /\ i \notin Below(i) BY <1>3
  <2>2. IsFiniteSet(Below(i)) /\ IsFiniteSet(Below(k)) BY <1>2
  <2>3. Cardinality(Below(i) \cup {i}) = Cardinality(Below(i)) + 1
    <3> HIDE DEF Below
    <3>1. QED BY <2>1, <2>2, FS_AddElement
  <2>4. Cardinality(Below(i) \cup {i}) <= Cardinality(Below(k))
    <3> HIDE DEF Below
    <3>1. QED BY <2>1, <2>2, FS_Subset
  <2>5. Cardinality(Below(i)) \in Nat /\ Cardinality(Below(k)) \in Nat BY <1>2
  <2>6. QED
    <3> HIDE DEF Below
    <3>1. QED BY <2>3, <2>4, <2>5
<1>4. ASSUME NEW i \in I, NEW k \in I, Cardinality(Below(i)) = Cardinality(Below(k)) PROVE i = k
  <2>1. Cardinality(Below(i)) \in Nat BY <1>2
  <2>2. ~(f[i] < f[k]) /\ ~(f[k] < f[i])
    <3> HIDE DEF Below
    <3>1. QED BY <1>3, <1>4, <2>1
  <2>3. f[i] \in Nat /\ f[k] \in Nat OBVIOUS
  <2>4. QED BY <2>2, <2>3
<1>5. r \in Injection(I, 1 .. N)
  <2>1. r \in [I -> 1 .. N]
    <3> HIDE DEF Below, N
    <3>1. QED BY <1>1, <1>2
  <2>2. \A i, k \in I : r[i] = r[k] => i = k
    <3>1. ASSUME NEW i \in I, NEW k \in I, r[i] = r[k] PROVE i = k
      <4>1. Cardinality(Below(i)) \in Nat /\ Cardinality(Below(k)) \in Nat BY <1>2
      <4>2. Cardinality(Below(i)) + 1 = Cardinality(Below(k)) + 1 BY <3>1
      <4>3. Cardinality(Below(i)) = Cardinality(Below(k))
        <5> HIDE DEF Below
        <5>1. QED BY <4>1, <4>2
      <4>4. QED
        <5> HIDE DEF Below
        <5>1. QED BY <1>4, <4>3
    <3>2. QED BY <3>1
  <2>3. QED
    <3> HIDE DEF r, N
    <3>1. QED BY <2>1, <2>2 DEF Injection, IsInjective
<1>6. IsFiniteSet(1 .. N) /\ Cardinality(1 .. N) = N
  <2> HIDE DEF N
  <2>1. 1 \in Int /\ N \in Int BY <1>1
  <2>2. QED BY <1>1, <2>1, FS_Interval
<1>7. r \in Surjection(I, 1 .. N)
  <2>1. Cardinality(I) = Cardinality(1 .. N) BY <1>6
  <2> HIDE DEF r, N
  <2>2. QED BY <1>5, <1>6, <2>1, FS_Injection
<1>8. ASSUME NEW n \in 1 .. N PROVE \E i \in I : Cardinality(Below(i)) = n - 1
  <2>1. PICK i \in I : r[i] = n
    <3> HIDE DEF r, N
    <3>1. QED BY <1>7 DEF Surjection
  <2>2. Cardinality(Below(i)) + 1 = n BY <2>1
  <2>3. Cardinality(Below(i)) \in Nat BY <1>2
  <2>4. Cardinality(Below(i)) = n - 1
    <3> HIDE DEF Below, N
    <3>1. QED BY <2>2, <2>3
  <2>5. QED BY <2>4
<1>9. \A i \in I : Cardinality(Below(i)) + 1 \in 1 .. N
  <2> HIDE DEF Below, N
  <2>1. QED BY <1>1, <1>2
<1>10. QED
  <2>1. \A n \in 1 .. N : \E i \in I : Cardinality(Below(i)) = n - 1 BY <1>8
  <2>2. \A i, k \in I : Cardinality(Below(i)) = Cardinality(Below(k)) => i = k BY <1>4
  <2>3. QED BY <1>1, <1>9, <2>1, <2>2

-----------------------------------------------------------------------------
(* The functions that go through the icons one after the other *)

LEMMA MergeIconsExists ==
    ASSUME NEW start, NEW source, Len(source) \in Nat
    PROVE  LET After == MergeIcons(start, source)
           IN  /\ After[0] = start
               /\ \A n \in 1 .. Len(source) : After[n] = MergeIcon(After[n - 1], source[n])
<1> DEFINE Upto(n, f) == f = [m \in 0 .. n |-> IF m = 0 THEN start ELSE MergeIcon(f[m - 1], source[m])]
           S == {n \in Nat : \E f : Upto(n, f)}
           N == Len(source)
<1>1. 0 \in S
  <2> DEFINE f == [m \in 0 .. 0 |-> start]
  <2>1. f = [m \in 0 .. 0 |-> IF m = 0 THEN start ELSE MergeIcon(f[m - 1], source[m])] OBVIOUS
  <2>2. Upto(0, f) BY <2>1
  <2>3. QED BY <2>2
<1>2. ASSUME NEW n \in Nat, n \in S PROVE n + 1 \in S
  <2>1. PICK f : Upto(n, f) BY <1>2
  <2> DEFINE g == [m \in 0 .. (n + 1) |-> IF m = n + 1 THEN MergeIcon(f[n], source[n + 1]) ELSE f[m]]
  <2>2. ASSUME NEW m \in 0 .. (n + 1)
        PROVE  g[m] = IF m = 0 THEN start ELSE MergeIcon(g[m - 1], source[m])
    <3>1. CASE m = 0 BY <2>1, <3>1
    <3>2. CASE m = n + 1
      <4>1. m # 0 /\ m - 1 = n /\ n \in 0 .. (n + 1) /\ n # n + 1 BY <3>2
      <4>2. g[m - 1] = f[n] BY <4>1
      <4>3. QED BY <3>2, <4>1, <4>2
    <3>3. CASE m # 0 /\ m # n + 1
      <4>1. m \in 0 .. n /\ m - 1 \in 0 .. n /\ m - 1 \in 0 .. (n + 1) /\ m - 1 # n + 1 BY <3>3
      <4>2. f[m] = MergeIcon(f[m - 1], source[m]) BY <2>1, <3>3, <4>1
      <4>3. g[m] = f[m] /\ g[m - 1] = f[m - 1] BY <3>3, <4>1
      <4>4. QED BY <3>3, <4>2, <4>3
    <3>4. QED BY <3>1, <3>2, <3>3
  <2>3. Upto(n + 1, g)
    <3>1. g = [m \in 0 .. (n + 1) |-> g[m]] OBVIOUS
    <3> HIDE DEF g
    <3>2. QED BY <2>2, <3>1
  <2>4. QED
    <3> HIDE DEF Upto
    <3>1. QED BY <2>3
<1>3. N \in S
  <2> HIDE DEF S
  <2>1. \A n \in Nat : n \in S => n + 1 \in S BY <1>2
  <2>2. QED BY <1>1, <2>1, AllNumbers
<1>4. \E f : Upto(N, f) BY <1>3
<1> DEFINE After == MergeIcons(start, source)
<1>5. After = CHOOSE f : Upto(N, f) BY DEF MergeIcons
<1>6. Upto(N, After)
  <2> HIDE DEF Upto, N, After
  <2>1. QED BY <1>4, <1>5
<1>7. \A m \in 0 .. N : After[m] = IF m = 0 THEN start ELSE MergeIcon(After[m - 1], source[m])
  <2> HIDE DEF N, After
  <2>1. QED BY <1>6
<1>8. N \in Nat OBVIOUS
<1>9. After[0] = start BY <1>7, <1>8
<1>10. \A n \in 1 .. N : After[n] = MergeIcon(After[n - 1], source[n])
  <2> HIDE DEF N, After
  <2>1. QED BY <1>7, <1>8
<1>11. QED BY <1>9, <1>10

LEMMA RetainedIcons ==
    ASSUME NEW S, NEW icons \in Seq(S), NEW uuid
    PROVE  Retained(icons, uuid) \in Seq(S) /\ ToSet(Retained(icons, uuid)) \subseteq ToSet(icons)
<1> DEFINE Here(f, m) == IF icons[m].uuid = uuid THEN f[m - 1] ELSE Append(f[m - 1], icons[m])
           Upto(n, f) == f = [m \in 0 .. n |-> IF m = 0 THEN <<>> ELSE Here(f, m)]
           T == {n \in Nat : \E f : Upto(n, f)}
           N == Len(icons)
<1>0. N \in Nat OBVIOUS
<1>1. 0 \in T
  <2> DEFINE f == [m \in 0 .. 0 |-> <<>>]
  <2>1. f = [m \in 0 .. 0 |-> IF m = 0 THEN <<>> ELSE Here(f, m)] OBVIOUS
  <2>2. Upto(0, f) BY <2>1
  <2>3. QED BY <2>2
<1>2. ASSUME NEW n \in Nat, n \in T PROVE n + 1 \in T
  <2>1. PICK f : Upto(n, f) BY <1>2
  <2> DEFINE g == [m \in 0 .. (n + 1) |-> IF m = n + 1 THEN Here(f, n + 1) ELSE f[m]]
  <2>2. ASSUME NEW m \in 0 .. (n + 1)
        PROVE  g[m] = IF m = 0 THEN <<>> ELSE Here(g, m)
    <3>1. CASE m = 0 BY <2>1, <3>1
    <3>2. CASE m = n + 1
      <4>1. m # 0 /\ m - 1 = n /\ (n + 1) - 1 = n /\ n \in 0 .. (n + 1) /\ n # n + 1 BY <3>2
      <4>2. g[m - 1] = f[n] BY <4>1
      <4>3. g[m] = Here(f, n + 1) BY <3>2
      <4>4. QED BY <3>2, <4>1, <4>2, <4>3
    <3>3. CASE m # 0 /\ m # n + 1
      <4>1. m \in 0 .. n /\ m - 1 \in 0 .. n /\ m - 1 \in 0 .. (n + 1) /\ m - 1 # n + 1 BY <3>3
      <4>2. f[m] = Here(f, m) BY <2>1, <3>3, <4>1
      <4>3. g[m] = f[m] /\ g[m - 1] = f[m - 1] BY <3>3, <4>1
      <4>4. QED BY <3>3, <4>2, <4>3
    <3>4. QED BY <3>1, <3>2, <3>3
  <2>3. Upto(n + 1, g)
    <3>1. g = [m \in 0 .. (n + 1) |-> g[m]] OBVIOUS
    <3> HIDE DEF g, Here
    <3>2. QED BY <2>2, <3>1
  <2>4. QED
    <3> HIDE DEF Upto
    <3>1. QED BY <2>3
<1>3. N \in T
  <2> HIDE DEF T
  <2>1. \A n \in Nat : n \in T => n + 1 \in T BY <1>2
  <2>2. QED BY <1>0, <1>1, <2>1, AllNumbers
<1>4. \E f : Upto(N, f) BY <1>3
<1> DEFINE Of == CHOOSE f : Upto(N, f)
<1>5. Retained(icons, uuid) = Of[N] BY DEF Retained
<1>6. Upto(N, Of)
  <2> HIDE DEF Upto, N
  <2>1. QED BY <1>4
<1> HIDE DEF Of
<1>7. \A m \in 0 .. N : Of[m] = IF m = 0 THEN <<>> ELSE Here(Of, m)
  <2> HIDE DEF N, Here
  <2>1. QED BY <1>6
<1> DEFINE Good(s) == s \in Seq(S) /\ ToSet(s) \subseteq ToSet(icons)
           G == {n \in Nat : n <= N => Good(Of[n])}
<1>8. 0 \in G
  <2>1. Of[0] = <<>> BY <1>0, <1>7
  <2>2. ToSet(<<>>) = {} BY DEF ToSet
  <2>3. <<>> \in Seq(S) OBVIOUS
  <2>4. Good(Of[0]) BY <2>1, <2>2, <2>3
  <2>5. QED
    <3> HIDE DEF Good
    <3>1. QED BY <2>4
<1>9. ASSUME NEW n \in Nat, n \in G PROVE n + 1 \in G
  <2>1. SUFFICES ASSUME n + 1 <= N PROVE Good(Of[n + 1])
    OBVIOUS
  <2>2. n <= N /\ n + 1 \in 0 .. N /\ n + 1 # 0 /\ (n + 1) - 1 = n BY <1>0, <2>1
  <2>3. Good(Of[n]) BY <1>9, <2>2
  <2>4. Of[n + 1] = Here(Of, n + 1) BY <1>7, <2>2
  <2>5. CASE icons[n + 1].uuid = uuid
    <3>1. Of[n + 1] = Of[n] BY <2>2, <2>4, <2>5
    <3>2. QED BY <2>3, <3>1
  <2>6. CASE icons[n + 1].uuid # uuid
    <3>1. Of[n + 1] = Append(Of[n], icons[n + 1]) BY <2>2, <2>4, <2>6
    <3>2. n + 1 \in DOMAIN icons /\ icons[n + 1] \in S BY <2>2
    <3>3. icons[n + 1] \in ToSet(icons) BY <3>2 DEF ToSet
    <3>4. QED
      <4> DEFINE s == Of[n]
                 x == icons[n + 1]
      <4>1. s \in Seq(S) /\ ToSet(s) \subseteq ToSet(icons) BY <2>3
      <4>2. x \in S BY <3>2
      <4> HIDE DEF s, x
      <4>3. Append(s, x) \in Seq(S) BY <4>1, <4>2
      <4>4. \A i \in DOMAIN Append(s, x) : Append(s, x)[i] = x \/ (i \in DOMAIN s /\ Append(s, x)[i] = s[i])
        BY <4>1, <4>2
      <4>5. ToSet(Append(s, x)) \subseteq ToSet(s) \cup {x} BY <4>4 DEF ToSet
      <4>6. x \in ToSet(icons) BY <3>3 DEF x
      <4>7. Good(Append(s, x)) BY <4>1, <4>3, <4>5, <4>6
      <4>8. QED BY <3>1, <4>7 DEF s, x
  <2>7. QED BY <2>5, <2>6
<1>10. N \in G
  <2> HIDE DEF G
  <2>1. \A n \in Nat : n \in G => n + 1 \in G BY <1>9
  <2>2. QED BY <1>0, <1>8, <2>1, AllNumbers
<1>11. Good(Of[N]) BY <1>0, <1>10
<1>12. QED BY <1>5, <1>11

-----------------------------------------------------------------------------
(* The merge of the icons *)

Data(icons) == {icon.data : icon \in ToSet(icons)}

\* Bytes are found under the uuid of an icon that has them.
Finds(by_hash, icons) ==
    /\ DOMAIN by_hash = Data(icons)
    /\ \A x \in DOMAIN by_hash : \E icon \in ToSet(icons) : icon.data = x /\ icon.uuid = by_hash[x]

\* A uuid of the source is replaced by that of an icon with the same bytes.
Redirects(remap, icons, source) ==
    \A u \in DOMAIN remap : \E a \in ToSet(source), b \in ToSet(icons) :
        a.uuid = u /\ b.uuid = remap[u] /\ a.data = b.data

Merging(m, target, source, n) ==
    /\ m = [icons |-> m.icons, by_hash |-> m.by_hash, remap |-> m.remap]
    /\ m.icons \in Seq(Icon)
    /\ ToSet(target) \subseteq ToSet(m.icons)
    /\ ToSet(m.icons) \subseteq ToSet(target) \cup ToSet(source)
    /\ Finds(m.by_hash, m.icons)
    /\ Redirects(m.remap, m.icons, source)
    /\ \A i \in 1 .. n : /\ source[i].data \in Data(m.icons)
                         /\ source[i].uuid \in DOMAIN m.remap \/ source[i] \in ToSet(m.icons)

LEMMA ElementsOf ==
    ASSUME NEW S, NEW s \in Seq(S)
    PROVE  /\ Len(s) \in Nat /\ ToSet(s) \subseteq S
           /\ \A i \in 1 .. Len(s) : s[i] \in ToSet(s) /\ s[i] \in S
           /\ \A x \in ToSet(s) : \E i \in 1 .. Len(s) : x = s[i]
  BY DEF ToSet

LEMMA AppendedElements ==
    ASSUME NEW S, NEW s \in Seq(S), NEW x \in S
    PROVE  Append(s, x) \in Seq(S) /\ ToSet(Append(s, x)) = ToSet(s) \cup {x}
<1>1. Len(s) \in Nat /\ Append(s, x) \in Seq(S) /\ Len(Append(s, x)) = Len(s) + 1 OBVIOUS
<1>2. \A i \in 1 .. Len(s) : Append(s, x)[i] = s[i] OBVIOUS
<1>3. Append(s, x)[Len(s) + 1] = x OBVIOUS
<1> DEFINE t == Append(s, x)
<1> HIDE DEF t
<1>4. t \in Seq(S) /\ Len(t) = Len(s) + 1 BY <1>1 DEF t
<1>5. ASSUME NEW y \in ToSet(t) PROVE y \in ToSet(s) \cup {x}
  <2>1. PICK i \in 1 .. Len(t) : y = t[i] BY <1>4, ElementsOf
  <2>2. CASE i = Len(s) + 1 BY <2>1, <2>2, <1>3 DEF t
  <2>3. CASE i # Len(s) + 1
    <3>1. i \in 1 .. Len(s) BY <1>1, <1>4, <2>3
    <3>2. y = s[i] BY <1>2, <2>1, <3>1 DEF t
    <3>3. QED BY <3>1, <3>2, ElementsOf
  <2>4. QED BY <2>2, <2>3
<1>6. ASSUME NEW y \in ToSet(s) PROVE y \in ToSet(t)
  <2>1. PICK i \in 1 .. Len(s) : y = s[i] BY ElementsOf
  <2>2. i \in 1 .. Len(t) /\ t[i] = y BY <1>1, <1>2, <1>4, <2>1 DEF t
  <2>3. QED BY <1>4, <2>2, ElementsOf
<1>7. x \in ToSet(t)
  <2>1. Len(t) \in 1 .. Len(t) /\ t[Len(t)] = x BY <1>1, <1>3, <1>4 DEF t
  <2>2. QED BY <1>4, <2>1, ElementsOf
<1>8. QED BY <1>4, <1>5, <1>6, <1>7 DEF t

LEMMA IndexFinds ==
    ASSUME NEW icons \in Seq(Icon)
    PROVE  Finds(TargetByHash(icons), icons)
<1> DEFINE With(x) == {i \in DOMAIN icons : icons[i].data = x}
<1>1. ASSUME NEW x \in Data(icons)
      PROVE  \E icon \in ToSet(icons) : icon.data = x /\ icon.uuid = icons[Max(With(x))].uuid
  <2>1. PICK icon \in ToSet(icons) : icon.data = x BY DEF Data
  <2>2. PICK i \in 1 .. Len(icons) : icon = icons[i] BY ElementsOf
  <2>3. DOMAIN icons = 1 .. Len(icons) /\ Len(icons) \in Nat OBVIOUS
  <2>4. With(x) \subseteq Nat /\ With(x) # {} /\ \A j \in With(x) : j <= Len(icons)
    <3>1. i \in With(x) BY <2>1, <2>2, <2>3
    <3>2. QED BY <2>3, <3>1
  <2>5. Max(With(x)) \in With(x)
    <3> HIDE DEF With
    <3>1. QED BY <2>3, <2>4, Largest
  <2>6. icons[Max(With(x))] \in ToSet(icons) /\ icons[Max(With(x))].data = x
    <3> DEFINE k == Max(With(x))
    <3>1. k \in 1 .. Len(icons) /\ icons[k].data = x BY <2>3, <2>5
    <3> HIDE DEF k
    <3>2. icons[k] \in ToSet(icons) BY <3>1, ElementsOf
    <3>3. QED BY <3>1, <3>2 DEF k
  <2>7. QED BY <2>6
<1>2. TargetByHash(icons) = [x \in Data(icons) |-> icons[Max(With(x))].uuid]
  BY DEF TargetByHash, Data
<1>3. QED
  <2> HIDE DEF With
  <2>1. QED BY <1>1, <1>2 DEF Finds

\* An icon more of the source
LEMMA MergingOne ==
    ASSUME NEW target \in Seq(Icon), NEW source \in Seq(Icon),
           Consistent(ToSet(target) \cup ToSet(source)),
           NEW m, NEW n \in Nat, n + 1 <= Len(source), Merging(m, target, source, n)
    PROVE  Merging(MergeIcon(m, source[n + 1]), target, source, n + 1)
<1> DEFINE icon == source[n + 1]
           merged == MergeIcon(m, icon)
<1>1. icon \in ToSet(source) /\ icon \in Icon
  <2>1. n + 1 \in 1 .. Len(source) BY ElementsOf
  <2>2. QED BY <2>1, ElementsOf
<1>2. icon.uuid # Nil /\ icon = [uuid |-> icon.uuid, data |-> icon.data] BY <1>1 DEF Icon
<1>3. \A i \in 1 .. (n + 1) : i \in 1 .. n \/ source[i] = icon OBVIOUS
<1> HIDE DEF icon
<1>4. Finds(m.by_hash, m.icons) /\ Redirects(m.remap, m.icons, source) /\ m.icons \in Seq(Icon)
  BY DEF Merging
<1>5. ToSet(m.icons) \subseteq Icon BY <1>4, ElementsOf
<1>6. CASE icon.data \in DOMAIN m.by_hash /\ m.by_hash[icon.data] = icon.uuid
  <2>1. merged = m BY <1>6 DEF MergeIcon
  <2>2. PICK x \in ToSet(m.icons) : x.data = icon.data /\ x.uuid = icon.uuid BY <1>4, <1>6 DEF Finds
  <2>3. x = icon BY <1>2, <1>5, <2>2 DEF Icon
  <2>4. icon \in ToSet(m.icons) /\ icon.data \in Data(m.icons) BY <2>2, <2>3 DEF Data
  <2>5. QED BY <1>3, <2>1, <2>4 DEF Merging, icon
<1>7. CASE icon.data \in DOMAIN m.by_hash /\ m.by_hash[icon.data] # icon.uuid
  <2> DEFINE remap == Set(m.remap, icon.uuid, m.by_hash[icon.data])
  <2>1. merged = [m EXCEPT !.remap = remap] BY <1>7 DEF MergeIcon
  <2>2. merged = [icons |-> m.icons, by_hash |-> m.by_hash, remap |-> remap]
    <3> HIDE DEF remap
    <3>1. QED BY <2>1 DEF Merging
  <2>3. PICK x \in ToSet(m.icons) : x.data = icon.data /\ x.uuid = m.by_hash[icon.data]
    BY <1>4, <1>7 DEF Finds
  <2>4. DOMAIN remap = DOMAIN m.remap \cup {icon.uuid} /\ remap[icon.uuid] = m.by_hash[icon.data]
        /\ \A u \in DOMAIN m.remap : u # icon.uuid => remap[u] = m.remap[u]
    BY DEF Set
  <2> HIDE DEF remap
  <2>5. Redirects(remap, m.icons, source)
    <3>1. ASSUME NEW u \in DOMAIN remap
          PROVE  \E a \in ToSet(source), b \in ToSet(m.icons) : a.uuid = u /\ b.uuid = remap[u] /\ a.data = b.data
      <4>1. CASE u = icon.uuid BY <1>1, <2>3, <2>4, <4>1
      <4>2. CASE u # icon.uuid BY <1>4, <2>4, <4>2 DEF Redirects
      <4>3. QED BY <4>1, <4>2
    <3>2. QED BY <3>1 DEF Redirects
  <2>6. icon.data \in Data(m.icons) BY <1>4, <1>7 DEF Finds
  <2>7. merged.icons = m.icons /\ merged.by_hash = m.by_hash /\ merged.remap = remap BY <2>2
  <2> HIDE DEF merged
  <2>8. ASSUME NEW i \in 1 .. (n + 1)
        PROVE  /\ source[i].data \in Data(m.icons)
               /\ source[i].uuid \in DOMAIN remap \/ source[i] \in ToSet(m.icons)
    <3>1. CASE i \in 1 .. n BY <2>4, <3>1 DEF Merging
    <3>2. CASE source[i] = icon BY <2>4, <2>6, <3>2
    <3>3. QED BY <1>3, <3>1, <3>2
  <2>9. Merging(merged, target, source, n + 1) BY <2>2, <2>5, <2>7, <2>8 DEF Merging
  <2>10. QED BY <2>9 DEF merged, icon
<1>8. CASE icon.data \notin DOMAIN m.by_hash
  <2>1. icon.data \notin Data(m.icons) BY <1>4, <1>8 DEF Finds
  <2>2. ~\E i \in DOMAIN m.icons : m.icons[i].uuid = icon.uuid
    <3>1. SUFFICES ASSUME NEW i \in DOMAIN m.icons, m.icons[i].uuid = icon.uuid PROVE FALSE
      OBVIOUS
    <3>2. m.icons[i] \in ToSet(m.icons) BY DEF ToSet
    <3>3. m.icons[i] \in ToSet(target) \cup ToSet(source) BY <3>2 DEF Merging
    <3>4. m.icons[i].data = icon.data BY <1>1, <3>1, <3>3 DEF Consistent
    <3>5. QED BY <2>1, <3>2, <3>4 DEF Data
  <2> DEFINE icons == Append(m.icons, icon)
             by_hash == Set(m.by_hash, icon.data, icon.uuid)
  <2>3. merged = [m EXCEPT !.icons = icons, !.by_hash = by_hash] BY <1>8, <2>2 DEF MergeIcon
  <2>4. merged = [icons |-> icons, by_hash |-> by_hash, remap |-> m.remap]
    <3> HIDE DEF icons, by_hash
    <3>1. QED BY <2>3 DEF Merging
  <2>5. icons \in Seq(Icon) /\ ToSet(icons) = ToSet(m.icons) \cup {icon}
    BY <1>1, <1>4, AppendedElements
  <2>6. DOMAIN by_hash = DOMAIN m.by_hash \cup {icon.data} /\ by_hash[icon.data] = icon.uuid
        /\ \A x \in DOMAIN m.by_hash : x # icon.data => by_hash[x] = m.by_hash[x]
    BY DEF Set
  <2> HIDE DEF icons, by_hash
  <2>7. Data(icons) = Data(m.icons) \cup {icon.data} BY <2>5 DEF Data
  <2>8. Finds(by_hash, icons)
    <3>1. DOMAIN by_hash = Data(icons) BY <1>4, <2>6, <2>7 DEF Finds
    <3>2. ASSUME NEW x \in DOMAIN by_hash
          PROVE  \E y \in ToSet(icons) : y.data = x /\ y.uuid = by_hash[x]
      <4>1. CASE x = icon.data BY <2>5, <2>6, <4>1
      <4>2. CASE x # icon.data
        <5>1. x \in DOMAIN m.by_hash /\ by_hash[x] = m.by_hash[x] BY <2>6, <4>2
        <5>2. PICK y \in ToSet(m.icons) : y.data = x /\ y.uuid = m.by_hash[x] BY <1>4, <5>1 DEF Finds
        <5>3. QED BY <2>5, <5>1, <5>2
      <4>3. QED BY <4>1, <4>2
    <3>3. QED BY <3>1, <3>2 DEF Finds
  <2>9. Redirects(m.remap, icons, source)
    <3>1. ASSUME NEW u \in DOMAIN m.remap
          PROVE  \E a \in ToSet(source), b \in ToSet(icons) : a.uuid = u /\ b.uuid = m.remap[u] /\ a.data = b.data
      BY <1>4, <2>5 DEF Redirects
    <3>2. QED BY <3>1 DEF Redirects
  <2>10. merged.icons = icons /\ merged.by_hash = by_hash /\ merged.remap = m.remap BY <2>4
  <2> HIDE DEF merged
  <2>11. ToSet(target) \subseteq ToSet(icons) /\ ToSet(icons) \subseteq ToSet(target) \cup ToSet(source)
    BY <1>1, <2>5 DEF Merging
  <2>12. ASSUME NEW i \in 1 .. (n + 1)
        PROVE  /\ source[i].data \in Data(icons)
               /\ source[i].uuid \in DOMAIN m.remap \/ source[i] \in ToSet(icons)
    <3>1. CASE i \in 1 .. n BY <2>5, <2>7, <3>1 DEF Merging
    <3>2. CASE source[i] = icon BY <2>5, <2>7, <3>2
    <3>3. QED BY <1>3, <3>1, <3>2
  <2>13. Merging(merged, target, source, n + 1)
    BY <2>4, <2>5, <2>8, <2>9, <2>10, <2>11, <2>12 DEF Merging
  <2>14. QED BY <2>13 DEF merged, icon
<1>9. QED BY <1>6, <1>7, <1>8

\* The whole source
LEMMA IconsMerged ==
    ASSUME NEW target \in Seq(Icon), NEW source \in Seq(Icon),
           Consistent(ToSet(target) \cup ToSet(source))
    PROVE  Merging(merge_custom_icons(target, source), target, source, Len(source))
<1> DEFINE start == [icons |-> target, by_hash |-> TargetByHash(target), remap |-> <<>>]
           After == MergeIcons(start, source)
<1>0. Len(source) \in Nat /\ Len(target) \in Nat BY ElementsOf
<1>1. Merging(start, target, source, 0)
  <2>1. Finds(TargetByHash(target), target) BY IndexFinds
  <2>2. Redirects(<<>>, target, source) BY DEF Redirects
  <2>3. start.icons = target /\ start.by_hash = TargetByHash(target) /\ start.remap = <<>> OBVIOUS
  <2>4. start = [icons |-> start.icons, by_hash |-> start.by_hash, remap |-> start.remap] BY <2>3
  <2> HIDE DEF start
  <2>5. QED BY <2>1, <2>2, <2>3, <2>4 DEF Merging
<1>2. CASE target = source
  <2>1. merge_custom_icons(target, source) = start BY <1>2 DEF merge_custom_icons
  <2>2. start.icons = target OBVIOUS
  <2> HIDE DEF start
  <2>3. \A i \in 1 .. Len(source) : source[i] \in ToSet(start.icons) BY <1>2, <2>2, ElementsOf
  <2>4. \A i \in 1 .. Len(source) : source[i].data \in Data(start.icons) BY <2>3 DEF Data
  <2>5. QED BY <1>1, <2>1, <2>3, <2>4 DEF Merging
<1>3. CASE target # source
  <2>1. merge_custom_icons(target, source) = After[Len(source)] BY <1>3 DEF merge_custom_icons
  <2>2. After[0] = start /\ \A n \in 1 .. Len(source) : After[n] = MergeIcon(After[n - 1], source[n])
    <3> HIDE DEF start
    <3>1. QED BY <1>0, MergeIconsExists
  <2> DEFINE G == {n \in Nat : n <= Len(source) => Merging(After[n], target, source, n)}
  <2> HIDE DEF start, After
  <2>3. 0 \in G BY <1>1, <2>2
  <2>4. ASSUME NEW n \in Nat, n \in G PROVE n + 1 \in G
    <3>1. SUFFICES ASSUME n + 1 <= Len(source) PROVE Merging(After[n + 1], target, source, n + 1)
      OBVIOUS
    <3>2. n <= Len(source) /\ n + 1 \in 1 .. Len(source) /\ (n + 1) - 1 = n BY <1>0, <3>1
    <3>3. Merging(After[n], target, source, n) BY <2>4, <3>2
    <3>4. After[n + 1] = MergeIcon(After[n], source[n + 1]) BY <2>2, <3>2
    <3>5. QED BY <3>1, <3>3, <3>4, MergingOne
  <2>5. Len(source) \in G
    <3> HIDE DEF G
    <3>1. QED BY <1>0, <2>3, <2>4, AllNumbers
  <2>6. QED BY <1>0, <2>1, <2>5
<1>4. QED BY <1>2, <1>3

\* What is all there comes not a second time.
LEMMA IconsMergedAgain ==
    ASSUME NEW target \in Seq(Icon), NEW source \in Seq(Icon), Data(source) \subseteq Data(target)
    PROVE  merge_custom_icons(target, source).icons = target
<1> DEFINE start == [icons |-> target, by_hash |-> TargetByHash(target), remap |-> <<>>]
           After == MergeIcons(start, source)
           Same(m) == m = [icons |-> target, by_hash |-> TargetByHash(target), remap |-> m.remap]
<1>0. Len(source) \in Nat BY ElementsOf
<1>1. Same(start) OBVIOUS
<1>2. CASE target = source
  <2>1. merge_custom_icons(target, source) = start BY <1>2 DEF merge_custom_icons
  <2>2. QED BY <2>1
<1>3. CASE target # source
  <2>1. merge_custom_icons(target, source) = After[Len(source)] BY <1>3 DEF merge_custom_icons
  <2>2. After[0] = start /\ \A n \in 1 .. Len(source) : After[n] = MergeIcon(After[n - 1], source[n])
    <3> HIDE DEF start
    <3>1. QED BY <1>0, MergeIconsExists
  <2> DEFINE G == {n \in Nat : n <= Len(source) => Same(After[n])}
  <2> HIDE DEF start, After
  <2>3. 0 \in G BY <1>1, <2>2
  <2>4. ASSUME NEW n \in Nat, n \in G PROVE n + 1 \in G
    <3>1. SUFFICES ASSUME n + 1 <= Len(source) PROVE Same(After[n + 1])
      OBVIOUS
    <3>2. n <= Len(source) /\ n + 1 \in 1 .. Len(source) /\ (n + 1) - 1 = n BY <1>0, <3>1
    <3>3. Same(After[n]) BY <2>4, <3>2
    <3> DEFINE icon == source[n + 1]
               m == After[n]
    <3>4. After[n + 1] = MergeIcon(m, icon) BY <2>2, <3>2
    <3>5. icon \in ToSet(source) BY <3>2, ElementsOf
    <3>6. icon.data \in Data(target)
      <4>1. icon.data \in Data(source) BY <3>5 DEF Data
      <4>2. QED BY <4>1
    <3>7. icon.data \in DOMAIN TargetByHash(target) BY <3>6, IndexFinds DEF Finds
    <3> HIDE DEF icon, m
    <3>8. m = [icons |-> target, by_hash |-> TargetByHash(target), remap |-> m.remap] BY <3>3 DEF m
    <3>9. m.by_hash = TargetByHash(target) BY <3>8
    <3>10. \/ MergeIcon(m, icon) = m
           \/ MergeIcon(m, icon) = [m EXCEPT !.remap = Set(m.remap, icon.uuid, m.by_hash[icon.data])]
      BY <3>7, <3>9 DEF MergeIcon
    <3>11. CASE MergeIcon(m, icon) = m BY <3>4, <3>8, <3>11
    <3>12. CASE MergeIcon(m, icon) = [m EXCEPT !.remap = Set(m.remap, icon.uuid, m.by_hash[icon.data])]
      <4> DEFINE r == Set(m.remap, icon.uuid, m.by_hash[icon.data])
      <4> HIDE DEF r
      <4>1. After[n + 1] = [m EXCEPT !.remap = r] BY <3>4, <3>12 DEF r
      <4>2. After[n + 1] = [icons |-> target, by_hash |-> TargetByHash(target), remap |-> r]
        BY <3>8, <4>1
      <4>3. QED BY <4>2
    <3>13. QED BY <3>10, <3>11, <3>12
  <2>5. Len(source) \in G
    <3> HIDE DEF G
    <3>1. QED BY <1>0, <2>3, <2>4, AllNumbers
  <2>6. Same(After[Len(source)]) BY <1>0, <2>5
  <2>7. QED BY <2>1, <2>6
<1>4. QED BY <1>2, <1>3

-----------------------------------------------------------------------------
(* The merge of the versions of an entry *)

LEMMA ConcatenatedElements ==
    ASSUME NEW S, NEW s \in Seq(S), NEW t \in Seq(S)
    PROVE  s \o t \in Seq(S) /\ ToSet(s \o t) = ToSet(s) \cup ToSet(t)
<1>1. Len(s) \in Nat /\ Len(t) \in Nat /\ s \o t \in Seq(S) /\ Len(s \o t) = Len(s) + Len(t) OBVIOUS
<1>2. \A i \in 1 .. Len(s) : (s \o t)[i] = s[i] OBVIOUS
<1>3. \A i \in 1 .. Len(t) : (s \o t)[Len(s) + i] = t[i] OBVIOUS
<1> DEFINE u == s \o t
<1>4. u \in Seq(S) /\ Len(u) = Len(s) + Len(t) BY <1>1
<1> HIDE DEF u
<1>5. ASSUME NEW y \in ToSet(u) PROVE y \in ToSet(s) \cup ToSet(t)
  <2>1. PICK i \in 1 .. Len(u) : y = u[i] BY <1>4, ElementsOf
  <2>2. CASE i <= Len(s)
    <3>1. i \in 1 .. Len(s) BY <1>1, <2>2
    <3>2. y = s[i] BY <1>2, <2>1, <3>1 DEF u
    <3>3. QED BY <3>1, <3>2, ElementsOf
  <2>3. CASE ~(i <= Len(s))
    <3>1. i - Len(s) \in 1 .. Len(t) /\ Len(s) + (i - Len(s)) = i BY <1>1, <1>4, <2>3
    <3>2. y = t[i - Len(s)] BY <1>3, <2>1, <3>1 DEF u
    <3>3. QED BY <3>1, <3>2, ElementsOf
  <2>4. QED BY <2>2, <2>3
<1>6. ASSUME NEW y \in ToSet(s) PROVE y \in ToSet(u)
  <2>1. PICK i \in 1 .. Len(s) : y = s[i] BY ElementsOf
  <2>2. i \in 1 .. Len(u) /\ u[i] = y BY <1>1, <1>2, <1>4, <2>1 DEF u
  <2>3. QED BY <1>4, <2>2, ElementsOf
<1>7. ASSUME NEW y \in ToSet(t) PROVE y \in ToSet(u)
  <2>1. PICK i \in 1 .. Len(t) : y = t[i] BY ElementsOf
  <2>2. Len(s) + i \in 1 .. Len(u) /\ u[Len(s) + i] = y BY <1>1, <1>3, <1>4, <2>1 DEF u
  <2>3. QED BY <1>4, <2>2, ElementsOf
<1>8. QED BY <1>4, <1>5, <1>6, <1>7 DEF u

\* Every version that is merged was one before, and none is lost but for one with the same time.
LEMMA HistoriesMerged ==
    ASSUME NEW from \in EntryType, NEW to \in EntryType
    PROVE  LET merged == merge_histories(from, to)
               before == ToSet(to.history) \cup ToSet(from.history) \cup {Version(from)}
           IN  /\ merged \in EntryType /\ merged.mod = to.mod /\ merged.icon = to.icon
               /\ ToSet(merged.history) \subseteq before
               /\ \A v \in before : \E i \in DOMAIN merged.history : merged.history[i].mod = v.mod
<1> DEFINE all == to.history \o from.history \o <<Version(from)>>
           before == ToSet(to.history) \cup ToSet(from.history) \cup {Version(from)}
           first == {i \in DOMAIN all : \A j \in 1 .. (i - 1) : all[j].mod # all[i].mod}
           Rank(i) == Cardinality({j \in first : all[j].mod < all[i].mod})
           N == Cardinality(first)
           history == [n \in 1 .. N |-> all[CHOOSE i \in first : Rank(i) = n - 1]]
           merged == merge_histories(from, to)
<1>1. merged = [to EXCEPT !.history = history] BY DEF merge_histories
<1>2. Version(from) \in VersionType BY DEF Version, VersionType, EntryType
<1>3. all \in Seq(VersionType) /\ ToSet(all) = before
  <2>1. to.history \in Seq(VersionType) /\ from.history \in Seq(VersionType) BY DEF EntryType
  <2> DEFINE s == to.history \o from.history
             last == <<Version(from)>>
  <2>2. s \in Seq(VersionType) /\ ToSet(s) = ToSet(to.history) \cup ToSet(from.history)
    BY <2>1, ConcatenatedElements
  <2>3. last \in Seq(VersionType) BY <1>2
  <2>4. ToSet(last) = {Version(from)}
    <3>1. DOMAIN last = {1} /\ last[1] = Version(from) OBVIOUS
    <3> HIDE DEF last
    <3>2. QED BY <3>1 DEF ToSet
  <2> HIDE DEF s, last
  <2>5. s \o last \in Seq(VersionType) /\ ToSet(s \o last) = ToSet(s) \cup ToSet(last)
    BY <2>2, <2>3, ConcatenatedElements
  <2>6. QED BY <2>2, <2>4, <2>5 DEF s, last
<1> HIDE DEF all, before, history, merged
<1>4. DOMAIN all = 1 .. Len(all) /\ Len(all) \in Nat BY <1>3
<1>5. \A i \in 1 .. Len(all) : all[i] \in VersionType /\ all[i].mod \in Nat
  <2>1. \A i \in 1 .. Len(all) : all[i] \in VersionType BY <1>3, ElementsOf
  <2>2. QED BY <2>1 DEF VersionType
<1>6. first \subseteq 1 .. Len(all) BY <1>4
<1>7. IsFiniteSet(first)
  <2>1. first \in SUBSET Nat BY <1>6
  <2>2. \A i \in first : i <= Len(all) BY <1>6
  <2> HIDE DEF first
  <2>3. QED BY <1>4, <2>1, <2>2, FS_BoundedSetOfNaturals
<1>8. \A i, j \in first : all[i].mod = all[j].mod => i = j
  <2>1. ASSUME NEW i \in first, NEW j \in first, all[i].mod = all[j].mod, i < j PROVE FALSE
    <3>1. i \in 1 .. (j - 1) BY <1>6, <2>1
    <3>2. QED BY <2>1, <3>1
  <2>2. \A i \in first : i \in Nat BY <1>6
  <2> HIDE DEF first
  <2>3. QED BY <2>1, <2>2
<1>9. /\ N \in Nat
      /\ \A n \in 1 .. N : \E i \in first : Rank(i) = n - 1
      /\ \A i \in first : Rank(i) + 1 \in 1 .. N
      /\ \A i, k \in first : Rank(i) = Rank(k) => i = k
  <2> DEFINE f == [i \in first |-> all[i].mod]
  <2>1. f \in [first -> Nat]
    <3> HIDE DEF first
    <3>1. QED BY <1>5, <1>6
  <2>2. \A i, j \in first : f[i] = f[j] => i = j
    <3> HIDE DEF first
    <3>1. QED BY <1>8
  <2>3. \A i \in first : {j \in first : f[j] < f[i]} = {j \in first : all[j].mod < all[i].mod}
    <3> HIDE DEF first
    <3>1. QED OBVIOUS
  <2> HIDE DEF f, first
  <2>4. /\ N \in Nat
        /\ \A n \in 1 .. N : \E i \in first : Cardinality({j \in first : f[j] < f[i]}) = n - 1
        /\ \A i \in first : Cardinality({j \in first : f[j] < f[i]}) + 1 \in 1 .. N
        /\ \A i, k \in first : Cardinality({j \in first : f[j] < f[i]}) = Cardinality({j \in first : f[j] < f[k]})
                                 => i = k
    BY <1>7, <2>1, <2>2, Ranks
  <2>5. QED BY <2>3, <2>4
<1> HIDE DEF first, Rank, N
<1>10. ASSUME NEW n \in 1 .. N PROVE \E i \in first : Rank(i) = n - 1 /\ history[n] = all[i]
  <2> DEFINE k == CHOOSE i \in first : Rank(i) = n - 1
  <2>1. k \in first /\ Rank(k) = n - 1 BY <1>9
  <2>2. history[n] = all[k] BY DEF history
  <2>3. QED BY <2>1, <2>2
<1>11. ASSUME NEW n \in 1 .. N PROVE history[n] \in VersionType /\ history[n] \in ToSet(all)
  <2>1. PICK i \in first : history[n] = all[i] BY <1>10
  <2>2. i \in 1 .. Len(all) BY <1>6
  <2>3. QED BY <1>3, <1>5, <2>1, <2>2, ElementsOf
<1>12. history \in Seq(VersionType) /\ DOMAIN history = 1 .. N
  <2>1. history = [n \in 1 .. N |-> history[n]] BY DEF history
  <2>2. history \in [1 .. N -> VersionType] BY <1>11, <2>1
  <2>3. QED BY <1>9, <2>2
<1>13. ToSet(history) \subseteq before
  <2>1. ASSUME NEW v \in ToSet(history) PROVE v \in before
    <3>1. PICK n \in 1 .. N : v = history[n] BY <1>12 DEF ToSet
    <3>2. QED BY <1>3, <1>11, <3>1
  <2>2. QED BY <2>1
<1>14. ASSUME NEW v \in before PROVE \E n \in DOMAIN history : history[n].mod = v.mod
  <2>1. PICK k \in 1 .. Len(all) : v = all[k] BY <1>3, ElementsOf
  <2> DEFINE same == {i \in 1 .. Len(all) : all[i].mod = v.mod}
  <2>2. PICK i \in same : \A j \in same : i <= j
    <3>1. same \subseteq Nat /\ same # {} BY <2>1
    <3> HIDE DEF same
    <3>2. QED BY <3>1, Least
  <2>3. i \in first
    <3>1. i \in 1 .. Len(all) /\ all[i].mod = v.mod OBVIOUS
    <3>2. ASSUME NEW j \in 1 .. (i - 1) PROVE all[j].mod # all[i].mod
      <4>1. j \in 1 .. Len(all) /\ ~(i <= j) BY <1>4, <3>1
      <4>2. j \notin same BY <2>2, <4>1
      <4>3. QED BY <3>1, <4>1, <4>2
    <3>3. QED BY <1>4, <3>1, <3>2 DEF first
  <2>4. Rank(i) + 1 \in 1 .. N BY <1>9, <2>3
  <2>5. PICK k2 \in first : Rank(k2) = (Rank(i) + 1) - 1 /\ history[Rank(i) + 1] = all[k2] BY <1>10, <2>4
  <2>6. Rank(i) \in Nat
    <3>1. {j \in first : all[j].mod < all[i].mod} \subseteq first OBVIOUS
    <3>2. IsFiniteSet({j \in first : all[j].mod < all[i].mod}) BY <1>7, <3>1, FS_Subset
    <3>3. QED BY <3>2, FS_CardinalityType DEF Rank
  <2>7. Rank(k2) = Rank(i) BY <2>5, <2>6
  <2>8. k2 = i BY <1>9, <2>3, <2>7
  <2>9. history[Rank(i) + 1].mod = v.mod BY <2>5, <2>8
  <2>10. QED BY <1>12, <2>4, <2>9
<1>15. merged \in EntryType /\ merged.mod = to.mod /\ merged.icon = to.icon /\ merged.history = history
  BY <1>1, <1>12 DEF EntryType
<1>16. QED
  <2>1. ToSet(merged.history) \subseteq before BY <1>13, <1>15
  <2>2. \A v \in before : \E i \in DOMAIN merged.history : merged.history[i].mod = v.mod BY <1>14, <1>15
  <2>3. QED BY <1>15, <2>1, <2>2 DEF merged, before

-----------------------------------------------------------------------------
(* The references of what is taken over *)

Targets(remap) == \A u \in DOMAIN remap : remap[u] \in Nat

LEMMA RemappedVersion ==
    ASSUME NEW v \in VersionType, NEW remap, Targets(remap)
    PROVE  Remapped(v, remap) \in VersionType /\ Remapped(v, remap).mod = v.mod
  BY DEF Remapped, VersionType, Targets

\* The versions of an entry: the present one and the older ones
VersionsOf(e) == {e} \cup ToSet(e.history)

\* A version is shown like another one, but for the remap.
Keeps(v, w) == v.mod = w.mod /\ v.icon = w.icon
Follows(v, w, remap) == v.mod = w.mod /\ v.icon = Remapped(w, remap).icon

LEMMA RemappedEntry ==
    ASSUME NEW e \in EntryType, NEW remap, Targets(remap)
    PROVE  LET r == remap_entry_icons(e, remap)
           IN  /\ r \in EntryType /\ r.mod = e.mod
               /\ \A v \in VersionsOf(r) : \E w \in VersionsOf(e) : Follows(v, w, remap)
<1> DEFINE p == Remapped(e, remap)
           r == remap_entry_icons(e, remap)
           h == [i \in DOMAIN p.history |-> Remapped(p.history[i], remap)]
<1>1. p \in EntryType /\ p.mod = e.mod /\ p.history = e.history
  BY DEF Remapped, EntryType, Targets
<1>2. e.history \in Seq(VersionType) BY DEF EntryType
<1>3. r = [p EXCEPT !.history = h] BY DEF remap_entry_icons
<1> HIDE DEF p
<1>4. DOMAIN h = 1 .. Len(e.history) /\ \A i \in 1 .. Len(e.history) : h[i] = Remapped(e.history[i], remap)
  BY <1>1, <1>2
<1>5. \A i \in 1 .. Len(e.history) : h[i] \in VersionType /\ Follows(h[i], e.history[i], remap)
  <2>1. ASSUME NEW i \in 1 .. Len(e.history)
        PROVE  h[i] \in VersionType /\ Follows(h[i], e.history[i], remap)
    <3>1. e.history[i] \in VersionType BY <1>2, ElementsOf
    <3>2. h[i] = Remapped(e.history[i], remap) BY <1>4
    <3> HIDE DEF h
    <3>3. QED BY <3>1, <3>2, RemappedVersion DEF Follows
  <2>2. QED BY <2>1
<1>6. h \in Seq(VersionType)
  <2>1. h = [i \in 1 .. Len(e.history) |-> h[i]] BY <1>4
  <2> HIDE DEF h
  <2>2. h \in [1 .. Len(e.history) -> VersionType] BY <1>5, <2>1
  <2>3. Len(e.history) \in Nat BY <1>2, ElementsOf
  <2>4. QED BY <2>2, <2>3
<1> HIDE DEF h, r
<1>7. r \in EntryType /\ r.mod = e.mod /\ r.icon = p.icon /\ r.history = h
  BY <1>1, <1>3, <1>6 DEF EntryType
<1>8. ASSUME NEW v \in VersionsOf(r) PROVE \E w \in VersionsOf(e) : Follows(v, w, remap)
  <2>1. CASE v = r
    <3>1. Follows(r, e, remap) BY <1>7 DEF Follows, p
    <3>2. e \in VersionsOf(e) BY DEF VersionsOf
    <3>3. QED BY <2>1, <3>1, <3>2
  <2>2. CASE v \in ToSet(h)
    <3>1. PICK i \in 1 .. Len(e.history) : v = h[i] BY <1>4, <2>2 DEF ToSet
    <3>2. e.history[i] \in VersionsOf(e) BY <1>2, ElementsOf DEF VersionsOf
    <3>3. QED BY <1>5, <3>1, <3>2
  <2>3. QED BY <1>7, <2>1, <2>2 DEF VersionsOf
<1>9. QED BY <1>7, <1>8 DEF r

\* Every version of a merged entry is one of ours or a remapped one of theirs.
LEMMA EntryMerged ==
    ASSUME NEW ours \in EntryType, NEW theirs \in EntryType, NEW remap, Targets(remap)
    PROVE  LET merged == merge_entry(ours, theirs, remap)
           IN  /\ merged \in EntryType
               /\ \A v \in VersionsOf(merged) :
                     \/ \E w \in VersionsOf(ours) : Keeps(v, w)
                     \/ \E w \in VersionsOf(theirs) : Follows(v, w, remap)
               /\ \/ merged.mod = theirs.mod
                  \/ merged.mod > theirs.mod /\ found_in_history(merged, theirs)
<1> DEFINE s == remap_entry_icons(theirs, remap)
           merged == merge_entry(ours, theirs, remap)
           Good(v) == \/ \E w \in VersionsOf(ours) : Keeps(v, w)
                      \/ \E w \in VersionsOf(theirs) : Follows(v, w, remap)
<1>1. s \in EntryType /\ s.mod = theirs.mod
      /\ \A v \in VersionsOf(s) : \E w \in VersionsOf(theirs) : Follows(v, w, remap)
  BY RemappedEntry
<1> HIDE DEF s
<1>2. ours.mod \in Nat /\ theirs.mod \in Nat BY DEF EntryType
<1>3. \A v \in VersionsOf(ours) : Good(v) BY DEF Keeps
<1>4. \A v \in VersionsOf(s) : Good(v) BY <1>1
\* What a merge in either direction holds
<1>5. ASSUME NEW from \in {ours, s}, NEW to \in {ours, s}, merged = merge_histories(from, to)
      PROVE  /\ merged \in EntryType /\ merged.mod = to.mod
             /\ \A v \in VersionsOf(merged) : Good(v)
             /\ \E i \in DOMAIN merged.history : merged.history[i].mod = from.mod
  <2>1. from \in EntryType /\ to \in EntryType BY <1>1
  <2> DEFINE before == ToSet(to.history) \cup ToSet(from.history) \cup {Version(from)}
  <2> HIDE DEF merged
  <2>2. /\ merged \in EntryType /\ merged.mod = to.mod /\ merged.icon = to.icon
        /\ ToSet(merged.history) \subseteq before
        /\ \A v \in before : \E i \in DOMAIN merged.history : merged.history[i].mod = v.mod
    BY <1>5, <2>1, HistoriesMerged
  <2> HIDE DEF Good
  <2>3. Good(to) /\ Good(from) BY <1>3, <1>4 DEF VersionsOf
  <2>4. Good(merged) BY <2>2, <2>3 DEF Good, Keeps, Follows
  <2>5. Good(Version(from)) BY <2>3 DEF Good, Keeps, Follows, Version
  <2>6. \A v \in ToSet(to.history) \cup ToSet(from.history) : Good(v) BY <1>3, <1>4 DEF VersionsOf
  <2>7. \A v \in VersionsOf(merged) : Good(v) BY <2>2, <2>4, <2>5, <2>6 DEF VersionsOf
  <2>8. Version(from).mod = from.mod BY DEF Version
  <2>9. QED BY <2>2, <2>7, <2>8
<1>6. CASE ours.mod = theirs.mod
  <2>1. ~(ours.mod < theirs.mod) BY <1>2, <1>6
  <2>2. merged = ours BY <1>6, <2>1 DEF merge_entry
  <2>3. QED BY <1>3, <1>6, <2>2
<1>7. CASE ours.mod < theirs.mod
  <2>1. merged = merge_histories(ours, s) BY <1>2, <1>7 DEF merge_entry, s
  <2> HIDE DEF merged, Good
  <2>2. merged \in EntryType /\ merged.mod = s.mod /\ \A v \in VersionsOf(merged) : Good(v) BY <1>5, <2>1
  <2>3. QED BY <1>1, <2>2 DEF merged, Good
<1>8. CASE ours.mod > theirs.mod /\ found_in_history(ours, theirs)
  <2>1. ours.mod # theirs.mod /\ ~(ours.mod < theirs.mod) BY <1>2, <1>8
  <2>2. merged = ours BY <1>8, <2>1 DEF merge_entry
  <2>3. QED BY <1>3, <1>8, <2>2
<1>9. CASE ours.mod > theirs.mod /\ ~found_in_history(ours, theirs)
  <2>1. ours.mod # theirs.mod /\ ~(ours.mod < theirs.mod) BY <1>2, <1>9
  <2>2. merged = merge_histories(s, ours) BY <1>9, <2>1 DEF merge_entry, s
  <2> HIDE DEF merged, Good
  <2>3. /\ merged \in EntryType /\ merged.mod = ours.mod /\ \A v \in VersionsOf(merged) : Good(v)
        /\ \E i \in DOMAIN merged.history : merged.history[i].mod = s.mod
    BY <1>5, <2>2
  <2>4. found_in_history(merged, theirs) BY <1>1, <2>3 DEF found_in_history
  <2>5. QED BY <1>9, <2>3, <2>4 DEF merged, Good
<1>10. QED BY <1>2, <1>6, <1>7, <1>8, <1>9

-----------------------------------------------------------------------------
(* What is seen *)

LEMMA ShownByIcon ==
    ASSUME NEW c, Consistent(ToSet(c.icons)), NEW a \in ToSet(c.icons), a.uuid # Nil
    PROVE  Shown(c, a.uuid) = a.data
<1> DEFINE x == CHOOSE icon \in ToSet(c.icons) : icon.uuid = a.uuid
<1>1. x \in ToSet(c.icons) /\ x.uuid = a.uuid OBVIOUS
<1>2. x.data = a.data BY <1>1 DEF Consistent
<1>3. a.uuid \in UuidsOf(c) BY DEF UuidsOf
<1>4. Shown(c, a.uuid) = x.data BY <1>3 DEF Shown
<1>5. QED BY <1>2, <1>4

\* A version that stays shows the picture it did, or one that was gone.
LEMMA KeptPicture ==
    ASSUME NEW t, NEW c, Consistent(ToSet(c.icons)), ToSet(t.icons) \subseteq ToSet(c.icons), NEW u
    PROVE  Shown(c, u) = Shown(t, u) \/ Shown(t, u) = Gone
<1>1. Consistent(ToSet(t.icons)) BY DEF Consistent
<1>2. CASE u = Nil BY <1>2 DEF Shown
<1>3. CASE u # Nil /\ u \notin UuidsOf(t) BY <1>3 DEF Shown
<1>4. CASE u # Nil /\ u \in UuidsOf(t)
  <2>1. PICK a \in ToSet(t.icons) : a.uuid = u BY <1>4 DEF UuidsOf
  <2>2. Shown(t, u) = a.data BY <1>1, <1>4, <2>1, ShownByIcon
  <2>3. Shown(c, u) = a.data BY <1>4, <2>1, ShownByIcon
  <2>4. QED BY <2>2, <2>3
<1>5. QED BY <1>2, <1>3, <1>4

\* And so does one that is taken over with its reference rewritten.
LEMMA RemappedPicture ==
    ASSUME NEW target, NEW s, NEW c, NEW m, s.icons \in Seq(Icon), c.icons = m.icons,
           Merging(m, target, s.icons, Len(s.icons)),
           Consistent(ToSet(c.icons) \cup ToSet(s.icons))
    PROVE  \A w \in VersionType \cup EntryType : \A v : Follows(v, w, m.remap) =>
              Shown(c, v.icon) = Shown(s, w.icon) \/ Shown(s, w.icon) = Gone
<1>0. SUFFICES ASSUME NEW w \in VersionType \cup EntryType, NEW v, Follows(v, w, m.remap)
               PROVE  Shown(c, v.icon) = Shown(s, w.icon) \/ Shown(s, w.icon) = Gone
  OBVIOUS
<1>1. Consistent(ToSet(c.icons)) /\ Consistent(ToSet(s.icons)) BY DEF Consistent
<1>2. ToSet(c.icons) \subseteq Icon /\ ToSet(s.icons) \subseteq Icon
  <2>1. c.icons \in Seq(Icon) BY DEF Merging
  <2>2. QED BY <2>1, ElementsOf
<1>3. Redirects(m.remap, c.icons, s.icons) BY DEF Merging
<1>4. v.icon = IF w.icon \in DOMAIN m.remap THEN m.remap[w.icon] ELSE w.icon
  BY <1>0 DEF Follows, Remapped, VersionType, EntryType
<1>5. CASE w.icon = Nil
  <2>1. Nil \notin DOMAIN m.remap
    <3>1. \A a \in ToSet(s.icons) : a.uuid # Nil BY <1>2 DEF Icon
    <3>2. QED BY <1>3, <3>1 DEF Redirects
  <2>2. v.icon = Nil BY <1>4, <1>5, <2>1
  <2>3. QED BY <1>5, <2>2 DEF Shown
<1>6. CASE w.icon # Nil /\ w.icon \notin UuidsOf(s) BY <1>6 DEF Shown
<1>7. CASE w.icon # Nil /\ w.icon \in UuidsOf(s)
  <2>1. PICK a \in ToSet(s.icons) : a.uuid = w.icon BY <1>7 DEF UuidsOf
  <2>2. Shown(s, w.icon) = a.data BY <1>1, <1>7, <2>1, ShownByIcon
  <2>3. CASE w.icon \in DOMAIN m.remap
    <3>1. PICK x \in ToSet(s.icons), b \in ToSet(c.icons) :
             x.uuid = w.icon /\ b.uuid = m.remap[w.icon] /\ x.data = b.data
      BY <1>3, <2>3 DEF Redirects
    <3>2. x.data = a.data BY <1>1, <2>1, <3>1 DEF Consistent
    <3>3. b.uuid # Nil BY <1>2, <3>1 DEF Icon
    <3>4. Shown(c, b.uuid) = b.data BY <1>1, <3>1, <3>3, ShownByIcon
    <3>5. v.icon = b.uuid BY <1>4, <2>3, <3>1
    <3>6. QED BY <2>2, <3>1, <3>2, <3>4, <3>5
  <2>4. CASE w.icon \notin DOMAIN m.remap
    <3>1. PICK i \in 1 .. Len(s.icons) : a = s.icons[i] BY ElementsOf
    <3>2. a \in ToSet(c.icons) BY <2>1, <2>4, <3>1 DEF Merging
    <3>3. Shown(c, a.uuid) = a.data BY <1>1, <1>7, <2>1, <3>2, ShownByIcon
    <3>4. QED BY <1>4, <2>1, <2>2, <2>4, <3>3
  <2>5. QED BY <2>3, <2>4
<1>8. QED BY <1>5, <1>6, <1>7

-----------------------------------------------------------------------------
(* The merge of two contents *)

ContentSet == UNION {ContentType(E) : E \in SUBSET Entries}

LEMMA ContentFields ==
    ASSUME NEW c \in ContentSet
    PROVE  /\ c.icons \in Seq(Icon) /\ c.settings \in Settings /\ c.settings_changed \in Nat
           /\ c.group \in VersionType
           /\ DOMAIN c.entries \subseteq Entries /\ c.entries \in [DOMAIN c.entries -> EntryType]
           /\ c = [icons |-> c.icons, settings |-> c.settings, settings_changed |-> c.settings_changed,
                   group |-> c.group, entries |-> c.entries]
<1>1. PICK E \in SUBSET Entries : c \in ContentType(E) BY DEF ContentSet
<1>2. c.entries \in [E -> EntryType] BY <1>1 DEF ContentType
<1>3. DOMAIN c.entries = E BY <1>2
<1>4. QED BY <1>1, <1>2, <1>3 DEF ContentType

LEMMA ContentOfFields ==
    ASSUME NEW icons \in Seq(Icon), NEW settings \in Settings, NEW changed \in Nat,
           NEW group \in VersionType, NEW E \in SUBSET Entries, NEW entries \in [E -> EntryType]
    PROVE  [icons |-> icons, settings |-> settings, settings_changed |-> changed,
            group |-> group, entries |-> entries] \in ContentSet
<1>1. [icons |-> icons, settings |-> settings, settings_changed |-> changed,
       group |-> group, entries |-> entries] \in ContentType(E) BY DEF ContentType
<1>2. QED BY <1>1 DEF ContentSet

\* Nothing of a content is left out by a merge.
LEMMA MergeFields ==
    ASSUME NEW t \in ContentSet, NEW s \in ContentSet, NEW now
    PROVE  LET m == merge_custom_icons(t.icons, s.icons)
           IN  Merge(t, s, now) =
                 [icons |-> m.icons,
                  settings |-> IF Adopts(t, s) THEN s.settings ELSE t.settings,
                  settings_changed |-> IF Adopts(t, s) \/ m.icons # t.icons THEN now ELSE t.settings_changed,
                  group |-> merge_group(t.group, s.group, m.remap),
                  entries |-> merge_entries(t.entries, s.entries, m.remap)]
<1> DEFINE m == merge_custom_icons(t.icons, s.icons)
           settings == IF Adopts(t, s) THEN s.settings ELSE t.settings
           changed == IF Adopts(t, s) \/ m.icons # t.icons THEN now ELSE t.settings_changed
           group == merge_group(t.group, s.group, m.remap)
           entries == merge_entries(t.entries, s.entries, m.remap)
           meta == meta_merge(t, s, m.icons, now)
<1>1. t = [icons |-> t.icons, settings |-> t.settings, settings_changed |-> t.settings_changed,
           group |-> t.group, entries |-> t.entries]
  BY ContentFields
<1>2. meta = [t EXCEPT !.settings = settings, !.icons = m.icons, !.settings_changed = changed]
  <2> HIDE DEF m
  <2>1. CASE Adopts(t, s)
    BY <1>1, <2>1 DEF meta_merge
  <2>2. CASE ~Adopts(t, s)
    BY <1>1, <2>2 DEF meta_merge
  <2>3. QED BY <2>1, <2>2
<1>3. Merge(t, s, now) = [meta EXCEPT !.group = merge_group(@, s.group, m.remap),
                                      !.entries = merge_entries(@, s.entries, m.remap)]
  BY DEF Merge
<1> HIDE DEF m, settings, changed, meta
<1>4. meta = [icons |-> m.icons, settings |-> settings, settings_changed |-> changed,
              group |-> t.group, entries |-> t.entries]
  BY <1>1, <1>2
<1>5. meta.group = t.group /\ meta.entries = t.entries BY <1>4
<1>6. Merge(t, s, now) = [meta EXCEPT !.group = group, !.entries = entries] BY <1>3, <1>4, <1>5
<1> HIDE DEF group, entries
<1>7. Merge(t, s, now) = [icons |-> m.icons, settings |-> settings, settings_changed |-> changed,
                          group |-> group, entries |-> entries]
  BY <1>4, <1>6
<1>8. QED BY <1>7 DEF m, settings, changed, group, entries

LEMMA RemapTargets ==
    ASSUME NEW m, NEW target, NEW source, NEW n, Merging(m, target, source, n)
    PROVE  Targets(m.remap)
<1>1. ToSet(m.icons) \subseteq Icon
  <2>1. m.icons \in Seq(Icon) BY DEF Merging
  <2>2. QED BY <2>1, ElementsOf
<1>2. \A a \in ToSet(m.icons) : a.uuid \in Nat BY <1>1 DEF Icon
<1>3. QED BY <1>2 DEF Merging, Redirects, Targets

\* What a merge does with the entries: ours, theirs with the references rewritten, or both merged
LEMMA EntriesMerged ==
    ASSUME NEW t \in ContentSet, NEW s \in ContentSet, NEW remap, Targets(remap)
    PROVE  LET merged == merge_entries(t.entries, s.entries, remap)
               E == DOMAIN t.entries \cup DOMAIN s.entries
           IN  /\ merged \in [E -> EntryType]
               /\ \A e \in E : \A v \in VersionsOf(merged[e]) :
                     \/ e \in DOMAIN t.entries /\ \E w \in VersionsOf(t.entries[e]) : Keeps(v, w)
                     \/ e \in DOMAIN s.entries /\ \E w \in VersionsOf(s.entries[e]) : Follows(v, w, remap)
               /\ \A e \in DOMAIN s.entries :
                     \/ merged[e].mod = s.entries[e].mod
                     \/ merged[e].mod > s.entries[e].mod /\ found_in_history(merged[e], s.entries[e])
<1> DEFINE merged == merge_entries(t.entries, s.entries, remap)
           E == DOMAIN t.entries \cup DOMAIN s.entries
           Of(e) == IF e \notin DOMAIN s.entries THEN t.entries[e]
                    ELSE IF e \notin DOMAIN t.entries THEN remap_entry_icons(s.entries[e], remap)
                    ELSE merge_entry(t.entries[e], s.entries[e], remap)
           Good(e, v) == \/ e \in DOMAIN t.entries /\ \E w \in VersionsOf(t.entries[e]) : Keeps(v, w)
                         \/ e \in DOMAIN s.entries /\ \E w \in VersionsOf(s.entries[e]) : Follows(v, w, remap)
           Settled(x, e) == e \in DOMAIN s.entries =>
                     \/ x.mod = s.entries[e].mod
                     \/ x.mod > s.entries[e].mod /\ found_in_history(x, s.entries[e])
<1>1. merged = [e \in E |-> Of(e)] BY DEF merge_entries
<1>2. \A e \in DOMAIN t.entries : t.entries[e] \in EntryType BY ContentFields
<1>3. \A e \in DOMAIN s.entries : s.entries[e] \in EntryType BY ContentFields
<1>4. ASSUME NEW e \in E
      PROVE  Of(e) \in EntryType /\ (\A v \in VersionsOf(Of(e)) : Good(e, v)) /\ Settled(Of(e), e)
  <2>1. CASE e \notin DOMAIN s.entries
    <3>1. Of(e) = t.entries[e] /\ e \in DOMAIN t.entries BY <2>1
    <3>2. \A v \in VersionsOf(t.entries[e]) : Keeps(v, v) BY DEF Keeps
    <3>3. QED BY <1>2, <2>1, <3>1, <3>2
  <2>2. CASE e \in DOMAIN s.entries /\ e \notin DOMAIN t.entries
    <3>1. Of(e) = remap_entry_icons(s.entries[e], remap) BY <2>2
    <3>2. Of(e) \in EntryType /\ Of(e).mod = s.entries[e].mod
          /\ \A v \in VersionsOf(Of(e)) : \E w \in VersionsOf(s.entries[e]) : Follows(v, w, remap)
      <4> HIDE DEF Of
      <4>1. QED BY <1>3, <2>2, <3>1, RemappedEntry
    <3> HIDE DEF Of
    <3>3. QED BY <2>2, <3>2
  <2>3. CASE e \in DOMAIN s.entries /\ e \in DOMAIN t.entries
    <3>1. Of(e) = merge_entry(t.entries[e], s.entries[e], remap) BY <2>3
    <3> HIDE DEF Of
    <3>2. /\ Of(e) \in EntryType
          /\ \A v \in VersionsOf(Of(e)) :
                \/ \E w \in VersionsOf(t.entries[e]) : Keeps(v, w)
                \/ \E w \in VersionsOf(s.entries[e]) : Follows(v, w, remap)
          /\ \/ Of(e).mod = s.entries[e].mod
             \/ Of(e).mod > s.entries[e].mod /\ found_in_history(Of(e), s.entries[e])
      BY <1>2, <1>3, <2>3, <3>1, EntryMerged
    <3>3. QED BY <2>3, <3>2
  <2>4. QED BY <2>1, <2>2, <2>3
<1> HIDE DEF Of, merged
<1>5. merged \in [E -> EntryType] /\ \A e \in E : merged[e] = Of(e) BY <1>1, <1>4
<1> HIDE DEF Good, Settled
<1>6. \A e \in E : (\A v \in VersionsOf(merged[e]) : Good(e, v)) /\ Settled(merged[e], e) BY <1>4, <1>5
<1>7. QED BY <1>5, <1>6 DEF Good, Settled, merged

LEMMA GroupMerged ==
    ASSUME NEW t \in VersionType, NEW s \in VersionType, NEW remap, Targets(remap)
    PROVE  LET g == merge_group(t, s, remap)
           IN  /\ g \in VersionType /\ g.mod >= s.mod
               /\ g = t \/ Follows(g, s, remap)
<1>1. Remapped(s, remap) \in VersionType /\ Remapped(s, remap).mod = s.mod BY RemappedVersion
<1>2. t.mod \in Nat /\ s.mod \in Nat BY DEF VersionType
<1>3. CASE s.mod > t.mod
  <2>1. merge_group(t, s, remap) = Remapped(s, remap) BY <1>3 DEF merge_group
  <2>2. QED BY <1>1, <1>2, <2>1 DEF Follows
<1>4. CASE ~(s.mod > t.mod)
  <2>1. merge_group(t, s, remap) = t BY <1>4 DEF merge_group
  <2>2. QED BY <1>2, <1>4, <2>1
<1>5. QED BY <1>3, <1>4

LEMMA ContentMerged ==
    ASSUME NEW t \in ContentSet, NEW s \in ContentSet, NEW now \in Nat,
           Consistent(ToSet(t.icons) \cup ToSet(s.icons))
    PROVE  LET c == Merge(t, s, now)
           IN  /\ c \in ContentSet
               /\ ToSet(c.icons) \subseteq ToSet(t.icons) \cup ToSet(s.icons)
               /\ c.settings_changed \in {t.settings_changed, now}
<1> DEFINE m == merge_custom_icons(t.icons, s.icons)
           c == Merge(t, s, now)
           E == DOMAIN t.entries \cup DOMAIN s.entries
<1>1. t.icons \in Seq(Icon) /\ s.icons \in Seq(Icon) BY ContentFields
<1>2. Merging(m, t.icons, s.icons, Len(s.icons)) BY <1>1, IconsMerged
<1>3. Targets(m.remap) BY <1>2, RemapTargets
<1> HIDE DEF m
<1>4. m.icons \in Seq(Icon) /\ ToSet(m.icons) \subseteq ToSet(t.icons) \cup ToSet(s.icons) BY <1>2 DEF Merging
<1>5. c = [icons |-> m.icons,
           settings |-> IF Adopts(t, s) THEN s.settings ELSE t.settings,
           settings_changed |-> IF Adopts(t, s) \/ m.icons # t.icons THEN now ELSE t.settings_changed,
           group |-> merge_group(t.group, s.group, m.remap),
           entries |-> merge_entries(t.entries, s.entries, m.remap)]
  BY MergeFields DEF m
<1>6. merge_entries(t.entries, s.entries, m.remap) \in [E -> EntryType] BY <1>3, EntriesMerged
<1>7. merge_group(t.group, s.group, m.remap) \in VersionType BY <1>3, ContentFields, GroupMerged
<1>8. /\ (IF Adopts(t, s) THEN s.settings ELSE t.settings) \in Settings
      /\ (IF Adopts(t, s) \/ m.icons # t.icons THEN now ELSE t.settings_changed) \in Nat
      /\ E \in SUBSET Entries
  BY ContentFields
<1>9. c \in ContentSet
  <2> HIDE DEF c, E
  <2>1. QED BY <1>4, <1>5, <1>6, <1>7, <1>8, ContentOfFields
<1>10. c.icons = m.icons /\ c.settings_changed \in {t.settings_changed, now} BY <1>5
<1>11. QED BY <1>4, <1>9, <1>10

\* A merge keeps the pictures of both sides.
LEMMA PicturesMerged ==
    ASSUME NEW t \in ContentSet, NEW s \in ContentSet, NEW now \in Nat,
           Consistent(ToSet(t.icons) \cup ToSet(s.icons))
    PROVE  KeepsPictures(t, s, Merge(t, s, now))
<1> DEFINE m == merge_custom_icons(t.icons, s.icons)
           c == Merge(t, s, now)
<1>1. t.icons \in Seq(Icon) /\ s.icons \in Seq(Icon) BY ContentFields
<1>2. Merging(m, t.icons, s.icons, Len(s.icons)) BY <1>1, IconsMerged
<1>3. Targets(m.remap) BY <1>2, RemapTargets
<1>4. c = [icons |-> m.icons,
           settings |-> IF Adopts(t, s) THEN s.settings ELSE t.settings,
           settings_changed |-> IF Adopts(t, s) \/ m.icons # t.icons THEN now ELSE t.settings_changed,
           group |-> merge_group(t.group, s.group, m.remap),
           entries |-> merge_entries(t.entries, s.entries, m.remap)]
  BY MergeFields
<1>5. /\ c.icons = m.icons /\ c.group = merge_group(t.group, s.group, m.remap)
      /\ c.entries = merge_entries(t.entries, s.entries, m.remap)
  BY <1>4
<1> HIDE DEF m, c
<1>6. ToSet(t.icons) \subseteq ToSet(c.icons) /\ ToSet(c.icons) \subseteq ToSet(t.icons) \cup ToSet(s.icons)
  BY <1>2, <1>5 DEF Merging
<1>7. Consistent(ToSet(c.icons)) /\ Consistent(ToSet(c.icons) \cup ToSet(s.icons))
  BY <1>6 DEF Consistent
<1> DEFINE Fine(p, before) == p \in before \/ <<p[1], Gone>> \in before
\* The picture of one version
<1>8. ASSUME NEW v, NEW w, Keeps(v, w), NEW vs, w \in vs
      PROVE  Fine(<<v.mod, Shown(c, v.icon)>>, Pictures(t, vs))
  <2>1. Shown(c, v.icon) = Shown(t, w.icon) \/ Shown(t, w.icon) = Gone
    BY <1>6, <1>7, <1>8, KeptPicture DEF Keeps
  <2>2. v.mod = w.mod BY <1>8 DEF Keeps
  <2>3. <<v.mod, Shown(t, w.icon)>> \in Pictures(t, vs) BY <1>8, <2>2 DEF Pictures
  <2>4. QED BY <2>1, <2>3
<1>9. ASSUME NEW v, NEW w \in VersionType \cup EntryType, Follows(v, w, m.remap), NEW vs, w \in vs
      PROVE  Fine(<<v.mod, Shown(c, v.icon)>>, Pictures(s, vs))
  <2>1. Shown(c, v.icon) = Shown(s, w.icon) \/ Shown(s, w.icon) = Gone
    <3>1. \A x \in VersionType \cup EntryType : \A y : Follows(y, x, m.remap) =>
              Shown(c, y.icon) = Shown(s, x.icon) \/ Shown(s, x.icon) = Gone
      BY <1>1, <1>2, <1>5, <1>7, RemappedPicture
    <3>2. QED BY <1>9, <3>1
  <2>2. v.mod = w.mod BY <1>9 DEF Follows
  <2>3. <<v.mod, Shown(s, w.icon)>> \in Pictures(s, vs) BY <1>9, <2>2 DEF Pictures
  <2>4. QED BY <2>1, <2>3
<1> DEFINE Kept(before, after) == \A p \in after : Fine(p, before)
<1>10. Kept(Pictures(t, {t.group}) \cup Pictures(s, {s.group}), Pictures(c, {c.group}))
  <2>1. t.group \in VersionType /\ s.group \in VersionType BY ContentFields
  <2>2. c.group = t.group \/ Follows(c.group, s.group, m.remap) BY <1>3, <1>5, <2>1, GroupMerged
  <2>3. CASE c.group = t.group
    <3>1. Keeps(c.group, t.group) BY <2>3 DEF Keeps
    <3>2. Fine(<<c.group.mod, Shown(c, c.group.icon)>>, Pictures(t, {t.group}))
      <4> HIDE DEF Fine
      <4>1. QED BY <1>8, <3>1
    <3>3. QED BY <3>2 DEF Pictures
  <2>4. CASE Follows(c.group, s.group, m.remap)
    <3>1. Fine(<<c.group.mod, Shown(c, c.group.icon)>>, Pictures(s, {s.group}))
      <4> HIDE DEF Fine
      <4>1. QED BY <1>9, <2>1, <2>4
    <3>2. QED BY <3>1 DEF Pictures
  <2>5. QED BY <2>2, <2>3, <2>4
<1>11. ASSUME NEW e \in Entries
       PROVE  Kept(Pictures(t, Versions(t, e)) \cup Pictures(s, Versions(s, e)), Pictures(c, Versions(c, e)))
  <2>1. DOMAIN c.entries = DOMAIN t.entries \cup DOMAIN s.entries
    BY <1>5 DEF merge_entries
  <2>2. CASE e \notin DOMAIN c.entries
    <3>1. Versions(c, e) = {} BY <2>2 DEF Versions
    <3>2. QED BY <3>1 DEF Pictures
  <2>3. CASE e \in DOMAIN c.entries
    <3>1. Versions(c, e) = VersionsOf(c.entries[e]) BY <2>3 DEF Versions, VersionsOf
    <3>2. ASSUME NEW v \in VersionsOf(c.entries[e])
          PROVE  Fine(<<v.mod, Shown(c, v.icon)>>, Pictures(t, Versions(t, e)) \cup Pictures(s, Versions(s, e)))
      <4>1. \/ e \in DOMAIN t.entries /\ \E w \in VersionsOf(t.entries[e]) : Keeps(v, w)
            \/ e \in DOMAIN s.entries /\ \E w \in VersionsOf(s.entries[e]) : Follows(v, w, m.remap)
        BY <1>3, <1>5, <2>1, <2>3, EntriesMerged
      <4>2. CASE e \in DOMAIN t.entries /\ \E w \in VersionsOf(t.entries[e]) : Keeps(v, w)
        <5>1. PICK w \in VersionsOf(t.entries[e]) : Keeps(v, w) BY <4>2
        <5>2. w \in Versions(t, e) BY <4>2 DEF Versions, VersionsOf
        <5>3. Fine(<<v.mod, Shown(c, v.icon)>>, Pictures(t, Versions(t, e)))
          <6> HIDE DEF Fine
          <6>1. QED BY <1>8, <5>1, <5>2
        <5>4. QED BY <5>3
      <4>3. CASE e \in DOMAIN s.entries /\ \E w \in VersionsOf(s.entries[e]) : Follows(v, w, m.remap)
        <5>1. PICK w \in VersionsOf(s.entries[e]) : Follows(v, w, m.remap) BY <4>3
        <5>2. w \in Versions(s, e) BY <4>3 DEF Versions, VersionsOf
        <5>3. s.entries[e] \in EntryType BY <4>3, ContentFields
        <5>4. s.entries[e].history \in Seq(VersionType) BY <5>3 DEF EntryType
        <5>5. w \in VersionType \cup EntryType BY <5>3, <5>4, ElementsOf DEF VersionsOf
        <5>6. Fine(<<v.mod, Shown(c, v.icon)>>, Pictures(s, Versions(s, e)))
          <6> HIDE DEF Fine
          <6>1. QED BY <1>9, <5>1, <5>2, <5>5
        <5>7. QED BY <5>6
      <4>4. QED BY <4>1, <4>2, <4>3
    <3> HIDE DEF Fine
    <3>3. QED BY <3>1, <3>2 DEF Pictures
  <2>4. QED BY <2>2, <2>3
<1>12. QED BY <1>10, <1>11 DEF KeepsPictures, c

\* The second merge of the same content
LEMMA MergedAgain ==
    ASSUME NEW t \in ContentSet, NEW s \in ContentSet, NEW now \in Nat, NEW later,
           Consistent(ToSet(t.icons) \cup ToSet(s.icons)), s.settings_changed <= now
    PROVE  LET c == Merge(t, s, now) IN Merge(c, s, later) = c
<1> DEFINE m == merge_custom_icons(t.icons, s.icons)
           c == Merge(t, s, now)
           m2 == merge_custom_icons(c.icons, s.icons)
<1>1. t.icons \in Seq(Icon) /\ s.icons \in Seq(Icon) BY ContentFields
<1>2. Merging(m, t.icons, s.icons, Len(s.icons)) BY <1>1, IconsMerged
<1>3. Targets(m.remap) BY <1>2, RemapTargets
<1>4. c = [icons |-> m.icons,
           settings |-> IF Adopts(t, s) THEN s.settings ELSE t.settings,
           settings_changed |-> IF Adopts(t, s) \/ m.icons # t.icons THEN now ELSE t.settings_changed,
           group |-> merge_group(t.group, s.group, m.remap),
           entries |-> merge_entries(t.entries, s.entries, m.remap)]
  BY MergeFields
<1>5. /\ c.icons = m.icons /\ c.group = merge_group(t.group, s.group, m.remap)
      /\ c.entries = merge_entries(t.entries, s.entries, m.remap)
      /\ c.settings = IF Adopts(t, s) THEN s.settings ELSE t.settings
      /\ c.settings_changed = IF Adopts(t, s) \/ m.icons # t.icons THEN now ELSE t.settings_changed
  BY <1>4
<1>6. c \in ContentSet BY ContentMerged
<1> HIDE DEF m, c
<1>7. m2.icons = c.icons
  <2>1. Data(s.icons) \subseteq Data(c.icons)
    <3>1. ASSUME NEW x \in Data(s.icons) PROVE x \in Data(c.icons)
      <4>1. PICK a \in ToSet(s.icons) : a.data = x BY DEF Data
      <4>2. PICK i \in 1 .. Len(s.icons) : a = s.icons[i] BY <1>1, ElementsOf
      <4>3. QED BY <1>2, <1>5, <4>1, <4>2 DEF Merging
    <3>2. QED BY <3>1
  <2>2. c.icons \in Seq(Icon) BY <1>6, ContentFields
  <2>3. QED BY <1>1, <2>1, <2>2, IconsMergedAgain
<1> HIDE DEF m2
<1>8. ~Adopts(c, s)
  <2>1. t.settings_changed \in Nat /\ s.settings_changed \in Nat BY ContentFields
  <2>2. CASE Adopts(t, s)
    <3>1. c.settings = s.settings BY <1>5, <2>2
    <3>2. QED BY <3>1 DEF Adopts
  <2>3. CASE ~Adopts(t, s)
    <3>1. c.settings = t.settings BY <1>5, <2>3
    <3>2. CASE t.settings = s.settings BY <3>1, <3>2 DEF Adopts
    <3>3. CASE ~(t.settings_changed < s.settings_changed)
      <4>1. ~(c.settings_changed < s.settings_changed) BY <1>5, <2>1, <3>3
      <4>2. QED BY <4>1 DEF Adopts
    <3>4. QED BY <2>3, <3>2, <3>3 DEF Adopts
  <2>4. QED BY <2>2, <2>3
<1>9. merge_group(c.group, s.group, m2.remap) = c.group
  <2>1. t.group \in VersionType /\ s.group \in VersionType BY ContentFields
  <2>2. c.group \in VersionType /\ c.group.mod >= s.group.mod BY <1>3, <1>5, <2>1, GroupMerged
  <2>3. c.group.mod \in Nat /\ s.group.mod \in Nat BY <2>1, <2>2 DEF VersionType
  <2>4. ~(s.group.mod > c.group.mod) BY <2>2, <2>3
  <2>5. QED BY <2>4 DEF merge_group
<1>10. merge_entries(c.entries, s.entries, m2.remap) = c.entries
  <2> DEFINE E == DOMAIN t.entries \cup DOMAIN s.entries
             Of(e) == IF e \notin DOMAIN s.entries THEN c.entries[e]
                      ELSE IF e \notin DOMAIN c.entries THEN remap_entry_icons(s.entries[e], m2.remap)
                      ELSE merge_entry(c.entries[e], s.entries[e], m2.remap)
  <2>1. /\ c.entries \in [E -> EntryType]
        /\ \A e \in DOMAIN s.entries :
              \/ c.entries[e].mod = s.entries[e].mod
              \/ c.entries[e].mod > s.entries[e].mod /\ found_in_history(c.entries[e], s.entries[e])
    <3> DEFINE merged == merge_entries(t.entries, s.entries, m.remap)
    <3>1. /\ merged \in [E -> EntryType]
          /\ \A e \in DOMAIN s.entries :
                \/ merged[e].mod = s.entries[e].mod
                \/ merged[e].mod > s.entries[e].mod /\ found_in_history(merged[e], s.entries[e])
      BY <1>3, EntriesMerged
    <3>2. c.entries = merged BY <1>5
    <3> HIDE DEF merged, E
    <3>3. QED BY <3>1, <3>2
  <2>2. DOMAIN c.entries = E /\ DOMAIN c.entries \cup DOMAIN s.entries = E BY <2>1
  <2>3. merge_entries(c.entries, s.entries, m2.remap) = [e \in E |-> Of(e)]
    <3>1. merge_entries(c.entries, s.entries, m2.remap) = [e \in DOMAIN c.entries \cup DOMAIN s.entries |-> Of(e)]
      BY DEF merge_entries
    <3> HIDE DEF Of, E
    <3>2. QED BY <2>2, <3>1
  <2>4. ASSUME NEW e \in E PROVE Of(e) = c.entries[e]
    <3>1. CASE e \notin DOMAIN s.entries BY <3>1
    <3>2. CASE e \in DOMAIN s.entries
      <4>1. Of(e) = merge_entry(c.entries[e], s.entries[e], m2.remap) BY <2>2, <3>2
      <4>2. c.entries[e] \in EntryType /\ s.entries[e] \in EntryType BY <2>1, <3>2, ContentFields
      <4>3. c.entries[e].mod \in Nat /\ s.entries[e].mod \in Nat BY <4>2 DEF EntryType
      <4>4. CASE c.entries[e].mod = s.entries[e].mod
        <5>1. ~(c.entries[e].mod < s.entries[e].mod) BY <4>3, <4>4
        <5>2. merge_entry(c.entries[e], s.entries[e], m2.remap) = c.entries[e] BY <4>4, <5>1 DEF merge_entry
        <5>3. QED BY <4>1, <5>2
      <4>5. CASE c.entries[e].mod > s.entries[e].mod /\ found_in_history(c.entries[e], s.entries[e])
        <5>1. c.entries[e].mod # s.entries[e].mod /\ ~(c.entries[e].mod < s.entries[e].mod) BY <4>3, <4>5
        <5>2. merge_entry(c.entries[e], s.entries[e], m2.remap) = c.entries[e] BY <4>5, <5>1 DEF merge_entry
        <5>3. QED BY <4>1, <5>2
      <4>6. QED BY <2>1, <3>2, <4>4, <4>5
    <3>3. QED BY <3>1, <3>2
  <2>5. c.entries = [e \in E |-> c.entries[e]] BY <2>1
  <2> HIDE DEF Of, E
  <2>6. QED BY <2>3, <2>4, <2>5
<1>11. Merge(c, s, later) = [icons |-> m2.icons,
           settings |-> IF Adopts(c, s) THEN s.settings ELSE c.settings,
           settings_changed |-> IF Adopts(c, s) \/ m2.icons # c.icons THEN later ELSE c.settings_changed,
           group |-> merge_group(c.group, s.group, m2.remap),
           entries |-> merge_entries(c.entries, s.entries, m2.remap)]
  BY <1>6, MergeFields DEF m2
<1>12. Merge(c, s, later) = [icons |-> c.icons, settings |-> c.settings, settings_changed |-> c.settings_changed,
                             group |-> c.group, entries |-> c.entries]
  BY <1>7, <1>8, <1>9, <1>10, <1>11
<1>13. QED BY <1>6, <1>12, ContentFields DEF c

-----------------------------------------------------------------------------
(* The inductive invariant *)

AllIcons == UNION {ToSet(db[d].icons) \cup ToSet(file[d].icons) : d \in Devices}

\* Nothing is newer than the clock.
NotAhead == \A d \in Devices : db[d].settings_changed <= clock /\ file[d].settings_changed <= clock

\* Also icons of different devices do not share a uuid unless they have the same bytes, and
\* the uuids to come are new: what a merge finds under a uuid is what its source means by it.
UuidsApart == Consistent(AllIcons) /\ \A a \in AllIcons : a.uuid < unused

Inv ==
    /\ db \in [Devices -> ContentSet] /\ file \in [Devices -> ContentSet]
    /\ unused \in Nat \ {Nil} /\ clock \in Nat
    /\ NotAhead /\ UuidsApart

LEMMA BoundedUuids ==
    ASSUME NEW icons \in Seq(Icon)
    PROVE  \E b \in Nat : \A a \in ToSet(icons) : a.uuid <= b
<1> DEFINE G == {n \in Nat : n <= Len(icons) => \E b \in Nat : \A i \in 1 .. n : icons[i].uuid <= b}
<1>0. Len(icons) \in Nat /\ \A i \in 1 .. Len(icons) : icons[i].uuid \in Nat
  <2>1. Len(icons) \in Nat /\ \A i \in 1 .. Len(icons) : icons[i] \in Icon BY ElementsOf
  <2>2. QED BY <2>1 DEF Icon
<1>1. 0 \in G OBVIOUS
<1>2. ASSUME NEW n \in Nat, n \in G PROVE n + 1 \in G
  <2>1. SUFFICES ASSUME n + 1 <= Len(icons)
                 PROVE  \E b \in Nat : \A i \in 1 .. (n + 1) : icons[i].uuid <= b
    OBVIOUS
  <2>2. PICK b \in Nat : \A i \in 1 .. n : icons[i].uuid <= b BY <1>0, <1>2, <2>1
  <2>3. icons[n + 1].uuid \in Nat /\ \A i \in 1 .. n : icons[i].uuid \in Nat BY <1>0, <2>1
  <2>4. b + icons[n + 1].uuid \in Nat BY <2>3
  <2>5. ASSUME NEW i \in 1 .. (n + 1) PROVE icons[i].uuid <= b + icons[n + 1].uuid
    <3>1. CASE i \in 1 .. n
      <4>1. icons[i].uuid <= b /\ icons[i].uuid \in Nat BY <2>2, <2>3, <3>1
      <4>2. QED BY <2>3, <4>1
    <3>2. CASE i = n + 1 BY <2>3, <3>2
    <3>3. QED BY <3>1, <3>2
  <2>6. QED BY <2>4, <2>5
<1>3. Len(icons) \in G
  <2> HIDE DEF G
  <2>1. QED BY <1>0, <1>1, <1>2, AllNumbers
<1>4. PICK b \in Nat : \A i \in 1 .. Len(icons) : icons[i].uuid <= b BY <1>0, <1>3
<1>5. QED BY <1>4, ElementsOf

LEMMA InitInv == Init => Inv
<1> SUFFICES ASSUME Init PROVE Inv
  OBVIOUS
<1>1. Original \in ContentSet /\ Original.settings_changed = 0 /\ Consistent(ToSet(Original.icons))
  BY OriginalAssumption DEF ContentSet
<1>2. db = [d \in Devices |-> Original] /\ file = [d \in Devices |-> Original] /\ clock = 0
  BY DEF Init
<1>3. Original.icons \in Seq(Icon) BY <1>1, ContentFields
<1> DEFINE U == {Nil} \cup {icon.uuid : icon \in ToSet(Original.icons)}
<1>4. U \subseteq Nat /\ U # {}
  <2>1. ToSet(Original.icons) \subseteq Icon BY <1>3, ElementsOf
  <2>2. \A a \in ToSet(Original.icons) : a.uuid \in Nat BY <2>1 DEF Icon
  <2>3. QED BY <2>2 DEF Nil
<1>5. PICK b \in Nat : \A x \in U : x <= b
  <2>1. PICK b \in Nat : \A a \in ToSet(Original.icons) : a.uuid <= b BY <1>3, BoundedUuids
  <2>2. Nil <= b BY DEF Nil
  <2>3. \A x \in U : x = Nil \/ \E a \in ToSet(Original.icons) : x = a.uuid OBVIOUS
  <2> HIDE DEF U
  <2>4. \A x \in U : x <= b BY <2>1, <2>2, <2>3
  <2>5. QED BY <2>4
<1>6. unused = 1 + Max(U) BY DEF Init
<1>7. Nil \in U /\ \A a \in ToSet(Original.icons) : a.uuid \in U OBVIOUS
<1> HIDE DEF U
<1>8. Max(U) \in U /\ \A x \in U : x <= Max(U) BY <1>4, <1>5, Largest
<1>9. unused \in Nat \ {Nil} /\ \A x \in U : x < unused
  <2> DEFINE k == Max(U)
  <2>1. k \in Nat /\ \A x \in U : x \in Nat /\ x <= k BY <1>4, <1>8
  <2>2. unused = 1 + k BY <1>6
  <2> HIDE DEF k
  <2>3. unused \in Nat /\ \A x \in U : x < unused BY <2>1, <2>2
  <2>4. unused # Nil BY <2>1, <2>2 DEF Nil
  <2>5. QED BY <2>3, <2>4
<1>10. AllIcons \subseteq ToSet(Original.icons) BY <1>2 DEF AllIcons
<1>11. UuidsApart BY <1>1, <1>7, <1>9, <1>10 DEF UuidsApart, Consistent
<1>12. NotAhead BY <1>1, <1>2 DEF NotAhead
<1>13. QED BY <1>1, <1>2, <1>9, <1>11, <1>12 DEF Inv

\* A device that gets another content, with an icon more at most
LEMMA StepDb ==
    ASSUME Inv, NEW d \in Devices, NEW c \in ContentSet, NEW X,
           db' = [db EXCEPT ![d] = c], file' = file,
           clock' \in Nat, clock <= clock', c.settings_changed <= clock',
           unused' \in Nat \ {Nil}, unused <= unused',
           ToSet(c.icons) \subseteq AllIcons \cup X, Consistent(AllIcons \cup X),
           \A a \in X : a.uuid < unused', \A a \in AllIcons : a.uuid \in Nat
    PROVE  Inv'
<1>1. db' \in [Devices -> ContentSet] /\ file' \in [Devices -> ContentSet] BY DEF Inv
<1>2. \A e \in Devices : (e = d /\ db'[e] = c) \/ (db'[e] = db[e]) BY DEF Inv
<1>3. \A e \in Devices : ToSet(db[e].icons) \subseteq AllIcons /\ ToSet(file[e].icons) \subseteq AllIcons
  BY DEF AllIcons
<1>4. AllIcons' \subseteq AllIcons \cup X
  <2>1. AllIcons' = UNION {ToSet(db'[e].icons) \cup ToSet(file'[e].icons) : e \in Devices} BY DEF AllIcons
  <2>2. ASSUME NEW e \in Devices PROVE ToSet(db'[e].icons) \cup ToSet(file'[e].icons) \subseteq AllIcons \cup X
    BY <1>2, <1>3
  <2>3. QED BY <2>1, <2>2
<1>5. UuidsApart'
  <2>1. ASSUME NEW a \in AllIcons' PROVE a.uuid < unused'
    <3>1. CASE a \in X BY <3>1
    <3>2. CASE a \in AllIcons
      <4>1. a.uuid < unused /\ a.uuid \in Nat /\ unused \in Nat BY <3>2 DEF Inv, UuidsApart
      <4>2. QED BY <4>1
    <3>3. QED BY <1>4, <3>1, <3>2
  <2>2. Consistent(AllIcons') BY <1>4 DEF Consistent
  <2>3. QED BY <2>1, <2>2 DEF UuidsApart
<1>6. NotAhead'
  <2>1. ASSUME NEW e \in Devices PROVE (db[e].settings_changed <= clock') /\ (file[e].settings_changed <= clock')
    <3>1. db[e] \in ContentSet /\ file[e] \in ContentSet BY DEF Inv
    <3>2. db[e].settings_changed \in Nat /\ file[e].settings_changed \in Nat BY <3>1, ContentFields
    <3>3. db[e].settings_changed <= clock /\ file[e].settings_changed <= clock /\ clock \in Nat
      BY DEF Inv, NotAhead
    <3>4. QED BY <3>2, <3>3
  <2>2. QED BY <1>2, <2>1 DEF NotAhead
<1>7. QED BY <1>1, <1>5, <1>6 DEF Inv

LEMMA KnownIcons ==
    ASSUME Inv
    PROVE  /\ AllIcons \subseteq Icon /\ (\A a \in AllIcons : a.uuid \in Nat)
           /\ \A d \in Devices : /\ db[d] \in ContentSet /\ file[d] \in ContentSet
                                 /\ ToSet(db[d].icons) \subseteq AllIcons
                                 /\ ToSet(file[d].icons) \subseteq AllIcons
<1>1. \A d \in Devices : db[d] \in ContentSet /\ file[d] \in ContentSet BY DEF Inv
<1>2. ASSUME NEW d \in Devices PROVE ToSet(db[d].icons) \subseteq Icon /\ ToSet(file[d].icons) \subseteq Icon
  <2>1. db[d].icons \in Seq(Icon) /\ file[d].icons \in Seq(Icon) BY <1>1, ContentFields
  <2>2. QED BY <2>1, ElementsOf
<1>3. AllIcons \subseteq Icon BY <1>2 DEF AllIcons
<1>4. \A a \in AllIcons : a.uuid \in Nat BY <1>3 DEF Icon
<1>5. \A d \in Devices : ToSet(db[d].icons) \subseteq AllIcons /\ ToSet(file[d].icons) \subseteq AllIcons
  BY DEF AllIcons
<1>6. QED BY <1>1, <1>3, <1>4, <1>5

\* A device whose content changes but for its icons
LEMMA StepContent ==
    ASSUME Inv, NEW d \in Devices, NEW c \in ContentSet,
           db' = [db EXCEPT ![d] = c], file' = file, unused' = unused,
           clock' \in Nat, clock <= clock', c.settings_changed <= clock',
           ToSet(c.icons) \subseteq AllIcons
    PROVE  Inv'
<1>1. unused' \in Nat \ {Nil} /\ unused <= unused' BY DEF Inv
<1>2. PICK X : X = {} OBVIOUS
<1>3. AllIcons \cup X = AllIcons /\ \A a \in X : a.uuid < unused' BY <1>2
<1>4. ToSet(c.icons) \subseteq AllIcons \cup X /\ Consistent(AllIcons \cup X) BY <1>3 DEF Inv, UuidsApart
<1>5. \A a \in AllIcons : a.uuid \in Nat BY KnownIcons
<1>6. QED BY <1>1, <1>3, <1>4, <1>5, StepDb

LEMMA ClockMoves ==
    ASSUME Inv, NEW now \in clock .. (clock + 1)
    PROVE  now \in Nat /\ clock <= now
  BY DEF Inv

LEMMA SettingsNotAhead ==
    ASSUME Inv, NEW d \in Devices, NEW now \in Nat, clock <= now
    PROVE  db[d].settings_changed <= now /\ file[d].settings_changed <= now
<1>1. db[d].settings_changed \in Nat /\ file[d].settings_changed \in Nat BY KnownIcons, ContentFields
<1>2. db[d].settings_changed <= clock /\ file[d].settings_changed <= clock /\ clock \in Nat
  BY DEF Inv, NotAhead
<1>3. QED BY <1>1, <1>2

LEMMA IconsReplaced ==
    ASSUME NEW t \in ContentSet, NEW icons \in Seq(Icon)
    PROVE  LET c == [t EXCEPT !.icons = icons]
           IN  c \in ContentSet /\ c.icons = icons /\ c.settings_changed = t.settings_changed
<1> DEFINE c == [t EXCEPT !.icons = icons]
<1>1. c = [icons |-> icons, settings |-> t.settings, settings_changed |-> t.settings_changed,
           group |-> t.group, entries |-> t.entries]
  BY ContentFields
<1>2. /\ t.settings \in Settings /\ t.settings_changed \in Nat /\ t.group \in VersionType
      /\ DOMAIN t.entries \in SUBSET Entries /\ t.entries \in [DOMAIN t.entries -> EntryType]
  BY ContentFields
<1> HIDE DEF c
<1>3. c \in ContentSet BY <1>1, <1>2, ContentOfFields
<1>4. c.icons = icons /\ c.settings_changed = t.settings_changed BY <1>1
<1>5. QED BY <1>3, <1>4 DEF c

LEMMA AddIconKeeps == ASSUME Inv, NEW d \in Devices, AddIcon(d) PROVE Inv'
<1>1. PICK data \in Bytes : Edit(d, "add", add_custom_icon(db[d], data, unused)) BY DEF AddIcon
<1> DEFINE c == add_custom_icon(db[d], data, unused)
           icon == [uuid |-> unused, data |-> data]
<1>2. db' = [db EXCEPT ![d] = c] /\ file' = file BY <1>1 DEF Edit
<1>3. unused \in Nat /\ unused' = unused + 1 /\ clock' = clock /\ clock \in Nat BY DEF AddIcon, Inv
<1>4. db[d] \in ContentSet BY KnownIcons
<1>5. CASE \E x \in ToSet(db[d].icons) : x.data = data
  <2>1. c = db[d] BY <1>5 DEF add_custom_icon
  <2>2. db' = db BY <1>2, <2>1 DEF Inv
  <2>3. AllIcons' = AllIcons BY <1>2, <2>2 DEF AllIcons
  <2>4. UuidsApart'
    <3>1. \A a \in AllIcons : a.uuid < unused /\ a.uuid \in Nat BY KnownIcons DEF Inv, UuidsApart
    <3>2. \A a \in AllIcons : a.uuid < unused + 1 BY <1>3, <3>1
    <3>3. QED BY <1>3, <2>3, <3>2 DEF UuidsApart, Inv
  <2>5. NotAhead' BY <1>2, <1>3, <2>2 DEF Inv, NotAhead
  <2>6. unused' \in Nat \ {Nil} /\ clock' \in Nat BY <1>3 DEF Nil
  <2>7. QED BY <1>2, <2>2, <2>4, <2>5, <2>6 DEF Inv
<1>6. CASE ~\E x \in ToSet(db[d].icons) : x.data = data
  <2>1. c = [db[d] EXCEPT !.icons = Append(db[d].icons, icon)] BY <1>6 DEF add_custom_icon
  <2>2. icon \in Icon BY <1>3 DEF Icon, Inv
  <2> DEFINE icons == Append(db[d].icons, icon)
  <2>3. icons \in Seq(Icon) /\ ToSet(icons) = ToSet(db[d].icons) \cup {icon}
    BY <1>4, <2>2, ContentFields, AppendedElements
  <2>4. icon.uuid = unused OBVIOUS
  <2> HIDE DEF icon, icons
  <2>5. c \in ContentSet /\ c.icons = icons /\ c.settings_changed = db[d].settings_changed
    <3>1. c = [db[d] EXCEPT !.icons = icons] BY <2>1 DEF icons, icon
    <3> HIDE DEF c
    <3>2. QED BY <1>4, <2>3, <3>1, IconsReplaced
  <2> HIDE DEF c
  <2>6. Consistent(AllIcons \cup {icon})
    <3>1. \A a \in AllIcons : a.uuid # icon.uuid
      <4>1. \A a \in AllIcons : a.uuid < unused /\ a.uuid \in Nat BY KnownIcons DEF Inv, UuidsApart
      <4>2. QED BY <1>3, <2>4, <4>1
    <3>2. QED BY <3>1 DEF Consistent, Inv, UuidsApart
  <2>7. ToSet(c.icons) \subseteq AllIcons \cup {icon} BY <2>3, <2>5, KnownIcons
  <2>8. \A a \in {icon} : a.uuid < unused' BY <1>3, <2>4
  <2>9. c.settings_changed <= clock' BY <1>3, <2>5 DEF Inv, NotAhead
  <2>10. clock' \in Nat /\ clock <= clock' /\ unused' \in Nat \ {Nil} /\ unused <= unused'
    BY <1>3 DEF Nil
  <2>11. \A a \in AllIcons : a.uuid \in Nat BY KnownIcons
  <2>12. QED BY <1>2, <2>5, <2>6, <2>7, <2>8, <2>9, <2>10, <2>11, StepDb
<1>7. QED BY <1>5, <1>6

LEMMA RemoveIconKeeps == ASSUME Inv, NEW d \in Devices, RemoveIcon(d) PROVE Inv'
<1>1. PICK uuid \in UuidsOf(db[d]) : Edit(d, "remove", remove_custom_icon(db[d], uuid)) BY DEF RemoveIcon
<1> DEFINE c == remove_custom_icon(db[d], uuid)
           icons == Retained(db[d].icons, uuid)
           group == Cleared(db[d].group, uuid)
           E == DOMAIN db[d].entries
           entries == [e \in E |-> Cleared(db[d].entries[e], uuid)]
<1>2. db' = [db EXCEPT ![d] = c] /\ file' = file BY <1>1 DEF Edit
<1>3. unused' = unused /\ clock' = clock /\ clock \in Nat BY DEF RemoveIcon, Inv
<1>4. db[d] \in ContentSet BY KnownIcons
<1>5. c = [db[d] EXCEPT !.icons = icons, !.entries = entries, !.group = group]
  BY <1>4, ContentFields DEF remove_custom_icon
<1>6. icons \in Seq(Icon) /\ ToSet(icons) \subseteq ToSet(db[d].icons)
  BY <1>4, ContentFields, RetainedIcons
<1>7. group \in VersionType
  <2>1. db[d].group \in VersionType BY <1>4, ContentFields
  <2>2. QED BY <2>1 DEF Cleared, VersionType, Nil
<1>8. entries \in [E -> EntryType] /\ E \in SUBSET Entries
  <2>1. \A e \in E : db[d].entries[e] \in EntryType BY <1>4, ContentFields
  <2>2. \A e \in E : Cleared(db[d].entries[e], uuid) \in EntryType BY <2>1 DEF Cleared, EntryType, Nil
  <2>3. E \in SUBSET Entries BY <1>4, ContentFields
  <2> HIDE DEF E
  <2>4. QED BY <2>2, <2>3
<1> HIDE DEF icons, group, E, entries, c
<1>9. c = [icons |-> icons, settings |-> db[d].settings, settings_changed |-> db[d].settings_changed,
           group |-> group, entries |-> entries]
  <2>1. db[d] = [icons |-> db[d].icons, settings |-> db[d].settings, settings_changed |-> db[d].settings_changed,
                 group |-> db[d].group, entries |-> db[d].entries]
    BY <1>4, ContentFields
  <2>2. QED BY <1>5, <2>1
<1>10. db[d].settings \in Settings /\ db[d].settings_changed \in Nat BY <1>4, ContentFields
<1>11. c \in ContentSet BY <1>6, <1>7, <1>8, <1>9, <1>10, ContentOfFields
<1>12. ToSet(c.icons) \subseteq AllIcons
  <2>1. c.icons = icons BY <1>9
  <2>2. QED BY <1>6, <2>1, KnownIcons
<1>13. c.settings_changed <= clock'
  <2>1. c.settings_changed = db[d].settings_changed BY <1>9
  <2>2. QED BY <1>3, <2>1 DEF Inv, NotAhead
<1>14. clock' \in Nat /\ clock <= clock' BY <1>3
<1>15. QED BY <1>2, <1>3, <1>11, <1>12, <1>13, <1>14, StepContent

\* Entries that change, or a group
LEMMA EntriesKeep ==
    ASSUME Inv, NEW d \in Devices, NEW E \in SUBSET Entries, NEW entries \in [E -> EntryType],
           db' = [db EXCEPT ![d] = [db[d] EXCEPT !.entries = entries]], file' = file, unused' = unused,
           clock' \in Nat, clock <= clock'
    PROVE  Inv'
<1> DEFINE c == [db[d] EXCEPT !.entries = entries]
<1>1. db[d] \in ContentSet BY KnownIcons
<1>2. c = [icons |-> db[d].icons, settings |-> db[d].settings, settings_changed |-> db[d].settings_changed,
           group |-> db[d].group, entries |-> entries]
  BY <1>1, ContentFields
<1>3. /\ db[d].icons \in Seq(Icon) /\ db[d].settings \in Settings /\ db[d].settings_changed \in Nat
      /\ db[d].group \in VersionType
  BY <1>1, ContentFields
<1>4. db' = [db EXCEPT ![d] = c] OBVIOUS
<1> HIDE DEF c
<1>5. c \in ContentSet BY <1>2, <1>3, ContentOfFields
<1>6. c.icons = db[d].icons /\ c.settings_changed = db[d].settings_changed BY <1>2
<1>7. ToSet(c.icons) \subseteq AllIcons BY <1>6, KnownIcons
<1>8. c.settings_changed <= clock' BY <1>6, SettingsNotAhead
<1>9. QED BY <1>4, <1>5, <1>7, <1>8, StepContent

LEMMA GroupKeeps ==
    ASSUME Inv, NEW d \in Devices, NEW group \in VersionType,
           db' = [db EXCEPT ![d] = [db[d] EXCEPT !.group = group]], file' = file, unused' = unused,
           clock' \in Nat, clock <= clock'
    PROVE  Inv'
<1> DEFINE c == [db[d] EXCEPT !.group = group]
<1>1. db[d] \in ContentSet BY KnownIcons
<1>2. c = [icons |-> db[d].icons, settings |-> db[d].settings, settings_changed |-> db[d].settings_changed,
           group |-> group, entries |-> db[d].entries]
  BY <1>1, ContentFields
<1>3. /\ db[d].icons \in Seq(Icon) /\ db[d].settings \in Settings /\ db[d].settings_changed \in Nat
      /\ DOMAIN db[d].entries \in SUBSET Entries /\ db[d].entries \in [DOMAIN db[d].entries -> EntryType]
  BY <1>1, ContentFields
<1>4. db' = [db EXCEPT ![d] = c] OBVIOUS
<1> HIDE DEF c
<1>5. c \in ContentSet BY <1>2, <1>3, ContentOfFields
<1>6. c.icons = db[d].icons /\ c.settings_changed = db[d].settings_changed BY <1>2
<1>7. ToSet(c.icons) \subseteq AllIcons BY <1>6, KnownIcons
<1>8. c.settings_changed <= clock' BY <1>6, SettingsNotAhead
<1>9. QED BY <1>4, <1>5, <1>7, <1>8, StepContent

\* What a client may name as an icon
LEMMA NamedIcons ==
    ASSUME Inv, NEW d \in Devices, NEW icon \in UuidsOf(db[d]) \cup {Nil}
    PROVE  icon \in Nat
  BY KnownIcons DEF UuidsOf, Nil

LEMMA SetIconKeeps == ASSUME Inv, NEW d \in Devices, SetIcon(d) PROVE Inv'
<1>1. PICK icon \in UuidsOf(db[d]) \cup {Nil} :
         \/ \E e \in DOMAIN db[d].entries : Edit(d, "set", [db[d] EXCEPT !.entries[e].icon = icon])
         \/ Edit(d, "set", [db[d] EXCEPT !.group.icon = icon])
  BY DEF SetIcon
<1>2. icon \in Nat BY NamedIcons
<1>3. unused' = unused /\ clock' = clock /\ clock' \in Nat /\ clock <= clock' BY DEF SetIcon, Inv
<1>4. db[d] \in ContentSet BY KnownIcons
<1> DEFINE E == DOMAIN db[d].entries
<1>5. db[d].entries \in [E -> EntryType] /\ E \in SUBSET Entries /\ db[d].group \in VersionType
  BY <1>4, ContentFields
<1>6. CASE \E e \in E : Edit(d, "set", [db[d] EXCEPT !.entries[e].icon = icon])
  <2>1. PICK e \in E : Edit(d, "set", [db[d] EXCEPT !.entries[e].icon = icon]) BY <1>6
  <2> DEFINE entry == [db[d].entries[e] EXCEPT !.icon = icon]
             entries == [db[d].entries EXCEPT ![e] = entry]
  <2>2. entry \in EntryType BY <1>2, <1>5 DEF EntryType
  <2>3. entries \in [E -> EntryType] BY <1>5, <2>2
  <2>4. [db[d] EXCEPT !.entries[e].icon = icon] = [db[d] EXCEPT !.entries = entries]
    BY <1>4, ContentFields
  <2>5. db' = [db EXCEPT ![d] = [db[d] EXCEPT !.entries = entries]] /\ file' = file
    BY <2>1, <2>4 DEF Edit
  <2> HIDE DEF entries, E
  <2>6. QED BY <1>3, <1>5, <2>3, <2>5, EntriesKeep
<1>7. CASE Edit(d, "set", [db[d] EXCEPT !.group.icon = icon])
  <2> DEFINE group == [db[d].group EXCEPT !.icon = icon]
  <2>1. group \in VersionType BY <1>2, <1>5 DEF VersionType
  <2>2. [db[d] EXCEPT !.group.icon = icon] = [db[d] EXCEPT !.group = group] BY <1>4, ContentFields
  <2>3. db' = [db EXCEPT ![d] = [db[d] EXCEPT !.group = group]] /\ file' = file BY <1>7, <2>2 DEF Edit
  <2> HIDE DEF group
  <2>4. QED BY <1>3, <2>1, <2>3, GroupKeeps
<1>8. QED BY <1>1, <1>6, <1>7

LEMMA SaveFormKeeps == ASSUME Inv, NEW d \in Devices, SaveForm(d) PROVE Inv'
<1>1. PICK now \in clock .. (clock + 1), icon \in UuidsOf(db[d]) \cup {Nil} :
         /\ clock' = now
         /\ \/ \E e \in DOMAIN db[d].entries :
                 Edit(d, "edit", [db[d] EXCEPT !.entries[e] = update_entry(@, icon, now)])
            \/ \E e \in Entries \ UNION {DOMAIN db[o].entries : o \in Devices} :
                 Edit(d, "edit", [db[d] EXCEPT !.entries =
                         Set(@, e, [mod |-> now, icon |-> icon, history |-> <<>>])])
            \/ Edit(d, "edit", [db[d] EXCEPT !.group = [mod |-> now, icon |-> icon]])
  BY DEF SaveForm
<1>2. icon \in Nat /\ now \in Nat BY NamedIcons, ClockMoves
<1>3. unused' = unused /\ clock' \in Nat /\ clock <= clock' BY <1>1, ClockMoves DEF SaveForm
<1>4. db[d] \in ContentSet BY KnownIcons
<1> DEFINE E == DOMAIN db[d].entries
<1>5. db[d].entries \in [E -> EntryType] /\ E \in SUBSET Entries BY <1>4, ContentFields
<1>6. CASE \E e \in E : Edit(d, "edit", [db[d] EXCEPT !.entries[e] = update_entry(@, icon, now)])
  <2>1. PICK e \in E : Edit(d, "edit", [db[d] EXCEPT !.entries[e] = update_entry(@, icon, now)]) BY <1>6
  <2> DEFINE entry == update_entry(db[d].entries[e], icon, now)
             entries == [db[d].entries EXCEPT ![e] = entry]
  <2>2. entry \in EntryType
    <3>1. db[d].entries[e].history \in Seq(VersionType) /\ Version(db[d].entries[e]) \in VersionType
      BY <1>5 DEF EntryType, VersionType, Version
    <3>2. Append(db[d].entries[e].history, Version(db[d].entries[e])) \in Seq(VersionType) BY <3>1
    <3>3. QED BY <1>2, <3>2 DEF update_entry, EntryType
  <2>3. [db[d] EXCEPT !.entries[e] = update_entry(@, icon, now)] = [db[d] EXCEPT !.entries = entries]
    BY <1>4, ContentFields
  <2> HIDE DEF entry
  <2>4. entries \in [E -> EntryType] BY <1>5, <2>2
  <2>5. db' = [db EXCEPT ![d] = [db[d] EXCEPT !.entries = entries]] /\ file' = file
    BY <2>1, <2>3 DEF Edit
  <2> HIDE DEF entries, E
  <2>6. QED BY <1>3, <1>5, <2>4, <2>5, EntriesKeep
<1>7. CASE \E e \in Entries \ UNION {DOMAIN db[o].entries : o \in Devices} :
              Edit(d, "edit", [db[d] EXCEPT !.entries =
                      Set(@, e, [mod |-> now, icon |-> icon, history |-> <<>>])])
  <2>1. PICK e \in Entries : Edit(d, "edit", [db[d] EXCEPT !.entries =
                      Set(@, e, [mod |-> now, icon |-> icon, history |-> <<>>])])
    BY <1>7
  <2> DEFINE entry == [mod |-> now, icon |-> icon, history |-> <<>>]
             entries == Set(db[d].entries, e, entry)
             F == E \cup {e}
  <2>2. entry \in EntryType
    <3>1. <<>> \in Seq(VersionType) OBVIOUS
    <3>2. QED BY <1>2, <3>1 DEF EntryType
  <2>3. [db[d] EXCEPT !.entries = Set(@, e, [mod |-> now, icon |-> icon, history |-> <<>>])]
          = [db[d] EXCEPT !.entries = entries]
    BY <1>4, ContentFields
  <2>4. db' = [db EXCEPT ![d] = [db[d] EXCEPT !.entries = entries]] /\ file' = file
    BY <2>1, <2>3 DEF Edit
  <2> HIDE DEF entry
  <2>5. entries \in [F -> EntryType] /\ F \in SUBSET Entries BY <1>5, <2>2 DEF Set
  <2> HIDE DEF entries, E, F
  <2>6. QED BY <1>3, <2>4, <2>5, EntriesKeep
<1>8. CASE Edit(d, "edit", [db[d] EXCEPT !.group = [mod |-> now, icon |-> icon]])
  <2> DEFINE group == [mod |-> now, icon |-> icon]
  <2>1. group \in VersionType BY <1>2 DEF VersionType
  <2>2. db' = [db EXCEPT ![d] = [db[d] EXCEPT !.group = group]] /\ file' = file BY <1>8 DEF Edit
  <2> HIDE DEF group
  <2>3. QED BY <1>3, <2>1, <2>2, GroupKeeps
<1>9. QED BY <1>1, <1>6, <1>7, <1>8

LEMMA SaveSettingsKeeps == ASSUME Inv, NEW d \in Devices, SaveSettings(d) PROVE Inv'
<1>1. PICK now \in clock .. (clock + 1), settings \in Settings :
         clock' = now /\ Edit(d, "settings", update_settings(db[d], settings, now))
  BY DEF SaveSettings
<1> DEFINE c == update_settings(db[d], settings, now)
<1>2. now \in Nat /\ clock <= now BY ClockMoves
<1>3. db[d] \in ContentSet BY KnownIcons
<1>4. c = [icons |-> db[d].icons, settings |-> settings, settings_changed |-> now,
           group |-> db[d].group, entries |-> db[d].entries]
  <2>1. db[d] = [icons |-> db[d].icons, settings |-> db[d].settings, settings_changed |-> db[d].settings_changed,
                 group |-> db[d].group, entries |-> db[d].entries]
    BY <1>3, ContentFields
  <2>2. c = [db[d] EXCEPT !.settings = settings, !.settings_changed = now] BY DEF update_settings
  <2> HIDE DEF c
  <2>3. QED BY <2>1, <2>2
<1>5. /\ db[d].icons \in Seq(Icon) /\ db[d].group \in VersionType
      /\ DOMAIN db[d].entries \in SUBSET Entries /\ db[d].entries \in [DOMAIN db[d].entries -> EntryType]
  BY <1>3, ContentFields
<1>6. db' = [db EXCEPT ![d] = c] /\ file' = file BY <1>1 DEF Edit
<1>7. unused' = unused BY DEF SaveSettings
<1> HIDE DEF c
<1>8. c \in ContentSet BY <1>2, <1>4, <1>5, ContentOfFields
<1>9. c.icons = db[d].icons /\ c.settings_changed <= now BY <1>2, <1>4
<1>10. ToSet(c.icons) \subseteq AllIcons BY <1>9, KnownIcons
<1>11. QED BY <1>1, <1>2, <1>6, <1>7, <1>8, <1>9, <1>10, StepContent

LEMMA SaveKeeps == ASSUME Inv, NEW d \in Devices, Save(d) PROVE Inv'
<1>1. file' = [file EXCEPT ![d] = db[d]] /\ db' = db /\ unused' = unused /\ clock' = clock BY DEF Save
<1>2. \A e \in Devices : file'[e] = file[e] \/ file'[e] = db[d] BY <1>1 DEF Inv
<1>3. file' \in [Devices -> ContentSet] BY <1>1 DEF Inv
<1>4. AllIcons' \subseteq AllIcons
  <2>1. AllIcons' = UNION {ToSet(db'[e].icons) \cup ToSet(file'[e].icons) : e \in Devices} BY DEF AllIcons
  <2>2. ASSUME NEW e \in Devices PROVE ToSet(db'[e].icons) \cup ToSet(file'[e].icons) \subseteq AllIcons
    BY <1>1, <1>2, KnownIcons
  <2>3. QED BY <2>1, <2>2
<1>5. UuidsApart' BY <1>1, <1>4 DEF Inv, UuidsApart, Consistent
<1>6. NotAhead' BY <1>1, <1>2 DEF Inv, NotAhead
<1>7. QED BY <1>1, <1>3, <1>5, <1>6 DEF Inv

\* The two sides of a merge
LEMMA SidesOfMerge ==
    ASSUME Inv, NEW d \in Devices, NEW o \in Devices
    PROVE  /\ db[d] \in ContentSet /\ file[o] \in ContentSet
           /\ Consistent(ToSet(db[d].icons) \cup ToSet(file[o].icons))
<1>1. Consistent(AllIcons) BY DEF Inv, UuidsApart
<1>2. QED BY <1>1, KnownIcons DEF Consistent

LEMMA MergeFromKeeps == ASSUME Inv, NEW d \in Devices, NEW o \in Devices, MergeFrom(d, o) PROVE Inv'
<1>1. PICK now \in clock .. (clock + 1) : clock' = now /\ db' = [db EXCEPT ![d] = Merge(@, file[o], now)]
  BY DEF MergeFrom
<1> DEFINE c == Merge(db[d], file[o], now)
<1>2. now \in Nat /\ clock <= now BY ClockMoves
<1>3. db' = [db EXCEPT ![d] = c] /\ file' = file /\ unused' = unused BY <1>1 DEF MergeFrom
<1>4. /\ c \in ContentSet
      /\ ToSet(c.icons) \subseteq ToSet(db[d].icons) \cup ToSet(file[o].icons)
      /\ c.settings_changed \in {db[d].settings_changed, now}
  BY <1>2, SidesOfMerge, ContentMerged
<1> HIDE DEF c
<1>5. ToSet(c.icons) \subseteq AllIcons BY <1>4, KnownIcons
<1>6. c.settings_changed <= now BY <1>2, <1>4, SettingsNotAhead
<1>7. QED BY <1>1, <1>2, <1>3, <1>4, <1>5, <1>6, StepContent

LEMMA StepInv == Inv /\ [Next]_vars => Inv'
<1> SUFFICES ASSUME Inv, [Next]_vars PROVE Inv'
  OBVIOUS
<1>1. CASE UNCHANGED vars BY <1>1 DEF vars, Inv, NotAhead, UuidsApart, AllIcons
<1>2. CASE Next
  <2>1. PICK d \in Devices :
           \/ AddIcon(d) \/ RemoveIcon(d) \/ SetIcon(d) \/ SaveForm(d) \/ SaveSettings(d) \/ Save(d)
           \/ \E o \in Devices \ {d} : MergeFrom(d, o)
    BY <1>2 DEF Next
  <2>2. CASE AddIcon(d) BY <2>2, AddIconKeeps
  <2>3. CASE RemoveIcon(d) BY <2>3, RemoveIconKeeps
  <2>4. CASE SetIcon(d) BY <2>4, SetIconKeeps
  <2>5. CASE SaveForm(d) BY <2>5, SaveFormKeeps
  <2>6. CASE SaveSettings(d) BY <2>6, SaveSettingsKeeps
  <2>7. CASE Save(d) BY <2>7, SaveKeeps
  <2>8. CASE \E o \in Devices \ {d} : MergeFrom(d, o) BY <2>8, MergeFromKeeps
  <2>9. QED BY <2>1, <2>2, <2>3, <2>4, <2>5, <2>6, <2>7, <2>8
<1>3. QED BY <1>1, <1>2

-----------------------------------------------------------------------------
(* The theorems *)

\* What a merging step does
LEMMA MergingStep ==
    ASSUME Inv, NEW d \in Devices, NEW o \in Devices, Merges(d, o)
    PROVE  \E now \in Nat : /\ file[o].settings_changed <= now
                            /\ db'[d] = Merge(db[d], file[o], now)
<1>1. PICK now \in clock .. (clock + 1) : clock' = now /\ db' = [db EXCEPT ![d] = Merge(@, file[o], now)]
  BY DEF Merges, MergeFrom
<1>2. now \in Nat /\ clock <= now BY ClockMoves
<1>3. file[o].settings_changed <= now BY <1>2, SettingsNotAhead
<1>4. db'[d] = Merge(db[d], file[o], now) BY <1>1 DEF Inv
<1>5. QED BY <1>2, <1>3, <1>4

\* A merge keeps the pictures of both sides, for any number of devices, entries and icons,
\* any bytes and any original: a reference shows what one side showed it with, or a picture
\* where it showed none (merge_custom_icons, remap_entry_icons, remap_group_icon).
THEOREM PicturesKept == Spec => MergeKeepsPictures
<1>1. ASSUME Inv, NEW d \in Devices, NEW o \in Devices, Merges(d, o)
      PROVE  KeepsPictures(db[d], file[o], db'[d])
  <2>1. PICK now \in Nat : db'[d] = Merge(db[d], file[o], now) BY <1>1, MergingStep
  <2>2. KeepsPictures(db[d], file[o], Merge(db[d], file[o], now)) BY <1>1, SidesOfMerge, PicturesMerged
  <2>3. QED BY <2>1, <2>2
<1>2. Inv /\ [Next]_vars => [\A d, o \in Devices : Merges(d, o) => KeepsPictures(db[d], file[o], db'[d])]_vars
  BY <1>1
<1>3. QED BY InitInv, StepInv, <1>2, PTL DEF Spec, MergeKeepsPictures

\* To merge the same file once more changes nothing, whenever that is done: no icon comes a
\* second time, no version is added, and the settings do not become newer (merge_custom_icons,
\* merge_histories, Meta::merge).
THEOREM MergeSettles == Spec => MergeAgainChangesNothing
<1>1. ASSUME Inv, NEW d \in Devices, NEW o \in Devices, Merges(d, o)
      PROVE  Merge(db'[d], file[o], clock' + 1) = db'[d]
  <2>1. PICK now \in Nat : file[o].settings_changed <= now /\ db'[d] = Merge(db[d], file[o], now)
    BY <1>1, MergingStep
  <2> DEFINE c == Merge(db[d], file[o], now)
  <2>2. /\ db[d] \in ContentSet /\ file[o] \in ContentSet
        /\ Consistent(ToSet(db[d].icons) \cup ToSet(file[o].icons))
    BY <1>1, SidesOfMerge
  <2>3. \A later : Merge(c, file[o], later) = c BY <2>1, <2>2, MergedAgain
  <2>4. QED BY <2>1, <2>3
<1>2. Inv /\ [Next]_vars =>
        [\A d, o \in Devices : Merges(d, o) => Merge(db'[d], file[o], clock' + 1) = db'[d]]_vars
  BY <1>1
<1>3. QED BY InitInv, StepInv, <1>2, PTL DEF Spec, MergeAgainChangesNothing
=============================================================================
