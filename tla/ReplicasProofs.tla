---------------------------- MODULE ReplicasProofs --------------------------
(***************************************************************************)
(* Theorems about the copies of a database, for every number of devices,   *)
(* uuids and seconds and every limit of the histories.                     *)
(***************************************************************************)
EXTENDS Replicas, RootProofs

-----------------------------------------------------------------------------
(* Merged histories *)

\* What merge_histories sorts.
AllVersions(to, from) == to.history \o CreateHistories(from)

\* They are the versions of the one and the history that create_histories
\* makes of the other.
LEMMA AllVersionsOf ==
    ASSUME NEW to \in Entry, NEW from \in Entry
    PROVE  /\ AllVersions(to, from) \in Seq(Version)
           /\ ToSet(AllVersions(to, from)) = ToSet(to.history) \cup ToSet(CreateHistories(from))
<1>1. to.history \in Seq(Version) /\ CreateHistories(from) \in Seq(Version) BY CreatedHistories DEF Entry
<1>2. QED BY <1>1, ConcatenatedElements DEF AllVersions

\* merge_histories keeps one version of each time.
LEMMA MergedVersions ==
    ASSUME NEW to \in Entry, NEW from \in Entry
    PROVE  LET merged == MergedHistory(to, from)
           IN  /\ merged \in Seq(Version) /\ ToSet(merged) \subseteq ToSet(AllVersions(to, from))
               /\ \A v \in ToSet(AllVersions(to, from)) : \E w \in ToSet(merged) : w.mod = v.mod
<1> DEFINE all == AllVersions(to, from)
           I == {i \in DOMAIN all : \A j \in 1 .. (i - 1) : all[j].mod # all[i].mod}
           Less(i, j) == all[i].mod < all[j].mod
           R == {p \in I \X I : Less(p[1], p[2])}
           order == InOrder(I, Less)
           merged == MergedHistory(to, from)
<1>0. all \in Seq(Version) BY AllVersionsOf
<1>8. merged = ItemsAt(all, order) BY DEF MergedHistory, Picked, ItemsAt, AllVersions
<1> HIDE DEF all, merged
<1>1. I \subseteq Nat /\ (\A i \in DOMAIN all : all[i] \in Version /\ all[i].mod \in Nat)
  <2>1. DOMAIN all = 1 .. Len(all) /\ Len(all) \in Nat BY <1>0
  <2>2. I \subseteq Nat BY <2>1
  <2>3. \A i \in DOMAIN all : all[i] \in Version BY <1>0
  <2>4. \A v \in Version : v.mod \in Nat BY UuidsAssumption DEF Version, Time
  <2>5. QED BY <2>2, <2>3, <2>4
<1>2. \A i, j \in I : <<j, i>> \in R <=> Less(j, i) OBVIOUS
<1>3. \A i \in I : {j \in I : Less(j, i)} = {j \in I : <<j, i>> \in R}
  <2> HIDE DEF R, Less
  <2>1. QED BY <1>2
<1>4. Orders(R, I)
  <2>1. \A i \in I : ~Less(i, i) BY <1>1
  <2>2. \A i, j, k \in I : Less(i, j) /\ Less(j, k) => Less(i, k) BY <1>1
  <2>3. \A i, j \in I : i = j \/ Less(i, j) \/ Less(j, i)
    <3>1. ASSUME NEW i \in I, NEW j \in I, ~Less(i, j), ~Less(j, i) PROVE i = j
      <4>1. all[i].mod = all[j].mod BY <1>1, <3>1
      <4>2. i \in Nat /\ j \in Nat /\ i >= 1 /\ j >= 1 BY <1>0
      <4>3. ~(i < j) BY <4>1, <4>2
      <4>4. ~(j < i) BY <4>1, <4>2
      <4>5. QED BY <4>2, <4>3, <4>4
    <3>2. QED BY <3>1
  <2> HIDE DEF R, Less, I
  <2>4. QED BY <1>2, <2>1, <2>2, <2>3 DEF Orders
<1>5. order = ByRank(I, R)
  <2> DEFINE First(n) == CHOOSE i \in I : Cardinality({j \in I : Less(j, i)}) = n - 1
             Second(n) == CHOOSE i \in I : Cardinality({j \in I : <<j, i>> \in R}) = n - 1
  <2>1. order = [n \in 1 .. Cardinality(I) |-> First(n)] BY DEF InOrder
  <2>2. ByRank(I, R) = [n \in 1 .. Cardinality(I) |-> Second(n)] BY DEF ByRank
  <2> HIDE DEF R, order, Less, I
  <2>3. \A n \in 1 .. Cardinality(I) : First(n) = Second(n) BY <1>3
  <2> HIDE DEF First, Second
  <2>4. QED BY <2>1, <2>2, <2>3
<1>6. I \in SUBSET (DOMAIN all) OBVIOUS
<1> HIDE DEF R, order, Less
<1>7. merged \in Seq(Version) /\ ToSet(merged) = {all[i] : i \in I}
  <2> HIDE DEF I
  <2>1. QED BY <1>0, <1>4, <1>5, <1>6, <1>8, PickedBy
<1>9. ToSet(all) = {all[i] : i \in DOMAIN all} BY DEF ToSet
<1>10. ASSUME NEW v \in ToSet(all) PROVE \E w \in ToSet(merged) : w.mod = v.mod
  <2> DEFINE T == {i \in DOMAIN all : all[i].mod = v.mod}
  <2>1. T # {} /\ T \subseteq Nat BY <1>0, <1>9
  <2>2. PICK i \in T : \A j \in T : i <= j
    <3> HIDE DEF T
    <3>1. QED BY <2>1, Least
  <2>3. ASSUME NEW j \in 1 .. (i - 1) PROVE all[j].mod # all[i].mod
    <3>1. j \in DOMAIN all /\ j < i BY <1>0
    <3>2. j \notin T BY <2>1, <2>2, <3>1
    <3>3. QED BY <3>1, <3>2
  <2>4. i \in I BY <2>3
  <2>5. QED BY <1>7, <2>4
<1>11. QED BY <1>6, <1>7, <1>9, <1>10 DEF merged, all

-----------------------------------------------------------------------------
(* What a merge does to the target before it looks at the deleted objects *)

\* Groups and entries come from the source s, none goes, no entry gets older,
\* and no other group is listed than those of both.
Grown(s, c, d) ==
    /\ DOMAIN c.groups \subseteq DOMAIN d.groups /\ DOMAIN d.groups \subseteq DOMAIN c.groups \cup DOMAIN s.groups
    /\ DOMAIN c.entries \subseteq DOMAIN d.entries /\ DOMAIN d.entries \subseteq DOMAIN c.entries \cup DOMAIN s.entries
    /\ d.bin = c.bin /\ d.deleted = c.deleted
    /\ \A e \in DOMAIN c.entries : c.entries[e].mod <= d.entries[e].mod
    /\ Named(d) \subseteq Named(c) \cup Named(s)

\* A target that has not changed has grown by nothing.
LEMMA GrownNot ==
    ASSUME NEW I \in SUBSET Uuid, NEW s, NEW c \in Content(I) PROVE Grown(s, c, c)
<1>1. \A e \in DOMAIN c.entries : c.entries[e].mod \in Nat BY ContentParts, UuidsAssumption DEF Entry, Time
<1>2. \A n \in Nat : n <= n OBVIOUS
<1>3. QED BY <1>1, <1>2 DEF Grown

\* What has grown twice has grown.
LEMMA GrownAgain ==
    ASSUME NEW I \in SUBSET Uuid, NEW s, NEW c \in Content(I), NEW d \in Content(I), NEW b \in Content(I),
           Grown(s, c, d), Grown(s, d, b)
    PROVE  Grown(s, c, b)
<1>1. ASSUME NEW e \in DOMAIN c.entries PROVE c.entries[e].mod <= b.entries[e].mod
  <2>1. e \in DOMAIN d.entries /\ e \in DOMAIN b.entries BY DEF Grown
  <2>2. c.entries[e].mod \in Nat /\ d.entries[e].mod \in Nat /\ b.entries[e].mod \in Nat
    BY <2>1, ContentParts, UuidsAssumption DEF Entry, Time
  <2>3. c.entries[e].mod <= d.entries[e].mod /\ d.entries[e].mod <= b.entries[e].mod BY <2>1 DEF Grown
  <2>4. QED BY <2>2, <2>3
<1>2. QED BY <1>1 DEF Grown

\* update_group with a newer group
LEMMA MergeGroupTyped ==
    ASSUME NEW I \in SUBSET Uuid, NEW s \in Content(I), NEW c \in Content(I), NEW g \in DOMAIN s.groups
    PROVE  LET d == MergeGroup(s, c, g) IN d \in Content(I) /\ SamePlaces(c, d) /\ d.entries = c.entries
<1> DEFINE d == MergeGroup(s, c, g)
           v == [c.groups[g] EXCEPT !.mod = s.groups[g].mod, !.by = s.groups[g].by, !.moved = s.groups[g].moved]
           taken == [c EXCEPT !.groups[g] = v]
<1>1. d = c \/ d = taken BY DEF MergeGroup, TakeGroupFields
<1>2. CASE d = c BY <1>2 DEF SamePlaces
<1>3. CASE d = taken /\ g \in DOMAIN c.groups
  <2>1. c.groups[g] \in Group /\ s.groups[g] \in Group BY <1>3, ContentParts
  <2>2. v \in Group /\ v.parent = c.groups[g].parent /\ v.subs = c.groups[g].subs /\ v.entries = c.groups[g].entries
    BY <2>1 DEF Group
  <2> HIDE DEF d, v
  <2>4. /\ d \in Content(I) /\ DOMAIN d.groups = DOMAIN c.groups /\ d.groups[g] = v
        /\ \A h \in DOMAIN c.groups : h # g => d.groups[h] = c.groups[h]
        /\ d.entries = c.entries /\ d.bin = c.bin /\ d.deleted = c.deleted
    BY <1>3, <2>2, ChangedGroup
  <2>5. SamePlaces(c, d) BY <2>2, <2>4 DEF SamePlaces
  <2>6. QED BY <2>4, <2>5 DEF d
<1>4. CASE d = taken /\ g \notin DOMAIN c.groups
  <2>1. taken = c
    <3>1. c = [groups |-> c.groups, entries |-> c.entries, bin |-> c.bin, deleted |-> c.deleted] BY DEF Content
    <3>2. c.groups = [x \in DOMAIN c.groups |-> c.groups[x]] BY ContentParts, MapIs
    <3> HIDE DEF v
    <3>3. [c.groups EXCEPT ![g] = v] = c.groups BY <1>4, <3>2
    <3>4. taken = [c EXCEPT !.groups = [c.groups EXCEPT ![g] = v]] OBVIOUS
    <3>5. QED BY <3>1, <3>3, <3>4
  <2>2. d = c BY <1>4, <2>1
  <2>3. QED BY <2>2 DEF SamePlaces
<1>5. QED BY <1>1, <1>2, <1>3, <1>4

\* set_recycle_bin_group_on_merge
LEMMA SourceBinTyped ==
    ASSUME NEW I \in SUBSET Uuid, NEW s \in Content(I), NEW c \in Content(I), NEW now \in Time, NEW by \in Devices
    PROVE  LET d == WithSourceBin(s, c, now, by)
           IN  /\ d \in Content(I) /\ Kept(c, d, {s.bin} \cap Uuid) /\ d.entries = c.entries
               /\ d.bin \in {c.bin, s.bin} /\ Named(d) \subseteq Named(c) \cup ({s.bin} \ DOMAIN c.groups)
<1> DEFINE d == WithSourceBin(s, c, now, by)
           named == [c EXCEPT !.bin = s.bin]
           group == NewGroup(RootGroup, now, by)
<1>1. CASE s.bin = Nil \/ c.bin # Nil
  <2>1. d = c BY <1>1 DEF WithSourceBin
  <2>2. Kept(c, c, {s.bin} \cap Uuid) BY DEF Kept
  <2> HIDE DEF d
  <2>3. QED BY <2>1, <2>2 DEF d
<1>2. CASE s.bin # Nil /\ c.bin = Nil
  <2>1. d = InsertGroup(named, s.bin, group).db BY <1>2 DEF WithSourceBin
  <2>0. s.bin \in I /\ s.bin \in Uuid BY <1>2, ContentParts
  <2>2. group \in Group BY NewTyped, UuidsThere
  <2>10. group.subs = <<>> BY DEF NewGroup
  <2> HIDE DEF group
  <2>3. named \in Content(I) BY <2>0, OtherParts
  <2>4. /\ named.groups = c.groups /\ named.entries = c.entries /\ named.deleted = c.deleted
        /\ named.bin = s.bin
    BY DEF Content
  <2> HIDE DEF named
  <2>5. /\ InsertGroup(named, s.bin, group) \in Result(I)
        /\ Kept(named, InsertGroup(named, s.bin, group).db, {s.bin})
        /\ InsertGroup(named, s.bin, group).db.entries = named.entries
        /\ InsertGroup(named, s.bin, group).db.bin = named.bin
    BY <2>0, <2>2, <2>3, InsertGroupTyped
  <2>11. /\ Named(InsertGroup(named, s.bin, group).db) \subseteq Named(named) \cup {s.bin}
         /\ s.bin \in DOMAIN named.groups => InsertGroup(named, s.bin, group).db = named
    BY <2>0, <2>2, <2>3, <2>10, InsertGroupNames
  <2>12. Named(named) = Named(c) BY <2>4 DEF Named, Subs
  <2> HIDE DEF d
  <2>6. d \in Content(I) BY <2>1, <2>5 DEF Result
  <2>7. Kept(c, d, {s.bin} \cap Uuid) BY <2>0, <2>1, <2>4, <2>5 DEF Kept
  <2>8. d.entries = c.entries /\ d.bin = s.bin BY <2>1, <2>4, <2>5
  <2>13. Named(d) \subseteq Named(c) \cup ({s.bin} \ DOMAIN c.groups) BY <2>1, <2>4, <2>11, <2>12
  <2>9. QED BY <1>2, <2>6, <2>7, <2>8, <2>13 DEF d
<1>3. QED BY <1>1, <1>2

\* merge_entry
LEMMA MergeEntryTyped ==
    ASSUME NEW I \in SUBSET Uuid, NEW s \in Content(I), NEW c \in Content(I),
           NEW e \in DOMAIN s.entries, e \in DOMAIN c.entries
    PROVE  LET d == MergeEntry(s, c, e)
           IN  /\ d \in Content(I) /\ DOMAIN d.entries = DOMAIN c.entries /\ d.groups = c.groups
               /\ d.bin = c.bin /\ d.deleted = c.deleted
               /\ \A x \in DOMAIN c.entries : c.entries[x].mod <= d.entries[x].mod
<1> DEFINE d == MergeEntry(s, c, e)
           x == s.entries[e]
           t == c.entries[e]
           found == \E i \in DOMAIN t.history : t.history[i].mod = x.mod
           newer == [x EXCEPT !.history = MergedHistory(x, t)]
           older == [t EXCEPT !.history = MergedHistory(t, x)]
           taken == [c EXCEPT !.entries[e] = newer]
           joined == [c EXCEPT !.entries[e] = older]
<1>1. x \in Entry /\ t \in Entry BY ContentParts
<1>2. \/ d = c \/ (IsNewer(x.mod, t.mod) /\ d = taken) \/ d = joined
  <2>1. joined = [c EXCEPT !.entries[e].history = MergedHistory(t, x)] OBVIOUS
  <2>2. d = CASE x.mod = t.mod -> c
              [] IsNewer(x.mod, t.mod) -> taken
              [] OTHER -> IF found THEN c ELSE [c EXCEPT !.entries[e].history = MergedHistory(t, x)]
    BY DEF MergeEntry
  <2>3. ~(x.mod = t.mod /\ IsNewer(x.mod, t.mod)) BY <1>1, UuidsAssumption DEF IsNewer, Entry, Time
  <2> HIDE DEF d, taken, joined, x, t, found
  <2>4. CASE x.mod = t.mod BY <2>2, <2>3, <2>4
  <2>5. CASE x.mod # t.mod /\ IsNewer(x.mod, t.mod) BY <2>2, <2>5
  <2>6. CASE x.mod # t.mod /\ ~IsNewer(x.mod, t.mod) BY <2>1, <2>2, <2>6
  <2>7. QED BY <2>4, <2>5, <2>6
<1> HIDE DEF d
<1>3. MergedHistory(x, t) \in Seq(Version) /\ MergedHistory(t, x) \in Seq(Version) BY <1>1, MergedVersions
<1>4. newer \in Entry /\ newer.mod = x.mod /\ older \in Entry /\ older.mod = t.mod
  <2> HIDE DEF x, t
  <2>1. QED BY <1>1, <1>3 DEF Entry
<1> HIDE DEF newer, older
<1>5. \A y \in DOMAIN c.entries : c.entries[y].mod \in Nat BY ContentParts, UuidsAssumption DEF Entry, Time
<1>6. \A n \in Nat : n <= n OBVIOUS
<1>7. CASE d = c BY <1>5, <1>6, <1>7 DEF d
<1>8. CASE IsNewer(x.mod, t.mod) /\ d = taken
  <2>1. /\ taken \in Content(I) /\ DOMAIN taken.entries = DOMAIN c.entries /\ taken.entries[e] = newer
        /\ \A f \in DOMAIN c.entries : f # e => taken.entries[f] = c.entries[f]
        /\ taken.groups = c.groups /\ taken.bin = c.bin /\ taken.deleted = c.deleted
    BY <1>4, ChangedEntry
  <2> HIDE DEF taken
  <2>2. c.entries[e].mod <= taken.entries[e].mod
    <3>1. x.mod \in Nat /\ t.mod \in Nat BY <1>1, UuidsAssumption DEF Entry, Time
    <3>2. t.mod <= x.mod BY <1>8, <3>1 DEF IsNewer
    <3>3. QED BY <1>4, <2>1, <3>2
  <2>3. \A y \in DOMAIN c.entries : c.entries[y].mod <= taken.entries[y].mod BY <1>5, <1>6, <2>1, <2>2
  <2>4. QED BY <1>8, <2>1, <2>3 DEF d
<1>9. CASE d = joined
  <2>1. /\ joined \in Content(I) /\ DOMAIN joined.entries = DOMAIN c.entries /\ joined.entries[e] = older
        /\ \A f \in DOMAIN c.entries : f # e => joined.entries[f] = c.entries[f]
        /\ joined.groups = c.groups /\ joined.bin = c.bin /\ joined.deleted = c.deleted
    BY <1>4, ChangedEntry
  <2> HIDE DEF joined
  <2>2. c.entries[e].mod <= joined.entries[e].mod BY <1>4, <1>5, <1>6, <2>1
  <2>3. \A y \in DOMAIN c.entries : c.entries[y].mod <= joined.entries[y].mod BY <1>5, <1>6, <2>1, <2>2
  <2>4. QED BY <1>9, <2>1, <2>3 DEF d
<1>10. QED BY <1>2, <1>7, <1>8, <1>9

\* merge_groups for one group
LEMMA MergeChildGroupTyped ==
    ASSUME NEW I \in SUBSET Uuid, NEW s \in Content(I), NEW c \in Content(I), NEW g \in Named(s), NEW now \in Time
    PROVE  LET r == MergeChildGroup(s, c, g, now)
           IN  /\ r \in Result(I) /\ Grown(s, c, r.db)
               /\ ~HasGroup(s, g) => r.ok = FALSE
<1> DEFINE r == MergeChildGroup(s, c, g, now)
           v == [s.groups[g] EXCEPT !.subs = <<>>, !.entries = <<>>]
           p == s.groups[g].parent
           moved == IF IsNewer(s.groups[g].moved, c.groups[g].moved) /\ p # c.groups[g].parent
                    THEN MoveGroup(c, g, p, now) ELSE Ok(c)
<1>0. Grown(s, c, c) BY GrownNot
<1>1. CASE ~HasGroup(s, g)
  <2>1. r = Err(c) BY <1>1 DEF MergeChildGroup
  <2> HIDE DEF r
  <2>2. r \in Result(I) /\ r.db = c /\ r.ok = FALSE BY <2>1, Results
  <2>3. QED BY <1>0, <2>2 DEF r
<1>2. CASE HasGroup(s, g) /\ ~HasGroup(c, g)
  <2>1. r = IF g = s.bin THEN Ok(c) ELSE InsertGroup(c, g, v) BY <1>2 DEF MergeChildGroup
  <2>2. g \in I /\ s.groups[g] \in Group BY <1>2, ContentParts DEF HasGroup
  <2>3. <<>> \in Seq(Uuid) OBVIOUS
  <2>4. v \in Group /\ v.subs = <<>> BY <2>2, <2>3 DEF Group
  <2> HIDE DEF v, r
  <2>5. CASE g = s.bin
    <3>1. r \in Result(I) /\ r.db = c BY <2>1, <2>5, Results
    <3>2. QED BY <1>0, <1>2, <3>1 DEF r
  <2>6. CASE g # s.bin
    <3> DEFINE q == InsertGroup(c, g, v)
    <3>1. r = q BY <2>1, <2>6
    <3>2. q \in Result(I) /\ Kept(c, q.db, {g}) /\ q.db.entries = c.entries /\ q.db.bin = c.bin
      BY <2>2, <2>4, InsertGroupTyped
    <3>3. Named(q.db) \subseteq Named(c) \cup {g} BY <2>2, <2>4, InsertGroupNames
    <3> HIDE DEF q
    <3>4. Grown(s, c, q.db) BY <1>0, <1>2, <3>2, <3>3 DEF Grown, Kept, HasGroup
    <3>5. QED BY <1>2, <3>1, <3>2, <3>4 DEF r
  <2>7. QED BY <2>5, <2>6
<1>3. CASE HasGroup(s, g) /\ HasGroup(c, g)
  <2>1. r = AndThen(moved, LAMBDA d : Ok(MergeGroup(s, d, g))) BY <1>3 DEF MergeChildGroup
  <2>2. r = IF moved.ok THEN Ok(MergeGroup(s, moved.db, g)) ELSE moved BY <2>1 DEF AndThen
  <2>3. g \in I /\ g \in Uuid /\ s.groups[g] \in Group BY <1>3, ContentParts DEF HasGroup
  <2>4. moved \in Result(I) /\ Grown(s, c, moved.db)
    <3> DEFINE q == MoveGroup(c, g, p, now)
    <3>1. CASE moved = Ok(c)
      <4>1. Ok(c) \in Result(I) /\ Ok(c).db = c BY Results
      <4>2. QED BY <1>0, <3>1, <4>1
    <3>2. CASE moved # Ok(c)
      <4>1. moved = q BY <3>2
      <4>2. CASE p \in Uuid
        <5>1. q \in Result(I) /\ Kept(c, q.db, {}) /\ q.db.entries = c.entries /\ q.db.bin = c.bin
          BY <2>3, <4>2, MoveGroupTyped
        <5>2. Named(q.db) \subseteq Named(c) \cup {g} BY <2>3, <4>2, MoveGroupNames
        <5> HIDE DEF q, moved
        <5>3. Grown(s, c, q.db) BY <1>0, <5>1, <5>2 DEF Grown, Kept
        <5>4. QED BY <4>1, <5>1, <5>3
      <4>3. CASE p \notin Uuid
        <5>1. p = Nil BY <2>3, <4>3 DEF Group
        <5>2. p \notin DOMAIN c.groups BY <4>3, ContentParts
        <5>3. q = Err(c) BY <5>2 DEF MoveGroup, HasGroup
        <5> HIDE DEF q, moved
        <5>4. Err(c) \in Result(I) /\ Err(c).db = c BY Results
        <5>5. QED BY <1>0, <4>1, <5>3, <5>4
      <4>4. QED BY <4>2, <4>3
    <3>3. QED BY <3>1, <3>2
  <2> HIDE DEF moved, r
  <2>5. moved.db \in Content(I) BY <2>4 DEF Result
  <2>6. CASE ~moved.ok BY <1>3, <2>2, <2>4, <2>6 DEF r
  <2>7. CASE moved.ok
    <3> DEFINE d == MergeGroup(s, moved.db, g)
    <3>1. d \in Content(I) /\ SamePlaces(moved.db, d) /\ d.entries = moved.db.entries
      BY <1>3, <2>5, MergeGroupTyped DEF HasGroup
    <3>2. r = Ok(d) BY <2>2, <2>7
    <3> HIDE DEF d
    <3>3. r \in Result(I) /\ r.db = d BY <3>1, <3>2, Results
    <3>4. Named(d) = Named(moved.db) BY <3>1, SameNames
    <3>5. Grown(s, c, d) BY <2>4, <3>1, <3>4 DEF Grown, SamePlaces
    <3>6. QED BY <1>3, <3>3, <3>5 DEF r
  <2>8. QED BY <2>6, <2>7
<1>4. QED BY <1>1, <1>2, <1>3

\* merge_entries for one entry
LEMMA MergeChildEntryTyped ==
    ASSUME NEW I \in SUBSET Uuid, NEW s \in Content(I), NEW c \in Content(I), NEW e \in DOMAIN s.entries, NEW now \in Time
    PROVE  LET r == MergeChildEntry(s, c, e, now)
           IN  r \in Result(I) /\ Grown(s, c, r.db) /\ (r.ok => e \in DOMAIN r.db.entries)
<1> DEFINE r == MergeChildEntry(s, c, e, now)
           x == s.entries[e]
           moved == IF IsNewer(x.moved, c.entries[e].moved) /\ x.parent # c.entries[e].parent
                    THEN MoveEntry(c, e, x.parent, now) ELSE Ok(c)
<1>0. Grown(s, c, c) /\ x \in Entry /\ e \in I /\ e \in Uuid BY ContentParts, GrownNot
<1>1. CASE ~HasEntry(c, e)
  <2>1. r = InsertEntry(c, e, x) BY <1>1 DEF MergeChildEntry
  <2>2. /\ InsertEntry(c, e, x) \in Result(I) /\ Kept(c, InsertEntry(c, e, x).db, {e})
        /\ InsertEntry(c, e, x).db.bin = c.bin
        /\ \A y \in DOMAIN c.entries : InsertEntry(c, e, x).db.entries[y] = c.entries[y]
        /\ InsertEntry(c, e, x).ok => e \in DOMAIN InsertEntry(c, e, x).db.entries
    BY <1>0, InsertEntryTyped
  <2>3. SameGroups(c, InsertEntry(c, e, x).db) BY <1>0, InsertEntryNames
  <2> HIDE DEF r
  <2>4. Grown(s, c, r.db) BY <1>0, <2>1, <2>2, <2>3 DEF Grown, Kept, SameGroups
  <2>7. QED BY <2>1, <2>2, <2>4 DEF r
<1>2. CASE HasEntry(c, e)
  <2>1. r = AndThen(moved, LAMBDA d : Ok(MergeEntry(s, d, e))) BY <1>2 DEF MergeChildEntry
  <2>2. r = IF moved.ok THEN Ok(MergeEntry(s, moved.db, e)) ELSE moved BY <2>1 DEF AndThen
  <2>4. moved \in Result(I) /\ Grown(s, c, moved.db)
    <3> DEFINE q == MoveEntry(c, e, x.parent, now)
    <3>1. CASE moved = Ok(c)
      <4>1. Ok(c) \in Result(I) /\ Ok(c).db = c BY Results
      <4>2. QED BY <1>0, <3>1, <4>1
    <3>2. CASE moved # Ok(c)
      <4>1. moved = q BY <3>2
      <4>2. x.parent \in Uuid BY <1>0 DEF Entry
      <4>3. q \in Result(I) /\ Kept(c, q.db, {}) /\ q.db.bin = c.bin /\ SameVersions(c, q.db)
        BY <1>0, <4>2, MoveEntryTyped
      <4>4. Named(q.db) \subseteq Named(c) BY <1>0, <4>2, MoveEntryNames
      <4> HIDE DEF q, moved
      <4>5. Grown(s, c, q.db) BY <1>0, <4>3, <4>4 DEF Grown, Kept, SameVersions
      <4>6. QED BY <4>1, <4>3, <4>5
    <3>3. QED BY <3>1, <3>2
  <2> HIDE DEF moved, r
  <2>5. moved.db \in Content(I) /\ e \in DOMAIN moved.db.entries BY <1>2, <2>4 DEF Result, Grown, HasEntry
  <2>6. CASE ~moved.ok BY <2>2, <2>4, <2>6 DEF r
  <2>7. CASE moved.ok
    <3> DEFINE d == MergeEntry(s, moved.db, e)
    <3>1. /\ d \in Content(I) /\ DOMAIN d.entries = DOMAIN moved.db.entries /\ d.groups = moved.db.groups
          /\ d.bin = moved.db.bin /\ d.deleted = moved.db.deleted
          /\ \A y \in DOMAIN moved.db.entries : moved.db.entries[y].mod <= d.entries[y].mod
      BY <2>5, MergeEntryTyped
    <3>2. r = Ok(d) BY <2>2, <2>7
    <3> HIDE DEF d
    <3>3. r \in Result(I) /\ r.db = d BY <3>1, <3>2, Results
    <3>4. Grown(s, moved.db, d) BY <3>1 DEF Grown, Named, Subs
    <3>5. Grown(s, c, d) BY <2>4, <2>5, <3>1, <3>4, GrownAgain
    <3>6. QED BY <2>5, <3>1, <3>3, <3>5 DEF r
  <2>8. QED BY <2>6, <2>7
<1>3. QED BY <1>1, <1>2

\* One step of merge_groups, for the uuid x that the walk through the source meets.
MergeStep(s, d, x, now) ==
    CASE x \in GroupsBelow(s, RootGroup) -> MergeChildGroup(s, d, x, now)
      [] x \notin GroupsBelow(s, RootGroup) /\ HasEntry(s, x) -> MergeChildEntry(s, d, x, now)
      [] OTHER -> Ok(d)

\* What has been met is there: a group in the source, an entry in the target.
Arrived(s, d, x) ==
    IF x \in GroupsBelow(s, RootGroup) THEN HasGroup(s, x) ELSE HasEntry(s, x) => HasEntry(d, x)

\* The results of merge_groups.
Merging(I, s, c, n) ==
    {v \in Result(I) : Grown(s, c, v.db) /\
        (v.ok => \A i \in 1 .. n : Arrived(s, v.db, Walk(s, RootGroup)[i][2]))}

\* One step of merge_groups leads on.
LEMMA MergeStepOutcome ==
    ASSUME NEW I \in SUBSET Uuid, NEW s \in Content(I), NEW c \in Content(I), NEW now \in Time,
           NEW n \in Nat, NEW v \in Merging(I, s, c, n), v.ok
    PROVE  MergeStep(s, v.db, Walk(s, RootGroup)[n + 1][2], now) \in Merging(I, s, c, n + 1)
<1> DEFINE x == Walk(s, RootGroup)[n + 1][2]
           d == v.db
           r == MergeStep(s, d, x, now)
<1>1. v \in Result(I) /\ d \in Content(I) /\ Grown(s, c, d) BY DEF Merging, Result
<1>2. \A i \in 1 .. n : Arrived(s, d, Walk(s, RootGroup)[i][2]) BY DEF Merging
<1>3. /\ r \in Result(I) /\ Grown(s, d, r.db) /\ (r.ok => Arrived(s, r.db, x))
  <2>1. CASE x \in GroupsBelow(s, RootGroup)
    <3>1. r = MergeChildGroup(s, d, x, now) BY <2>1 DEF MergeStep
    <3>2. x \in Named(s) BY <2>1, BelowNamed
    <3> HIDE DEF x, d, r
    <3>3. r \in Result(I) /\ Grown(s, d, r.db) /\ (~HasGroup(s, x) => r.ok = FALSE)
      BY <1>1, <3>1, <3>2, MergeChildGroupTyped
    <3>4. QED BY <2>1, <3>3 DEF Arrived
  <2>2. CASE x \notin GroupsBelow(s, RootGroup) /\ HasEntry(s, x)
    <3>1. r = MergeChildEntry(s, d, x, now) BY <2>2 DEF MergeStep
    <3>2. x \in DOMAIN s.entries BY <2>2 DEF HasEntry
    <3> HIDE DEF x, d, r
    <3>3. r \in Result(I) /\ Grown(s, d, r.db) /\ (r.ok => x \in DOMAIN r.db.entries)
      BY <1>1, <3>1, <3>2, MergeChildEntryTyped
    <3>4. QED BY <2>2, <3>3 DEF Arrived, HasEntry
  <2>3. CASE x \notin GroupsBelow(s, RootGroup) /\ ~HasEntry(s, x)
    <3>1. r = Ok(d) BY <2>3 DEF MergeStep
    <3> HIDE DEF x, d, r
    <3>2. r \in Result(I) /\ r.db = d BY <1>1, <3>1, Results
    <3>3. Grown(s, d, d) BY <1>1, GrownNot
    <3>4. QED BY <2>3, <3>2, <3>3 DEF Arrived
  <2>4. QED BY <2>1, <2>2, <2>3
<1> HIDE DEF r
<1>4. r.db \in Content(I) BY <1>3 DEF Result
<1>5. Grown(s, c, r.db) BY <1>1, <1>3, <1>4, GrownAgain
<1>6. ASSUME r.ok, NEW i \in 1 .. (n + 1) PROVE Arrived(s, r.db, Walk(s, RootGroup)[i][2])
  <2>1. CASE i = n + 1 BY <1>3, <1>6, <2>1
  <2>2. CASE i # n + 1
    <3>1. i \in 1 .. n BY <2>2
    <3>2. Arrived(s, d, Walk(s, RootGroup)[i][2]) BY <1>2, <3>1
    <3>3. DOMAIN d.entries \subseteq DOMAIN r.db.entries BY <1>3 DEF Grown
    <3>4. QED BY <3>2, <3>3 DEF Arrived, HasEntry
  <2>3. QED BY <2>1, <2>2
<1>7. r \in Merging(I, s, c, n + 1) BY <1>3, <1>5, <1>6 DEF Merging
<1>8. QED BY <1>7 DEF r

\* One step of merge_groups after the results so far.
MergeThen(s, v, n, now) == IF v.ok THEN MergeStep(s, v.db, Walk(s, RootGroup)[n][2], now) ELSE v

\* merge_groups ends where its steps lead to.
LEMMA MergeGroupsThrough ==
    ASSUME NEW I \in SUBSET Uuid, NEW s \in Content(I), NEW c, NEW now, NEW G, Ok(c) \in G[0],
           \A n \in 1 .. Len(Walk(s, RootGroup)) : \A v \in G[n - 1] : MergeThen(s, v, n, now) \in G[n]
    PROVE  MergeGroups(s, c, now) \in G[Len(Walk(s, RootGroup))]
<1> DEFINE walk == Walk(s, RootGroup)
           N == Len(walk)
           Merged(d, x) == MergeStep(s, d, x, now)
           ids == [i \in DOMAIN walk |-> walk[i][2]]
           Then(v, n) == IF v.ok THEN Merged(v.db, walk[n][2]) ELSE v
           F == [n \in 1 .. N |-> [v \in G[n - 1] |-> Then(v, n)]]
           After(f) == f = [n \in 0 .. N |-> IF n = 0 THEN Ok(c) ELSE Then(f[n - 1], n)]
           after == CHOOSE f : After(f)
<1>1. walk \in Seq(Item) /\ N \in Nat /\ DOMAIN walk = 1 .. N
  <2>1. Lists(s) BY ContentParts
  <2>2. walk \in Seq(Item) BY <2>1, UuidsThere, WalkMeets
  <2> HIDE DEF walk
  <2>3. QED BY <2>2
<1>2. MergeGroups(s, c, now) = after[N]
  <2>2. ids \in Seq(Uuid) /\ Len(ids) = N /\ \A n \in 1 .. N : ids[n] = walk[n][2]
    <3> HIDE DEF walk
    <3>1. \A i \in 1 .. N : walk[i][2] \in Uuid BY <1>1 DEF Item
    <3>2. ids \in [1 .. N -> Uuid] /\ DOMAIN ids = 1 .. N BY <1>1, <3>1
    <3>3. \A n \in 1 .. N : ids[n] = walk[n][2] BY <1>1
    <3> HIDE DEF ids, N
    <3>4. QED BY <1>1, <3>2, <3>3
  <2> DEFINE Real(f) == f = [n \in 0 .. Len(ids) |-> IF n = 0 THEN Ok(c)
                              ELSE IF f[n - 1].ok THEN Merged(f[n - 1].db, ids[n]) ELSE f[n - 1]]
  <2>3. MergeGroups(s, c, now) = (CHOOSE f : Real(f))[Len(ids)]
    BY DEF MergeGroups, ForEach, MergeStep
  <2>4. ASSUME NEW f PROVE Real(f) <=> After(f)
    <3> HIDE DEF walk, N
    <3>1. \A n \in 0 .. N : n # 0 => ids[n] = walk[n][2] BY <1>1, <2>2
    <3> HIDE DEF ids, Merged
    <3>2. [n \in 0 .. N |-> IF n = 0 THEN Ok(c) ELSE IF f[n - 1].ok THEN Merged(f[n - 1].db, ids[n]) ELSE f[n - 1]]
            = [n \in 0 .. N |-> IF n = 0 THEN Ok(c) ELSE IF f[n - 1].ok THEN Merged(f[n - 1].db, walk[n][2]) ELSE f[n - 1]]
      BY <3>1
    <3>3. QED BY <2>2, <3>2 DEF Merged
  <2> HIDE DEF Real, After, ids, N
  <2>5. (CHOOSE f : Real(f)) = (CHOOSE f : After(f)) BY <2>4
  <2>6. QED BY <2>2, <2>3, <2>5
<1>3. \A n \in 1 .. N : \A v \in G[n - 1] : Then(v, n) \in G[n] BY DEF MergeThen
<1> HIDE DEF N, after, walk, Then
<1>4. PICK f : /\ DOMAIN f = 0 .. N /\ f[0] = Ok(c) /\ \A n \in 1 .. N : f[n] = F[n][f[n - 1]]
               /\ \A n \in 0 .. N : f[n] \in G[n]
  <2> DEFINE r == Ok(c)
  <2>1. ASSUME NEW n \in 1 .. N, NEW v \in G[n - 1] PROVE F[n][v] \in G[n] BY <1>3
  <2>2. r \in G[0] OBVIOUS
  <2> HIDE DEF F
  <2>3. Leads(N, G, F) BY <2>1 DEF Leads
  <2> HIDE DEF r
  <2>4. \E f : LoopThrough(f, N, r, G, F) BY <1>1, <2>2, <2>3, LoopRule
  <2>5. QED BY <2>4 DEF LoopThrough, r
<1>5. ASSUME NEW n \in 1 .. N PROVE f[n] = Then(f[n - 1], n)
  <2>1. n - 1 \in 0 .. N BY <1>1
  <2>2. f[n - 1] \in G[n - 1] BY <1>4, <2>1
  <2>3. QED BY <1>4, <2>2
<1>6. after[N] = f[N]
  <2> HIDE DEF F
  <2>1. After([n \in 0 .. N |-> f[n]])
    <3> DEFINE e == [n \in 0 .. N |-> f[n]]
    <3>1. ASSUME NEW n \in 0 .. N PROVE e[n] = IF n = 0 THEN Ok(c) ELSE Then(e[n - 1], n)
      <4>1. CASE n = 0 BY <1>4, <4>1
      <4>2. CASE n # 0
        <5>1. n \in 1 .. N /\ n - 1 \in 0 .. N BY <1>1, <4>2
        <5>2. e[n - 1] = f[n - 1] BY <5>1
        <5>3. QED BY <1>5, <4>2, <5>1, <5>2
      <4>3. QED BY <4>1, <4>2
    <3>2. QED BY <3>1
  <2>2. After(after) BY <2>1 DEF after
  <2>3. after[0] = f[0] BY <1>1, <1>4, <2>2
  <2>4. ASSUME NEW n \in 1 .. N, after[n - 1] = f[n - 1] PROVE after[n] = f[n]
    <3>1. after[n] = Then(after[n - 1], n) BY <1>1, <2>2
    <3>2. QED BY <1>5, <2>4, <3>1
  <2>5. \A n \in 0 .. N : after[n] = f[n]
    <3>1. Alike(N, after, f) BY <2>4 DEF Alike
    <3>2. QED BY <1>1, <2>3, <3>1, SameLoop
  <2>6. QED BY <1>1, <2>5
<1>7. N \in 0 .. N BY <1>1
<1>8. QED BY <1>2, <1>4, <1>6, <1>7 DEF N, walk

\* merge_groups
LEMMA MergeGroupsOutcome ==
    ASSUME NEW I \in SUBSET Uuid, NEW s \in Content(I), NEW c \in Content(I), NEW now \in Time
    PROVE  MergeGroups(s, c, now) \in Merging(I, s, c, Len(Walk(s, RootGroup)))
<1> DEFINE N == Len(Walk(s, RootGroup))
           G == [n \in 0 .. N |-> Merging(I, s, c, n)]
<1>1. N \in Nat
  <2>1. Lists(s) BY ContentParts
  <2>2. Walk(s, RootGroup) \in Seq(Item) BY <2>1, UuidsThere, WalkMeets
  <2>3. QED BY <2>2
<1>2. Ok(c) \in G[0]
  <2>1. Ok(c) \in Result(I) /\ Ok(c).db = c BY Results
  <2>2. Grown(s, c, c) BY GrownNot
  <2>3. Ok(c) \in Merging(I, s, c, 0) BY <2>1, <2>2 DEF Merging
  <2>4. 0 \in 0 .. N BY <1>1
  <2>5. QED BY <2>3, <2>4
<1>3. ASSUME NEW n \in 1 .. N, NEW v \in G[n - 1] PROVE MergeThen(s, v, n, now) \in G[n]
  <2>1. n - 1 \in Nat /\ (n - 1) + 1 = n /\ n - 1 \in 0 .. N /\ n \in 0 .. N BY <1>1
  <2>2. v \in Merging(I, s, c, n - 1) /\ G[n] = Merging(I, s, c, n) BY <2>1
  <2> HIDE DEF G, N
  <2>3. CASE v.ok
    <3>1. MergeThen(s, v, n, now) = MergeStep(s, v.db, Walk(s, RootGroup)[(n - 1) + 1][2], now) BY <2>1, <2>3 DEF MergeThen
    <3>2. MergeStep(s, v.db, Walk(s, RootGroup)[(n - 1) + 1][2], now) \in Merging(I, s, c, (n - 1) + 1)
      BY <2>1, <2>2, <2>3, MergeStepOutcome
    <3>3. QED BY <2>1, <2>2, <3>1, <3>2
  <2>4. CASE ~v.ok
    <3>1. MergeThen(s, v, n, now) = v BY <2>4 DEF MergeThen
    <3>2. v \in Merging(I, s, c, n) BY <2>2, <2>4 DEF Merging
    <3>3. QED BY <2>2, <3>1, <3>2
  <2>5. QED BY <2>3, <2>4
<1>4. N \in 0 .. N BY <1>1
<1> HIDE DEF G
<1>5. MergeGroups(s, c, now) \in G[N] BY <1>2, <1>3, MergeGroupsThrough
<1>6. QED BY <1>4, <1>5 DEF G

-----------------------------------------------------------------------------
(* Deleted objects of both *)

\* Each deletion has the time it has on one side.
LEMMA DeletionsTyped ==
    ASSUME NEW I \in SUBSET Uuid, NEW s \in Content(I), NEW c \in Content(I)
    PROVE  /\ Deletions(s, c) \in [DOMAIN s.deleted \cup DOMAIN c.deleted -> Time]
           /\ \A x \in DOMAIN s.deleted \cup DOMAIN c.deleted :
                 \/ x \in DOMAIN s.deleted /\ Deletions(s, c)[x] = s.deleted[x]
                 \/ x \in DOMAIN c.deleted /\ Deletions(s, c)[x] = c.deleted[x]
<1>1. /\ \A x \in DOMAIN s.deleted : s.deleted[x] \in Time
      /\ \A x \in DOMAIN c.deleted : c.deleted[x] \in Time
  BY ContentParts
<1>2. QED BY <1>1 DEF Deletions

\* The entries go, and the lists get shorter.
LEMMA WithoutEntriesTyped ==
    ASSUME NEW I \in SUBSET Uuid, NEW c \in Content(I), NEW gone
    PROVE  LET d == WithoutEntries(c, gone)
           IN  /\ d \in Content(I) /\ d.bin = c.bin /\ d.deleted = c.deleted
               /\ DOMAIN d.entries = DOMAIN c.entries \ gone
               /\ (\A e \in DOMAIN d.entries : d.entries[e] = c.entries[e])
               /\ DOMAIN d.groups = DOMAIN c.groups
               /\ \A h \in DOMAIN c.groups : d.groups[h].subs = c.groups[h].subs
<1> DEFINE ids(h) == c.groups[h].entries
           keep(h) == {i \in DOMAIN ids(h) : ids(h)[i] \notin gone \/ c.entries[ids(h)[i]].parent # h}
           left(h) == Picked(ids(h), keep(h), <)
           m == [h \in DOMAIN c.groups |-> [c.groups[h] EXCEPT !.entries = left(h)]]
           k == [e \in DOMAIN c.entries \ gone |-> c.entries[e]]
           d == [c EXCEPT !.entries = k, !.groups = m]
<1>1. WithoutEntries(c, gone) = d BY DEF WithoutEntries
<1>2. ASSUME NEW h \in DOMAIN c.groups PROVE m[h] \in Group /\ m[h].subs = c.groups[h].subs
  <2>1. c.groups[h] \in Group BY ContentParts
  <2>2. ids(h) \in Seq(Uuid) /\ keep(h) \in SUBSET (DOMAIN ids(h)) BY <2>1 DEF Group
  <2> DEFINE list == left(h)
  <2>4. m[h] = [c.groups[h] EXCEPT !.entries = list] OBVIOUS
  <2>3. list \in Seq(Uuid)
    <3> HIDE DEF ids, keep, m, k, d
    <3>1. Picked(ids(h), keep(h), <) \in Seq(Uuid) BY <2>2, PickedAscending
    <3>2. QED BY <3>1
  <2> HIDE DEF list, m, left
  <2>5. QED BY <2>1, <2>3, <2>4 DEF Group
<1>3. DOMAIN m = DOMAIN c.groups /\ m = [h \in DOMAIN m |-> m[h]] OBVIOUS
<1>4. DOMAIN k = DOMAIN c.entries \ gone /\ (\A e \in DOMAIN k : k[e] = c.entries[e]) /\ k = [e \in DOMAIN k |-> k[e]]
  OBVIOUS
<1>5. /\ DOMAIN c.groups \in SUBSET I /\ DOMAIN c.entries \in SUBSET I
      /\ \A e \in DOMAIN c.entries : c.entries[e] \in Entry
  BY ContentParts
<1> HIDE DEF m, k
<1>6. m \in Maps(I, Group) BY <1>2, <1>3, <1>5, MapIs
<1>7. k \in Maps(I, Entry) BY <1>4, <1>5, MapIs
<1>8. d \in Content(I) /\ d.entries = k /\ d.groups = m /\ d.bin = c.bin /\ d.deleted = c.deleted
  BY <1>6, <1>7 DEF Content
<1> HIDE DEF d
<1>9. QED BY <1>1, <1>2, <1>3, <1>4, <1>8

\* The groups go, and the lists get shorter.
LEMMA WithoutGroupsTyped ==
    ASSUME NEW I \in SUBSET Uuid, NEW c \in Content(I), NEW gone
    PROVE  LET d == WithoutGroups(c, gone)
           IN  /\ d \in Content(I) /\ d.bin = c.bin /\ d.deleted = c.deleted /\ d.entries = c.entries
               /\ DOMAIN d.groups = DOMAIN c.groups \ gone
               /\ \A h \in DOMAIN d.groups : Subs(d, h) \subseteq Subs(c, h)
<1> DEFINE ids(h) == c.groups[h].subs
           keep(h) == {i \in DOMAIN ids(h) : ids(h)[i] \notin gone \/ c.groups[ids(h)[i]].parent # h}
           left(h) == Picked(ids(h), keep(h), <)
           m == [h \in DOMAIN c.groups \ gone |-> [c.groups[h] EXCEPT !.subs = left(h)]]
           d == [c EXCEPT !.groups = m]
<1>1. WithoutGroups(c, gone) = d BY DEF WithoutGroups
<1>2. ASSUME NEW h \in DOMAIN c.groups \ gone PROVE m[h] \in Group /\ ToSet(m[h].subs) \subseteq Subs(c, h)
  <2>1. c.groups[h] \in Group BY ContentParts
  <2>2. ids(h) \in Seq(Uuid) /\ keep(h) \in SUBSET (DOMAIN ids(h)) BY <2>1 DEF Group
  <2> DEFINE list == left(h)
  <2>4. m[h] = [c.groups[h] EXCEPT !.subs = list] OBVIOUS
  <2>6. ToSet(ids(h)) = {ids(h)[i] : i \in DOMAIN ids(h)} BY DEF ToSet
  <2>3. list \in Seq(Uuid) /\ ToSet(list) \subseteq ToSet(ids(h))
    <3> HIDE DEF ids, keep, m, d
    <3>1. /\ Picked(ids(h), keep(h), <) \in Seq(Uuid)
          /\ ToSet(Picked(ids(h), keep(h), <)) = {ids(h)[i] : i \in keep(h)}
      BY <2>2, PickedAscending
    <3>2. QED BY <2>2, <2>6, <3>1
  <2> HIDE DEF list, m, left
  <2>5. QED BY <2>1, <2>3, <2>4 DEF Group, Subs
<1>3. DOMAIN m = DOMAIN c.groups \ gone /\ m = [h \in DOMAIN m |-> m[h]] OBVIOUS
<1>5. DOMAIN c.groups \in SUBSET I BY ContentParts
<1> HIDE DEF m
<1>6. m \in Maps(I, Group) BY <1>2, <1>3, <1>5, MapIs
<1>7. d \in Content(I) BY <1>6, OtherParts
<1>8. d.entries = c.entries /\ d.groups = m /\ d.bin = c.bin /\ d.deleted = c.deleted BY DEF Content
<1> HIDE DEF d
<1>9. QED BY <1>1, <1>2, <1>3, <1>7, <1>8 DEF Subs

\* merge_deleted_objects
LEMMA MergeDeletedTyped ==
    ASSUME NEW I \in SUBSET Uuid, NEW s \in Content(I), NEW c \in Content(I), NEW now \in Time
    PROVE  LET d == MergeDeletedObjects(s, c, now)
           IN  /\ d \in Content(I) /\ d.bin = c.bin
               /\ DOMAIN d.entries = DOMAIN c.entries \ DeletedEntries(s, c)
               /\ (\A e \in DOMAIN d.entries : d.entries[e] = c.entries[e])
               /\ DOMAIN d.groups \subseteq DOMAIN c.groups
               /\ DOMAIN c.groups \cap DOMAIN s.groups \subseteq DOMAIN d.groups
               /\ \A x \in DOMAIN d.deleted :
                     \/ x \in DOMAIN c.entries \ DOMAIN d.entries
                     \/ x \in DOMAIN c.groups \ DOMAIN d.groups
                     \/ x \notin DOMAIN c.entries \cup DOMAIN c.groups
               /\ Named(d) \subseteq Named(c)
<1> DEFINE deletions == Deletions(s, c)
           entries == DeletedEntries(s, c)
           emptied == WithoutEntries(c, entries)
           groups == DeletedGroups(s, emptied)
           left == WithoutGroups(emptied, groups)
           absent == DOMAIN deletions \ (DOMAIN c.groups \cup DOMAIN c.entries)
           dead == absent \cup entries \cup groups
           m == [x \in dead |-> IF x \in absent THEN deletions[x] ELSE now]
           d == [left EXCEPT !.deleted = m]
<1>1. MergeDeletedObjects(s, c, now) = d BY DEF MergeDeletedObjects
<1>2. deletions \in [DOMAIN s.deleted \cup DOMAIN c.deleted -> Time] BY DeletionsTyped
<1>3. entries \subseteq DOMAIN c.entries BY DEF DeletedEntries
<1>4. /\ emptied \in Content(I) /\ emptied.bin = c.bin
      /\ DOMAIN emptied.entries = DOMAIN c.entries \ entries
      /\ (\A e \in DOMAIN emptied.entries : emptied.entries[e] = c.entries[e])
      /\ DOMAIN emptied.groups = DOMAIN c.groups
      /\ \A h \in DOMAIN c.groups : emptied.groups[h].subs = c.groups[h].subs
  BY WithoutEntriesTyped
<1> HIDE DEF deletions, entries
<1> HIDE DEF emptied
<1>5. groups \subseteq DOMAIN emptied.groups /\ groups \cap DOMAIN s.groups = {} BY DEF DeletedGroups, HasGroup
<1> HIDE DEF groups
<1>6. /\ left \in Content(I) /\ left.bin = emptied.bin /\ left.entries = emptied.entries
      /\ DOMAIN left.groups = DOMAIN emptied.groups \ groups
      /\ \A h \in DOMAIN left.groups : Subs(left, h) \subseteq Subs(emptied, h)
  BY <1>4, WithoutGroupsTyped
<1> HIDE DEF left
<1>7. DOMAIN c.groups \in SUBSET I /\ DOMAIN c.entries \in SUBSET I /\ DOMAIN c.deleted \in SUBSET I BY ContentParts
<1>8. DOMAIN s.deleted \in SUBSET I BY ContentParts
<1>9. m \in Maps(I, Time)
  <2>1. DOMAIN m \in SUBSET I BY <1>2, <1>3, <1>4, <1>5, <1>7, <1>8
  <2>2. m = [x \in DOMAIN m |-> m[x]] /\ \A x \in DOMAIN m : m[x] \in Time BY <1>2
  <2> HIDE DEF m
  <2>3. QED BY <2>1, <2>2, MapIs
<1>10. DOMAIN m = dead OBVIOUS
<1> HIDE DEF m
<1>11. d \in Content(I) BY <1>6, <1>9, OtherParts
<1>12. d.deleted = m /\ d.groups = left.groups /\ d.entries = left.entries /\ d.bin = left.bin BY <1>6 DEF Content
<1> HIDE DEF d
<1>13. Named(d) \subseteq Named(c)
  <2>1. Named(left) \subseteq Named(emptied) BY <1>6, NamedFewer
  <2>2. Named(emptied) = Named(c) BY <1>4 DEF Named, Subs
  <2>3. Named(d) = Named(left) BY <1>12 DEF Named, Subs
  <2>4. QED BY <2>1, <2>2, <2>3
<1>14. ASSUME NEW x \in DOMAIN d.deleted
       PROVE  \/ x \in DOMAIN c.entries \ DOMAIN d.entries
              \/ x \in DOMAIN c.groups \ DOMAIN d.groups
              \/ x \notin DOMAIN c.entries \cup DOMAIN c.groups
  BY <1>3, <1>4, <1>5, <1>6, <1>10, <1>12
<1>15. QED BY <1>1, <1>4, <1>5, <1>6, <1>11, <1>12, <1>13, <1>14 DEF entries

\* maintain_all_histories
LEMMA MaintainTyped ==
    ASSUME NEW I \in SUBSET Uuid, NEW c \in Content(I)
    PROVE  LET d == MaintainAllHistories(c)
           IN  /\ d \in Content(I) /\ SamePlaces(c, d) /\ d.groups = c.groups
               /\ \A e \in DOMAIN c.entries : /\ d.entries[e].mod = c.entries[e].mod
                                              /\ d.entries[e].by = c.entries[e].by
                                              /\ d.entries[e].history = Trim(c.entries[e].history)
<1> DEFINE past(e) == Trim(c.entries[e].history)
           m == [e \in DOMAIN c.entries |-> [c.entries[e] EXCEPT !.history = past(e)]]
           d == [c EXCEPT !.entries = m]
<1>1. MaintainAllHistories(c) = d BY DEF MaintainAllHistories
<1>2. ASSUME NEW e \in DOMAIN c.entries
      PROVE  /\ m[e] \in Entry /\ m[e].parent = c.entries[e].parent /\ m[e].mod = c.entries[e].mod
             /\ m[e].by = c.entries[e].by /\ m[e].history = Trim(c.entries[e].history)
  <2>1. c.entries[e] \in Entry BY ContentParts
  <2>2. c.entries[e].history \in Seq(Version) BY <2>1 DEF Entry
  <2>3. past(e) \in Seq(Version) BY <2>2, TrimmedHistory
  <2>4. m[e] = [c.entries[e] EXCEPT !.history = past(e)] OBVIOUS
  <2> HIDE DEF m
  <2>5. past(e) = Trim(c.entries[e].history) OBVIOUS
  <2> HIDE DEF past
  <2>6. QED BY <2>1, <2>3, <2>4, <2>5 DEF Entry
<1>3. DOMAIN m = DOMAIN c.entries /\ m = [e \in DOMAIN m |-> m[e]] OBVIOUS
<1>4. DOMAIN c.entries \in SUBSET I BY ContentParts
<1> HIDE DEF m
<1>5. m \in Maps(I, Entry) BY <1>2, <1>3, <1>4, MapIs
<1>6. d \in Content(I) BY <1>5, OtherParts
<1>7. d.entries = m /\ d.groups = c.groups /\ d.bin = c.bin /\ d.deleted = c.deleted BY DEF Content
<1> HIDE DEF d
<1>8. SamePlaces(c, d) BY <1>2, <1>3, <1>7 DEF SamePlaces
<1>9. QED BY <1>1, <1>2, <1>6, <1>7, <1>8

-----------------------------------------------------------------------------
(* A merge *)

\* What a merge is made of: the target with the bin of the source, the result
\* of merge_groups, and what is left when the deleted objects are looked at.
LEMMA MergeParts ==
    ASSUME NEW I \in SUBSET Uuid, NEW s \in Content(I), NEW c \in Content(I), RootGroup \in DOMAIN s.groups,
           NEW now \in Time, NEW by \in Devices
    PROVE  LET b == WithSourceBin(s, MergeGroup(s, c, RootGroup), now, by)
               v == MergeGroups(s, b, now)
               d == MergeDeletedObjects(s, v.db, now)
               r == Merge(s, c, now, by)
           IN  /\ b \in Content(I) /\ b.bin \in {c.bin, s.bin} /\ b.entries = c.entries /\ b.deleted = c.deleted
               /\ DOMAIN c.groups \subseteq DOMAIN b.groups
               /\ DOMAIN b.groups \subseteq DOMAIN c.groups \cup ({s.bin} \cap Uuid)
               /\ Named(b) \subseteq Named(c) \cup ({s.bin} \ DOMAIN c.groups)
               /\ v \in Merging(I, s, b, Len(Walk(s, RootGroup))) /\ v.db \in Content(I) /\ Grown(s, b, v.db)
               /\ IF v.ok THEN r = Ok(MaintainAllHistories(d)) ELSE r = v
<1> DEFINE m == MergeGroup(s, c, RootGroup)
           b == WithSourceBin(s, m, now, by)
           v == MergeGroups(s, b, now)
           d == MergeDeletedObjects(s, v.db, now)
           r == Merge(s, c, now, by)
<1>1. m \in Content(I) /\ SamePlaces(c, m) /\ m.entries = c.entries BY MergeGroupTyped
<1>2. r = AndThen(v, LAMBDA x : Ok(MaintainAllHistories(MergeDeletedObjects(s, x, now)))) BY DEF Merge
<1>3. IF v.ok THEN r = Ok(MaintainAllHistories(d)) ELSE r = v BY <1>2 DEF AndThen
<1>4. Named(m) = Named(c) BY <1>1, SameNames
<1> HIDE DEF m
<1>5. /\ b \in Content(I) /\ Kept(m, b, {s.bin} \cap Uuid) /\ b.entries = m.entries
      /\ b.bin \in {m.bin, s.bin} /\ Named(b) \subseteq Named(m) \cup ({s.bin} \ DOMAIN m.groups)
  BY <1>1, SourceBinTyped
<1> HIDE DEF b
<1>6. v \in Merging(I, s, b, Len(Walk(s, RootGroup))) BY <1>5, MergeGroupsOutcome
<1> HIDE DEF v, d, r
<1>7. v.db \in Content(I) /\ Grown(s, b, v.db) BY <1>6 DEF Merging, Result
<1>8. QED BY <1>1, <1>3, <1>4, <1>5, <1>6, <1>7 DEF b, d, m, r, v, Kept, SamePlaces

\* All groups and entries of a merge come from the two sides, and the groups of
\* both stay.
LEMMA MergeTyped ==
    ASSUME NEW I \in SUBSET Uuid, NEW s \in Content(I), NEW c \in Content(I), RootGroup \in DOMAIN s.groups,
           NEW now \in Time, NEW by \in Devices
    PROVE  LET r == Merge(s, c, now, by)
           IN  /\ r \in Result(I) /\ r.db.bin \in {c.bin, s.bin}
               /\ DOMAIN r.db.groups \subseteq DOMAIN c.groups \cup DOMAIN s.groups \cup ({s.bin} \cap Uuid)
               /\ DOMAIN r.db.entries \subseteq DOMAIN c.entries \cup DOMAIN s.entries
               /\ DOMAIN c.groups \cap DOMAIN s.groups \subseteq DOMAIN r.db.groups
               /\ Named(r.db) \subseteq Named(c) \cup Named(s) \cup ({s.bin} \ DOMAIN c.groups)
<1> DEFINE b == WithSourceBin(s, MergeGroup(s, c, RootGroup), now, by)
           v == MergeGroups(s, b, now)
           w == v.db
           d == MergeDeletedObjects(s, w, now)
           e == MaintainAllHistories(d)
           r == Merge(s, c, now, by)
<1>1. /\ b \in Content(I) /\ b.bin \in {c.bin, s.bin} /\ b.entries = c.entries
      /\ DOMAIN c.groups \subseteq DOMAIN b.groups
      /\ DOMAIN b.groups \subseteq DOMAIN c.groups \cup ({s.bin} \cap Uuid)
      /\ Named(b) \subseteq Named(c) \cup ({s.bin} \ DOMAIN c.groups)
      /\ v \in Merging(I, s, b, Len(Walk(s, RootGroup))) /\ w \in Content(I) /\ Grown(s, b, w)
      /\ IF v.ok THEN r = Ok(e) ELSE r = v
  BY MergeParts
<1> HIDE DEF b, v, w, r
<1>5. w \in Content(I) BY <1>1
<1>2. CASE ~v.ok
  <2>1. r = v /\ v \in Result(I) BY <1>1, <1>2 DEF Merging
  <2>2. QED BY <1>1, <2>1 DEF Grown, r, w
<1>3. CASE v.ok
  <2>1. /\ d \in Content(I) /\ d.bin = w.bin
        /\ DOMAIN d.entries = DOMAIN w.entries \ DeletedEntries(s, w)
        /\ DOMAIN d.groups \subseteq DOMAIN w.groups
        /\ DOMAIN w.groups \cap DOMAIN s.groups \subseteq DOMAIN d.groups
        /\ Named(d) \subseteq Named(w)
    BY <1>5, MergeDeletedTyped
  <2> HIDE DEF d
  <2>2. e \in Content(I) /\ SamePlaces(d, e) BY <2>1, MaintainTyped
  <2> HIDE DEF e
  <2>3. Named(e) = Named(d) BY <2>2, SameNames
  <2>4. r = Ok(e) BY <1>1, <1>3
  <2>5. r \in Result(I) /\ r.db = e BY <2>2, <2>4, Results
  <2>6. QED BY <1>1, <2>1, <2>2, <2>3, <2>5 DEF Grown, SamePlaces, r
<1>4. QED BY <1>2, <1>3

\* All that a walk can meet is met by one that ends.
LEMMA EntriesMet ==
    ASSUME NEW I \in SUBSET Uuid, NEW c \in Content(I), NEW g \in {Nil} \cup Uuid, ~Endless(c, g),
           NEW x \in EntriesBelow(c, g) \cup GroupsBelow(c, g)
    PROVE  \E i \in 1 .. Len(Walk(c, g)) : Walk(c, g)[i][2] = x
<1>1. Lists(c) /\ IsFiniteSet(DOMAIN c.groups) /\ DOMAIN c.groups \in SUBSET I BY ContentParts
<1>2. ToSet(Walk(c, g)) = Ways(c, g) /\ Walk(c, g) \in Seq(Item) BY <1>1, WalkMeets
<1>3. PICK h \in Entered(c, g) : x \in ToSet(c.groups[h].entries) \cup ToSet(c.groups[h].subs)
  BY DEF EntriesBelow, GroupsBelow
<1>4. h \in DOMAIN c.groups BY <1>1, <1>3, EnteredGroups
<1>5. x \in Uuid /\ h \in Uuid BY <1>1, <1>3, <1>4, FewGroups DEF Subs, Ents
<1>6. <<h, x>> \in Ways(c, g) BY <1>3, <1>5 DEF Ways, Item, Listed, Subs, Ents
<1>7. PICK i \in 1 .. Len(Walk(c, g)) : Walk(c, g)[i] = <<h, x>> BY <1>2, <1>6, ElementsOf
<1>8. Walk(c, g)[i][2] = x BY <1>7
<1>9. QED BY <1>8

\* A merge that completes keeps what the source has alive, removes only what one
\* side deleted after the last edit on the other, and leaves no deleted object
\* of anything alive.
LEMMA MergeDone ==
    ASSUME NEW I \in SUBSET Uuid, NEW s \in Content(I), NEW c \in Content(I), RootGroup \in DOMAIN s.groups,
           NEW now \in Time, NEW by \in Devices, ~Endless(s, RootGroup), Merge(s, c, now, by).ok,
           (DOMAIN c.groups \cup DOMAIN s.groups \cup {s.bin}) \cap (DOMAIN c.entries \cup DOMAIN s.entries) = {}
    PROVE  LET d == Merge(s, c, now, by).db
           IN  /\ EntriesBelow(s, RootGroup) \cap DOMAIN s.entries \subseteq DOMAIN d.entries
               /\ \A e \in DOMAIN c.entries \ DOMAIN d.entries :
                     \E k \in {s, c} : e \in DOMAIN k.deleted /\ k.deleted[e] > c.entries[e].mod
               /\ DOMAIN d.deleted \cap (DOMAIN d.groups \cup DOMAIN d.entries) = {}
<1> DEFINE b == WithSourceBin(s, MergeGroup(s, c, RootGroup), now, by)
           v == MergeGroups(s, b, now)
           w == v.db
           d == MergeDeletedObjects(s, w, now)
           m == MaintainAllHistories(d)
           r == Merge(s, c, now, by)
           walk == Walk(s, RootGroup)
<1>1. /\ b \in Content(I) /\ b.entries = c.entries /\ b.deleted = c.deleted
      /\ DOMAIN b.groups \subseteq DOMAIN c.groups \cup ({s.bin} \cap Uuid)
      /\ v \in Merging(I, s, b, Len(walk)) /\ w \in Content(I) /\ Grown(s, b, w)
      /\ IF v.ok THEN r = Ok(m) ELSE r = v
  BY MergeParts
<1> HIDE DEF b, v, w, r
<1>2. v.ok /\ r = Ok(m)
  <2>1. r.ok BY DEF r
  <2>2. QED BY <1>1, <2>1
<1>11. w \in Content(I) BY <1>1
<1>3. /\ d \in Content(I)
      /\ DOMAIN d.entries = DOMAIN w.entries \ DeletedEntries(s, w)
      /\ DOMAIN d.groups \subseteq DOMAIN w.groups
      /\ \A x \in DOMAIN d.deleted :
            \/ x \in DOMAIN w.entries \ DOMAIN d.entries
            \/ x \in DOMAIN w.groups \ DOMAIN d.groups
            \/ x \notin DOMAIN w.entries \cup DOMAIN w.groups
  BY <1>11, MergeDeletedTyped
<1> HIDE DEF d
<1>4. SamePlaces(d, m) BY <1>3, MaintainTyped
<1> HIDE DEF m
<1>5. r.db = m BY <1>2 DEF Ok
<1>6. /\ DOMAIN w.entries \subseteq DOMAIN c.entries \cup DOMAIN s.entries
      /\ DOMAIN w.groups \subseteq DOMAIN c.groups \cup DOMAIN s.groups \cup {s.bin}
      /\ DOMAIN c.entries \subseteq DOMAIN w.entries
  BY <1>1 DEF Grown
<1>7. ASSUME NEW e \in EntriesBelow(s, RootGroup) \cap DOMAIN s.entries PROVE e \in DOMAIN r.db.entries
  <2>1. PICK i \in 1 .. Len(walk) : walk[i][2] = e BY <1>7, EntriesMet, UuidsThere
  <2>2. Arrived(s, w, e) BY <1>1, <1>2, <2>1 DEF Merging, w
  <2>3. e \in DOMAIN w.entries BY <1>7, <2>2 DEF Arrived, HasGroup, HasEntry
  <2>4. e \notin DeletedEntries(s, w) BY <1>7 DEF DeletedEntries, HasEntry
  <2>5. QED BY <1>3, <1>4, <1>5, <2>3, <2>4 DEF SamePlaces
<1>8. ASSUME NEW e \in DOMAIN c.entries \ DOMAIN r.db.entries
      PROVE  \E k \in {s, c} : e \in DOMAIN k.deleted /\ k.deleted[e] > c.entries[e].mod
  <2>1. e \in DOMAIN w.entries /\ e \notin DOMAIN d.entries BY <1>4, <1>5, <1>6 DEF SamePlaces
  <2>2. e \in DeletedEntries(s, w) BY <1>3, <2>1
  <2>3. e \in DOMAIN Deletions(s, w) /\ w.entries[e].mod < Deletions(s, w)[e]
    BY <2>2 DEF DeletedEntries
  <2>4. w.deleted = c.deleted BY <1>1 DEF Grown
  <2>5. DOMAIN Deletions(s, w) = DOMAIN s.deleted \cup DOMAIN w.deleted BY DEF Deletions
  <2>6. \/ e \in DOMAIN s.deleted /\ Deletions(s, w)[e] = s.deleted[e]
        \/ e \in DOMAIN w.deleted /\ Deletions(s, w)[e] = w.deleted[e]
    <3>1. e \in DOMAIN s.deleted \cup DOMAIN w.deleted BY <2>3, <2>5
    <3>2. QED BY <3>1 DEF Deletions
  <2>7. PICK k \in {s, c} : e \in DOMAIN k.deleted /\ Deletions(s, w)[e] = k.deleted[e] BY <2>4, <2>6
  <2>8. k \in Content(I) OBVIOUS
  <2>9. k.deleted[e] \in Nat BY <2>7, <2>8, ContentParts, UuidsAssumption DEF Time
  <2>10. c.entries[e].mod \in Nat /\ w.entries[e].mod \in Nat
    BY <1>1, <1>8, <2>1, ContentParts, UuidsAssumption DEF Entry, Time
  <2>11. c.entries[e].mod <= w.entries[e].mod BY <1>1, <1>8 DEF Grown
  <2>12. k.deleted[e] > c.entries[e].mod BY <2>3, <2>7, <2>9, <2>10, <2>11
  <2>13. QED BY <2>7, <2>12
<1>9. DOMAIN r.db.deleted \cap (DOMAIN r.db.groups \cup DOMAIN r.db.entries) = {}
  <2>1. ASSUME NEW x \in DOMAIN d.deleted PROVE x \notin DOMAIN d.groups \cup DOMAIN d.entries
    BY <1>3, <1>6
  <2>2. DOMAIN r.db.deleted = DOMAIN d.deleted /\ DOMAIN r.db.groups = DOMAIN d.groups /\ DOMAIN r.db.entries = DOMAIN d.entries
    BY <1>4, <1>5 DEF SamePlaces
  <2>3. QED BY <2>1, <2>2
<1>10. QED BY <1>7, <1>8, <1>9 DEF r

-----------------------------------------------------------------------------
(* The database all copies start with *)

\* A finite set of numbers in ascending order.
LEMMA Ascending ==
    ASSUME NEW S, S \subseteq Nat, IsFiniteSet(S)
    PROVE  InOrder(S, <) \in Seq(S) /\ ToSet(InOrder(S, <)) = S /\ IsInjective(InOrder(S, <))
<1> DEFINE R == {p \in S \X S : p[1] < p[2]}
           order == InOrder(S, <)
<1>2. \A i, j \in S : <<j, i>> \in R <=> j < i OBVIOUS
<1>3. \A i \in S : {j \in S : j < i} = {j \in S : <<j, i>> \in R}
  <2> HIDE DEF R
  <2>1. QED BY <1>2
<1>4. Orders(R, S)
  <2> HIDE DEF R
  <2>1. QED BY <1>2 DEF Orders
<1>5. order = ByRank(S, R)
  <2> DEFINE First(n) == CHOOSE i \in S : Cardinality({j \in S : j < i}) = n - 1
             Second(n) == CHOOSE i \in S : Cardinality({j \in S : <<j, i>> \in R}) = n - 1
  <2>1. order = [n \in 1 .. Cardinality(S) |-> First(n)] BY DEF InOrder
  <2>2. ByRank(S, R) = [n \in 1 .. Cardinality(S) |-> Second(n)] BY DEF ByRank
  <2> HIDE DEF R, order
  <2>3. \A n \in 1 .. Cardinality(S) : First(n) = Second(n) BY <1>3
  <2> HIDE DEF First, Second
  <2>4. QED BY <2>1, <2>2, <2>3
<1> HIDE DEF R, order
<1>6. /\ Cardinality(S) \in Nat /\ order \in [1 .. Cardinality(S) -> S]
      /\ \A i \in S : \E n \in 1 .. Cardinality(S) : order[n] = i
      /\ \A m, n \in 1 .. Cardinality(S) : order[m] = order[n] => m = n
  BY <1>4, <1>5, InOrderOf
<1>7. order \in Seq(S) /\ DOMAIN order = 1 .. Cardinality(S) BY <1>6
<1>8. ToSet(order) = S
  <2>1. ASSUME NEW x \in ToSet(order) PROVE x \in S BY <1>6, <1>7 DEF ToSet
  <2>2. ASSUME NEW x \in S PROVE x \in ToSet(order)
    <3>1. PICK n \in 1 .. Cardinality(S) : order[n] = x BY <1>6
    <3> QED BY <1>7, <3>1 DEF ToSet
  <2> QED BY <2>1, <2>2
<1>9. IsInjective(order) BY <1>6, <1>7 DEF IsInjective
<1> QED BY <1>7, <1>8, <1>9 DEF order

\* The greatest of some numbers that have a bound.
LEMMA Greatest ==
    ASSUME NEW N \in Nat, NEW S, S \subseteq 0 .. N, S # {}
    PROVE  Max(S) \in S /\ \A x \in S : x <= Max(S)
<1> DEFINE T == {N - x : x \in S}
<1>1. T \subseteq Nat /\ T # {}
  <2>1. \A x \in S : N - x \in Nat OBVIOUS
  <2> QED BY <2>1
<1>2. PICK y \in T : \A z \in T : y <= z
  <2> HIDE DEF T
  <2> QED BY <1>1, Least
<1>3. PICK x \in S : y = N - x OBVIOUS
<1>4. \A z \in S : x >= z
  <2> TAKE z \in S
  <2>1. y <= N - z BY <1>2
  <2> QED BY <1>3, <2>1
<1>5. \E m \in S : \A z \in S : m >= z BY <1>3, <1>4
<1>6. Max(S) \in S /\ \A z \in S : Max(S) >= z BY <1>5 DEF Max
<1> QED BY <1>6

\* The groups the root group lists at the start.
StartGroups == InitialGroups \cup ({InitialBin} \ {Nil})
StartUuids == InitialGroups \cup InitialEntries \cup {RootGroup, BinGroup}

\* The uuids of the start are within the uuids there are; the root group lists
\* groups and entries that are apart.
LEMMA StartSets ==
    /\ StartUuids \subseteq 1 .. MaxUuid /\ Max(StartUuids) \in 2 .. MaxUuid
    /\ StartUuids \subseteq 1 .. Max(StartUuids)
    /\ StartGroups \subseteq StartUuids /\ IsFiniteSet(StartGroups) /\ IsFiniteSet(InitialEntries)
    /\ RootGroup \notin StartGroups /\ RootGroup \notin InitialEntries
    /\ InitialEntries \cap StartGroups = {} /\ InitialBin \notin InitialEntries
<1>1. MaxUuid \in Nat /\ 2 <= MaxUuid BY UuidsAssumption
<1>2. StartUuids \subseteq 1 .. MaxUuid BY <1>1, StartAssumption DEF StartUuids, RootGroup, BinGroup
<1>3. StartGroups \subseteq StartUuids /\ RootGroup \notin StartGroups
  BY StartAssumption DEF StartGroups, StartUuids, Nil, RootGroup, BinGroup
<1>4. IsFiniteSet(1 .. MaxUuid) BY <1>1, FS_Interval
<1>5. IsFiniteSet(StartGroups) /\ IsFiniteSet(InitialEntries)
  <2>1. StartGroups \subseteq 1 .. MaxUuid BY <1>2, <1>3
  <2>2. InitialEntries \subseteq 1 .. MaxUuid BY <1>2 DEF StartUuids
  <2> QED BY <1>4, <2>1, <2>2, FS_Subset
<1>6. Max(StartUuids) \in StartUuids /\ \A x \in StartUuids : x <= Max(StartUuids)
  <2>1. StartUuids \subseteq 0 .. MaxUuid BY <1>2
  <2>2. StartUuids # {} BY DEF StartUuids
  <2> QED BY <1>1, <2>1, <2>2, Greatest
<1>7. 2 <= Max(StartUuids) BY <1>6 DEF StartUuids, BinGroup
<1>8. RootGroup \notin InitialEntries /\ InitialEntries \cap StartGroups = {} /\ InitialBin \notin InitialEntries
  BY StartAssumption DEF StartGroups, RootGroup, BinGroup, Nil
<1> DEFINE m == Max(StartUuids)
<1>9. m \in 2 .. MaxUuid /\ StartUuids \subseteq 1 .. m
  <2> HIDE DEF m
  <2>1. m \in StartUuids /\ \A x \in StartUuids : x <= m BY <1>6 DEF m
  <2>2. 2 <= m BY <1>7 DEF m
  <2> QED BY <1>1, <1>2, <2>1, <2>2
<1> QED BY <1>2, <1>3, <1>5, <1>8, <1>9

\* The groups and entries of the start are all in the root group.
LEMMA OriginalParts ==
    ASSUME NEW d \in Devices
    PROVE  /\ Original \in Content(1 .. Max(StartUuids))
           /\ DOMAIN Original.groups = {RootGroup} \cup StartGroups
           /\ Original.groups[RootGroup].parent = Nil
           /\ Original.groups[RootGroup].subs = InOrder(StartGroups, <)
           /\ Original.groups[RootGroup].entries = InOrder(InitialEntries, <)
           /\ \A g \in StartGroups : /\ Original.groups[g].parent = RootGroup
                                     /\ Original.groups[g].subs = <<>> /\ Original.groups[g].entries = <<>>
           /\ DOMAIN Original.entries = InitialEntries
           /\ \A e \in InitialEntries : Original.entries[e].parent = RootGroup
           /\ Original.bin = InitialBin /\ DOMAIN Original.deleted = {}
<1> DEFINE by == CHOOSE x \in Devices : TRUE
           I == 1 .. Max(StartUuids)
           subs == InOrder(StartGroups, <)
           ids == InOrder(InitialEntries, <)
           root == [NewGroup(Nil, 0, by) EXCEPT !.subs = subs, !.entries = ids]
           child == NewGroup(RootGroup, 0, by)
           entry == NewEntry(RootGroup, 0, by)
           children == [g \in ToSet(subs) |-> child]
           groups == Put(children, RootGroup, root)
           entries == [e \in InitialEntries |-> entry]
           deleted == [id \in {} |-> 0]
<1>1. Original = [groups |-> groups, entries |-> entries, bin |-> InitialBin, deleted |-> deleted]
  BY DEF Original, StartGroups
<1>2. by \in Devices OBVIOUS
<1>3. 0 \in Time BY UuidsAssumption DEF Time
<1>4. child \in Group /\ child.parent = RootGroup /\ child.subs = <<>> /\ child.entries = <<>>
  <2>1. child \in Group BY <1>2, <1>3, NewTyped, UuidsThere
  <2> QED BY <2>1 DEF NewGroup
<1>5. entry \in Entry /\ entry.parent = RootGroup
  <2>1. entry \in Entry BY <1>2, <1>3, NewTyped, UuidsThere
  <2> QED BY <2>1 DEF NewEntry
<1>6. /\ I \in SUBSET Uuid /\ StartGroups \subseteq I /\ InitialEntries \subseteq I
      /\ RootGroup \in I /\ InitialBin \in {Nil} \cup I
  BY StartSets, StartAssumption, UuidsAssumption DEF Uuid, StartUuids, RootGroup, BinGroup
<1>7. subs \in Seq(Uuid) /\ ToSet(subs) = StartGroups
  <2>1. StartGroups \subseteq Nat BY StartSets
  <2>2. subs \in Seq(StartGroups) /\ ToSet(subs) = StartGroups BY <2>1, StartSets, Ascending
  <2> HIDE DEF subs, I
  <2> QED BY <1>6, <2>2
<1>8. ids \in Seq(Uuid)
  <2>1. InitialEntries \subseteq Nat BY StartSets DEF StartUuids
  <2>2. ids \in Seq(InitialEntries) BY <2>1, StartSets, Ascending
  <2> HIDE DEF ids, I
  <2> QED BY <1>6, <2>2
<1> HIDE DEF by, I, subs, ids, child, entry
<1>9. root \in Group /\ root.parent = Nil /\ root.subs = subs /\ root.entries = ids
  BY <1>2, <1>3, <1>7, <1>8 DEF NewGroup, Group
<1> HIDE DEF root
<1>10. children \in Maps(I, Group) /\ DOMAIN children = StartGroups /\ \A g \in StartGroups : children[g] = child
  <2>1. children \in [StartGroups -> Group] BY <1>4, <1>7
  <2> QED BY <1>6, <1>7, <2>1, MapOver
<1> HIDE DEF children
<1>11. /\ groups \in Maps(I, Group) /\ DOMAIN groups = {RootGroup} \cup StartGroups /\ groups[RootGroup] = root
       /\ \A g \in StartGroups : groups[g] = child
  <2>1. /\ groups \in Maps(I, Group) /\ DOMAIN groups = DOMAIN children \cup {RootGroup} /\ groups[RootGroup] = root
        /\ \A g \in DOMAIN children : g # RootGroup => groups[g] = children[g]
    BY <1>6, <1>9, <1>10, PutMap
  <2> HIDE DEF groups
  <2> QED BY <1>10, <2>1, StartSets
<1> HIDE DEF groups
<1>13. entries \in Maps(I, Entry) /\ DOMAIN entries = InitialEntries /\ \A e \in InitialEntries : entries[e] = entry
  <2>1. entries \in [InitialEntries -> Entry] BY <1>5
  <2> QED BY <1>6, <2>1, MapOver
<1>14. deleted \in Maps(I, Time) /\ DOMAIN deleted = {}
  <2>1. deleted \in [{} -> Time] OBVIOUS
  <2>2. {} \in SUBSET I OBVIOUS
  <2> HIDE DEF deleted
  <2>3. deleted \in Maps(I, Time) BY <2>1, <2>2, MapOver
  <2> QED BY <2>1, <2>3
<1> HIDE DEF entries, deleted
<1>15. Original \in Content(I) BY <1>1, <1>6, <1>11, <1>13, <1>14 DEF Content
<1> QED BY <1>1, <1>4, <1>5, <1>9, <1>11, <1>13, <1>14, <1>15 DEF I, subs, ids

-----------------------------------------------------------------------------
(* What holds of all copies                                                *)

\* The uuids that have been handed out when n is the next.
Known(n) == 1 .. (n - 1)

\* The content of every copy is typed and has a root group that no list names,
\* and no uuid is that of a group, or of the recycle bin, and of an entry,
\* whichever copies these are in.
Contents ==
    /\ unused \in Nat /\ 3 <= unused /\ unused <= MaxUuid + 1
    /\ clock \in Time
    /\ DOMAIN db = Devices
    /\ \A d \in Devices : db[d] \in Content(Known(unused)) /\ Rooted(db[d])

KindsApart == \A c, d \in Devices : (DOMAIN db[c].groups \cup {db[c].bin}) \cap DOMAIN db[d].entries = {}

\* They hold of the copies of the original.
LEMMA StartContents ==
    ASSUME Init
    PROVE  Contents /\ KindsApart
<1>0. MaxUuid \in Nat /\ 0 \in Time BY UuidsAssumption DEF Time
<1>1. unused = 1 + Max(StartUuids) /\ clock = 0 /\ db = [d \in Devices |-> Original] BY DEF Init, StartUuids
<1> DEFINE m == Max(StartUuids)
<1>2. m \in 2 .. MaxUuid BY StartSets
<1>3. \A d \in Devices : Original \in Content(1 .. m) /\ Rooted(Original)
  <2> TAKE d \in Devices
  <2>1. /\ Original \in Content(1 .. m) /\ DOMAIN Original.groups = {RootGroup} \cup StartGroups
        /\ Original.groups[RootGroup].subs = InOrder(StartGroups, <)
        /\ \A g \in StartGroups : Original.groups[g].subs = <<>>
    BY OriginalParts
  <2>2. ToSet(InOrder(StartGroups, <)) = StartGroups
    <3>1. StartGroups \subseteq Nat /\ IsFiniteSet(StartGroups) BY StartSets
    <3> QED BY <3>1, Ascending
  <2>3. RootGroup \notin StartGroups BY StartSets
  <2> DEFINE subs == InOrder(StartGroups, <)
  <2> HIDE DEF subs, m
  <2>4. \A h \in DOMAIN Original.groups : Subs(Original, h) \subseteq StartGroups
    <3>1. Subs(Original, RootGroup) = StartGroups BY <2>1, <2>2 DEF Subs, subs
    <3>2. \A h \in StartGroups : Subs(Original, h) = {} BY <2>1, EmptyList DEF Subs
    <3> QED BY <2>1, <3>1, <3>2
  <2>5. Rooted(Original) BY <2>1, <2>3, <2>4 DEF Rooted, Named
  <2> QED BY <2>1, <2>5
<1>4. \A d \in Devices : (DOMAIN Original.groups \cup {Original.bin}) \cap DOMAIN Original.entries = {}
  <2> TAKE d \in Devices
  <2>1. /\ DOMAIN Original.groups = {RootGroup} \cup StartGroups /\ Original.bin = InitialBin
        /\ DOMAIN Original.entries = InitialEntries
    BY OriginalParts
  <2> QED BY <2>1, StartSets
<1> HIDE DEF m
<1>5. Known(unused) = 1 .. m BY <1>1, <1>2 DEF Known, m
<1>6. Contents BY <1>0, <1>1, <1>2, <1>3, <1>5 DEF Contents, m
<1>7. KindsApart BY <1>1, <1>4 DEF KindsApart
<1> QED BY <1>6, <1>7

\* What is known of a copy, at a step that hands out n uuids.
LEMMA Knowing ==
    ASSUME Contents, NEW d \in Devices, NEW n \in Nat, unused + n <= MaxUuid + 1
    PROVE  /\ Known(unused + n) \in SUBSET Uuid /\ db[d] \in Content(Known(unused + n))
           /\ Handed(unused, n) \subseteq Known(unused + n) /\ RootGroup \notin Handed(unused, n)
           /\ Handed(unused, n) \cap Known(unused) = {} /\ Nil \notin Handed(unused, n)
           /\ Handed(unused, 0) = {} /\ Handed(unused, 1) = {unused}
           /\ DOMAIN db[d].groups \subseteq Uuid /\ DOMAIN db[d].entries \subseteq Uuid
<1>1. unused \in Nat /\ 3 <= unused /\ MaxUuid \in Nat /\ db[d] \in Content(Known(unused))
  BY UuidsAssumption DEF Contents
<1>2. Known(unused + n) \in SUBSET Uuid BY <1>1 DEF Known, Uuid
<1>3. Known(unused) \subseteq Known(unused + n) BY <1>1 DEF Known
<1>4. db[d] \in Content(Known(unused + n)) BY <1>1, <1>3, MoreKnown
<1>5. /\ Handed(unused, n) \subseteq Known(unused + n) /\ RootGroup \notin Handed(unused, n)
      /\ Handed(unused, n) \cap Known(unused) = {} /\ Nil \notin Handed(unused, n)
      /\ Handed(unused, 0) = {} /\ Handed(unused, 1) = {unused}
  BY <1>1 DEF Handed, Known, RootGroup, Nil
<1>6. DOMAIN db[d].groups \subseteq Uuid /\ DOMAIN db[d].entries \subseteq Uuid
  <2>1. DOMAIN db[d].groups \in SUBSET Known(unused + n) /\ DOMAIN db[d].entries \in SUBSET Known(unused + n)
    BY <1>2, <1>4, ContentParts
  <2> QED BY <1>2, <2>1
<1> QED BY <1>2, <1>4, <1>5, <1>6

\* A call on one copy, with what all of its operations have in common.
OwnCall(d, at) ==
    \E op, n, r : /\ op # "merge" /\ n \in Nat /\ r \in Result(Known(unused + n))
                  /\ Call(d, op, at, r, n) /\ Own(db[d], r.db, Handed(unused, n))

\* insert_group and insert_entry are such calls.
LEMMA AddOwn ==
    ASSUME Contents, NEW d \in Devices, NEW at \in Time, AddGroup(d, at) \/ AddEntry(d, at)
    PROVE  OwnCall(d, at)
<1> DEFINE I == Known(unused + 1)
<1>0. unused + 1 <= MaxUuid + 1 BY DEF AddGroup, AddEntry, Call
<1>1. /\ I \in SUBSET Uuid /\ db[d] \in Content(I) /\ unused \in I /\ unused # RootGroup
      /\ Handed(unused, 1) = {unused} /\ DOMAIN db[d].groups \subseteq Uuid
  BY <1>0, Knowing
<1> HIDE DEF I
<1>2. ASSUME AddGroup(d, at) PROVE OwnCall(d, at)
  <2>1. PICK p \in DOMAIN db[d].groups :
           Call(d, "insert_group", at, InsertGroup(db[d], unused, NewGroup(p, at, d)), 1)
    BY <1>2 DEF AddGroup
  <2>2. NewGroup(p, at, d) \in Group /\ NewGroup(p, at, d).subs = <<>>
    <3>1. NewGroup(p, at, d) \in Group BY <1>1, NewTyped
    <3> QED BY <3>1 DEF NewGroup
  <2> DEFINE r == InsertGroup(db[d], unused, NewGroup(p, at, d))
  <2>3. r \in Result(I) BY <1>1, <2>2, InsertGroupTyped
  <2>4. Own(db[d], r.db, {unused}) BY <1>1, <2>2, InsertGroupOwn
  <2> HIDE DEF r
  <2> QED BY <1>1, <2>1, <2>3, <2>4 DEF OwnCall, I, r
<1>3. ASSUME AddEntry(d, at) PROVE OwnCall(d, at)
  <2>1. PICK p \in DOMAIN db[d].groups :
           Call(d, "insert_entry", at, InsertEntry(db[d], unused, NewEntry(p, at, d)), 1)
    BY <1>3 DEF AddEntry
  <2>2. NewEntry(p, at, d) \in Entry BY <1>1, NewTyped
  <2> DEFINE r == InsertEntry(db[d], unused, NewEntry(p, at, d))
  <2>3. r \in Result(I) BY <1>1, <2>2, InsertEntryTyped
  <2>4. Own(db[d], r.db, {unused}) BY <1>1, <2>2, InsertEntryOwn
  <2> HIDE DEF r
  <2> QED BY <1>1, <2>1, <2>3, <2>4 DEF OwnCall, I, r
<1> QED BY <1>2, <1>3

\* So are those that edit a group or an entry, forget versions or sort.
LEMMA EditOwn ==
    ASSUME Contents, NEW d \in Devices, NEW at \in Time,
           EditGroup(d, at) \/ EditEntry(d, at) \/ ForgetVersions(d, at) \/ SortGroups(d, at)
    PROVE  OwnCall(d, at)
<1> DEFINE I == Known(unused + 0)
<1>0. unused + 0 <= MaxUuid + 1 BY DEF Contents
<1>1. I \in SUBSET Uuid /\ db[d] \in Content(I) /\ Handed(unused, 0) = {} BY <1>0, Knowing
<1> HIDE DEF I
<1>2. ASSUME NEW op, op # "merge", NEW r \in Result(I), Call(d, op, at, r, 0), Own(db[d], r.db, {})
      PROVE  OwnCall(d, at)
  BY <1>1, <1>2 DEF OwnCall, I
<1>3. ASSUME NEW op, op # "merge", NEW c \in Content(I), SamePlaces(db[d], c), Call(d, op, at, Ok(c), 0)
      PROVE  OwnCall(d, at)
  <2>1. Ok(c) \in Result(I) /\ Ok(c).db = c BY Results
  <2>2. Own(db[d], Ok(c).db, {}) BY <1>3, <2>1, SamePlacesOwn
  <2> QED BY <1>2, <1>3, <2>1, <2>2
<1>4. ASSUME EditGroup(d, at) PROVE OwnCall(d, at)
  <2>1. PICK g \in DOMAIN db[d].groups : Call(d, "update_group", at, Ok(UpdateGroup(db[d], g, at, d)), 0)
    BY <1>4 DEF EditGroup
  <2> DEFINE c == UpdateGroup(db[d], g, at, d)
  <2>2. c \in Content(I) /\ SamePlaces(db[d], c) BY <1>1, UpdateGroupTyped
  <2> HIDE DEF c
  <2> QED BY <1>3, <2>1, <2>2 DEF c
<1>5. ASSUME EditEntry(d, at) PROVE OwnCall(d, at)
  <2>1. PICK e \in DOMAIN db[d].entries :
           Call(d, "update_entry", at, UpdateEntry(db[d], e, db[d].entries[e].parent, at, d), 0)
    BY <1>5 DEF EditEntry
  <2> DEFINE r == UpdateEntry(db[d], e, db[d].entries[e].parent, at, d)
  <2>2. r \in Result(I) /\ SamePlaces(db[d], r.db) BY <1>1, UpdateEntryTyped
  <2> HIDE DEF r
  <2>3. Own(db[d], r.db, {}) BY <2>2, SamePlacesOwn
  <2> QED BY <1>2, <2>1, <2>2, <2>3 DEF r
<1>6. ASSUME ForgetVersions(d, at) PROVE OwnCall(d, at)
  <2>1. PICK e \in DOMAIN db[d].entries :
           \/ \E i \in DOMAIN db[d].entries[e].history :
                 Call(d, "delete_history_entry_by_index", at, Ok(DeleteHistoryEntry(db[d], e, i)), 0)
           \/ Call(d, "delete_history_entries", at, Ok(DeleteHistoryEntries(db[d], e)), 0)
    BY <1>6 DEF ForgetVersions
  <2>2. ASSUME NEW i, Call(d, "delete_history_entry_by_index", at, Ok(DeleteHistoryEntry(db[d], e, i)), 0)
        PROVE  OwnCall(d, at)
    <3> DEFINE c == DeleteHistoryEntry(db[d], e, i)
    <3>1. c \in Content(I) /\ SamePlaces(db[d], c) BY <1>1, ForgetTyped
    <3> HIDE DEF c
    <3> QED BY <1>3, <2>2, <3>1 DEF c
  <2>3. ASSUME Call(d, "delete_history_entries", at, Ok(DeleteHistoryEntries(db[d], e)), 0)
        PROVE  OwnCall(d, at)
    <3> DEFINE c == DeleteHistoryEntries(db[d], e)
    <3>1. c \in Content(I) /\ SamePlaces(db[d], c) BY <1>1, ForgetTyped
    <3> HIDE DEF c
    <3> QED BY <1>3, <2>3, <3>1 DEF c
  <2> QED BY <2>1, <2>2, <2>3
<1>7. ASSUME SortGroups(d, at) PROVE OwnCall(d, at)
  <2>1. PICK g \in DOMAIN db[d].groups, criteria \in {"AtoZ", "ZtoA"} :
           Call(d, "sort_sub_groups", at, SortSubGroups(db[d], g, criteria), 0)
    BY <1>7 DEF SortGroups
  <2> DEFINE r == SortSubGroups(db[d], g, criteria)
  <2>2. r \in Result(I) BY <1>1, SortTyped
  <2>3. Own(db[d], r.db, {}) BY <1>1, SortOwn
  <2> HIDE DEF r
  <2> QED BY <1>2, <2>1, <2>2, <2>3 DEF r
<1> QED BY <1>4, <1>5, <1>6, <1>7

\* The number of uuids a clone takes.
LEMMA FreshUuids ==
    ASSUME NEW I \in SUBSET Uuid, NEW c \in Content(I), NEW g \in DOMAIN c.groups
    PROVE  FreshFor(c, g) \in Nat
<1> DEFINE p == c.groups[g].parent
           S == ({Nil} \cup Uuid) \X Uuid
           walk == Walk(c, g)
           first == <<<<p, g>>>>
<1>1. g \in Uuid /\ p \in {Nil} \cup Uuid
  <2>1. DOMAIN c.groups \in SUBSET I /\ \A h \in DOMAIN c.groups : c.groups[h] \in Group BY ContentParts
  <2> QED BY <2>1 DEF Group
<1>2. walk \in Seq(Item) BY <1>1, ContentParts, WalkMeets
<1> HIDE DEF p, walk
<1>3. walk \in Seq(S) BY <1>2 DEF Item
<1>4. first \in Seq(S)
  <2>1. <<p, g>> \in S BY <1>1
  <2> HIDE DEF S
  <2> QED BY <2>1
<1>5. FreshFor(c, g) = Len(first \o walk) BY DEF FreshFor, Cloned, HasGroup, walk, p
<1> HIDE DEF S, first
<1>6. first \o walk \in Seq(S) BY <1>3, <1>4, ConcatenatedElements
<1>7. Len(first \o walk) \in Nat BY <1>6, ElementsOf
<1> QED BY <1>5, <1>7

\* So are clone_entry and clone_group.
LEMMA CopyOwn ==
    ASSUME Contents, NEW d \in Devices, NEW at \in Time, CopyEntry(d, at) \/ CopyGroup(d, at)
    PROVE  OwnCall(d, at)
<1>1. ASSUME CopyEntry(d, at) PROVE OwnCall(d, at)
  <2> DEFINE I == Known(unused + 1)
  <2>0. unused + 1 <= MaxUuid + 1 BY <1>1 DEF CopyEntry, Call
  <2>1. I \in SUBSET Uuid /\ db[d] \in Content(I) /\ unused \in I /\ Handed(unused, 1) = {unused}
    BY <2>0, Knowing
  <2>2. PICK e \in DOMAIN db[d].entries, p \in DOMAIN db[d].groups, keep \in BOOLEAN :
           Call(d, "clone_entry", at, CloneEntry(db[d], e, p, unused, keep, at, d), 1)
    BY <1>1 DEF CopyEntry
  <2> DEFINE r == CloneEntry(db[d], e, p, unused, keep, at, d)
  <2> HIDE DEF I
  <2>3. r \in Result(I) BY <2>1, CloneEntryTyped
  <2>4. Own(db[d], r.db, {unused}) BY <2>1, CloneEntryOwn
  <2> HIDE DEF r
  <2> QED BY <2>1, <2>2, <2>3, <2>4 DEF OwnCall, I, r
<1>2. ASSUME CopyGroup(d, at) PROVE OwnCall(d, at)
  <2>1. PICK g \in DOMAIN db[d].groups :
           Call(d, "clone_group", at, CloneGroup(db[d], g, unused, at, d), FreshFor(db[d], g))
    BY <1>2 DEF CopyGroup
  <2> DEFINE n == FreshFor(db[d], g)
             I == Known(unused + n)
             r == CloneGroup(db[d], g, unused, at, d)
  <2>2. unused + n <= MaxUuid + 1 BY <2>1 DEF Call
  <2>3. n \in Nat
    <3>1. Known(unused) \in SUBSET Uuid /\ db[d] \in Content(Known(unused))
      BY UuidsAssumption DEF Contents, Known, Uuid
    <3> QED BY <3>1, FreshUuids
  <2> HIDE DEF n
  <2>4. /\ I \in SUBSET Uuid /\ db[d] \in Content(I) /\ Handed(unused, n) \subseteq I
        /\ RootGroup \notin Handed(unused, n)
    BY <2>2, <2>3, Knowing
  <2> HIDE DEF I
  <2>5. unused \in Nat BY DEF Contents
  <2>6. r \in Result(I) /\ Own(db[d], r.db, Handed(unused, n)) BY <2>4, <2>5, CloneGroupOwn DEF n
  <2> HIDE DEF r
  <2>7. Call(d, "clone_group", at, r, n) BY <2>1 DEF r, n
  <2> QED BY <2>3, <2>6, <2>7 DEF OwnCall, I
<1> QED BY <1>1, <1>2

\* So are move_group and move_entry.
LEMMA RelocateOwn ==
    ASSUME Contents, NEW d \in Devices, NEW at \in Time, Relocate(d, at)
    PROVE  OwnCall(d, at)
<1> DEFINE I == Known(unused + 0)
<1>0. unused + 0 <= MaxUuid + 1 BY DEF Contents
<1>1. /\ I \in SUBSET Uuid /\ db[d] \in Content(I) /\ Handed(unused, 0) = {}
      /\ DOMAIN db[d].groups \subseteq Uuid /\ DOMAIN db[d].entries \subseteq Uuid
  BY <1>0, Knowing
<1> HIDE DEF I
<1>2. ASSUME NEW op, op # "merge", NEW r \in Result(I), Call(d, op, at, r, 0), Own(db[d], r.db, {})
      PROVE  OwnCall(d, at)
  BY <1>1, <1>2 DEF OwnCall, I
<1>3. ASSUME NEW g \in DOMAIN db[d].groups, NEW p \in DOMAIN db[d].groups, MayHold(d, g, p),
             Call(d, "move_group", at, MoveGroup(db[d], g, p, at), 0)
      PROVE  OwnCall(d, at)
  <2> DEFINE r == MoveGroup(db[d], g, p, at)
  <2>1. g # RootGroup BY <1>3 DEF MayHold
  <2>2. r \in Result(I) BY <1>1, MoveGroupTyped
  <2>3. Own(db[d], r.db, {}) BY <1>1, <2>1, MoveGroupOwn
  <2> HIDE DEF r
  <2> QED BY <1>2, <1>3, <2>2, <2>3 DEF r
<1>4. ASSUME NEW e \in DOMAIN db[d].entries, NEW p \in DOMAIN db[d].groups,
             Call(d, "move_entry", at, MoveEntry(db[d], e, p, at), 0)
      PROVE  OwnCall(d, at)
  <2> DEFINE r == MoveEntry(db[d], e, p, at)
  <2>1. r \in Result(I) BY <1>1, MoveEntryTyped
  <2>2. Own(db[d], r.db, {}) BY <1>1, MoveEntryOwn
  <2> HIDE DEF r
  <2> QED BY <1>2, <1>4, <2>1, <2>2 DEF r
<1> QED BY <1>3, <1>4 DEF Relocate

\* So are the moves to the recycle bin.
LEMMA DiscardedOwn ==
    ASSUME Contents, NEW d \in Devices, NEW at \in Time, Discard(d, at)
    PROVE  OwnCall(d, at)
<1> DEFINE n == ForBin(d)
           I == Known(unused + n)
           N == Handed(unused, n)
<1>0. unused + n <= MaxUuid + 1 /\ n \in Nat BY DEF Discard, Call, ForBin
<1> HIDE DEF n
<1>1. /\ I \in SUBSET Uuid /\ db[d] \in Content(I) /\ N \subseteq I /\ RootGroup \notin N /\ Handed(unused, 1) = {unused}
      /\ DOMAIN db[d].groups \subseteq Uuid /\ DOMAIN db[d].entries \subseteq Uuid
  BY <1>0, Knowing
<1>2. db[d].bin = Nil => N = {unused} BY <1>1 DEF n, ForBin
<1> HIDE DEF I, N
<1>3. db[d].bin = Nil => unused \in I \ {RootGroup} /\ unused \in N BY <1>1, <1>2
<1>4. ASSUME NEW g \in DOMAIN db[d].groups, MayHold(d, g, IF db[d].bin = Nil THEN RootGroup ELSE db[d].bin),
             Call(d, "move_group_to_recycle_bin", at, MoveGroupToRecycleBin(db[d], g, unused, at, d), n)
      PROVE  OwnCall(d, at)
  <2> DEFINE r == MoveGroupToRecycleBin(db[d], g, unused, at, d)
  <2>1. g # RootGroup BY <1>4 DEF MayHold
  <2>2. r \in Result(I) BY <1>1, <1>3, DiscardTyped
  <2>3. Own(db[d], r.db, N) BY <1>1, <1>3, <2>1, DiscardOwn
  <2> HIDE DEF r
  <2>4. Call(d, "move_group_to_recycle_bin", at, r, n) BY <1>4 DEF r
  <2> QED BY <1>0, <2>2, <2>3, <2>4 DEF OwnCall, I, N
<1>5. ASSUME NEW e \in DOMAIN db[d].entries,
             Call(d, "move_entry_to_recycle_bin", at, MoveEntryToRecycleBin(db[d], e, unused, at, d), n)
      PROVE  OwnCall(d, at)
  <2> DEFINE r == MoveEntryToRecycleBin(db[d], e, unused, at, d)
  <2>2. r \in Result(I) BY <1>1, <1>3, DiscardTyped
  <2>3. Own(db[d], r.db, N) BY <1>1, <1>3, DiscardOwn
  <2> HIDE DEF r
  <2>4. Call(d, "move_entry_to_recycle_bin", at, r, n) BY <1>5 DEF r
  <2> QED BY <1>0, <2>2, <2>3, <2>4 DEF OwnCall, I, N
<1> QED BY <1>4, <1>5 DEF Discard, n

\* So are those that remove for good.
LEMMA DeleteOwn ==
    ASSUME Contents, NEW d \in Devices, NEW at \in Time, Delete(d, at)
    PROVE  OwnCall(d, at)
<1> DEFINE I == Known(unused + 0)
<1>0. unused + 0 <= MaxUuid + 1 BY DEF Contents
<1>1. I \in SUBSET Uuid /\ db[d] \in Content(I) /\ Handed(unused, 0) = {} BY <1>0, Knowing
<1>2. ~Endless(db[d], db[d].bin) BY DEF Delete, Ends
<1> HIDE DEF I
<1>3. ASSUME NEW op, op # "merge", NEW r \in Result(I), Call(d, op, at, r, 0), Own(db[d], r.db, {})
      PROVE  OwnCall(d, at)
  BY <1>1, <1>3 DEF OwnCall, I
<1>4. ASSUME NEW g, Call(d, "remove_group_permanently", at, RemoveGroup(db[d], g, at), 0)
      PROVE  OwnCall(d, at)
  <2> DEFINE r == RemoveGroup(db[d], g, at)
  <2>1. r \in Result(I) BY <1>1, RemoveGroupPurged
  <2>2. Own(db[d], r.db, {}) BY <1>1, <1>2, RemoveGroupOwn
  <2> HIDE DEF r
  <2> QED BY <1>3, <1>4, <2>1, <2>2 DEF r
<1>5. ASSUME NEW e, Call(d, "remove_entry_permanently", at, RemoveEntry(db[d], e, at), 0)
      PROVE  OwnCall(d, at)
  <2> DEFINE r == RemoveEntry(db[d], e, at)
  <2>1. r \in Result(I) BY <1>1, RemoveEntryOwn
  <2>2. Own(db[d], r.db, {}) BY <1>1, RemoveEntryOwn
  <2> HIDE DEF r
  <2> QED BY <1>3, <1>5, <2>1, <2>2 DEF r
<1>6. ASSUME Call(d, "empty_trash", at, EmptyTrash(db[d], at), 0)
      PROVE  OwnCall(d, at)
  <2> DEFINE r == EmptyTrash(db[d], at)
  <2>1. r \in Result(I) BY <1>1, EmptyTrashPurged
  <2>2. Own(db[d], r.db, {}) BY <1>1, <1>2, EmptyTrashOwn
  <2> HIDE DEF r
  <2> QED BY <1>3, <1>6, <2>1, <2>2 DEF r
<1> QED BY <1>4, <1>5, <1>6 DEF Delete

\* A step is such a call or a merge.
LEMMA Steps ==
    ASSUME Contents, Next
    PROVE  \E d \in Devices, at \in Time : OwnCall(d, at) \/ \E from \in Devices : MergeFrom(from, d, at)
<1>1. PICK s \in Seconds, d \in Devices : clock + s \in Time /\ Step(d, clock + s) BY DEF Next
<1> DEFINE at == clock + s
<1>2. at \in Time /\ Step(d, at) BY <1>1
<1> HIDE DEF at
<1>3. OwnCall(d, at) \/ \E from \in Devices : MergeFrom(from, d, at)
  BY <1>2, AddOwn, EditOwn, CopyOwn, RelocateOwn, DiscardedOwn, DeleteOwn DEF Step
<1> QED BY <1>2, <1>3

\* A call leaves Contents and KindsApart as they are, and the other copies.
LEMMA OwnCallKeeps ==
    ASSUME Contents, KindsApart, NEW d \in Devices, NEW at \in Time, OwnCall(d, at)
    PROVE  Contents' /\ KindsApart'
<1>2. PICK op, n, r : /\ op # "merge" /\ n \in Nat /\ r \in Result(Known(unused + n))
                      /\ Call(d, op, at, r, n) /\ Own(db[d], r.db, Handed(unused, n))
  BY DEF OwnCall
<1> DEFINE I == Known(unused + n) N == Handed(unused, n) c == db[d] b == r.db
<1>3. /\ n \in Nat /\ unused + n <= MaxUuid + 1 /\ db' = [db EXCEPT ![d] = b] /\ unused' = unused + n /\ clock' = at
  BY <1>2 DEF Call
<1>4. \A x \in Devices : /\ I \in SUBSET Uuid /\ db[x] \in Content(I) /\ N \subseteq I /\ RootGroup \notin N
                         /\ N \cap Known(unused) = {} /\ Nil \notin N
  BY <1>3, Knowing
<1>5. /\ unused \in Nat /\ 3 <= unused /\ DOMAIN db = Devices
      /\ \A x \in Devices : db[x] \in Content(Known(unused)) /\ Rooted(db[x])
  BY DEF Contents
<1>6. b \in Content(I) /\ Own(c, b, N) BY <1>2 DEF Result
<1>7. b = db'[d] /\ \A x \in Devices \ {d} : db'[x] = db[x] BY <1>3, <1>5
<1>8. I = Known(unused') BY <1>3
<1> HIDE DEF I, N, c, b
<1>9. Contents'
  <2>1. unused' \in Nat /\ 3 <= unused' /\ unused' <= MaxUuid + 1 /\ clock' \in Time BY <1>3, <1>5
  <2>2. DOMAIN db' = Devices BY <1>3, <1>5
  <2>3. ASSUME NEW x \in Devices PROVE db'[x] \in Content(Known(unused')) /\ Rooted(db'[x])
    <3>1. CASE x = d BY <1>5, <1>6, <1>7, <1>8, <3>1 DEF Own, c
    <3>2. CASE x # d BY <1>4, <1>5, <1>7, <1>8, <3>2
    <3> QED BY <3>1, <3>2
  <2> QED BY <2>1, <2>2, <2>3 DEF Contents
<1>10. \A x \in Devices : /\ DOMAIN db[x].groups \subseteq Known(unused) /\ DOMAIN db[x].entries \subseteq Known(unused)
                          /\ db[x].bin \in {Nil} \cup Known(unused) /\ Nil \notin DOMAIN db[x].entries
  <2> TAKE x \in Devices
  <2>1. Known(unused) \in SUBSET Uuid BY <1>5, UuidsAssumption DEF Contents, Known, Uuid
  <2>2. /\ DOMAIN db[x].groups \in SUBSET Known(unused) /\ DOMAIN db[x].entries \in SUBSET Known(unused)
        /\ db[x].bin \in {Nil} \cup Known(unused)
    BY <1>5, <2>1, ContentParts
  <2> QED BY <2>2 DEF Known, Nil
<1>11. /\ DOMAIN b.groups \cup {b.bin} \subseteq DOMAIN c.groups \cup {c.bin} \cup N
       /\ DOMAIN b.entries \subseteq DOMAIN c.entries \cup N
  BY <1>6 DEF Own, Kept, Purged
<1>12. ((DOMAIN b.groups \ DOMAIN c.groups) \cup ({b.bin} \ {c.bin})) \cap (DOMAIN b.entries \ DOMAIN c.entries) = {}
  BY <1>6 DEF Own
<1>13. ASSUME NEW x \in Devices, NEW y \in Devices, NEW u,
              u \in DOMAIN db'[x].groups \cup {db'[x].bin}, u \in DOMAIN db'[y].entries
       PROVE  FALSE
  <2>1. \A z \in Devices : /\ (DOMAIN db[x].groups \cup {db[x].bin}) \cap DOMAIN db[z].entries = {}
                           /\ (DOMAIN db[z].groups \cup {db[z].bin}) \cap DOMAIN db[y].entries = {}
    BY DEF KindsApart
  <2>2. N \cap ({Nil} \cup Known(unused)) = {} BY <1>4
  <2>3. CASE x = d /\ y = d BY <1>7, <1>10, <1>11, <1>12, <1>13, <2>1, <2>2, <2>3 DEF c
  <2>4. CASE x = d /\ y # d BY <1>7, <1>10, <1>11, <1>13, <2>1, <2>2, <2>4 DEF c
  <2>5. CASE x # d /\ y = d BY <1>7, <1>10, <1>11, <1>13, <2>1, <2>2, <2>5 DEF c
  <2>6. CASE x # d /\ y # d BY <1>7, <1>13, <2>1, <2>6
  <2> QED BY <2>3, <2>4, <2>5, <2>6
<1>14. KindsApart' BY <1>13 DEF KindsApart
<1> QED BY <1>9, <1>14

\* So does a merge.
LEMMA MergeFromKeeps ==
    ASSUME Contents, KindsApart, NEW to \in Devices, NEW from \in Devices, NEW at \in Time, MergeFrom(from, to, at)
    PROVE  Contents' /\ KindsApart'
<1> DEFINE s == db[from] c == db[to] r == Merge(s, c, at, to) b == r.db I == Known(unused)
<1>1. db' = [db EXCEPT ![to] = b] /\ unused' = unused /\ clock' = at BY DEF MergeFrom
<1>2. /\ unused \in Nat /\ 3 <= unused /\ DOMAIN db = Devices /\ I \in SUBSET Uuid
      /\ \A x \in Devices : db[x] \in Content(I) /\ Rooted(db[x])
  BY UuidsAssumption DEF Contents, Known, Uuid
<1> HIDE DEF I
<1>3. s \in Content(I) /\ c \in Content(I) /\ RootGroup \in DOMAIN s.groups /\ RootGroup \in DOMAIN c.groups
      /\ RootGroup \notin Named(s) /\ RootGroup \notin Named(c)
  BY <1>2 DEF Rooted
<1> HIDE DEF s, c
<1>4. /\ r \in Result(I) /\ r.db.bin \in {c.bin, s.bin}
      /\ DOMAIN r.db.groups \subseteq DOMAIN c.groups \cup DOMAIN s.groups \cup ({s.bin} \cap Uuid)
      /\ DOMAIN r.db.entries \subseteq DOMAIN c.entries \cup DOMAIN s.entries
      /\ DOMAIN c.groups \cap DOMAIN s.groups \subseteq DOMAIN r.db.groups
      /\ Named(r.db) \subseteq Named(c) \cup Named(s) \cup ({s.bin} \ DOMAIN c.groups)
  BY <1>2, <1>3, MergeTyped
<1>5. b \in Content(I) BY <1>4 DEF Result
<1> HIDE DEF b, r
<1>6. Rooted(b) BY <1>3, <1>4 DEF Rooted, b
<1>7. b = db'[to] /\ \A x \in Devices \ {to} : db'[x] = db[x] BY <1>1, <1>2
<1>8. Contents'
  <2>1. unused' \in Nat /\ 3 <= unused' /\ unused' <= MaxUuid + 1 /\ clock' \in Time BY <1>1 DEF Contents
  <2>2. DOMAIN db' = Devices BY <1>1, <1>2
  <2>3. ASSUME NEW x \in Devices PROVE db'[x] \in Content(Known(unused')) /\ Rooted(db'[x])
    BY <1>1, <1>2, <1>5, <1>6, <1>7 DEF I
  <2> QED BY <2>1, <2>2, <2>3 DEF Contents
<1>9. /\ DOMAIN b.groups \cup {b.bin} \subseteq (DOMAIN c.groups \cup {c.bin}) \cup (DOMAIN s.groups \cup {s.bin})
      /\ DOMAIN b.entries \subseteq DOMAIN c.entries \cup DOMAIN s.entries
  BY <1>4 DEF b
<1>10. ASSUME NEW x \in Devices, NEW y \in Devices, NEW u,
              u \in DOMAIN db'[x].groups \cup {db'[x].bin}, u \in DOMAIN db'[y].entries
       PROVE  FALSE
  <2>1. PICK v \in Devices : u \in DOMAIN db[v].groups \cup {db[v].bin}
    BY <1>7, <1>9, <1>10 DEF s, c
  <2>2. PICK w \in Devices : u \in DOMAIN db[w].entries
    BY <1>7, <1>9, <1>10 DEF s, c
  <2> QED BY <2>1, <2>2 DEF KindsApart
<1>11. KindsApart' BY <1>10 DEF KindsApart
<1> QED BY <1>8, <1>11

\* Contents and KindsApart hold of all copies all the time.
LEMMA CopiesSound == Spec => [](Contents /\ KindsApart)
<1>1. Init => Contents /\ KindsApart BY StartContents
<1>2. (Contents /\ KindsApart) /\ [Next]_vars => (Contents /\ KindsApart)'
  <2> SUFFICES ASSUME Contents, KindsApart, [Next]_vars PROVE Contents' /\ KindsApart' OBVIOUS
  <2>1. CASE Next
    <3>1. PICK d \in Devices, at \in Time : OwnCall(d, at) \/ \E from \in Devices : MergeFrom(from, d, at)
      BY <2>1, Steps
    <3> QED BY <3>1, OwnCallKeeps, MergeFromKeeps
  <2>2. CASE UNCHANGED vars BY <2>2 DEF vars, Contents, KindsApart
  <2> QED BY <2>1, <2>2
<1> QED BY <1>1, <1>2, PTL DEF Spec

\* Every uuid that is in use has been handed out, and every group, entry and
\* version of all copies has its type, whatever the devices do and merge.
THEOREM TypesKept == Spec => []TypeOK
<1>1. Contents => TypeOK
  <2> SUFFICES ASSUME Contents PROVE TypeOK OBVIOUS
  <2>1. unused \in Nat /\ clock \in Time /\ Known(unused) \in SUBSET Uuid
    BY UuidsAssumption DEF Contents, Known, Uuid
  <2>2. ASSUME NEW d \in Devices
        PROVE  /\ DOMAIN db[d].groups \cup DOMAIN db[d].entries \cup DOMAIN db[d].deleted \subseteq Known(unused)
               /\ db[d].bin \in {Nil} \cup Uuid
               /\ \A g \in DOMAIN db[d].groups : db[d].groups[g] \in Group
               /\ \A e \in DOMAIN db[d].entries : db[d].entries[e] \in Entry
    <3>1. db[d] \in Content(Known(unused)) BY DEF Contents
    <3>2. /\ db[d].bin \in {Nil} \cup Known(unused)
          /\ DOMAIN db[d].groups \in SUBSET Known(unused) /\ DOMAIN db[d].entries \in SUBSET Known(unused)
          /\ DOMAIN db[d].deleted \in SUBSET Known(unused)
          /\ \A g \in DOMAIN db[d].groups : db[d].groups[g] \in Group
          /\ \A e \in DOMAIN db[d].entries : db[d].entries[e] \in Entry
      BY <2>1, <3>1, ContentParts
    <3> QED BY <2>1, <3>2
  <2> QED BY <2>1, <2>2 DEF TypeOK, Known
<1> QED BY <1>1, CopiesSound, PTL

\* No call of a user makes an entry disappear from anywhere but the recycle
\* bin, nor without a deleted object: not the removal of a group, nor one that
\* fails half way, nor emptying the bin.
THEOREM EntriesGoThroughBin == Spec => EntriesLeaveThroughBin
<1>1. Contents /\ [Next]_vars => [LeavesThroughBin]_vars
  <2> SUFFICES ASSUME Contents, Next PROVE LeavesThroughBin OBVIOUS
  <2>1. PICK x \in Devices, at \in Time : OwnCall(x, at) \/ \E from \in Devices : MergeFrom(from, x, at) BY Steps
  <2>2. CASE \E from \in Devices : MergeFrom(from, x, at) BY <2>2 DEF MergeFrom, LeavesThroughBin
  <2>3. CASE OwnCall(x, at)
    <3>2. PICK op, n, r : Call(x, op, at, r, n) /\ Own(db[x], r.db, Handed(unused, n))
      BY <2>3 DEF OwnCall
    <3>3. db' = [db EXCEPT ![x] = r.db] /\ DOMAIN db = Devices BY <3>2 DEF Call, Contents
    <3>4. db'[x] = r.db /\ \A d \in Devices \ {x} : db'[d] = db[d] BY <3>3
    <3>5. \A e \in DOMAIN db[x].entries \ DOMAIN db'[x].entries :
             e \in EntriesBelow(db[x], db[x].bin) /\ e \in DOMAIN db'[x].deleted
      BY <3>2, <3>4 DEF Own, Kept, Purged
    <3>6. \A d \in Devices : \A e \in DOMAIN db[d].entries \ DOMAIN db'[d].entries :
             e \in EntriesBelow(db[d], db[d].bin) /\ e \in DOMAIN db'[d].deleted
      BY <3>4, <3>5
    <3> QED BY <3>6 DEF LeavesThroughBin
  <2> QED BY <2>1, <2>2, <2>3
<1> QED BY <1>1, CopiesSound, PTL DEF Spec, EntriesLeaveThroughBin

\* A merge that completes takes away no entry that is alive in the source, and
\* no other one but for a deletion, on one of the two sides, later than its last
\* edit in the target.
THEOREM MergesRemoveOnlyDeleted == Spec => MergeRemovesOnlyDeleted
<1>1. Contents /\ KindsApart /\ [Next]_vars => [RemovesOnlyDeleted]_vars
  <2> SUFFICES ASSUME Contents, KindsApart, Next, IsMerge PROVE RemovesOnlyDeleted
    BY DEF RemovesOnlyDeleted
  <2>1. PICK to \in Devices, at \in Time : OwnCall(to, at) \/ \E from \in Devices : MergeFrom(from, to, at) BY Steps
  <2>2. ~OwnCall(to, at) BY DEF OwnCall, Call, IsMerge
  <2>3. PICK from \in Devices : MergeFrom(from, to, at) BY <2>1, <2>2
  <2> DEFINE s == db[from] c == db[to] r == Merge(s, c, at, to)
  <2>4. /\ db' = [db EXCEPT ![to] = r.db] /\ last' = [op |-> "merge", from |-> from, to |-> to, ok |-> r.ok]
        /\ ~Endless(s, RootGroup)
    BY <2>3 DEF MergeFrom, Ends
  <2>5. r.ok BY <2>4 DEF IsMerge
  <2>6. Known(unused) \in SUBSET Uuid /\ DOMAIN db = Devices /\ s \in Content(Known(unused)) /\ c \in Content(Known(unused))
        /\ RootGroup \in DOMAIN s.groups
    BY UuidsAssumption DEF Contents, Known, Uuid, Rooted
  <2>7. (DOMAIN c.groups \cup DOMAIN s.groups \cup {s.bin}) \cap (DOMAIN c.entries \cup DOMAIN s.entries) = {}
    BY DEF KindsApart
  <2> HIDE DEF s, c
  <2>8. /\ EntriesBelow(s, RootGroup) \cap DOMAIN s.entries \subseteq DOMAIN r.db.entries
        /\ \A e \in DOMAIN c.entries \ DOMAIN r.db.entries :
              \E k \in {s, c} : e \in DOMAIN k.deleted /\ k.deleted[e] > c.entries[e].mod
    BY <2>4, <2>5, <2>6, <2>7, MergeDone
  <2> HIDE DEF r
  <2>9. last'.from = from /\ last'.to = to /\ db'[to] = r.db BY <2>4, <2>6
  <2> QED BY <2>8, <2>9 DEF RemovesOnlyDeleted, s, c
<1> QED BY <1>1, CopiesSound, PTL DEF Spec, MergeRemovesOnlyDeleted

\* As long as no merge breaks off, nothing that is alive is a deleted object,
\* neither after the calls of the users nor after a merge that brings back what
\* the other side had deleted.
THEOREM DeletedIsNotLive == Spec /\ []MergeCompletes => []LiveIsNotDeleted
<1>1. Init => LiveIsNotDeleted
  <2> SUFFICES ASSUME Init, NEW d \in Devices PROVE DOMAIN db[d].deleted = {}
    BY DEF LiveIsNotDeleted
  <2>1. db[d] = Original BY DEF Init
  <2> QED BY <2>1, OriginalParts
<1>2. Contents /\ KindsApart /\ LiveIsNotDeleted /\ MergeCompletes' /\ [Next]_vars => LiveIsNotDeleted'
  <2> SUFFICES ASSUME Contents, KindsApart, LiveIsNotDeleted, MergeCompletes', [Next]_vars PROVE LiveIsNotDeleted'
    OBVIOUS
  <2>0. CASE UNCHANGED vars BY <2>0 DEF vars, LiveIsNotDeleted
  <2>1. CASE Next
    <3>1. PICK x \in Devices, at \in Time : OwnCall(x, at) \/ \E from \in Devices : MergeFrom(from, x, at)
      BY <2>1, Steps
    <3>2. /\ unused \in Nat /\ 3 <= unused /\ DOMAIN db = Devices /\ Known(unused) \in SUBSET Uuid
          /\ \A d \in Devices : db[d] \in Content(Known(unused))
      BY UuidsAssumption DEF Contents, Known, Uuid
    <3>3. ASSUME NEW b, db' = [db EXCEPT ![x] = b], DOMAIN b.deleted \cap (DOMAIN b.groups \cup DOMAIN b.entries) = {}
          PROVE  LiveIsNotDeleted'
      <4>1. db'[x] = b /\ \A d \in Devices \ {x} : db'[d] = db[d] BY <3>2, <3>3
      <4> QED BY <3>3, <4>1 DEF LiveIsNotDeleted
    <3>4. CASE OwnCall(x, at)
      <4>2. PICK op, n, r : n \in Nat /\ Call(x, op, at, r, n) /\ Own(db[x], r.db, Handed(unused, n))
        BY <3>4 DEF OwnCall
      <4> DEFINE b == r.db c == db[x] N == Handed(unused, n)
      <4>3. n \in Nat /\ db' = [db EXCEPT ![x] = b] /\ unused + n <= MaxUuid + 1 BY <4>2 DEF Call
      <4>4. N \cap Known(unused) = {} BY <4>3, Knowing
      <4>5. DOMAIN c.deleted \subseteq Known(unused)
        <5>1. c \in Content(Known(unused)) BY <3>2
        <5>2. DOMAIN c.deleted \in SUBSET Known(unused) BY <3>2, <5>1, ContentParts
        <5> QED BY <5>2
      <4>6. /\ DOMAIN c.deleted \cap (DOMAIN c.groups \cup DOMAIN c.entries) = {}
            /\ DOMAIN c.groups \cap DOMAIN c.entries = {}
        BY DEF LiveIsNotDeleted, KindsApart
      <4>7. Kept(c, b, N) \/ Purged(c, b) BY <4>2 DEF Own
      <4> HIDE DEF b, c, N
      <4>8. DOMAIN b.deleted \cap (DOMAIN b.groups \cup DOMAIN b.entries) = {}
        BY <4>4, <4>5, <4>6, <4>7 DEF Kept, Purged
      <4> QED BY <3>3, <4>3, <4>8
    <3>5. CASE \E from \in Devices : MergeFrom(from, x, at)
      <4>1. PICK from \in Devices : MergeFrom(from, x, at) BY <3>5
      <4> DEFINE s == db[from] c == db[x] r == Merge(s, c, at, x)
      <4>2. /\ db' = [db EXCEPT ![x] = r.db] /\ last' = [op |-> "merge", from |-> from, to |-> x, ok |-> r.ok]
            /\ ~Endless(s, RootGroup)
        BY <4>1 DEF MergeFrom, Ends
      <4>3. r.ok BY <4>2 DEF MergeCompletes
      <4>4. s \in Content(Known(unused)) /\ c \in Content(Known(unused)) /\ RootGroup \in DOMAIN s.groups
        BY <3>2 DEF Contents, Rooted
      <4>5. (DOMAIN c.groups \cup DOMAIN s.groups \cup {s.bin}) \cap (DOMAIN c.entries \cup DOMAIN s.entries) = {}
        BY DEF KindsApart
      <4> HIDE DEF s, c
      <4>6. DOMAIN r.db.deleted \cap (DOMAIN r.db.groups \cup DOMAIN r.db.entries) = {}
        BY <3>2, <4>2, <4>3, <4>4, <4>5, MergeDone
      <4> HIDE DEF r
      <4> QED BY <3>3, <4>2, <4>6
    <3> QED BY <3>1, <3>4, <3>5
  <2> QED BY <2>0, <2>1
<1> QED BY <1>1, <1>2, CopiesSound, PTL DEF Spec

-----------------------------------------------------------------------------
(* A copy nothing is merged into                                           *)

\* A call on one copy that leaves it a tree.
SteadyCall(d, at) ==
    \E op, n, r : op # "merge" /\ Call(d, op, at, r, n) /\ Steady(db[d], r)

\* The uuids a step hands out are new to every copy.
LEMMA NewUuids ==
    ASSUME Contents, NEW d \in Devices, NEW n \in Nat, unused + n <= MaxUuid + 1
    PROVE  /\ Known(unused + n) \in SUBSET Uuid /\ db[d] \in Content(Known(unused + n))
           /\ Handed(unused, n) \subseteq Known(unused + n)
           /\ Handed(unused, n) \cap (DOMAIN db[d].groups \cup DOMAIN db[d].entries) = {}
           /\ Handed(unused, 1) = {unused} /\ unused \in Nat
           /\ DOMAIN db[d].groups \subseteq Uuid /\ DOMAIN db[d].entries \subseteq Uuid
<1>1. /\ Known(unused + n) \in SUBSET Uuid /\ db[d] \in Content(Known(unused + n))
      /\ Handed(unused, n) \subseteq Known(unused + n) /\ Handed(unused, n) \cap Known(unused) = {}
      /\ Handed(unused, 1) = {unused}
      /\ DOMAIN db[d].groups \subseteq Uuid /\ DOMAIN db[d].entries \subseteq Uuid
  BY Knowing
<1>2. /\ Known(unused) \in SUBSET Uuid /\ db[d] \in Content(Known(unused)) /\ unused \in Nat
  BY UuidsAssumption DEF Contents, Known, Uuid
<1>3. DOMAIN db[d].groups \in SUBSET Known(unused) /\ DOMAIN db[d].entries \in SUBSET Known(unused)
  BY <1>2, ContentParts
<1> QED BY <1>1, <1>2, <1>3

\* insert_group and insert_entry are such calls.
LEMMA AddSteady ==
    ASSUME Contents, NEW d \in Devices, NEW at \in Time, Tree(db[d]), BinThere(db[d]),
           AddGroup(d, at) \/ AddEntry(d, at)
    PROVE  SteadyCall(d, at)
<1> DEFINE I == Known(unused + 1)
           c == db[d]
<1>0. unused + 1 <= MaxUuid + 1 BY DEF AddGroup, AddEntry, Call
<1>1. /\ I \in SUBSET Uuid /\ c \in Content(I) /\ unused \in I
      /\ unused \notin DOMAIN c.groups \cup DOMAIN c.entries /\ DOMAIN c.groups \subseteq Uuid
  BY <1>0, NewUuids
<1>2. Tree(c) /\ BinThere(c) OBVIOUS
<1> HIDE DEF I
<1>3. ASSUME AddGroup(d, at) PROVE SteadyCall(d, at)
  <2>1. PICK p \in DOMAIN c.groups :
           Call(d, "insert_group", at, InsertGroup(c, unused, NewGroup(p, at, d)), 1)
    BY <1>3 DEF AddGroup
  <2> DEFINE group == NewGroup(p, at, d)
             r == InsertGroup(c, unused, group)
  <2>2. group \in Group BY <1>1, NewTyped
  <2>3. group.parent = p /\ group.subs = <<>> /\ group.entries = <<>> BY DEF NewGroup
  <2> HIDE DEF group, c
  <2>4. r.ok = TRUE /\ GroupAdded(c, r.db, unused, group.parent) /\ Tree(r.db)
    BY <1>1, <1>2, <2>2, <2>3, InsertGroupSteady
  <2>5. r.db.bin = c.bin BY DEF InsertGroup, Ok, Err, PutGroup, ListGroup
  <2> HIDE DEF r
  <2>6. BinThere(r.db) BY <1>2, <2>4, <2>5 DEF BinThere, GroupAdded
  <2>7. Steady(c, r) BY <2>4, <2>6 DEF Steady
  <2> QED BY <2>1, <2>7 DEF SteadyCall, r, group, c
<1>4. ASSUME AddEntry(d, at) PROVE SteadyCall(d, at)
  <2>1. PICK p \in DOMAIN c.groups :
           Call(d, "insert_entry", at, InsertEntry(c, unused, NewEntry(p, at, d)), 1)
    BY <1>4 DEF AddEntry
  <2> DEFINE entry == NewEntry(p, at, d)
             r == InsertEntry(c, unused, entry)
  <2>2. entry \in Entry BY <1>1, NewTyped
  <2>3. entry.parent = p BY DEF NewEntry
  <2> HIDE DEF entry, c
  <2>4. Steady(c, r) BY <1>1, <1>2, <2>2, <2>3, InsertEntrySteady
  <2> HIDE DEF r
  <2> QED BY <2>1, <2>4 DEF SteadyCall, r, entry, c
<1> QED BY <1>3, <1>4

\* So are those that edit a group or an entry, forget versions or sort.
LEMMA EditSteady ==
    ASSUME Contents, NEW d \in Devices, NEW at \in Time, Tree(db[d]), BinThere(db[d]),
           EditGroup(d, at) \/ EditEntry(d, at) \/ ForgetVersions(d, at) \/ SortGroups(d, at)
    PROVE  SteadyCall(d, at)
<1> DEFINE I == Known(unused + 0)
           c == db[d]
<1>0. unused + 0 <= MaxUuid + 1 BY DEF Contents
<1>1. I \in SUBSET Uuid /\ c \in Content(I) BY <1>0, NewUuids
<1>a. Tree(c) /\ BinThere(c) OBVIOUS
<1> HIDE DEF I
<1>2. ASSUME NEW op, op # "merge", NEW b, SamePlaces(c, b), Call(d, op, at, Ok(b), 0)
      PROVE  SteadyCall(d, at)
  <2>1. Ok(b).db = b /\ Ok(b).ok = TRUE BY DEF Ok
  <2>2. Steady(c, Ok(b)) BY <1>2, <1>a, <2>1, SamePlacesSteady
  <2> QED BY <1>2, <2>2 DEF SteadyCall
<1> HIDE DEF c
<1>3. ASSUME EditGroup(d, at) PROVE SteadyCall(d, at)
  <2>1. PICK g \in DOMAIN c.groups : Call(d, "update_group", at, Ok(UpdateGroup(c, g, at, d)), 0)
    BY <1>3 DEF EditGroup, c
  <2> DEFINE b == UpdateGroup(c, g, at, d)
  <2>2. b \in Content(I) /\ SamePlaces(c, b) BY <1>1, UpdateGroupTyped
  <2> HIDE DEF b
  <2> QED BY <1>2, <2>1, <2>2 DEF b
<1>4. ASSUME EditEntry(d, at) PROVE SteadyCall(d, at)
  <2>1. PICK e \in DOMAIN c.entries :
           Call(d, "update_entry", at, UpdateEntry(c, e, c.entries[e].parent, at, d), 0)
    BY <1>4 DEF EditEntry, c
  <2> DEFINE r == UpdateEntry(c, e, c.entries[e].parent, at, d)
  <2>2. r \in Result(I) /\ SamePlaces(c, r.db) BY <1>1, UpdateEntryTyped
  <2>3. r.ok = TRUE BY DEF UpdateEntry, HasEntry, Ok
  <2> HIDE DEF r
  <2>4. Steady(c, r) BY <1>a, <2>2, <2>3, SamePlacesSteady DEF c
  <2> QED BY <2>1, <2>4 DEF SteadyCall, r, c
<1>5. ASSUME ForgetVersions(d, at) PROVE SteadyCall(d, at)
  <2>1. PICK e \in DOMAIN c.entries :
           \/ \E i \in DOMAIN c.entries[e].history :
                 Call(d, "delete_history_entry_by_index", at, Ok(DeleteHistoryEntry(c, e, i)), 0)
           \/ Call(d, "delete_history_entries", at, Ok(DeleteHistoryEntries(c, e)), 0)
    BY <1>5 DEF ForgetVersions, c
  <2>2. ASSUME NEW i, Call(d, "delete_history_entry_by_index", at, Ok(DeleteHistoryEntry(c, e, i)), 0)
        PROVE  SteadyCall(d, at)
    <3> DEFINE b == DeleteHistoryEntry(c, e, i)
    <3>1. b \in Content(I) /\ SamePlaces(c, b) BY <1>1, ForgetTyped
    <3> HIDE DEF b
    <3> QED BY <1>2, <2>2, <3>1 DEF b
  <2>3. ASSUME Call(d, "delete_history_entries", at, Ok(DeleteHistoryEntries(c, e)), 0)
        PROVE  SteadyCall(d, at)
    <3> DEFINE b == DeleteHistoryEntries(c, e)
    <3>1. b \in Content(I) /\ SamePlaces(c, b) BY <1>1, ForgetTyped
    <3> HIDE DEF b
    <3> QED BY <1>2, <2>3, <3>1 DEF b
  <2> QED BY <2>1, <2>2, <2>3
<1>6. ASSUME SortGroups(d, at) PROVE SteadyCall(d, at)
  <2>1. PICK g \in DOMAIN c.groups, criteria \in {"AtoZ", "ZtoA"} :
           Call(d, "sort_sub_groups", at, SortSubGroups(c, g, criteria), 0)
    BY <1>6 DEF SortGroups, c
  <2> DEFINE r == SortSubGroups(c, g, criteria)
  <2>2. Steady(c, r) BY <1>1, <1>a, SortSteady DEF c
  <2> HIDE DEF r
  <2> QED BY <2>1, <2>2 DEF SteadyCall, r, c
<1> QED BY <1>3, <1>4, <1>5, <1>6

\* So are clone_entry and clone_group.
LEMMA CopySteady ==
    ASSUME Contents, NEW d \in Devices, NEW at \in Time, Tree(db[d]), BinThere(db[d]),
           CopyEntry(d, at) \/ CopyGroup(d, at)
    PROVE  SteadyCall(d, at)
<1> DEFINE c == db[d]
<1>a. Tree(c) /\ BinThere(c) OBVIOUS
<1>1. ASSUME CopyEntry(d, at) PROVE SteadyCall(d, at)
  <2> DEFINE I == Known(unused + 1)
  <2>0. unused + 1 <= MaxUuid + 1 BY <1>1 DEF CopyEntry, Call
  <2>1. /\ I \in SUBSET Uuid /\ c \in Content(I) /\ unused \in I
        /\ unused \notin DOMAIN c.groups \cup DOMAIN c.entries
    BY <2>0, NewUuids
  <2>2. PICK e \in DOMAIN c.entries, p \in DOMAIN c.groups, keep \in BOOLEAN :
           Call(d, "clone_entry", at, CloneEntry(c, e, p, unused, keep, at, d), 1)
    BY <1>1 DEF CopyEntry
  <2> DEFINE r == CloneEntry(c, e, p, unused, keep, at, d)
  <2> HIDE DEF I, c
  <2>3. Steady(c, r) BY <1>a, <2>1, CloneEntrySteady
  <2> HIDE DEF r
  <2> QED BY <2>2, <2>3 DEF SteadyCall, r, c
<1>2. ASSUME CopyGroup(d, at) PROVE SteadyCall(d, at)
  <2>1. PICK g \in DOMAIN c.groups :
           Call(d, "clone_group", at, CloneGroup(c, g, unused, at, d), FreshFor(c, g))
    BY <1>2 DEF CopyGroup
  <2> DEFINE n == FreshFor(c, g)
             I == Known(unused + n)
             r == CloneGroup(c, g, unused, at, d)
  <2>2. unused + n <= MaxUuid + 1 BY <2>1 DEF Call
  <2>3. n \in Nat
    <3>1. Known(unused) \in SUBSET Uuid /\ c \in Content(Known(unused))
      BY UuidsAssumption DEF Contents, Known, Uuid
    <3> QED BY <3>1, FreshUuids
  <2> HIDE DEF n
  <2>4. /\ I \in SUBSET Uuid /\ c \in Content(I) /\ Handed(unused, n) \subseteq I
        /\ Handed(unused, n) \cap (DOMAIN c.groups \cup DOMAIN c.entries) = {} /\ unused \in Nat
    BY <2>2, <2>3, NewUuids
  <2> HIDE DEF I, c
  <2>5. Steady(c, r) BY <1>a, <2>4, CloneGroupSteady DEF n
  <2> HIDE DEF r
  <2> QED BY <2>1, <2>5 DEF SteadyCall, r, c
<1> QED BY <1>1, <1>2

\* So are move_group and move_entry.
LEMMA RelocateSteady ==
    ASSUME Contents, NEW d \in Devices, NEW at \in Time, Tree(db[d]), BinThere(db[d]), Relocate(d, at)
    PROVE  SteadyCall(d, at)
<1> DEFINE I == Known(unused + 0)
           c == db[d]
<1>0. unused + 0 <= MaxUuid + 1 BY DEF Contents
<1>1. /\ I \in SUBSET Uuid /\ c \in Content(I)
      /\ DOMAIN c.groups \subseteq Uuid /\ DOMAIN c.entries \subseteq Uuid
  BY <1>0, NewUuids
<1>a. Tree(c) /\ BinThere(c) OBVIOUS
<1> HIDE DEF I
<1>2. ASSUME NEW g \in DOMAIN c.groups, NEW p \in DOMAIN c.groups, MayHold(d, g, p),
             Call(d, "move_group", at, MoveGroup(c, g, p, at), 0)
      PROVE  SteadyCall(d, at)
  <2> DEFINE r == MoveGroup(c, g, p, at)
  <2>1. g # RootGroup /\ p \notin Entered(c, g) BY <1>2 DEF MayHold
  <2>2. g \in Uuid /\ p \in Uuid BY <1>1
  <2> HIDE DEF c
  <2>3. Steady(c, r) BY <1>1, <1>a, <2>1, <2>2, MoveGroupSteady
  <2> HIDE DEF r
  <2> QED BY <1>2, <2>3 DEF SteadyCall, r, c
<1>3. ASSUME NEW e \in DOMAIN c.entries, NEW p \in DOMAIN c.groups,
             Call(d, "move_entry", at, MoveEntry(c, e, p, at), 0)
      PROVE  SteadyCall(d, at)
  <2> DEFINE r == MoveEntry(c, e, p, at)
  <2>2. e \in Uuid /\ p \in Uuid BY <1>1
  <2> HIDE DEF c
  <2>3. Steady(c, r) BY <1>1, <1>a, <2>2, MoveEntrySteady
  <2> HIDE DEF r
  <2> QED BY <1>3, <2>3 DEF SteadyCall, r, c
<1> QED BY <1>2, <1>3 DEF Relocate

\* So are the moves to the recycle bin.
LEMMA DiscardedSteady ==
    ASSUME Contents, NEW d \in Devices, NEW at \in Time, Tree(db[d]), BinThere(db[d]), Discard(d, at)
    PROVE  SteadyCall(d, at)
<1> DEFINE n == ForBin(d)
           I == Known(unused + n)
           c == db[d]
<1>0. unused + n <= MaxUuid + 1 /\ n \in Nat BY DEF Discard, Call, ForBin
<1> HIDE DEF n
<1>1. /\ I \in SUBSET Uuid /\ c \in Content(I) /\ Handed(unused, n) \subseteq I
      /\ Handed(unused, n) \cap (DOMAIN c.groups \cup DOMAIN c.entries) = {}
      /\ Handed(unused, 1) = {unused}
  BY <1>0, NewUuids
<1>2. c.bin = Nil => n = 1 BY DEF n, ForBin
<1>a. Tree(c) /\ BinThere(c) OBVIOUS
<1> HIDE DEF I
<1>3. c.bin = Nil => unused \in I /\ unused \notin DOMAIN c.groups \cup DOMAIN c.entries
  <2> HIDE DEF c
  <2> QED BY <1>1, <1>2
<1>4. ASSUME NEW g \in DOMAIN c.groups, MayHold(d, g, IF c.bin = Nil THEN RootGroup ELSE c.bin),
             Call(d, "move_group_to_recycle_bin", at, MoveGroupToRecycleBin(c, g, unused, at, d), n)
      PROVE  SteadyCall(d, at)
  <2> DEFINE r == MoveGroupToRecycleBin(c, g, unused, at, d)
  <2>1. g # RootGroup /\ (c.bin # Nil => c.bin \notin Entered(c, g)) BY <1>4 DEF MayHold
  <2>2. g \in DOMAIN c.groups \ {RootGroup} BY <1>4, <2>1
  <2> HIDE DEF c
  <2>3. Steady(c, r) BY <1>1, <1>3, <1>a, <2>1, <2>2, DiscardGroupSteady
  <2> HIDE DEF r
  <2> QED BY <1>4, <2>3 DEF SteadyCall, r, c
<1>5. ASSUME NEW e \in DOMAIN c.entries,
             Call(d, "move_entry_to_recycle_bin", at, MoveEntryToRecycleBin(c, e, unused, at, d), n)
      PROVE  SteadyCall(d, at)
  <2> DEFINE r == MoveEntryToRecycleBin(c, e, unused, at, d)
  <2> HIDE DEF c
  <2>3. Steady(c, r) BY <1>1, <1>3, <1>a, DiscardEntrySteady
  <2> HIDE DEF r
  <2> QED BY <1>5, <2>3 DEF SteadyCall, r, c
<1> QED BY <1>4, <1>5 DEF Discard, n

\* So are those that remove for good.
LEMMA DeleteSteady ==
    ASSUME Contents, NEW d \in Devices, NEW at \in Time, Tree(db[d]), BinThere(db[d]), Delete(d, at)
    PROVE  SteadyCall(d, at)
<1> DEFINE I == Known(unused + 0)
           c == db[d]
<1>0. unused + 0 <= MaxUuid + 1 BY DEF Contents
<1>1. I \in SUBSET Uuid /\ c \in Content(I) BY <1>0, NewUuids
<1>a. Tree(c) /\ BinThere(c) OBVIOUS
<1> HIDE DEF I, c
<1>2. ASSUME NEW op, op # "merge", NEW r, Call(d, op, at, r, 0), Steady(c, r)
      PROVE  SteadyCall(d, at)
  BY <1>2 DEF SteadyCall, c
<1>3. ASSUME NEW g, Call(d, "remove_group_permanently", at, RemoveGroup(c, g, at), 0)
      PROVE  SteadyCall(d, at)
  <2>1. Steady(c, RemoveGroup(c, g, at)) BY <1>1, <1>a, RemoveGroupSteady
  <2> QED BY <1>2, <1>3, <2>1
<1>4. ASSUME NEW e, Call(d, "remove_entry_permanently", at, RemoveEntry(c, e, at), 0)
      PROVE  SteadyCall(d, at)
  <2>1. Steady(c, RemoveEntry(c, e, at)) BY <1>1, <1>a, RemoveEntrySteady
  <2> QED BY <1>2, <1>4, <2>1
<1>5. ASSUME Call(d, "empty_trash", at, EmptyTrash(c, at), 0)
      PROVE  SteadyCall(d, at)
  <2>1. Steady(c, EmptyTrash(c, at)) BY <1>1, <1>a, EmptyTrashSteady
  <2> QED BY <1>2, <1>5, <2>1
<1> QED BY <1>3, <1>4, <1>5 DEF Delete, c

\* Nothing is merged into the copy of a device that never asks for it or has no
\* other one to merge from.
Alone(d) == "merge" \in Calls[d] => Devices = {d}
NoMerges == \A d \in Devices : Alone(d)

\* Such a copy is a tree, and has the recycle bin it has made.
TreesKept == \A d \in Devices : Alone(d) => Tree(db[d]) /\ BinThere(db[d])

\* The database all copies start with is one.
LEMMA OriginalTree ==
    ASSUME NEW d \in Devices
    PROVE  Tree(Original) /\ BinThere(Original)
<1> DEFINE c == Original
           subs == InOrder(StartGroups, <)
           ids == InOrder(InitialEntries, <)
<1>1. /\ DOMAIN c.groups = {RootGroup} \cup StartGroups /\ c.groups[RootGroup].parent = Nil
      /\ c.groups[RootGroup].subs = subs /\ c.groups[RootGroup].entries = ids
      /\ \A g \in StartGroups : /\ c.groups[g].parent = RootGroup
                                /\ c.groups[g].subs = <<>> /\ c.groups[g].entries = <<>>
      /\ DOMAIN c.entries = InitialEntries
      /\ \A e \in InitialEntries : c.entries[e].parent = RootGroup
      /\ c.bin = InitialBin
  BY OriginalParts
<1>2. /\ StartUuids \subseteq 1 .. MaxUuid /\ StartGroups \subseteq StartUuids
      /\ IsFiniteSet(StartGroups) /\ IsFiniteSet(InitialEntries)
      /\ RootGroup \notin StartGroups /\ RootGroup \notin InitialEntries /\ InitialEntries \cap StartGroups = {}
  BY StartSets
<1>3. ToSet(subs) = StartGroups /\ IsInjective(subs)
  <2>1. StartGroups \subseteq Nat BY <1>2
  <2> QED BY <1>2, <2>1, Ascending
<1>4. ToSet(ids) = InitialEntries /\ IsInjective(ids)
  <2>1. InitialEntries \subseteq Nat BY <1>2 DEF StartUuids
  <2> QED BY <1>2, <2>1, Ascending
<1>5. InitialBin = Nil \/ InitialBin \in StartGroups BY DEF StartGroups
<1> HIDE DEF c, subs, ids
<1>6. ToSet(<<>>) = {} /\ IsInjective(<<>>) BY EmptyList DEF IsInjective
<1>7. /\ Subs(c, RootGroup) = StartGroups /\ Ents(c, RootGroup) = InitialEntries /\ Neat(c, RootGroup)
  BY <1>1, <1>3, <1>4 DEF Subs, Ents, Neat
<1>8. \A g \in StartGroups : Subs(c, g) = {} /\ Ents(c, g) = {} /\ Neat(c, g)
  BY <1>1, <1>6 DEF Subs, Ents, Neat
<1>9. \A h \in DOMAIN c.groups : Neat(c, h) BY <1>1, <1>7, <1>8
<1>10. ASSUME NEW h \in DOMAIN c.groups
       PROVE  /\ Subs(c, h) = {g \in DOMAIN c.groups : c.groups[g].parent = h}
              /\ Ents(c, h) = {e \in DOMAIN c.entries : c.entries[e].parent = h}
  <2>1. Nil # RootGroup BY DEF Nil, RootGroup
  <2>2. CASE h = RootGroup
    <3>1. {g \in DOMAIN c.groups : c.groups[g].parent = h} = StartGroups BY <1>1, <1>2, <2>1, <2>2
    <3>2. {e \in DOMAIN c.entries : c.entries[e].parent = h} = InitialEntries BY <1>1, <2>2
    <3> QED BY <1>7, <2>2, <3>1, <3>2
  <2>3. CASE h \in StartGroups
    <3>1. h # Nil BY <1>2, <2>3 DEF Nil
    <3>2. {g \in DOMAIN c.groups : c.groups[g].parent = h} = {} BY <1>1, <1>2, <2>3, <3>1
    <3>3. {e \in DOMAIN c.entries : c.entries[e].parent = h} = {} BY <1>1, <1>2, <2>3
    <3> QED BY <1>8, <2>3, <3>2, <3>3
  <2> QED BY <1>1, <2>2, <2>3
<1>11. \A g \in DOMAIN c.groups \ {RootGroup} : c.groups[g].parent \in DOMAIN c.groups BY <1>1
<1>12. \A e \in DOMAIN c.entries : c.entries[e].parent \in DOMAIN c.groups BY <1>1
<1>13. Up(c)
  <2> SUFFICES ASSUME NEW S \in SUBSET (DOMAIN c.groups), S # {}, RootGroup \notin S
               PROVE  \E x \in S : c.groups[x].parent \notin S
    BY DEF Up
  <2>1. PICK x \in S : x \in StartGroups BY <1>1
  <2> QED BY <1>1, <2>1
<1>14. RootGroup \in DOMAIN c.groups /\ c.groups[RootGroup].parent = Nil
       /\ DOMAIN c.groups \cap DOMAIN c.entries = {}
  BY <1>1, <1>2
<1>15. Tree(c)
  <2>1. Placed(c) BY <1>9, <1>10, <1>11, <1>12, <1>14, NeatPlaced
  <2> QED BY <1>13, <2>1 DEF Tree
<1>16. BinThere(c) BY <1>1, <1>2, <1>5 DEF BinThere
<1> QED BY <1>15, <1>16 DEF c

\* What a step is to a copy that nothing is merged into.
LEMMA TreeSteps ==
    ASSUME Contents, TreesKept, Next
    PROVE  \E d \in Devices, at \in Time :
              \/ Alone(d) /\ SteadyCall(d, at)
              \/ ~Alone(d) /\ \E b : db' = [db EXCEPT ![d] = b]
<1>1. PICK s \in Seconds, d \in Devices : clock + s \in Time /\ Step(d, clock + s) BY DEF Next
<1> DEFINE at == clock + s
<1>2. at \in Time /\ Step(d, at) BY <1>1
<1> HIDE DEF at
<1>3. CASE Alone(d)
  <2>1. Tree(db[d]) /\ BinThere(db[d]) BY <1>3 DEF TreesKept
  <2>2. ASSUME NEW from \in Devices, MergeFrom(from, d, at) PROVE FALSE
    BY <1>3, <2>2 DEF MergeFrom, Alone
  <2>3. SteadyCall(d, at)
    BY <1>2, <2>1, <2>2, AddSteady, EditSteady, CopySteady, RelocateSteady, DiscardedSteady, DeleteSteady DEF Step
  <2> QED BY <1>2, <1>3, <2>3
<1>4. CASE ~Alone(d)
  <2>1. OwnCall(d, at) \/ \E from \in Devices : MergeFrom(from, d, at)
    BY <1>2, AddOwn, EditOwn, CopyOwn, RelocateOwn, DiscardedOwn, DeleteOwn DEF Step
  <2>2. \E b : db' = [db EXCEPT ![d] = b] BY <2>1 DEF OwnCall, Call, MergeFrom
  <2> QED BY <1>2, <1>4, <2>2
<1> QED BY <1>3, <1>4

\* It leaves these copies trees.
LEMMA TreesStay ==
    ASSUME Contents, TreesKept, Next
    PROVE  TreesKept'
<1>1. PICK x \in Devices, at \in Time :
         \/ Alone(x) /\ SteadyCall(x, at)
         \/ ~Alone(x) /\ \E b : db' = [db EXCEPT ![x] = b]
  BY TreeSteps
<1>2. DOMAIN db = Devices BY DEF Contents
<1>3. CASE Alone(x) /\ SteadyCall(x, at)
  <2>1. PICK op, n, r : Call(x, op, at, r, n) /\ Steady(db[x], r) BY <1>3 DEF SteadyCall
  <2>2. db' = [db EXCEPT ![x] = r.db] BY <2>1 DEF Call
  <2>3. db'[x] = r.db /\ \A d \in Devices \ {x} : db'[d] = db[d] BY <1>2, <2>2
  <2>4. Tree(db'[x]) /\ BinThere(db'[x]) BY <2>1, <2>3 DEF Steady
  <2>5. ASSUME NEW d \in Devices, Alone(d) PROVE Tree(db'[d]) /\ BinThere(db'[d])
    <3>1. CASE d = x BY <2>4, <3>1
    <3>2. CASE d # x BY <2>3, <2>5, <3>2 DEF TreesKept
    <3> QED BY <3>1, <3>2
  <2> QED BY <2>5 DEF TreesKept
<1>4. CASE ~Alone(x) /\ \E b : db' = [db EXCEPT ![x] = b]
  <2>1. \A d \in Devices \ {x} : db'[d] = db[d] BY <1>2, <1>4
  <2>2. ASSUME NEW d \in Devices, Alone(d) PROVE Tree(db'[d]) /\ BinThere(db'[d])
    <3>1. d # x BY <1>4, <2>2
    <3> QED BY <2>1, <2>2, <3>1 DEF TreesKept
  <2> QED BY <2>2 DEF TreesKept
<1> QED BY <1>1, <1>3, <1>4

\* A copy that nothing is merged into is a tree all the time.
LEMMA TreesSound == Spec => []TreesKept
<1>1. Init => TreesKept
  <2> SUFFICES ASSUME Init, NEW d \in Devices PROVE Tree(db[d]) /\ BinThere(db[d]) BY DEF TreesKept
  <2>1. db[d] = Original BY DEF Init
  <2> QED BY <2>1, OriginalTree
<1>2. Contents /\ TreesKept /\ [Next]_vars => TreesKept'
  <2> SUFFICES ASSUME Contents, TreesKept, [Next]_vars PROVE TreesKept' OBVIOUS
  <2>1. CASE Next BY <2>1, TreesStay
  <2>2. CASE UNCHANGED vars BY <2>2 DEF vars, TreesKept, Alone
  <2> QED BY <2>1, <2>2
<1> QED BY <1>1, <1>2, CopiesSound, PTL DEF Spec

\* Whatever is added, edited, cloned, sorted, moved, discarded or removed: as
\* long as nothing is merged, each child is in the list of its parent, once, and
\* in no other, and the lists name nothing else.
THEOREM PlacesStayInStep ==
    ASSUME NoMerges
    PROVE  Spec => []PlacesAgree
<1>1. TreesKept => PlacesAgree BY DEF TreesKept, NoMerges, PlacesAgree, Tree, Placed
<1> QED BY <1>1, TreesSound, PTL

\* As long as nothing is merged, the walk from the root group ends and meets
\* every group and every entry: saving the database writes all of it.
THEOREM AllIsReachable ==
    ASSUME NoMerges
    PROVE  Spec => []NothingUnreachable
<1>1. Contents /\ TreesKept => NothingUnreachable
  <2> SUFFICES ASSUME Contents, TreesKept, NEW d \in Devices
               PROVE  /\ ~Endless(db[d], RootGroup)
                      /\ DOMAIN db[d].groups \subseteq Entered(db[d], RootGroup)
                      /\ DOMAIN db[d].entries \subseteq EntriesBelow(db[d], RootGroup)
    BY DEF NothingUnreachable
  <2> DEFINE c == db[d]
             I == Known(unused)
  <2>1. Tree(c) BY DEF TreesKept, NoMerges
  <2>2. I \in SUBSET Uuid /\ c \in Content(I) BY UuidsAssumption DEF Contents, Known, Uuid
  <2> HIDE DEF I, c
  <2>3. ~Endless(c, RootGroup) /\ Entered(c, RootGroup) = DOMAIN c.groups BY <2>1, <2>2, TreeWalks
  <2>4. /\ RootGroup \in DOMAIN c.groups
        /\ \A e \in DOMAIN c.entries : c.entries[e].parent \in DOMAIN c.groups
    BY <2>1, TreeNeat
  <2>5. EntriesBelow(c, RootGroup) = {e \in DOMAIN c.entries : c.entries[e].parent \in Entered(c, RootGroup)}
    BY <2>1, <2>2, <2>4, TreeBelow
  <2> QED BY <2>3, <2>4, <2>5 DEF c
<1> QED BY <1>1, CopiesSound, TreesSound, PTL

\* As long as nothing is merged, a call that fails has removed no entry and
\* noted no deletion: neither remove_group_permanently nor empty_trash stops half
\* way, and what is moved to the recycle bin fails before anything is moved.
THEOREM CallsAreWhole ==
    ASSUME NoMerges
    PROVE  Spec => CallsWholeOrNothing
<1>1. Contents /\ TreesKept /\ [Next]_vars => [WholeOrNothing]_vars
  <2> SUFFICES ASSUME Contents, TreesKept, Next, last'.op # "merge", ~last'.ok
               PROVE  \A d \in Devices : db'[d].entries = db[d].entries /\ db'[d].deleted = db[d].deleted
    BY DEF WholeOrNothing
  <2>1. PICK x \in Devices, at \in Time : SteadyCall(x, at) BY TreeSteps DEF NoMerges
  <2>2. PICK op, n, r : Call(x, op, at, r, n) /\ Steady(db[x], r) BY <2>1 DEF SteadyCall
  <2>3. db' = [db EXCEPT ![x] = r.db] /\ last'.ok = r.ok BY <2>2 DEF Call
  <2>4. r.db.entries = db[x].entries /\ r.db.deleted = db[x].deleted BY <2>2, <2>3 DEF Steady
  <2>5. db'[x] = r.db /\ \A d \in Devices \ {x} : db'[d] = db[d] BY <2>3 DEF Contents
  <2> QED BY <2>4, <2>5
<1> QED BY <1>1, CopiesSound, TreesSound, PTL DEF Spec, CallsWholeOrNothing

-----------------------------------------------------------------------------
(* The versions a copy holds                                               *)

\* All versions of all entries, the last ones and the older ones.
Held(c) == UNION {Versions(c.entries[e]) : e \in DOMAIN c.entries}

\* The version an edit makes.
Stamp(now, by) == [mod |-> now, by |-> by]

\* d holds no versions but those of c and one made now.
OneNewer(c, d, now, by) == Held(d) \subseteq Held(c) \cup {Stamp(now, by)}

\* What is held when nothing is said of an entry that V does not have.
LEMMA HeldWithin ==
    ASSUME NEW d, NEW V, \A e \in DOMAIN d.entries : Versions(d.entries[e]) \subseteq V
    PROVE  Held(d) \subseteq V
BY DEF Held

\* An entry's versions are held.
LEMMA HeldOf ==
    ASSUME NEW c, NEW e \in DOMAIN c.entries
    PROVE  Versions(c.entries[e]) \subseteq Held(c)
BY DEF Held

\* The same entries hold the same versions.
LEMMA HeldSame ==
    ASSUME NEW c, NEW d, d.entries = c.entries
    PROVE  Held(d) = Held(c)
BY DEF Held

\* Fewer entries hold fewer versions.
LEMMA HeldFewer ==
    ASSUME NEW c, NEW d, DOMAIN d.entries \subseteq DOMAIN c.entries,
           \A e \in DOMAIN d.entries : d.entries[e] = c.entries[e]
    PROVE  Held(d) \subseteq Held(c)
<1>1. ASSUME NEW e \in DOMAIN d.entries PROVE Versions(d.entries[e]) \subseteq Held(c)
  <2>1. e \in DOMAIN c.entries /\ d.entries[e] = c.entries[e] OBVIOUS
  <2>2. QED BY <2>1, HeldOf
<1>2. QED BY <1>1, HeldWithin

\* One entry is another one, or is new.
LEMMA HeldChanged ==
    ASSUME NEW c, NEW d, NEW e, NEW V, DOMAIN d.entries \subseteq DOMAIN c.entries \cup {e},
           \A x \in DOMAIN c.entries : x # e => d.entries[x] = c.entries[x],
           Versions(d.entries[e]) \subseteq Held(c) \cup V
    PROVE  Held(d) \subseteq Held(c) \cup V
<1>1. ASSUME NEW x \in DOMAIN d.entries PROVE Versions(d.entries[x]) \subseteq Held(c) \cup V
  <2>1. CASE x = e BY <2>1
  <2>2. CASE x # e
    <3>1. x \in DOMAIN c.entries /\ d.entries[x] = c.entries[x] BY <2>2
    <3>2. QED BY <3>1, HeldOf
  <2>3. QED BY <2>1, <2>2
<1>2. QED BY <1>1, HeldWithin

\* Entries with the same versions hold the same.
LEMMA HeldMoved ==
    ASSUME NEW c, NEW d, DOMAIN d.entries \subseteq DOMAIN c.entries, SameVersions(c, d)
    PROVE  Held(d) \subseteq Held(c)
<1>1. ASSUME NEW e \in DOMAIN d.entries PROVE Versions(d.entries[e]) \subseteq Held(c)
  <2>1. Versions(d.entries[e]) = Versions(c.entries[e]) BY DEF SameVersions, Versions, LastVersion
  <2>2. QED BY <2>1, HeldOf
<1>2. QED BY <1>1, HeldWithin

-----------------------------------------------------------------------------
(* What each operation adds to them                                        *)

\* insert_entry
LEMMA InsertEntryHeld ==
    ASSUME NEW I \in SUBSET Uuid, NEW c \in Content(I), NEW e \in I, NEW entry \in Entry
    PROVE  LET r == InsertEntry(c, e, entry)
           IN  /\ Held(r.db) \subseteq Held(c) \cup Versions(entry)
               /\ r.ok => e \notin DOMAIN c.entries /\ r.db.entries[e] = entry
<1> DEFINE r == InsertEntry(c, e, entry)
           listed == ListEntry(c, entry.parent, e)
           d == PutEntry(listed, e, entry)
<1>1. r = IF HasEntry(c, e) \/ ~HasGroup(c, entry.parent) THEN Err(c) ELSE Ok(d) BY DEF InsertEntry
<1>2. e \in Uuid OBVIOUS
<1>3. listed \in Content(I) /\ OnlyGroup(c, listed, entry.parent) BY <1>2, EntryListed
<1>4. listed.entries = c.entries BY <1>3 DEF OnlyGroup
<1> HIDE DEF listed
<1>5. /\ DOMAIN d.entries = DOMAIN listed.entries \cup {e} /\ d.entries[e] = entry
      /\ \A y \in DOMAIN listed.entries : y # e => d.entries[y] = listed.entries[y]
  BY <1>3, EntryPut
<1>6. /\ DOMAIN d.entries = DOMAIN c.entries \cup {e} /\ d.entries[e] = entry
      /\ \A y \in DOMAIN c.entries : y # e => d.entries[y] = c.entries[y]
  BY <1>4, <1>5
<1> HIDE DEF d
<1>7. Held(d) \subseteq Held(c) \cup Versions(entry) BY <1>6, HeldChanged
<1>8. CASE HasEntry(c, e) \/ ~HasGroup(c, entry.parent) BY <1>1, <1>8 DEF Err
<1>9. CASE ~HasEntry(c, e) /\ HasGroup(c, entry.parent)
  <2>1. r.db = d /\ e \notin DOMAIN c.entries BY <1>1, <1>9 DEF Ok, HasEntry
  <2>2. QED BY <1>6, <1>7, <2>1
<1>10. QED BY <1>8, <1>9

\* update_entry
LEMMA UpdateEntryHeld ==
    ASSUME NEW I \in SUBSET Uuid, NEW c \in Content(I), NEW e \in DOMAIN c.entries,
           NEW now \in Time, NEW by \in Devices
    PROVE  OneNewer(c, UpdateEntry(c, e, c.entries[e].parent, now, by).db, now, by)
<1> DEFINE old == c.entries[e]
           past == CreateHistories(old)
           v == [old EXCEPT !.mod = now, !.by = by, !.parent = old.parent, !.history = past]
           d == [c EXCEPT !.entries[e] = v]
<1>1. old \in Entry BY ContentParts
<1>2. /\ past \in Seq(Version)
      /\ ToSet(past) \subseteq ToSet(old.history) \cup {[mod |-> old.mod, by |-> old.by]}
  BY <1>1, CreatedHistories
<1> HIDE DEF past
<1>3. v \in Entry /\ v.mod = now /\ v.by = by /\ v.history = past BY <1>1, <1>2 DEF Entry
<1>4. UpdateEntry(c, e, c.entries[e].parent, now, by).db = d
  BY DEF UpdateEntry, HasEntry, Ok, past
<1>5. ToSet(past) \subseteq Versions(old) BY <1>2 DEF Versions, LastVersion
<1>6. Versions(v) \subseteq Versions(old) \cup {Stamp(now, by)} BY <1>3, <1>5 DEF Versions, LastVersion, Stamp
<1>7. Versions(old) \subseteq Held(c) BY HeldOf
<1> HIDE DEF v
<1>8. /\ DOMAIN d.entries = DOMAIN c.entries /\ d.entries[e] = v
      /\ \A f \in DOMAIN c.entries : f # e => d.entries[f] = c.entries[f]
  BY <1>3, ChangedEntry
<1> HIDE DEF d, old
<1>9. Versions(d.entries[e]) \subseteq Held(c) \cup {Stamp(now, by)} BY <1>6, <1>7, <1>8
<1>10. Held(d) \subseteq Held(c) \cup {Stamp(now, by)} BY <1>8, <1>9, HeldChanged
<1>11. QED BY <1>4, <1>10 DEF OneNewer

\* delete_history_entry_by_index and delete_history_entries
LEMMA ForgetHeld ==
    ASSUME NEW I \in SUBSET Uuid, NEW c \in Content(I), NEW e \in DOMAIN c.entries, NEW i
    PROVE  /\ Held(DeleteHistoryEntry(c, e, i)) \subseteq Held(c)
           /\ Held(DeleteHistoryEntries(c, e)) \subseteq Held(c)
<1> DEFINE old == c.entries[e]
<1>1. old \in Entry BY ContentParts
<1>2. old.history \in Seq(Version) BY <1>1 DEF Entry
<1>3. ASSUME NEW h \in Seq(Version), ToSet(h) \subseteq ToSet(old.history)
      PROVE  Held([c EXCEPT !.entries[e] = [old EXCEPT !.history = h]]) \subseteq Held(c)
  <2> DEFINE v == [old EXCEPT !.history = h]
             d == [c EXCEPT !.entries[e] = v]
  <2>1. v \in Entry /\ v.mod = old.mod /\ v.by = old.by /\ v.history = h BY <1>1, <1>3 DEF Entry
  <2>2. Versions(v) \subseteq Versions(old) BY <1>3, <2>1 DEF Versions, LastVersion
  <2>3. Versions(old) \subseteq Held(c) BY HeldOf
  <2> HIDE DEF v
  <2>4. /\ DOMAIN d.entries = DOMAIN c.entries /\ d.entries[e] = v
        /\ \A f \in DOMAIN c.entries : f # e => d.entries[f] = c.entries[f]
    BY <2>1, ChangedEntry
  <2> HIDE DEF d, old
  <2>5. Versions(d.entries[e]) \subseteq Held(c) \cup {} BY <2>2, <2>3, <2>4
  <2>6. Held(d) \subseteq Held(c) \cup {} BY <2>4, <2>5, HeldChanged
  <2>7. QED BY <2>6 DEF d, v
<1>4. Held(DeleteHistoryEntry(c, e, i)) \subseteq Held(c)
  <2> DEFINE h == Picked(old.history, DOMAIN old.history \ {i}, <)
  <2>1. h \in Seq(Version) /\ ToSet(h) \subseteq ToSet(old.history)
    <3> DEFINE J == DOMAIN old.history \ {i}
    <3>1. J \in SUBSET (DOMAIN old.history) OBVIOUS
    <3>2. {old.history[j] : j \in J} \subseteq ToSet(old.history) BY DEF ToSet
    <3> HIDE DEF J
    <3>3. Picked(old.history, J, <) \in Seq(Version) /\ ToSet(Picked(old.history, J, <)) = {old.history[j] : j \in J}
      BY <1>2, <3>1, PickedAscending
    <3>4. QED BY <3>2, <3>3 DEF J
  <2>2. DeleteHistoryEntry(c, e, i) = [c EXCEPT !.entries[e] = [old EXCEPT !.history = h]]
    BY DEF DeleteHistoryEntry
  <2> HIDE DEF h
  <2>3. QED BY <1>3, <2>1, <2>2
<1>5. Held(DeleteHistoryEntries(c, e)) \subseteq Held(c)
  <2>1. <<>> \in Seq(Version) /\ ToSet(<<>>) \subseteq ToSet(old.history) BY EmptyList
  <2>2. DeleteHistoryEntries(c, e) = [c EXCEPT !.entries[e] = [old EXCEPT !.history = <<>>]]
    BY DEF DeleteHistoryEntries
  <2>3. QED BY <1>3, <2>1, <2>2
<1>6. QED BY <1>4, <1>5

\* move_to_recycle_bin!
LEMMA DiscardHeld ==
    ASSUME NEW I \in SUBSET Uuid, NEW c \in Content(I), NEW x \in Uuid, NEW fresh, c.bin = Nil => fresh \in I,
           NEW now \in Time, NEW by \in Devices
    PROVE  /\ Held(MoveGroupToRecycleBin(c, x, fresh, now, by).db) \subseteq Held(c)
           /\ Held(MoveEntryToRecycleBin(c, x, fresh, now, by).db) \subseteq Held(c)
<1> DEFINE b == WithBin(c, fresh, now, by)
<1>1. b \in Content(I) /\ b.entries = c.entries
  <2>1. /\ b \in Content(I) /\ Kept(c, b, {fresh}) /\ (c.bin # Nil => b = c)
        /\ (c.bin = Nil => b.bin = fresh) /\ b.entries = c.entries
    BY WithBinTyped
  <2>2. QED BY <2>1
<1>2. Held(b) = Held(c) BY <1>1, HeldSame
<1>3. /\ MoveGroupToRecycleBin(c, x, fresh, now, by)
           = IF HasGroup(b, b.bin) THEN MoveGroup(b, x, b.bin, now) ELSE Err(b)
      /\ MoveEntryToRecycleBin(c, x, fresh, now, by)
           = IF HasGroup(b, b.bin) THEN MoveEntry(b, x, b.bin, now) ELSE Err(b)
  BY DEF MoveGroupToRecycleBin, MoveEntryToRecycleBin
<1> HIDE DEF b
<1>4. CASE ~HasGroup(b, b.bin)
  <2>1. Err(b).db = b BY DEF Err
  <2>2. QED BY <1>2, <1>3, <1>4, <2>1
<1>5. CASE HasGroup(b, b.bin)
  <2> DEFINE p == b.bin
             q == MoveGroup(b, x, p, now)
             r == MoveEntry(b, x, p, now)
  <2>1. p \in Uuid
    <3>1. DOMAIN b.groups \in SUBSET I BY <1>1, ContentParts
    <3>2. QED BY <1>5, <3>1 DEF HasGroup
  <2> HIDE DEF p
  <2>2. /\ q \in Result(I) /\ Kept(b, q.db, {})
        /\ q.db.entries = b.entries /\ q.db.bin = b.bin
    BY <1>1, <2>1, MoveGroupTyped
  <2>3. r \in Result(I) /\ Kept(b, r.db, {}) /\ r.db.bin = b.bin /\ SameVersions(b, r.db)
    BY <1>1, <2>1, MoveEntryTyped
  <2>4. MoveGroupToRecycleBin(c, x, fresh, now, by) = q /\ MoveEntryToRecycleBin(c, x, fresh, now, by) = r
    BY <1>3, <1>5 DEF p
  <2> HIDE DEF q, r
  <2>5. Held(q.db) = Held(b) BY <2>2, HeldSame
  <2>6. DOMAIN r.db.entries \subseteq DOMAIN b.entries BY <2>3 DEF Kept
  <2>7. SameVersions(b, r.db) BY <2>3
  <2>8. Held(r.db) \subseteq Held(b) BY <2>6, <2>7, HeldMoved
  <2>9. QED BY <1>2, <2>4, <2>5, <2>8
<1>6. QED BY <1>4, <1>5

\* clone_entry
LEMMA CloneEntryHeld ==
    ASSUME NEW I \in SUBSET Uuid, NEW c \in Content(I), NEW e, NEW p, NEW fresh \in I, NEW keep \in BOOLEAN,
           NEW now \in Time, NEW by \in Devices
    PROVE  OneNewer(c, CloneEntry(c, e, p, fresh, keep, now, by).db, now, by)
<1> DEFINE r == CloneEntry(c, e, p, fresh, keep, now, by)
           old == c.entries[e]
           past == IF keep THEN old.history ELSE <<>>
           v == [old EXCEPT !.parent = p, !.mod = now, !.by = by, !.history = past]
           listed == ListEntry(c, p, fresh)
           d == PutEntry(listed, fresh, v)
<1>1. r = IF ~HasGroup(c, p) \/ ~HasEntry(c, e) THEN Err(c) ELSE Ok(d) BY DEF CloneEntry
<1>2. CASE ~HasGroup(c, p) \/ ~HasEntry(c, e)
  <2>1. r.db = c BY <1>1, <1>2 DEF Err
  <2>2. QED BY <2>1 DEF OneNewer
<1>3. CASE HasGroup(c, p) /\ HasEntry(c, e)
  <2>1. e \in DOMAIN c.entries /\ p \in DOMAIN c.groups BY <1>3 DEF HasEntry, HasGroup
  <2>2. old \in Entry /\ p \in Uuid BY <2>1, ContentParts
  <2>3. past \in Seq(Version) /\ ToSet(past) \subseteq ToSet(old.history)
    <3>1. old.history \in Seq(Version) BY <2>2 DEF Entry
    <3>2. <<>> \in Seq(Version) /\ ToSet(<<>>) = {} BY EmptyList
    <3>3. QED BY <3>1, <3>2
  <2>4. Versions(old) \subseteq Held(c) BY <2>1, HeldOf
  <2> HIDE DEF past
  <2>5. v \in Entry /\ v.mod = now /\ v.by = by /\ v.history = past BY <2>2, <2>3 DEF Entry
  <2>6. Versions(v) \subseteq Held(c) \cup {Stamp(now, by)} BY <2>3, <2>4, <2>5 DEF Versions, LastVersion, Stamp
  <2>7. fresh \in Uuid OBVIOUS
  <2>8. listed \in Content(I) /\ OnlyGroup(c, listed, p) BY <2>7, EntryListed
  <2>9. listed.entries = c.entries BY <2>8 DEF OnlyGroup
  <2> HIDE DEF v, listed
  <2>10. /\ DOMAIN d.entries = DOMAIN listed.entries \cup {fresh} /\ d.entries[fresh] = v
         /\ \A y \in DOMAIN listed.entries : y # fresh => d.entries[y] = listed.entries[y]
    BY <2>5, <2>8, EntryPut
  <2>11. r.db = d BY <1>1, <1>3 DEF Ok
  <2> HIDE DEF d, r, old
  <2>12. /\ DOMAIN d.entries \subseteq DOMAIN c.entries \cup {fresh}
         /\ \A y \in DOMAIN c.entries : y # fresh => d.entries[y] = c.entries[y]
    BY <2>9, <2>10
  <2>13. Versions(d.entries[fresh]) \subseteq Held(c) \cup {Stamp(now, by)} BY <2>6, <2>10
  <2>14. Held(d) \subseteq Held(c) \cup {Stamp(now, by)} BY <2>12, <2>13, HeldChanged
  <2>15. QED BY <2>11, <2>14 DEF OneNewer, r
<1>4. QED BY <1>2, <1>3

\* clone_group: all copies of entries are made now.
LEMMA CloneGroupHeld ==
    ASSUME NEW I \in SUBSET Uuid, NEW c \in Content(I), NEW g \in DOMAIN c.groups, c.groups[g].parent # Nil,
           NEW fresh \in Nat, Handed(fresh, Len(Cloned(c, g))) \subseteq I, NEW now \in Time, NEW by \in Devices
    PROVE  OneNewer(c, CloneGroup(c, g, fresh, now, by).db, now, by)
<1> DEFINE s == Cloned(c, g)
           N == Len(s)
           Fits(d) == OneNewer(c, d, now, by)
<1>1. N \in Nat BY ClonedItems
<1>2. PICK f : /\ Copying(f, c, g, fresh, now, by)
               /\ \A n \in 0 .. N : f[n] \in Result(I)
               /\ CloneGroup(c, g, fresh, now, by) = f[N]
  BY CloneGroupSteps
<1>4. ASSUME NEW n \in 1 .. N, Fits(f[n - 1].db) PROVE Fits(f[n].db)
  <2> DEFINE v == f[n - 1]
             d == v.db
             x == s[n][2]
             p == CopyUuid(c, g, fresh, s[n][1])
             id == fresh + n - 1
             listed == ListGroup(d, p, id)
             group == GroupCopy(c, x, p, now, by)
             put == PutGroup(listed, id, group)
  <2>1. f[n] = IF v.ok THEN CopyStep(c, g, fresh, now, by, d, n) ELSE v BY <1>2 DEF Copying
  <2>2. v \in Result(I) /\ d \in Content(I)
    <3>1. n - 1 \in 0 .. N BY <1>1
    <3>2. v \in Result(I) BY <1>2, <3>1
    <3>3. QED BY <3>2 DEF Result
  <2>3. id \in I /\ id \in Uuid BY <1>1 DEF Handed
  <2>4. CASE ~v.ok BY <1>4, <2>1, <2>4
  <2>5. CASE v.ok
    <3>1. f[n] = CASE HasEntry(c, x) -> CloneEntry(d, x, p, id, FALSE, now, by)
                   [] ~HasEntry(c, x) /\ HasGroup(c, x) -> Ok(put)
                   [] OTHER -> Err(d)
      BY <2>1, <2>5 DEF CopyStep
    <3>2. Fits(d) BY <1>4
    <3>4. CASE HasEntry(c, x)
      <4> DEFINE r == CloneEntry(d, x, p, id, FALSE, now, by)
      <4>1. f[n] = r BY <3>1, <3>4
      <4> HIDE DEF p, id, x, d, s
      <4>2. OneNewer(d, r.db, now, by) BY <2>2, <2>3, CloneEntryHeld
      <4> HIDE DEF r
      <4>3. Fits(r.db) BY <3>2, <4>2 DEF OneNewer
      <4>4. QED BY <4>1, <4>3
    <3>5. CASE ~HasEntry(c, x) /\ HasGroup(c, x)
      <4>1. f[n] = Ok(put) BY <3>1, <3>5
      <4>2. put.entries = d.entries
        <5>1. put.entries = listed.entries BY DEF PutGroup
        <5>2. listed.entries = d.entries BY DEF ListGroup
        <5>3. QED BY <5>1, <5>2
      <4>3. Ok(put).db = put BY DEF Ok
      <4> HIDE DEF put, d
      <4>4. Held(put) = Held(d) BY <4>2, HeldSame
      <4>5. Fits(put) BY <3>2, <4>4 DEF OneNewer
      <4>6. QED BY <4>1, <4>3, <4>5
    <3>6. CASE ~HasEntry(c, x) /\ ~HasGroup(c, x)
      <4>1. f[n] = Err(d) BY <3>1, <3>6
      <4>2. Err(d).db = d BY DEF Err
      <4>3. QED BY <3>2, <4>1, <4>2
    <3>7. QED BY <3>4, <3>5, <3>6
  <2>6. QED BY <2>4, <2>5
<1>5. Fits(f[0].db)
  <2>1. f[0].db = c BY <1>2 DEF Copying, Ok
  <2>2. QED BY <2>1 DEF OneNewer
<1>6. Fits(f[N].db)
  <2> DEFINE S == {n \in Nat : n <= N => Fits(f[n].db)}
  <2> HIDE DEF Fits, N
  <2>1. 0 \in S BY <1>5
  <2>2. ASSUME NEW n \in Nat, n \in S PROVE n + 1 \in S
    <3>1. CASE n + 1 <= N
      <4>1. n + 1 \in 1 .. N /\ (n + 1) - 1 = n /\ n <= N BY <1>1, <3>1
      <4>2. Fits(f[n].db) BY <2>2, <4>1
      <4>3. QED BY <1>4, <4>1, <4>2
    <3>2. QED BY <1>1, <3>1
  <2>3. Nat \subseteq S
    <3> HIDE DEF S
    <3>1. QED BY <2>1, <2>2, AllNumbers
  <2>4. QED BY <1>1, <2>3
<1>7. QED BY <1>2, <1>6

\* A loop that removes leaves no other versions.
LEMMA LoopHeld ==
    ASSUME NEW I, NEW kind \in Kinds, NEW c, NEW s, NEW ids, NEW n, NEW v \in Outcome(I, kind, c, s, ids, n)
    PROVE  Held(v.db) \subseteq Held(c)
<1>1. PICK E : LessBy(kind, c, v.db, E) BY DEF Outcome
<1>2. DOMAIN v.db.entries \subseteq DOMAIN c.entries /\ \A e \in DOMAIN v.db.entries : v.db.entries[e] = c.entries[e]
  <2>1. CASE kind = "entry" BY <1>1, <2>1 DEF LessBy, Removed
  <2>2. CASE kind = "group" BY <1>1, <2>2 DEF LessBy, TakenGroups
  <2>3. CASE kind = "binnedentry" BY <1>1, <2>3 DEF LessBy, TakenEntries
  <2>4. CASE kind = "binnedgroup" BY <1>1, <2>4 DEF LessBy, TakenGroups
  <2>5. QED BY <2>1, <2>2, <2>3, <2>4 DEF Kinds
<1>3. QED BY <1>2, HeldFewer

\* remove_entry_permanently
LEMMA RemoveEntryHeld ==
    ASSUME NEW I \in SUBSET Uuid, NEW c \in Content(I), NEW e, NEW now \in Time
    PROVE  Held(RemoveEntry(c, e, now).db) \subseteq Held(c)
<1> DEFINE r == RemoveEntry(c, e, now)
<1>1. /\ r \in Result(I)
      /\ r.ok <=> e \in DOMAIN c.entries /\ e \in EntriesBelow(c, c.bin)
      /\ IF r.ok THEN Removed(c, r.db, {e}) ELSE r.db = c
  BY RemoveEntryTyped
<1> HIDE DEF r
<1>2. CASE r.ok
  <2>1. Removed(c, r.db, {e}) BY <1>1, <1>2
  <2>2. DOMAIN r.db.entries \subseteq DOMAIN c.entries /\ \A x \in DOMAIN r.db.entries : r.db.entries[x] = c.entries[x]
    BY <2>1 DEF Removed
  <2>3. Held(r.db) \subseteq Held(c) BY <2>2, HeldFewer
  <2>4. QED BY <2>3 DEF r
<1>3. CASE ~r.ok
  <2>1. r.db = c BY <1>1, <1>3
  <2>2. QED BY <2>1 DEF r
<1>4. QED BY <1>2, <1>3

\* remove_group_permanently
LEMMA RemoveGroupHeld ==
    ASSUME NEW I \in SUBSET Uuid, NEW c \in Content(I), NEW g, NEW now \in Time
    PROVE  Held(RemoveGroup(c, g, now).db) \subseteq Held(c)
<1> DEFINE r == RemoveGroup(c, g, now)
           v == EntryLoop(c, Walk(c, g), EntriesBelow(c, g), now)
           w == GroupLoop(v.db, Walk(v.db, g), GroupsBelow(v.db, g), now)
           p == c.groups[g].parent
           d == Bury(UnlistGroup(DropGroup(w.db, g), p, g), g, now)
<1>1. IF g \notin DOMAIN c.groups \/ g \notin GroupsBelow(c, c.bin) THEN r = Err(c)
      ELSE /\ v \in Outcome(I, "entry", c, Walk(c, g), EntriesBelow(c, g), Len(Walk(c, g)))
           /\ IF ~v.ok THEN r = v
              ELSE /\ w \in Outcome(I, "group", v.db, Walk(v.db, g), GroupsBelow(v.db, g), Len(Walk(v.db, g)))
                   /\ IF ~w.ok THEN r = w
                      ELSE IF g \notin DOMAIN w.db.groups THEN r = Err(w.db)
                           ELSE r = Ok(d)
  BY RemoveGroupSteps
<1>2. "entry" \in Kinds /\ "group" \in Kinds BY DEF Kinds
<1>3. Held(d) = Held(w.db)
  <2>1. d.entries = w.db.entries BY DEF Bury, UnlistGroup, DropGroup
  <2> HIDE DEF d, w
  <2>2. QED BY <2>1, HeldSame
<1> HIDE DEF r, d, w, v, p
<1>4. \A x : Ok(x).db = x /\ Err(x).db = x BY DEF Ok, Err
<1>5. CASE g \notin DOMAIN c.groups \/ g \notin GroupsBelow(c, c.bin)
  <2>1. r.db = c BY <1>1, <1>4, <1>5
  <2>2. QED BY <2>1 DEF r
<1>6. CASE ~(g \notin DOMAIN c.groups \/ g \notin GroupsBelow(c, c.bin))
  <2>1. v \in Outcome(I, "entry", c, Walk(c, g), EntriesBelow(c, g), Len(Walk(c, g))) BY <1>1, <1>6
  <2>2. Held(v.db) \subseteq Held(c) BY <1>2, <2>1, LoopHeld
  <2>3. CASE ~v.ok
    <3>1. r = v BY <1>1, <1>6, <2>3
    <3>2. QED BY <2>2, <3>1 DEF r
  <2>4. CASE v.ok
    <3>1. w \in Outcome(I, "group", v.db, Walk(v.db, g), GroupsBelow(v.db, g), Len(Walk(v.db, g)))
      BY <1>1, <1>6, <2>4
    <3>2. Held(w.db) \subseteq Held(v.db) BY <1>2, <3>1, LoopHeld
    <3>3. r = w \/ r = Err(w.db) \/ r = Ok(d) BY <1>1, <1>6, <2>4
    <3>4. Held(r.db) \subseteq Held(w.db) BY <1>3, <1>4, <3>3
    <3>5. QED BY <2>2, <3>2, <3>4 DEF r
  <2>5. QED BY <2>3, <2>4
<1>7. QED BY <1>5, <1>6

\* empty_trash
LEMMA EmptyTrashHeld ==
    ASSUME NEW I \in SUBSET Uuid, NEW c \in Content(I), NEW now \in Time
    PROVE  Held(EmptyTrash(c, now).db) \subseteq Held(c)
<1> DEFINE r == EmptyTrash(c, now)
           v == BinnedEntryLoop(c, Walk(c, c.bin), EntriesBelow(c, c.bin), now)
           w == BinnedGroupLoop(v.db, Walk(v.db, v.db.bin), GroupsBelow(v.db, v.db.bin), now)
           d == Emptied(w.db)
<1>1. IF c.bin \notin DOMAIN c.groups THEN r = Err(c)
      ELSE /\ v \in Outcome(I, "binnedentry", c, Walk(c, c.bin), EntriesBelow(c, c.bin), Len(Walk(c, c.bin)))
           /\ IF ~v.ok THEN r = v
              ELSE /\ w \in Outcome(I, "binnedgroup", v.db, Walk(v.db, v.db.bin),
                                    GroupsBelow(v.db, v.db.bin), Len(Walk(v.db, v.db.bin)))
                   /\ IF ~w.ok THEN r = w
                      ELSE IF w.db.bin \notin DOMAIN w.db.groups THEN r = Err(w.db)
                           ELSE r = Ok(Emptied(w.db))
  BY EmptyTrashSteps
<1>2. "binnedentry" \in Kinds /\ "binnedgroup" \in Kinds BY DEF Kinds
<1>3. Held(d) = Held(w.db)
  <2>1. d.entries = w.db.entries BY DEF Emptied
  <2> HIDE DEF d, w
  <2>2. QED BY <2>1, HeldSame
<1> HIDE DEF r, w, v
<1>4. \A x : Ok(x).db = x /\ Err(x).db = x BY DEF Ok, Err
<1>5. CASE c.bin \notin DOMAIN c.groups
  <2>1. r.db = c BY <1>1, <1>4, <1>5
  <2>2. QED BY <2>1 DEF r
<1>6. CASE c.bin \in DOMAIN c.groups
  <2>1. v \in Outcome(I, "binnedentry", c, Walk(c, c.bin), EntriesBelow(c, c.bin), Len(Walk(c, c.bin))) BY <1>1, <1>6
  <2>2. Held(v.db) \subseteq Held(c) BY <1>2, <2>1, LoopHeld
  <2>3. CASE ~v.ok
    <3>1. r = v BY <1>1, <1>6, <2>3
    <3>2. QED BY <2>2, <3>1 DEF r
  <2>4. CASE v.ok
    <3>1. w \in Outcome(I, "binnedgroup", v.db, Walk(v.db, v.db.bin), GroupsBelow(v.db, v.db.bin), Len(Walk(v.db, v.db.bin)))
      BY <1>1, <1>6, <2>4
    <3>2. Held(w.db) \subseteq Held(v.db) BY <1>2, <3>1, LoopHeld
    <3>3. r = w \/ r = Err(w.db) \/ r = Ok(d) BY <1>1, <1>6, <2>4
    <3> HIDE DEF d
    <3>4. Held(r.db) \subseteq Held(w.db) BY <1>3, <1>4, <3>3
    <3>5. QED BY <2>2, <3>2, <3>4 DEF r
  <2>5. QED BY <2>3, <2>4
<1>7. QED BY <1>5, <1>6

\* A call on one copy that makes one version at most, now and on that device.
EditCall(d, at) ==
    \E op, n, r : op # "merge" /\ Call(d, op, at, r, n) /\ OneNewer(db[d], r.db, at, d)

\* What makes no version at all.
LEMMA NoneNewer ==
    ASSUME NEW c, NEW d, NEW now, NEW by, Held(d) \subseteq Held(c)
    PROVE  OneNewer(c, d, now, by)
BY DEF OneNewer

\* insert_group and insert_entry are such calls.
LEMMA AddHeld ==
    ASSUME Contents, NEW d \in Devices, NEW at \in Time, AddGroup(d, at) \/ AddEntry(d, at)
    PROVE  EditCall(d, at)
<1> DEFINE I == Known(unused + 1)
           c == db[d]
<1>0. unused + 1 <= MaxUuid + 1 BY DEF AddGroup, AddEntry, Call
<1>1. I \in SUBSET Uuid /\ c \in Content(I) /\ unused \in I /\ DOMAIN c.groups \subseteq Uuid BY <1>0, NewUuids
<1> HIDE DEF I
<1>2. ASSUME AddGroup(d, at) PROVE EditCall(d, at)
  <2>1. PICK p \in DOMAIN c.groups :
           Call(d, "insert_group", at, InsertGroup(c, unused, NewGroup(p, at, d)), 1)
    BY <1>2 DEF AddGroup
  <2> DEFINE r == InsertGroup(c, unused, NewGroup(p, at, d))
  <2>2. r.db.entries = c.entries BY DEF InsertGroup, Ok, Err, PutGroup, ListGroup
  <2> HIDE DEF r, c
  <2>3. Held(r.db) = Held(c) BY <2>2, HeldSame
  <2>4. OneNewer(c, r.db, at, d) BY <2>3, NoneNewer
  <2>5. QED BY <2>1, <2>4 DEF EditCall, r, c
<1>3. ASSUME AddEntry(d, at) PROVE EditCall(d, at)
  <2>1. PICK p \in DOMAIN c.groups :
           Call(d, "insert_entry", at, InsertEntry(c, unused, NewEntry(p, at, d)), 1)
    BY <1>3 DEF AddEntry
  <2> DEFINE entry == NewEntry(p, at, d)
             r == InsertEntry(c, unused, entry)
  <2>2. entry \in Entry BY <1>1, NewTyped
  <2>3. Versions(entry) = {Stamp(at, d)}
    <3>1. ToSet(entry.history) = {} BY EmptyList DEF NewEntry
    <3>2. LastVersion(entry) = Stamp(at, d) BY DEF NewEntry, LastVersion, Stamp
    <3>3. QED BY <3>1, <3>2 DEF Versions
  <2> HIDE DEF entry, c
  <2>4. /\ Held(r.db) \subseteq Held(c) \cup Versions(entry)
        /\ r.ok => unused \notin DOMAIN c.entries /\ r.db.entries[unused] = entry
    BY <1>1, <2>2, InsertEntryHeld
  <2> HIDE DEF r
  <2>5. OneNewer(c, r.db, at, d) BY <2>3, <2>4 DEF OneNewer
  <2>6. QED BY <2>1, <2>5 DEF EditCall, r, entry, c
<1>4. QED BY <1>2, <1>3

\* So are those that edit a group or an entry, forget versions or sort.
LEMMA EditHeld ==
    ASSUME Contents, NEW d \in Devices, NEW at \in Time,
           EditGroup(d, at) \/ EditEntry(d, at) \/ ForgetVersions(d, at) \/ SortGroups(d, at)
    PROVE  EditCall(d, at)
<1> DEFINE I == Known(unused + 0)
           c == db[d]
<1>0. unused + 0 <= MaxUuid + 1 BY DEF Contents
<1>1. I \in SUBSET Uuid /\ c \in Content(I) BY <1>0, NewUuids
<1> HIDE DEF I, c
<1>2. ASSUME NEW op, op # "merge", NEW b, Held(b) \subseteq Held(c), Call(d, op, at, Ok(b), 0)
      PROVE  EditCall(d, at)
  <2>1. Ok(b).db = b BY DEF Ok
  <2>2. OneNewer(c, Ok(b).db, at, d) BY <1>2, <2>1, NoneNewer
  <2>3. QED BY <1>2, <2>2 DEF EditCall, c
<1>3. ASSUME EditGroup(d, at) PROVE EditCall(d, at)
  <2>1. PICK g \in DOMAIN c.groups : Call(d, "update_group", at, Ok(UpdateGroup(c, g, at, d)), 0)
    BY <1>3 DEF EditGroup, c
  <2> DEFINE b == UpdateGroup(c, g, at, d)
  <2>2. b.entries = c.entries BY DEF UpdateGroup
  <2> HIDE DEF b
  <2>3. Held(b) \subseteq Held(c) BY <2>2, HeldSame
  <2>4. QED BY <1>2, <2>1, <2>3 DEF b
<1>4. ASSUME EditEntry(d, at) PROVE EditCall(d, at)
  <2>1. PICK e \in DOMAIN c.entries :
           Call(d, "update_entry", at, UpdateEntry(c, e, c.entries[e].parent, at, d), 0)
    BY <1>4 DEF EditEntry, c
  <2> DEFINE r == UpdateEntry(c, e, c.entries[e].parent, at, d)
  <2>2. OneNewer(c, r.db, at, d) BY <1>1, UpdateEntryHeld
  <2> HIDE DEF r
  <2>3. QED BY <2>1, <2>2 DEF EditCall, r, c
<1>5. ASSUME ForgetVersions(d, at) PROVE EditCall(d, at)
  <2>1. PICK e \in DOMAIN c.entries :
           \/ \E i \in DOMAIN c.entries[e].history :
                 Call(d, "delete_history_entry_by_index", at, Ok(DeleteHistoryEntry(c, e, i)), 0)
           \/ Call(d, "delete_history_entries", at, Ok(DeleteHistoryEntries(c, e)), 0)
    BY <1>5 DEF ForgetVersions, c
  <2>2. ASSUME NEW i, Call(d, "delete_history_entry_by_index", at, Ok(DeleteHistoryEntry(c, e, i)), 0)
        PROVE  EditCall(d, at)
    <3>1. Held(DeleteHistoryEntry(c, e, i)) \subseteq Held(c) BY <1>1, ForgetHeld
    <3>2. QED BY <1>2, <2>2, <3>1
  <2>3. ASSUME Call(d, "delete_history_entries", at, Ok(DeleteHistoryEntries(c, e)), 0)
        PROVE  EditCall(d, at)
    <3>1. Held(DeleteHistoryEntries(c, e)) \subseteq Held(c) BY <1>1, ForgetHeld
    <3>2. QED BY <1>2, <2>3, <3>1
  <2>4. QED BY <2>1, <2>2, <2>3
<1>6. ASSUME SortGroups(d, at) PROVE EditCall(d, at)
  <2>1. PICK g \in DOMAIN c.groups, criteria \in {"AtoZ", "ZtoA"} :
           Call(d, "sort_sub_groups", at, SortSubGroups(c, g, criteria), 0)
    BY <1>6 DEF SortGroups, c
  <2> DEFINE r == SortSubGroups(c, g, criteria)
  <2>2. r.db.entries = c.entries BY DEF SortSubGroups, Ok, Err
  <2> HIDE DEF r
  <2>3. OneNewer(c, r.db, at, d) BY <2>2, HeldSame, NoneNewer
  <2>4. QED BY <2>1, <2>3 DEF EditCall, r, c
<1>7. QED BY <1>3, <1>4, <1>5, <1>6

\* So are clone_entry and clone_group.
LEMMA CopyHeld ==
    ASSUME Contents, NEW d \in Devices, NEW at \in Time, CopyEntry(d, at) \/ CopyGroup(d, at)
    PROVE  EditCall(d, at)
<1> DEFINE c == db[d]
<1>1. ASSUME CopyEntry(d, at) PROVE EditCall(d, at)
  <2> DEFINE I == Known(unused + 1)
  <2>0. unused + 1 <= MaxUuid + 1 BY <1>1 DEF CopyEntry, Call
  <2>1. I \in SUBSET Uuid /\ c \in Content(I) /\ unused \in I BY <2>0, NewUuids
  <2>2. PICK e \in DOMAIN c.entries, p \in DOMAIN c.groups, keep \in BOOLEAN :
           Call(d, "clone_entry", at, CloneEntry(c, e, p, unused, keep, at, d), 1)
    BY <1>1 DEF CopyEntry
  <2> DEFINE r == CloneEntry(c, e, p, unused, keep, at, d)
  <2> HIDE DEF I, c
  <2>3. OneNewer(c, r.db, at, d) BY <2>1, CloneEntryHeld
  <2> HIDE DEF r
  <2>4. QED BY <2>2, <2>3 DEF EditCall, r, c
<1>2. ASSUME CopyGroup(d, at) PROVE EditCall(d, at)
  <2>1. PICK g \in DOMAIN c.groups :
           Call(d, "clone_group", at, CloneGroup(c, g, unused, at, d), FreshFor(c, g))
    BY <1>2 DEF CopyGroup
  <2> DEFINE n == FreshFor(c, g)
             I == Known(unused + n)
             r == CloneGroup(c, g, unused, at, d)
  <2>2. unused + n <= MaxUuid + 1 BY <2>1 DEF Call
  <2>3. n \in Nat
    <3>1. Known(unused) \in SUBSET Uuid /\ c \in Content(Known(unused))
      BY UuidsAssumption DEF Contents, Known, Uuid
    <3>2. QED BY <3>1, FreshUuids
  <2> HIDE DEF n
  <2>4. /\ I \in SUBSET Uuid /\ c \in Content(I) /\ Handed(unused, n) \subseteq I /\ unused \in Nat
    BY <2>2, <2>3, NewUuids
  <2>5. n = Len(Cloned(c, g)) BY DEF n, FreshFor, HasGroup
  <2> HIDE DEF I, c
  <2>6. OneNewer(c, r.db, at, d)
    <3>1. CASE c.groups[g].parent = Nil
      <4>1. r.db = c BY <3>1 DEF CloneGroup, Err
      <4> HIDE DEF r
      <4>2. QED BY <4>1, NoneNewer
    <3>2. CASE c.groups[g].parent # Nil
      <4>1. Handed(unused, Len(Cloned(c, g))) \subseteq I BY <2>4, <2>5
      <4>2. QED BY <2>4, <3>2, <4>1, CloneGroupHeld
    <3>3. QED BY <3>1, <3>2
  <2> HIDE DEF r
  <2>7. QED BY <2>1, <2>6 DEF EditCall, r, c
<1>3. QED BY <1>1, <1>2

\* So are move_group and move_entry.
LEMMA RelocateHeld ==
    ASSUME Contents, NEW d \in Devices, NEW at \in Time, Relocate(d, at)
    PROVE  EditCall(d, at)
<1> DEFINE I == Known(unused + 0)
           c == db[d]
<1>0. unused + 0 <= MaxUuid + 1 BY DEF Contents
<1>1. /\ I \in SUBSET Uuid /\ c \in Content(I)
      /\ DOMAIN c.groups \subseteq Uuid /\ DOMAIN c.entries \subseteq Uuid
  BY <1>0, NewUuids
<1> HIDE DEF I, c
<1>2. ASSUME NEW g \in DOMAIN c.groups, NEW p \in DOMAIN c.groups,
             Call(d, "move_group", at, MoveGroup(c, g, p, at), 0)
      PROVE  EditCall(d, at)
  <2> DEFINE r == MoveGroup(c, g, p, at)
  <2>1. g \in Uuid /\ p \in Uuid BY <1>1
  <2>2. r \in Result(I) /\ Kept(c, r.db, {}) /\ r.db.entries = c.entries /\ r.db.bin = c.bin
    BY <1>1, <2>1, MoveGroupTyped
  <2> HIDE DEF r
  <2>3. OneNewer(c, r.db, at, d) BY <2>2, HeldSame, NoneNewer
  <2>4. QED BY <1>2, <2>3 DEF EditCall, r, c
<1>3. ASSUME NEW e \in DOMAIN c.entries, NEW p \in DOMAIN c.groups,
             Call(d, "move_entry", at, MoveEntry(c, e, p, at), 0)
      PROVE  EditCall(d, at)
  <2> DEFINE r == MoveEntry(c, e, p, at)
  <2>1. e \in Uuid /\ p \in Uuid BY <1>1
  <2>2. r \in Result(I) /\ Kept(c, r.db, {}) /\ r.db.bin = c.bin /\ SameVersions(c, r.db)
    BY <1>1, <2>1, MoveEntryTyped
  <2> HIDE DEF r
  <2>3. DOMAIN r.db.entries \subseteq DOMAIN c.entries BY <2>2 DEF Kept
  <2>4. SameVersions(c, r.db) BY <2>2
  <2>5. OneNewer(c, r.db, at, d) BY <2>3, <2>4, HeldMoved, NoneNewer
  <2>6. QED BY <1>3, <2>5 DEF EditCall, r, c
<1>4. QED BY <1>2, <1>3 DEF Relocate, c

\* So are the moves to the recycle bin.
LEMMA DiscardedHeld ==
    ASSUME Contents, NEW d \in Devices, NEW at \in Time, Discard(d, at)
    PROVE  EditCall(d, at)
<1> DEFINE n == ForBin(d)
           I == Known(unused + n)
           c == db[d]
<1>0. unused + n <= MaxUuid + 1 /\ n \in Nat BY DEF Discard, Call, ForBin
<1> HIDE DEF n
<1>1. /\ I \in SUBSET Uuid /\ c \in Content(I) /\ Handed(unused, n) \subseteq I
      /\ Handed(unused, 1) = {unused}
      /\ DOMAIN c.groups \subseteq Uuid /\ DOMAIN c.entries \subseteq Uuid
  BY <1>0, NewUuids
<1>2. c.bin = Nil => n = 1 BY DEF n, ForBin
<1> HIDE DEF I
<1>3. c.bin = Nil => unused \in I
  <2> HIDE DEF c
  <2>1. QED BY <1>1, <1>2
<1>4. ASSUME NEW x, x \in DOMAIN c.groups \cup DOMAIN c.entries
      PROVE  /\ OneNewer(c, MoveGroupToRecycleBin(c, x, unused, at, d).db, at, d)
             /\ OneNewer(c, MoveEntryToRecycleBin(c, x, unused, at, d).db, at, d)
  <2>1. x \in Uuid BY <1>1, <1>4
  <2> HIDE DEF c
  <2>2. /\ Held(MoveGroupToRecycleBin(c, x, unused, at, d).db) \subseteq Held(c)
        /\ Held(MoveEntryToRecycleBin(c, x, unused, at, d).db) \subseteq Held(c)
    BY <1>1, <1>3, <2>1, DiscardHeld
  <2>3. QED BY <2>2, NoneNewer
<1>5. ASSUME NEW g \in DOMAIN c.groups,
             Call(d, "move_group_to_recycle_bin", at, MoveGroupToRecycleBin(c, g, unused, at, d), n)
      PROVE  EditCall(d, at)
  BY <1>4, <1>5 DEF EditCall
<1>6. ASSUME NEW e \in DOMAIN c.entries,
             Call(d, "move_entry_to_recycle_bin", at, MoveEntryToRecycleBin(c, e, unused, at, d), n)
      PROVE  EditCall(d, at)
  BY <1>4, <1>6 DEF EditCall
<1>7. QED BY <1>5, <1>6 DEF Discard, n

\* So are those that remove for good.
LEMMA DeleteHeld ==
    ASSUME Contents, NEW d \in Devices, NEW at \in Time, Delete(d, at)
    PROVE  EditCall(d, at)
<1> DEFINE I == Known(unused + 0)
           c == db[d]
<1>0. unused + 0 <= MaxUuid + 1 BY DEF Contents
<1>1. I \in SUBSET Uuid /\ c \in Content(I) BY <1>0, NewUuids
<1> HIDE DEF I, c
<1>2. ASSUME NEW op, op # "merge", NEW r, Call(d, op, at, r, 0), Held(r.db) \subseteq Held(c)
      PROVE  EditCall(d, at)
  BY <1>2, NoneNewer DEF EditCall, c
<1>3. ASSUME NEW g, Call(d, "remove_group_permanently", at, RemoveGroup(c, g, at), 0)
      PROVE  EditCall(d, at)
  <2>1. Held(RemoveGroup(c, g, at).db) \subseteq Held(c) BY <1>1, RemoveGroupHeld
  <2>2. QED BY <1>2, <1>3, <2>1
<1>4. ASSUME NEW e, Call(d, "remove_entry_permanently", at, RemoveEntry(c, e, at), 0)
      PROVE  EditCall(d, at)
  <2>1. Held(RemoveEntry(c, e, at).db) \subseteq Held(c) BY <1>1, RemoveEntryHeld
  <2>2. QED BY <1>2, <1>4, <2>1
<1>5. ASSUME Call(d, "empty_trash", at, EmptyTrash(c, at), 0)
      PROVE  EditCall(d, at)
  <2>1. Held(EmptyTrash(c, at).db) \subseteq Held(c) BY <1>1, EmptyTrashHeld
  <2>2. QED BY <1>2, <1>5, <2>1
<1>6. QED BY <1>3, <1>4, <1>5 DEF Delete, c

-----------------------------------------------------------------------------
(* The versions a merge keeps                                              *)

\* There is one version of each time.
OnePerTime(V) == \A v, w \in V : v.mod = w.mod => v = w

\* Without a limit and with one version of each time, merge_histories keeps the
\* history of the one entry and all versions of the other.
LEMMA MergedAll ==
    ASSUME HistoryMaxItems < 0, NEW to \in Entry, NEW from \in Entry,
           OnePerTime(Versions(to) \cup Versions(from))
    PROVE  MergedHistory(to, from) \in Seq(Version)
           /\ ToSet(MergedHistory(to, from)) = ToSet(to.history) \cup Versions(from)
<1> DEFINE merged == MergedHistory(to, from)
           all == AllVersions(to, from)
<1>1. ToSet(CreateHistories(from)) = Versions(from) BY CreatedHistories DEF Versions, LastVersion
<1>2. all \in Seq(Version) /\ ToSet(all) = ToSet(to.history) \cup ToSet(CreateHistories(from)) BY AllVersionsOf
<1>3. /\ merged \in Seq(Version) /\ ToSet(merged) \subseteq ToSet(all)
      /\ \A v \in ToSet(all) : \E w \in ToSet(merged) : w.mod = v.mod
  BY MergedVersions
<1>4. ToSet(all) \subseteq Versions(to) \cup Versions(from) BY <1>1, <1>2 DEF Versions
<1> HIDE DEF merged, all
<1>5. ASSUME NEW v \in ToSet(all) PROVE v \in ToSet(merged)
  <2>1. PICK w \in ToSet(merged) : w.mod = v.mod BY <1>3
  <2>2. w = v BY <1>3, <1>4, <2>1 DEF OnePerTime
  <2>3. QED BY <2>1, <2>2
<1>6. ToSet(merged) = ToSet(all) BY <1>3, <1>5
<1>7. QED BY <1>1, <1>2, <1>3, <1>6 DEF merged

\* No entry goes and none loses a version.
VersionsStay(c, d) ==
    \A e \in DOMAIN c.entries : e \in DOMAIN d.entries /\ Versions(c.entries[e]) \subseteq Versions(d.entries[e])

\* What comes is from the source.
Gathered(s, c, d) == Held(d) \subseteq Held(s) \cup Held(c) /\ VersionsStay(c, d)

\* A target that has not changed has gathered nothing.
LEMMA GatheredNot ==
    ASSUME NEW s, NEW c, NEW d, d.entries = c.entries
    PROVE  Gathered(s, c, d)
<1>1. Held(d) = Held(c) BY HeldSame
<1>2. QED BY <1>1 DEF Gathered, VersionsStay

\* What has gathered twice has gathered.
LEMMA GatheredAgain ==
    ASSUME NEW s, NEW c, NEW d, NEW b, Gathered(s, c, d), Gathered(s, d, b)
    PROVE  Gathered(s, c, b)
<1>1. Held(b) \subseteq Held(s) \cup Held(c) BY DEF Gathered
<1>2. VersionsStay(c, b) BY DEF Gathered, VersionsStay
<1>3. QED BY <1>1, <1>2 DEF Gathered

\* Fewer versions are one of each time as well.
LEMMA OneStays ==
    ASSUME NEW V, OnePerTime(V), NEW U, U \subseteq V
    PROVE  OnePerTime(U)
BY DEF OnePerTime

\* One entry gets more versions, all of them from the two sides.
LEMMA GatheredOne ==
    ASSUME NEW s, NEW c, NEW d, NEW e \in DOMAIN c.entries, DOMAIN d.entries = DOMAIN c.entries,
           \A x \in DOMAIN c.entries : x # e => d.entries[x] = c.entries[x],
           Versions(c.entries[e]) \subseteq Versions(d.entries[e]),
           Versions(d.entries[e]) \subseteq Held(s) \cup Held(c)
    PROVE  Gathered(s, c, d)
<1>1. DOMAIN d.entries \subseteq DOMAIN c.entries \cup {e} OBVIOUS
<1>2. Versions(d.entries[e]) \subseteq Held(c) \cup Held(s) OBVIOUS
<1> DEFINE V == Held(s)
<1> HIDE DEF V
<1>3. Versions(d.entries[e]) \subseteq Held(c) \cup V BY <1>2 DEF V
<1>4. Held(d) \subseteq Held(c) \cup V BY <1>1, <1>3, HeldChanged
<1>5. VersionsStay(c, d)
  <2>1. ASSUME NEW x \in DOMAIN c.entries PROVE Versions(c.entries[x]) \subseteq Versions(d.entries[x])
    <3>1. CASE x = e BY <3>1
    <3>2. CASE x # e
      <4>1. d.entries[x] = c.entries[x] BY <3>2
      <4>2. QED BY <4>1
    <3>3. QED BY <3>1, <3>2
  <2>2. QED BY <2>1 DEF VersionsStay
<1>6. QED BY <1>4, <1>5 DEF Gathered, V

\* merge_entry
LEMMA MergeEntryHeld ==
    ASSUME HistoryMaxItems < 0, NEW I \in SUBSET Uuid, NEW s \in Content(I), NEW c \in Content(I),
           NEW e \in DOMAIN s.entries, e \in DOMAIN c.entries, OnePerTime(Held(s) \cup Held(c))
    PROVE  LET d == MergeEntry(s, c, e)
           IN  Gathered(s, c, d) /\ LastVersion(s.entries[e]) \in Versions(d.entries[e])
<1> DEFINE d == MergeEntry(s, c, e)
           x == s.entries[e]
           t == c.entries[e]
           found == \E i \in DOMAIN t.history : t.history[i].mod = x.mod
           newer == [x EXCEPT !.history = MergedHistory(x, t)]
           older == [t EXCEPT !.history = MergedHistory(t, x)]
           taken == [c EXCEPT !.entries[e] = newer]
           joined == [c EXCEPT !.entries[e] = older]
<1>1. x \in Entry /\ t \in Entry BY ContentParts
<1>2. d = CASE x.mod = t.mod -> c
            [] IsNewer(x.mod, t.mod) -> taken
            [] OTHER -> IF found THEN c ELSE joined
  <2>1. joined = [c EXCEPT !.entries[e].history = MergedHistory(t, x)] OBVIOUS
  <2>2. d = CASE x.mod = t.mod -> c
              [] IsNewer(x.mod, t.mod) -> taken
              [] OTHER -> IF found THEN c ELSE [c EXCEPT !.entries[e].history = MergedHistory(t, x)]
    BY DEF MergeEntry
  <2> HIDE DEF d, taken, joined, x, t, found
  <2>3. QED BY <2>1, <2>2
<1>3. Versions(x) \subseteq Held(s) /\ Versions(t) \subseteq Held(c) BY HeldOf
<1> HIDE DEF d, x, t
<1>4. OnePerTime(Versions(x) \cup Versions(t)) /\ OnePerTime(Versions(t) \cup Versions(x))
  <2>1. Versions(x) \cup Versions(t) \subseteq Held(s) \cup Held(c) /\ Versions(t) \cup Versions(x) \subseteq Held(s) \cup Held(c)
    BY <1>3
  <2>2. QED BY <2>1, OneStays
<1>5. /\ MergedHistory(x, t) \in Seq(Version) /\ ToSet(MergedHistory(x, t)) = ToSet(x.history) \cup Versions(t)
      /\ MergedHistory(t, x) \in Seq(Version) /\ ToSet(MergedHistory(t, x)) = ToSet(t.history) \cup Versions(x)
  BY <1>1, <1>4, MergedAll
<1>6. /\ newer \in Entry /\ newer.mod = x.mod /\ newer.by = x.by /\ newer.history = MergedHistory(x, t)
      /\ older \in Entry /\ older.mod = t.mod /\ older.by = t.by /\ older.history = MergedHistory(t, x)
  BY <1>1, <1>5 DEF Entry
<1> HIDE DEF newer, older
<1>7. Versions(newer) = Versions(x) \cup Versions(t) /\ Versions(older) = Versions(x) \cup Versions(t)
  BY <1>5, <1>6 DEF Versions, LastVersion
<1>8. LastVersion(x) \in Versions(x) BY DEF Versions
<1>9. CASE d = c /\ \E v \in Versions(t) : v.mod = x.mod
  <2>1. PICK v \in Versions(t) : v.mod = x.mod BY <1>9
  <2>2. v = LastVersion(x)
    <3>1. LastVersion(x).mod = x.mod BY DEF LastVersion
    <3>2. v \in Versions(x) \cup Versions(t) /\ LastVersion(x) \in Versions(x) \cup Versions(t) BY <1>8, <2>1
    <3>3. QED BY <1>4, <2>1, <3>1, <3>2 DEF OnePerTime
  <2>3. Gathered(s, c, d) BY <1>9, GatheredNot
  <2>4. d.entries[e] = t BY <1>9 DEF t
  <2>5. QED BY <2>1, <2>2, <2>3, <2>4 DEF d, x
<1>10. ASSUME NEW v \in Entry, Versions(v) = Versions(x) \cup Versions(t), d = [c EXCEPT !.entries[e] = v]
       PROVE  Gathered(s, c, d) /\ LastVersion(x) \in Versions(d.entries[e])
  <2> DEFINE b == [c EXCEPT !.entries[e] = v]
  <2>1. /\ b \in Content(I) /\ DOMAIN b.entries = DOMAIN c.entries /\ b.entries[e] = v
        /\ \A f \in DOMAIN c.entries : f # e => b.entries[f] = c.entries[f]
        /\ b.groups = c.groups /\ b.bin = c.bin /\ b.deleted = c.deleted
    BY ChangedEntry
  <2>2. d = b BY <1>10
  <2> HIDE DEF b
  <2>3. Versions(c.entries[e]) \subseteq Versions(b.entries[e]) BY <1>10, <2>1 DEF t
  <2>4. Versions(b.entries[e]) \subseteq Held(s) \cup Held(c) BY <1>3, <1>10, <2>1
  <2>5. Gathered(s, c, b) BY <2>1, <2>3, <2>4, GatheredOne
  <2>6. QED BY <1>8, <1>10, <2>1, <2>2, <2>5
<1>11. CASE d = taken
  <2>1. Gathered(s, c, d) /\ LastVersion(x) \in Versions(d.entries[e]) BY <1>6, <1>7, <1>10, <1>11
  <2>2. QED BY <2>1 DEF d, x
<1>12. CASE d = joined
  <2>1. Gathered(s, c, d) /\ LastVersion(x) \in Versions(d.entries[e]) BY <1>6, <1>7, <1>10, <1>12
  <2>2. QED BY <2>1 DEF d, x
<1>13. \/ d = c /\ \E v \in Versions(t) : v.mod = x.mod
       \/ d = taken \/ d = joined
  <2> HIDE DEF taken, joined
  <2>1. CASE x.mod = t.mod
    <3>1. ~IsNewer(x.mod, t.mod) BY <1>1, <2>1, UuidsAssumption DEF IsNewer, Entry, Time
    <3>2. d = c BY <1>2, <2>1, <3>1
    <3>3. LastVersion(t) \in Versions(t) /\ LastVersion(t).mod = x.mod BY <2>1 DEF Versions, LastVersion
    <3>4. QED BY <3>2, <3>3
  <2>2. CASE x.mod # t.mod /\ IsNewer(x.mod, t.mod) BY <1>2, <2>2
  <2>3. CASE x.mod # t.mod /\ ~IsNewer(x.mod, t.mod)
    <3>1. CASE found
      <4>1. d = c BY <1>2, <2>3, <3>1
      <4>2. PICK i \in DOMAIN t.history : t.history[i].mod = x.mod BY <3>1
      <4>3. t.history[i] \in Versions(t) BY <4>2 DEF Versions, ToSet
      <4>4. QED BY <4>1, <4>2, <4>3
    <3>2. CASE ~found BY <1>2, <2>3, <3>2
    <3>3. QED BY <3>1, <3>2
  <2>4. QED BY <2>1, <2>2, <2>3
<1>14. QED BY <1>9, <1>11, <1>12, <1>13

\* merge_groups for one group changes no entry.
LEMMA MergeChildGroupEntries ==
    ASSUME NEW s, NEW c, NEW g, NEW now
    PROVE  MergeChildGroup(s, c, g, now).db.entries = c.entries
<1> DEFINE r == MergeChildGroup(s, c, g, now)
           x == s.groups[g]
           t == c.groups[g]
           new == [x EXCEPT !.subs = <<>>, !.entries = <<>>]
           moved == IF IsNewer(x.moved, t.moved) /\ x.parent # t.parent
                    THEN MoveGroup(c, g, x.parent, now) ELSE Ok(c)
<1>1. r.db.entries = c.entries
  <2>1. CASE ~HasGroup(s, g) BY <2>1 DEF MergeChildGroup, Err
  <2>2. CASE HasGroup(s, g) /\ ~HasGroup(c, g)
    <3>1. r = IF g = s.bin THEN Ok(c) ELSE InsertGroup(c, g, new) BY <2>2 DEF MergeChildGroup
    <3>2. Ok(c).db.entries = c.entries BY DEF Ok
    <3>3. InsertGroup(c, g, new).db.entries = c.entries BY DEF InsertGroup, Ok, Err, PutGroup, ListGroup
    <3>4. QED BY <3>1, <3>2, <3>3
  <2>3. CASE HasGroup(s, g) /\ HasGroup(c, g)
    <3>1. r = IF moved.ok THEN Ok(MergeGroup(s, moved.db, g)) ELSE moved
      BY <2>3 DEF MergeChildGroup, AndThen
    <3>2. moved.db.entries = c.entries
      <4>1. Ok(c).db.entries = c.entries BY DEF Ok
      <4>2. MoveGroup(c, g, x.parent, now).db.entries = c.entries
        BY DEF MoveGroup, Ok, Err, ListGroup, UnlistGroup
      <4>3. QED BY <4>1, <4>2
    <3> HIDE DEF moved
    <3>3. Ok(MergeGroup(s, moved.db, g)).db.entries = moved.db.entries
      BY DEF Ok, MergeGroup, TakeGroupFields
    <3>4. QED BY <3>1, <3>2, <3>3
  <2>4. QED BY <2>1, <2>2, <2>3
<1>2. QED BY <1>1

\* merge_groups for one group
LEMMA MergeChildGroupHeld ==
    ASSUME NEW I \in SUBSET Uuid, NEW s \in Content(I), NEW c \in Content(I), NEW g \in Uuid, NEW now \in Time
    PROVE  Gathered(s, c, MergeChildGroup(s, c, g, now).db)
<1> DEFINE d == MergeChildGroup(s, c, g, now).db
<1>1. d.entries = c.entries BY MergeChildGroupEntries
<1> HIDE DEF d
<1>2. Gathered(s, c, d) BY <1>1, GatheredNot
<1>3. QED BY <1>2 DEF d

\* merge_entries for one entry: its last version arrives.
LEMMA MergeChildEntryHeld ==
    ASSUME HistoryMaxItems < 0, NEW I \in SUBSET Uuid, NEW s \in Content(I), NEW c \in Content(I),
           NEW e \in DOMAIN s.entries, NEW now \in Time, OnePerTime(Held(s) \cup Held(c))
    PROVE  LET r == MergeChildEntry(s, c, e, now)
           IN  Gathered(s, c, r.db) /\ (r.ok => LastVersion(s.entries[e]) \in Versions(r.db.entries[e]))
<1> DEFINE r == MergeChildEntry(s, c, e, now)
           x == s.entries[e]
           moved == IF IsNewer(x.moved, c.entries[e].moved) /\ x.parent # c.entries[e].parent
                    THEN MoveEntry(c, e, x.parent, now) ELSE Ok(c)
<1>0. x \in Entry /\ e \in I /\ e \in Uuid BY ContentParts
<1>a. Versions(x) \subseteq Held(s) /\ LastVersion(x) \in Versions(x) BY HeldOf DEF Versions
<1>1. CASE ~HasEntry(c, e)
  <2> DEFINE q == InsertEntry(c, e, x)
  <2>1. r = q BY <1>1 DEF MergeChildEntry
  <2>2. /\ Held(q.db) \subseteq Held(c) \cup Versions(x)
        /\ q.ok => e \notin DOMAIN c.entries /\ q.db.entries[e] = x
    BY <1>0, InsertEntryHeld
  <2>3. /\ q \in Result(I) /\ Kept(c, q.db, {e}) /\ q.db.bin = c.bin
        /\ \A y \in DOMAIN c.entries : q.db.entries[y] = c.entries[y]
        /\ q.ok => e \in DOMAIN q.db.entries
    BY <1>0, InsertEntryTyped
  <2> HIDE DEF q, r
  <2>4. Held(q.db) \subseteq Held(s) \cup Held(c) BY <1>a, <2>2
  <2>5. VersionsStay(c, q.db) BY <2>3 DEF VersionsStay, Kept
  <2>6. Gathered(s, c, q.db) BY <2>4, <2>5 DEF Gathered
  <2>7. q.ok => LastVersion(x) \in Versions(q.db.entries[e]) BY <1>a, <2>2
  <2>8. QED BY <2>1, <2>6, <2>7 DEF r
<1>2. CASE HasEntry(c, e)
  <2>1. r = IF moved.ok THEN Ok(MergeEntry(s, moved.db, e)) ELSE moved BY <1>2 DEF MergeChildEntry, AndThen
  <2>2. moved \in Result(I) /\ DOMAIN moved.db.entries = DOMAIN c.entries /\ SameVersions(c, moved.db)
    <3> DEFINE q == MoveEntry(c, e, x.parent, now)
    <3>1. CASE moved = Ok(c)
      <4>1. Ok(c) \in Result(I) /\ Ok(c).db = c BY Results
      <4>2. QED BY <3>1, <4>1 DEF SameVersions
    <3>2. CASE moved # Ok(c)
      <4>1. moved = q BY <3>2
      <4>2. x.parent \in Uuid BY <1>0 DEF Entry
      <4>3. q \in Result(I) /\ Kept(c, q.db, {}) /\ q.db.bin = c.bin /\ SameVersions(c, q.db)
        BY <1>0, <4>2, MoveEntryTyped
      <4> HIDE DEF q, moved
      <4>4. DOMAIN q.db.entries = DOMAIN c.entries BY <4>3 DEF Kept
      <4>5. QED BY <4>1, <4>3, <4>4
    <3>3. QED BY <3>1, <3>2
  <2> HIDE DEF moved, r
  <2> DEFINE k == moved.db
  <2>3. k \in Content(I) /\ e \in DOMAIN k.entries BY <1>2, <2>2 DEF Result, HasEntry
  <2>4. Held(k) \subseteq Held(c)
    <3>1. DOMAIN k.entries \subseteq DOMAIN c.entries /\ SameVersions(c, k) BY <2>2
    <3> HIDE DEF k
    <3>2. QED BY <3>1, HeldMoved
  <2>5. Gathered(s, c, k)
    <3>1. VersionsStay(c, k) BY <2>2 DEF VersionsStay, SameVersions, Versions, LastVersion
    <3>2. QED BY <2>4, <3>1 DEF Gathered
  <2>6. CASE ~moved.ok BY <2>1, <2>5, <2>6 DEF r
  <2>7. CASE moved.ok
    <3> DEFINE d == MergeEntry(s, k, e)
    <3>1. OnePerTime(Held(s) \cup Held(k))
      <4>1. Held(s) \cup Held(k) \subseteq Held(s) \cup Held(c) BY <2>4
      <4>2. QED BY <4>1, OneStays
    <3>2. r = Ok(d) BY <2>1, <2>7
    <3> HIDE DEF k
    <3>3. Gathered(s, k, d) /\ LastVersion(s.entries[e]) \in Versions(d.entries[e])
      BY <2>3, <3>1, MergeEntryHeld
    <3>4. Ok(d).db = d BY DEF Ok
    <3> HIDE DEF d
    <3>5. Gathered(s, c, d) BY <2>5, <3>3, GatheredAgain
    <3>6. QED BY <3>2, <3>3, <3>4, <3>5 DEF r
  <2>8. QED BY <2>6, <2>7
<1>3. QED BY <1>1, <1>2

\* The results of merge_groups: all versions of the target are there, and the
\* last one of each entry of the source that has been met.
LastArrived(s, d, x) ==
    x \notin GroupsBelow(s, RootGroup) /\ HasEntry(s, x) => LastVersion(s.entries[x]) \in Versions(d.entries[x])
Gathering(I, s, c, n) ==
    {v \in Merging(I, s, c, n) : Gathered(s, c, v.db) /\
        (v.ok => \A i \in 1 .. n : LastArrived(s, v.db, Walk(s, RootGroup)[i][2]))}

\* One step of merge_groups leads on.
LEMMA MergeStepHeld ==
    ASSUME HistoryMaxItems < 0, NEW I \in SUBSET Uuid, NEW s \in Content(I), NEW c \in Content(I), NEW now \in Time,
           OnePerTime(Held(s) \cup Held(c)), NEW n \in Nat, n < Len(Walk(s, RootGroup)),
           NEW v \in Gathering(I, s, c, n), v.ok
    PROVE  MergeStep(s, v.db, Walk(s, RootGroup)[n + 1][2], now) \in Gathering(I, s, c, n + 1)
<1> DEFINE x == Walk(s, RootGroup)[n + 1][2]
           d == v.db
           r == MergeStep(s, d, x, now)
<1>1. v \in Merging(I, s, c, n) /\ Gathered(s, c, d) BY DEF Gathering
<1>2. d \in Content(I) BY <1>1 DEF Merging, Result
<1>3. \A i \in 1 .. n : LastArrived(s, d, Walk(s, RootGroup)[i][2]) /\ Arrived(s, d, Walk(s, RootGroup)[i][2])
  BY <1>1 DEF Gathering, Merging
<1>4. r \in Merging(I, s, c, n + 1) BY <1>1, MergeStepOutcome
<1>5. x \in Uuid
  <2>1. Lists(s) BY ContentParts
  <2>2. Walk(s, RootGroup) \in Seq(Item) BY <2>1, UuidsThere, WalkMeets
  <2>3. n + 1 \in 1 .. Len(Walk(s, RootGroup)) BY <2>2
  <2>4. Walk(s, RootGroup)[n + 1] \in Item BY <2>2, <2>3
  <2>5. QED BY <2>4 DEF Item
<1>6. OnePerTime(Held(s) \cup Held(d))
  <2>1. Held(s) \cup Held(d) \subseteq Held(s) \cup Held(c) BY <1>1 DEF Gathered
  <2>2. QED BY <2>1, OneStays
<1>7. Gathered(s, d, r.db) /\ (r.ok => LastArrived(s, r.db, x))
  <2>1. CASE x \in GroupsBelow(s, RootGroup)
    <3>1. r = MergeChildGroup(s, d, x, now) BY <2>1 DEF MergeStep
    <3> HIDE DEF x, d, r
    <3>2. Gathered(s, d, r.db) BY <1>2, <1>5, <3>1, MergeChildGroupHeld
    <3>3. QED BY <2>1, <3>2 DEF LastArrived
  <2>2. CASE x \notin GroupsBelow(s, RootGroup) /\ HasEntry(s, x)
    <3>1. r = MergeChildEntry(s, d, x, now) BY <2>2 DEF MergeStep
    <3>2. x \in DOMAIN s.entries BY <2>2 DEF HasEntry
    <3> HIDE DEF x, d, r
    <3>3. Gathered(s, d, r.db) /\ (r.ok => LastVersion(s.entries[x]) \in Versions(r.db.entries[x]))
      BY <1>2, <1>6, <3>1, <3>2, MergeChildEntryHeld
    <3>4. QED BY <3>3 DEF LastArrived
  <2>3. CASE x \notin GroupsBelow(s, RootGroup) /\ ~HasEntry(s, x)
    <3>1. r = Ok(d) BY <2>3 DEF MergeStep
    <3>2. r.db.entries = d.entries BY <3>1 DEF Ok
    <3> HIDE DEF x, d, r
    <3>3. Gathered(s, d, r.db) BY <3>2, GatheredNot
    <3>4. QED BY <2>3, <3>3 DEF LastArrived
  <2>4. QED BY <2>1, <2>2, <2>3
<1> HIDE DEF r, d, x
<1>8. Gathered(s, c, r.db) BY <1>1, <1>7, GatheredAgain
<1>9. ASSUME r.ok, NEW i \in 1 .. (n + 1) PROVE LastArrived(s, r.db, Walk(s, RootGroup)[i][2])
  <2>1. CASE i = n + 1 BY <1>7, <1>9, <2>1 DEF x
  <2>2. CASE i # n + 1
    <3>1. i \in 1 .. n BY <2>2
    <3> DEFINE y == Walk(s, RootGroup)[i][2]
    <3>2. LastArrived(s, d, y) /\ Arrived(s, d, y) BY <1>3, <3>1
    <3>3. VersionsStay(d, r.db) BY <1>7 DEF Gathered
    <3> HIDE DEF y
    <3>4. LastArrived(s, r.db, y) BY <3>2, <3>3 DEF LastArrived, Arrived, HasEntry, VersionsStay
    <3>5. QED BY <3>4 DEF y
  <2>3. QED BY <2>1, <2>2
<1>10. r \in Gathering(I, s, c, n + 1) BY <1>4, <1>8, <1>9 DEF Gathering
<1>11. QED BY <1>10 DEF r, d, x

\* merge_groups
LEMMA MergeGroupsHeld ==
    ASSUME HistoryMaxItems < 0, NEW I \in SUBSET Uuid, NEW s \in Content(I), NEW c \in Content(I), NEW now \in Time,
           OnePerTime(Held(s) \cup Held(c))
    PROVE  MergeGroups(s, c, now) \in Gathering(I, s, c, Len(Walk(s, RootGroup)))
<1> DEFINE N == Len(Walk(s, RootGroup))
           G == [n \in 0 .. N |-> Gathering(I, s, c, n)]
<1>1. N \in Nat
  <2>1. Lists(s) BY ContentParts
  <2>2. Walk(s, RootGroup) \in Seq(Item) BY <2>1, UuidsThere, WalkMeets
  <2>3. QED BY <2>2
<1>2. Ok(c) \in G[0]
  <2>1. Ok(c) \in Result(I) /\ Ok(c).db = c BY Results
  <2>2. Grown(s, c, c) BY GrownNot
  <2>3. Ok(c) \in Merging(I, s, c, 0) BY <2>1, <2>2 DEF Merging
  <2>4. Gathered(s, c, c) BY GatheredNot
  <2>5. Ok(c) \in Gathering(I, s, c, 0) BY <2>1, <2>3, <2>4 DEF Gathering
  <2>6. 0 \in 0 .. N BY <1>1
  <2>7. QED BY <2>5, <2>6
<1>3. ASSUME NEW n \in 1 .. N, NEW v \in G[n - 1] PROVE MergeThen(s, v, n, now) \in G[n]
  <2>1. n - 1 \in Nat /\ (n - 1) + 1 = n /\ n - 1 \in 0 .. N /\ n \in 0 .. N /\ n - 1 < N BY <1>1
  <2>2. v \in Gathering(I, s, c, n - 1) /\ G[n] = Gathering(I, s, c, n) BY <2>1
  <2> HIDE DEF G
  <2>3. CASE v.ok
    <3>1. MergeThen(s, v, n, now) = MergeStep(s, v.db, Walk(s, RootGroup)[(n - 1) + 1][2], now) BY <2>1, <2>3 DEF MergeThen
    <3>2. MergeStep(s, v.db, Walk(s, RootGroup)[(n - 1) + 1][2], now) \in Gathering(I, s, c, (n - 1) + 1)
      BY <2>1, <2>2, <2>3, MergeStepHeld
    <3>3. QED BY <2>1, <2>2, <3>1, <3>2
  <2>4. CASE ~v.ok
    <3>1. MergeThen(s, v, n, now) = v BY <2>4 DEF MergeThen
    <3>2. v \in Gathering(I, s, c, n) BY <2>2, <2>4 DEF Gathering, Merging
    <3>3. QED BY <2>2, <3>1, <3>2
  <2>5. QED BY <2>3, <2>4
<1>4. N \in 0 .. N BY <1>1
<1> HIDE DEF G
<1>5. MergeGroups(s, c, now) \in G[N] BY <1>2, <1>3, MergeGroupsThrough
<1>6. QED BY <1>4, <1>5 DEF G

-----------------------------------------------------------------------------
(* The last versions a merge brings, whatever the limit of the histories   *)

\* All versions are from the two sides, and the last one of an entry was the last
\* one of that entry on one of them.
Brought(s, c, d) ==
    \A e \in DOMAIN d.entries :
        /\ Versions(d.entries[e]) \subseteq Held(s) \cup Held(c)
        /\ \/ e \in DOMAIN c.entries /\ LastVersion(d.entries[e]) = LastVersion(c.entries[e])
           \/ e \in DOMAIN s.entries /\ LastVersion(d.entries[e]) = LastVersion(s.entries[e])

\* A target with the same entries has been brought nothing.
LEMMA BroughtNot ==
    ASSUME NEW s, NEW c, NEW d, d.entries = c.entries
    PROVE  Brought(s, c, d)
BY HeldOf DEF Brought

\* What has been brought twice has been brought.
LEMMA BroughtAgain ==
    ASSUME NEW s, NEW c, NEW d, NEW b, Brought(s, c, d), Brought(s, d, b)
    PROVE  Brought(s, c, b)
<1>1. Held(d) \subseteq Held(s) \cup Held(c)
  <2>1. \A e \in DOMAIN d.entries : Versions(d.entries[e]) \subseteq Held(s) \cup Held(c) BY DEF Brought
  <2>2. QED BY <2>1, HeldWithin
<1>2. ASSUME NEW e \in DOMAIN b.entries
      PROVE  /\ Versions(b.entries[e]) \subseteq Held(s) \cup Held(c)
             /\ \/ e \in DOMAIN c.entries /\ LastVersion(b.entries[e]) = LastVersion(c.entries[e])
                \/ e \in DOMAIN s.entries /\ LastVersion(b.entries[e]) = LastVersion(s.entries[e])
  <2>1. Versions(b.entries[e]) \subseteq Held(s) \cup Held(d) BY DEF Brought
  <2>2. CASE e \in DOMAIN d.entries /\ LastVersion(b.entries[e]) = LastVersion(d.entries[e])
    <3>1. \/ e \in DOMAIN c.entries /\ LastVersion(d.entries[e]) = LastVersion(c.entries[e])
          \/ e \in DOMAIN s.entries /\ LastVersion(d.entries[e]) = LastVersion(s.entries[e])
      BY <2>2 DEF Brought
    <3>2. QED BY <1>1, <2>1, <2>2, <3>1
  <2>3. CASE e \in DOMAIN s.entries /\ LastVersion(b.entries[e]) = LastVersion(s.entries[e])
    BY <1>1, <2>1, <2>3
  <2>4. QED BY <2>2, <2>3 DEF Brought
<1>3. QED BY <1>2 DEF Brought

\* One entry is another one, or is new.
LEMMA BroughtOne ==
    ASSUME NEW s, NEW c, NEW d, NEW e, DOMAIN d.entries \subseteq DOMAIN c.entries \cup {e},
           \A x \in DOMAIN c.entries : x # e => d.entries[x] = c.entries[x],
           Versions(d.entries[e]) \subseteq Held(s) \cup Held(c),
           \/ e \in DOMAIN c.entries /\ LastVersion(d.entries[e]) = LastVersion(c.entries[e])
           \/ e \in DOMAIN s.entries /\ LastVersion(d.entries[e]) = LastVersion(s.entries[e])
    PROVE  Brought(s, c, d)
<1>1. ASSUME NEW x \in DOMAIN d.entries, x # e
      PROVE  x \in DOMAIN c.entries /\ d.entries[x] = c.entries[x] /\ Versions(c.entries[x]) \subseteq Held(c)
  <2>1. x \in DOMAIN c.entries BY <1>1
  <2>2. QED BY <1>1, <2>1, HeldOf
<1>2. QED BY <1>1 DEF Brought

\* merge_histories takes versions of the two entries.
LEMMA MergedWithin ==
    ASSUME NEW to \in Entry, NEW from \in Entry
    PROVE  MergedHistory(to, from) \in Seq(Version)
           /\ ToSet(MergedHistory(to, from)) \subseteq ToSet(to.history) \cup Versions(from)
<1> DEFINE merged == MergedHistory(to, from)
           all == AllVersions(to, from)
<1>1. /\ CreateHistories(from) \in Seq(Version)
      /\ ToSet(CreateHistories(from)) \subseteq ToSet(from.history) \cup {[mod |-> from.mod, by |-> from.by]}
  BY CreatedHistories
<1>2. all \in Seq(Version) /\ ToSet(all) = ToSet(to.history) \cup ToSet(CreateHistories(from)) BY AllVersionsOf
<1>3. /\ merged \in Seq(Version) /\ ToSet(merged) \subseteq ToSet(all)
      /\ \A v \in ToSet(all) : \E w \in ToSet(merged) : w.mod = v.mod
  BY MergedVersions
<1> HIDE DEF merged, all
<1>4. ToSet(CreateHistories(from)) \subseteq Versions(from) BY <1>1 DEF Versions, LastVersion
<1>5. QED BY <1>2, <1>3, <1>4 DEF merged

\* merge_entry leaves the newer one of the last versions.
LEMMA MergeEntryBrings ==
    ASSUME NEW I \in SUBSET Uuid, NEW s \in Content(I), NEW c \in Content(I),
           NEW e \in DOMAIN s.entries, e \in DOMAIN c.entries
    PROVE  LET d == MergeEntry(s, c, e)
           IN  Brought(s, c, d) /\ e \in DOMAIN d.entries /\ s.entries[e].mod <= d.entries[e].mod
<1> DEFINE d == MergeEntry(s, c, e)
           x == s.entries[e]
           t == c.entries[e]
           found == \E i \in DOMAIN t.history : t.history[i].mod = x.mod
           newer == [x EXCEPT !.history = MergedHistory(x, t)]
           older == [t EXCEPT !.history = MergedHistory(t, x)]
           taken == [c EXCEPT !.entries[e] = newer]
           joined == [c EXCEPT !.entries[e] = older]
<1>1. x \in Entry /\ t \in Entry BY ContentParts
<1>2. d = CASE x.mod = t.mod -> c
            [] IsNewer(x.mod, t.mod) -> taken
            [] OTHER -> IF found THEN c ELSE joined
  <2>1. joined = [c EXCEPT !.entries[e].history = MergedHistory(t, x)] OBVIOUS
  <2>2. d = CASE x.mod = t.mod -> c
              [] IsNewer(x.mod, t.mod) -> taken
              [] OTHER -> IF found THEN c ELSE [c EXCEPT !.entries[e].history = MergedHistory(t, x)]
    BY DEF MergeEntry
  <2> HIDE DEF d, taken, joined, x, t, found
  <2>3. QED BY <2>1, <2>2
<1>3. Versions(x) \subseteq Held(s) /\ Versions(t) \subseteq Held(c) BY HeldOf
<1>a. x.mod \in Nat /\ t.mod \in Nat BY <1>1, UuidsAssumption DEF Entry, Time
<1> HIDE DEF d, x, t
<1>5. /\ MergedHistory(x, t) \in Seq(Version) /\ ToSet(MergedHistory(x, t)) \subseteq ToSet(x.history) \cup Versions(t)
      /\ MergedHistory(t, x) \in Seq(Version) /\ ToSet(MergedHistory(t, x)) \subseteq ToSet(t.history) \cup Versions(x)
  BY <1>1, MergedWithin
<1>6. /\ newer \in Entry /\ newer.mod = x.mod /\ newer.by = x.by /\ newer.history = MergedHistory(x, t)
      /\ older \in Entry /\ older.mod = t.mod /\ older.by = t.by /\ older.history = MergedHistory(t, x)
  BY <1>1, <1>5 DEF Entry
<1> HIDE DEF newer, older
<1>7. /\ Versions(newer) \subseteq Held(s) \cup Held(c) /\ LastVersion(newer) = LastVersion(x)
      /\ Versions(older) \subseteq Held(s) \cup Held(c) /\ LastVersion(older) = LastVersion(t)
  BY <1>3, <1>5, <1>6 DEF Versions, LastVersion
<1>9. CASE d = c /\ x.mod <= t.mod
  <2>1. Brought(s, c, d) BY <1>9, BroughtNot
  <2>2. e \in DOMAIN d.entries /\ d.entries[e] = t BY <1>9 DEF t
  <2>3. QED BY <1>9, <2>1, <2>2 DEF d, x
<1>10. ASSUME NEW v \in Entry, Versions(v) \subseteq Held(s) \cup Held(c), x.mod <= v.mod,
              LastVersion(v) = LastVersion(x) \/ LastVersion(v) = LastVersion(t), d = [c EXCEPT !.entries[e] = v]
       PROVE  Brought(s, c, d) /\ e \in DOMAIN d.entries /\ x.mod <= d.entries[e].mod
  <2> DEFINE b == [c EXCEPT !.entries[e] = v]
  <2>1. /\ b \in Content(I) /\ DOMAIN b.entries = DOMAIN c.entries /\ b.entries[e] = v
        /\ \A f \in DOMAIN c.entries : f # e => b.entries[f] = c.entries[f]
        /\ b.groups = c.groups /\ b.bin = c.bin /\ b.deleted = c.deleted
    BY ChangedEntry
  <2>2. d = b BY <1>10
  <2> HIDE DEF b
  <2>3. DOMAIN b.entries \subseteq DOMAIN c.entries \cup {e} BY <2>1
  <2>4. Versions(b.entries[e]) \subseteq Held(s) \cup Held(c) BY <1>10, <2>1
  <2>5. \/ e \in DOMAIN c.entries /\ LastVersion(b.entries[e]) = LastVersion(c.entries[e])
        \/ e \in DOMAIN s.entries /\ LastVersion(b.entries[e]) = LastVersion(s.entries[e])
    BY <1>10, <2>1 DEF x, t
  <2>6. Brought(s, c, b) BY <2>1, <2>3, <2>4, <2>5, BroughtOne
  <2>7. QED BY <1>10, <2>1, <2>2, <2>6
<1>11. CASE d = taken
  <2>1. x.mod <= newer.mod BY <1>a, <1>6
  <2>2. Brought(s, c, d) /\ e \in DOMAIN d.entries /\ x.mod <= d.entries[e].mod BY <1>6, <1>7, <1>10, <1>11, <2>1
  <2>3. QED BY <2>2 DEF d, x
<1>12. CASE d = joined /\ x.mod <= t.mod
  <2>1. x.mod <= older.mod BY <1>a, <1>6, <1>12
  <2>2. Brought(s, c, d) /\ e \in DOMAIN d.entries /\ x.mod <= d.entries[e].mod BY <1>6, <1>7, <1>10, <1>12, <2>1
  <2>3. QED BY <2>2 DEF d, x
<1>13. \/ d = c /\ x.mod <= t.mod
       \/ d = taken
       \/ d = joined /\ x.mod <= t.mod
  <2> HIDE DEF taken, joined, found
  <2>1. CASE x.mod = t.mod
    <3>1. ~IsNewer(x.mod, t.mod) BY <1>a, <2>1 DEF IsNewer
    <3>2. QED BY <1>a, <1>2, <2>1, <3>1
  <2>2. CASE x.mod # t.mod /\ IsNewer(x.mod, t.mod) BY <1>2, <2>2
  <2>3. CASE x.mod # t.mod /\ ~IsNewer(x.mod, t.mod)
    <3>1. x.mod <= t.mod BY <1>a, <2>3 DEF IsNewer
    <3>2. QED BY <1>2, <2>3, <3>1
  <2>4. QED BY <2>1, <2>2, <2>3
<1>14. QED BY <1>9, <1>11, <1>12, <1>13

\* Fewer entries, or others in the same last version with no more older ones.
LEMMA BroughtFewer ==
    ASSUME NEW s, NEW c, NEW d, DOMAIN d.entries \subseteq DOMAIN c.entries,
           \A e \in DOMAIN d.entries : /\ LastVersion(d.entries[e]) = LastVersion(c.entries[e])
                                       /\ Versions(d.entries[e]) \subseteq Versions(c.entries[e])
    PROVE  Brought(s, c, d)
<1>1. ASSUME NEW e \in DOMAIN d.entries
      PROVE  /\ Versions(d.entries[e]) \subseteq Held(s) \cup Held(c)
             /\ e \in DOMAIN c.entries /\ LastVersion(d.entries[e]) = LastVersion(c.entries[e])
  <2>1. e \in DOMAIN c.entries OBVIOUS
  <2>2. Versions(c.entries[e]) \subseteq Held(c) BY <2>1, HeldOf
  <2>3. QED BY <2>1, <2>2
<1>2. QED BY <1>1 DEF Brought

\* merge_groups for one group: it arrives, unless it is the bin of the source.
LEMMA MergeChildGroupBrings ==
    ASSUME NEW I \in SUBSET Uuid, NEW s \in Content(I), NEW c \in Content(I), NEW g \in Named(s), NEW now \in Time
    PROVE  LET r == MergeChildGroup(s, c, g, now)
           IN  Brought(s, c, r.db) /\ (r.ok => g \in DOMAIN r.db.groups \/ g = s.bin)
<1> DEFINE r == MergeChildGroup(s, c, g, now)
           new == [s.groups[g] EXCEPT !.subs = <<>>, !.entries = <<>>]
<1>1. r.db.entries = c.entries BY MergeChildGroupEntries
<1>2. /\ r \in Result(I) /\ Grown(s, c, r.db)
      /\ ~HasGroup(s, g) => r.ok = FALSE
  BY MergeChildGroupTyped
<1>3. CASE HasGroup(s, g) /\ ~HasGroup(c, g) /\ g # s.bin
  <2> DEFINE p == new.parent
             listed == ListGroup(c, p, g)
             put == PutGroup(listed, g, new)
  <2>1. r = InsertGroup(c, g, new) BY <1>3 DEF MergeChildGroup
  <2>2. g \in I /\ s.groups[g] \in Group BY <1>3, ContentParts DEF HasGroup
  <2>3. new \in Group BY <2>2, EmptyList DEF Group
  <2>4. r = Ok(put) \/ r = Err(c) BY <2>1 DEF InsertGroup
  <2> HIDE DEF new, r
  <2>5. listed \in Content(I) /\ OnlyGroup(c, listed, p) BY <2>2, GroupListed
  <2> HIDE DEF listed
  <2>6. DOMAIN put.groups = DOMAIN listed.groups \cup {g} BY <2>2, <2>3, <2>5, GroupPut
  <2>7. Ok(put).db = put /\ Err(c).ok = FALSE BY DEF Ok, Err
  <2> HIDE DEF put
  <2>8. r.ok => g \in DOMAIN r.db.groups BY <2>4, <2>6, <2>7
  <2>9. Brought(s, c, r.db) BY <1>1, BroughtNot DEF r
  <2>10. QED BY <2>8, <2>9 DEF r
<1> HIDE DEF r
<1>4. Brought(s, c, r.db) BY <1>1, BroughtNot
<1>5. g \in DOMAIN c.groups => g \in DOMAIN r.db.groups BY <1>2 DEF Grown
<1>6. QED BY <1>2, <1>3, <1>4, <1>5 DEF HasGroup, r

\* merge_entries for one entry: its last version or a newer one arrives.
LEMMA MergeChildEntryBrings ==
    ASSUME NEW I \in SUBSET Uuid, NEW s \in Content(I), NEW c \in Content(I), NEW e \in DOMAIN s.entries, NEW now \in Time
    PROVE  LET r == MergeChildEntry(s, c, e, now)
           IN  Brought(s, c, r.db) /\ (r.ok => e \in DOMAIN r.db.entries /\ s.entries[e].mod <= r.db.entries[e].mod)
<1> DEFINE r == MergeChildEntry(s, c, e, now)
           x == s.entries[e]
           moved == IF IsNewer(x.moved, c.entries[e].moved) /\ x.parent # c.entries[e].parent
                    THEN MoveEntry(c, e, x.parent, now) ELSE Ok(c)
<1>0. x \in Entry /\ e \in I /\ e \in Uuid BY ContentParts
<1>a. Versions(x) \subseteq Held(s) BY HeldOf
<1>b. x.mod \in Nat BY <1>0, UuidsAssumption DEF Entry, Time
<1>1. CASE ~HasEntry(c, e)
  <2> DEFINE q == InsertEntry(c, e, x)
  <2>1. r = q BY <1>1 DEF MergeChildEntry
  <2>2. /\ Held(q.db) \subseteq Held(c) \cup Versions(x)
        /\ q.ok => e \notin DOMAIN c.entries /\ q.db.entries[e] = x
    BY <1>0, InsertEntryHeld
  <2>3. /\ q \in Result(I) /\ Kept(c, q.db, {e}) /\ q.db.bin = c.bin
        /\ \A y \in DOMAIN c.entries : q.db.entries[y] = c.entries[y]
        /\ q.ok => e \in DOMAIN q.db.entries
    BY <1>0, InsertEntryTyped
  <2>4. q.ok \/ q.db = c BY DEF InsertEntry, Ok, Err
  <2> HIDE DEF q, r
  <2>5. CASE ~q.ok
    <3>1. q.db.entries = c.entries BY <2>4, <2>5
    <3>2. Brought(s, c, q.db) BY <3>1, BroughtNot
    <3>3. QED BY <2>1, <2>5, <3>2 DEF r
  <2>6. CASE q.ok
    <3> DEFINE d == q.db
    <3>1. d.entries[e] = x /\ e \in DOMAIN d.entries BY <2>2, <2>3, <2>6
    <3>2. DOMAIN d.entries \subseteq DOMAIN c.entries \cup {e} /\ \A y \in DOMAIN c.entries : y # e => d.entries[y] = c.entries[y]
      BY <2>3 DEF Kept
    <3> HIDE DEF d
    <3>3. Versions(d.entries[e]) \subseteq Held(s) \cup Held(c) BY <1>a, <3>1
    <3>4. \/ e \in DOMAIN c.entries /\ LastVersion(d.entries[e]) = LastVersion(c.entries[e])
          \/ e \in DOMAIN s.entries /\ LastVersion(d.entries[e]) = LastVersion(s.entries[e])
      BY <3>1 DEF x
    <3>5. Brought(s, c, d) BY <3>2, <3>3, <3>4, BroughtOne
    <3>6. x.mod <= d.entries[e].mod BY <1>b, <3>1
    <3>7. QED BY <2>1, <3>1, <3>5, <3>6 DEF r, d
  <2>7. QED BY <2>5, <2>6
<1>2. CASE HasEntry(c, e)
  <2>1. r = IF moved.ok THEN Ok(MergeEntry(s, moved.db, e)) ELSE moved BY <1>2 DEF MergeChildEntry, AndThen
  <2>2. moved \in Result(I) /\ DOMAIN moved.db.entries = DOMAIN c.entries /\ SameVersions(c, moved.db)
    <3> DEFINE q == MoveEntry(c, e, x.parent, now)
    <3>1. CASE moved = Ok(c)
      <4>1. Ok(c) \in Result(I) /\ Ok(c).db = c BY Results
      <4>2. QED BY <3>1, <4>1 DEF SameVersions
    <3>2. CASE moved # Ok(c)
      <4>1. moved = q BY <3>2
      <4>2. x.parent \in Uuid BY <1>0 DEF Entry
      <4>3. q \in Result(I) /\ Kept(c, q.db, {}) /\ q.db.bin = c.bin /\ SameVersions(c, q.db)
        BY <1>0, <4>2, MoveEntryTyped
      <4> HIDE DEF q, moved
      <4>4. DOMAIN q.db.entries = DOMAIN c.entries BY <4>3 DEF Kept
      <4>5. QED BY <4>1, <4>3, <4>4
    <3>3. QED BY <3>1, <3>2
  <2> HIDE DEF moved, r
  <2> DEFINE k == moved.db
  <2>3. k \in Content(I) /\ e \in DOMAIN k.entries BY <1>2, <2>2 DEF Result, HasEntry
  <2>4. Brought(s, c, k)
    <3>1. DOMAIN k.entries \subseteq DOMAIN c.entries BY <2>2
    <3>2. \A f \in DOMAIN k.entries : /\ LastVersion(k.entries[f]) = LastVersion(c.entries[f])
                                       /\ Versions(k.entries[f]) \subseteq Versions(c.entries[f])
      BY <2>2, <3>1 DEF SameVersions, Versions, LastVersion
    <3> HIDE DEF k
    <3>3. QED BY <3>1, <3>2, BroughtFewer
  <2>5. CASE ~moved.ok BY <2>1, <2>4, <2>5 DEF r
  <2>6. CASE moved.ok
    <3> DEFINE d == MergeEntry(s, k, e)
    <3>1. r = Ok(d) BY <2>1, <2>6
    <3> HIDE DEF k
    <3>2. Brought(s, k, d) /\ e \in DOMAIN d.entries /\ s.entries[e].mod <= d.entries[e].mod
      BY <2>3, MergeEntryBrings
    <3>3. Ok(d).db = d BY DEF Ok
    <3> HIDE DEF d
    <3>4. Brought(s, c, d) BY <2>4, <3>2, BroughtAgain
    <3>5. QED BY <3>1, <3>2, <3>3, <3>4 DEF r
  <2>7. QED BY <2>5, <2>6
<1>3. QED BY <1>1, <1>2

\* What has been met is there, an entry in a version that is not older.
Caught(s, d, x) ==
    IF x \in GroupsBelow(s, RootGroup) THEN x \in DOMAIN d.groups \/ x = s.bin
    ELSE x \in DOMAIN s.entries => x \in DOMAIN d.entries /\ s.entries[x].mod <= d.entries[x].mod

\* It stays when the target grows.
LEMMA CaughtStays ==
    ASSUME NEW I \in SUBSET Uuid, NEW s \in Content(I), NEW c \in Content(I), NEW d \in Content(I),
           Grown(s, c, d), NEW x, Caught(s, c, x)
    PROVE  Caught(s, d, x)
<1>1. CASE x \in GroupsBelow(s, RootGroup) BY <1>1 DEF Caught, Grown
<1>2. CASE x \notin GroupsBelow(s, RootGroup) /\ x \in DOMAIN s.entries
  <2>1. x \in DOMAIN c.entries /\ s.entries[x].mod <= c.entries[x].mod BY <1>2 DEF Caught
  <2>2. x \in DOMAIN d.entries /\ c.entries[x].mod <= d.entries[x].mod BY <2>1 DEF Grown
  <2>3. s.entries[x] \in Entry /\ c.entries[x] \in Entry /\ d.entries[x] \in Entry BY <1>2, <2>1, <2>2, ContentParts
  <2>4. s.entries[x].mod \in Nat /\ c.entries[x].mod \in Nat /\ d.entries[x].mod \in Nat
    BY <2>3, UuidsAssumption DEF Entry, Time
  <2>5. s.entries[x].mod <= d.entries[x].mod BY <2>1, <2>2, <2>4
  <2>6. QED BY <1>2, <2>2, <2>5 DEF Caught
<1>3. CASE x \notin GroupsBelow(s, RootGroup) /\ x \notin DOMAIN s.entries BY <1>3 DEF Caught
<1>4. QED BY <1>1, <1>2, <1>3

\* The results of merge_groups: what has been met is there.
Bringing(I, s, c, n) ==
    {v \in Merging(I, s, c, n) : Brought(s, c, v.db) /\
        (v.ok => \A i \in 1 .. n : Caught(s, v.db, Walk(s, RootGroup)[i][2]))}

\* One step of merge_groups leads on.
LEMMA MergeStepBrings ==
    ASSUME NEW I \in SUBSET Uuid, NEW s \in Content(I), NEW c \in Content(I), NEW now \in Time,
           NEW n \in Nat, n < Len(Walk(s, RootGroup)), NEW v \in Bringing(I, s, c, n), v.ok
    PROVE  MergeStep(s, v.db, Walk(s, RootGroup)[n + 1][2], now) \in Bringing(I, s, c, n + 1)
<1> DEFINE x == Walk(s, RootGroup)[n + 1][2]
           d == v.db
           r == MergeStep(s, d, x, now)
<1>1. v \in Merging(I, s, c, n) /\ Brought(s, c, d) BY DEF Bringing
<1>2. d \in Content(I) BY <1>1 DEF Merging, Result
<1>3. \A i \in 1 .. n : Caught(s, d, Walk(s, RootGroup)[i][2]) BY DEF Bringing
<1>4. r \in Merging(I, s, c, n + 1) BY <1>1, MergeStepOutcome
<1>5. r.db \in Content(I) BY <1>4 DEF Merging, Result
<1>6. Brought(s, d, r.db) /\ Grown(s, d, r.db) /\ (r.ok => Caught(s, r.db, x))
  <2>1. CASE x \in GroupsBelow(s, RootGroup)
    <3>1. r = MergeChildGroup(s, d, x, now) BY <2>1 DEF MergeStep
    <3> HIDE DEF x, d, r
    <3>2. x \in Named(s) BY <2>1, BelowNamed
    <3>3. Brought(s, d, r.db) /\ (r.ok => x \in DOMAIN r.db.groups \/ x = s.bin)
      BY <1>2, <3>1, <3>2, MergeChildGroupBrings
    <3>4. /\ r \in Result(I) /\ Grown(s, d, r.db)
          /\ ~HasGroup(s, x) => r.ok = FALSE
      BY <1>2, <3>1, <3>2, MergeChildGroupTyped
    <3>5. QED BY <2>1, <3>3, <3>4 DEF Caught
  <2>2. CASE x \notin GroupsBelow(s, RootGroup) /\ HasEntry(s, x)
    <3>1. r = MergeChildEntry(s, d, x, now) BY <2>2 DEF MergeStep
    <3>2. x \in DOMAIN s.entries BY <2>2 DEF HasEntry
    <3> HIDE DEF x, d, r
    <3>3. Brought(s, d, r.db) /\ (r.ok => x \in DOMAIN r.db.entries /\ s.entries[x].mod <= r.db.entries[x].mod)
      BY <1>2, <3>1, <3>2, MergeChildEntryBrings
    <3>4. r \in Result(I) /\ Grown(s, d, r.db) /\ (r.ok => x \in DOMAIN r.db.entries)
      BY <1>2, <3>1, <3>2, MergeChildEntryTyped
    <3>5. QED BY <2>2, <3>3, <3>4 DEF Caught
  <2>3. CASE x \notin GroupsBelow(s, RootGroup) /\ ~HasEntry(s, x)
    <3>1. r = Ok(d) BY <2>3 DEF MergeStep
    <3>2. r.db = d BY <3>1 DEF Ok
    <3> HIDE DEF x, d, r
    <3>3. Brought(s, d, r.db) /\ Grown(s, d, r.db) BY <1>2, <3>2, BroughtNot, GrownNot
    <3>4. QED BY <2>3, <3>3 DEF Caught, HasEntry
  <2>4. QED BY <2>1, <2>2, <2>3
<1> HIDE DEF r, d, x
<1>7. Brought(s, c, r.db) BY <1>1, <1>6, BroughtAgain
<1>8. ASSUME r.ok, NEW i \in 1 .. (n + 1) PROVE Caught(s, r.db, Walk(s, RootGroup)[i][2])
  <2>1. CASE i = n + 1 BY <1>6, <1>8, <2>1 DEF x
  <2>2. CASE i # n + 1
    <3>1. i \in 1 .. n BY <2>2
    <3> DEFINE y == Walk(s, RootGroup)[i][2]
    <3>2. Caught(s, d, y) BY <1>3, <3>1
    <3> HIDE DEF y
    <3>3. Caught(s, r.db, y) BY <1>2, <1>5, <1>6, <3>2, CaughtStays
    <3>4. QED BY <3>3 DEF y
  <2>3. QED BY <2>1, <2>2
<1>9. r \in Bringing(I, s, c, n + 1) BY <1>4, <1>7, <1>8 DEF Bringing
<1>10. QED BY <1>9 DEF r, d, x

\* merge_groups
LEMMA MergeGroupsBrings ==
    ASSUME NEW I \in SUBSET Uuid, NEW s \in Content(I), NEW c \in Content(I), NEW now \in Time
    PROVE  MergeGroups(s, c, now) \in Bringing(I, s, c, Len(Walk(s, RootGroup)))
<1> DEFINE N == Len(Walk(s, RootGroup))
           G == [n \in 0 .. N |-> Bringing(I, s, c, n)]
<1>1. N \in Nat
  <2>1. Lists(s) BY ContentParts
  <2>2. Walk(s, RootGroup) \in Seq(Item) BY <2>1, UuidsThere, WalkMeets
  <2>3. QED BY <2>2
<1>2. Ok(c) \in G[0]
  <2>1. Ok(c) \in Result(I) /\ Ok(c).db = c BY Results
  <2>2. Grown(s, c, c) BY GrownNot
  <2>3. Ok(c) \in Merging(I, s, c, 0) BY <2>1, <2>2 DEF Merging
  <2>4. Brought(s, c, c) BY BroughtNot
  <2>5. Ok(c) \in Bringing(I, s, c, 0) BY <2>1, <2>3, <2>4 DEF Bringing
  <2>6. 0 \in 0 .. N BY <1>1
  <2>7. QED BY <2>5, <2>6
<1>3. ASSUME NEW n \in 1 .. N, NEW v \in G[n - 1] PROVE MergeThen(s, v, n, now) \in G[n]
  <2>1. n - 1 \in Nat /\ (n - 1) + 1 = n /\ n - 1 \in 0 .. N /\ n \in 0 .. N /\ n - 1 < N BY <1>1
  <2>2. v \in Bringing(I, s, c, n - 1) /\ G[n] = Bringing(I, s, c, n) BY <2>1
  <2> HIDE DEF G
  <2>3. CASE v.ok
    <3>1. MergeThen(s, v, n, now) = MergeStep(s, v.db, Walk(s, RootGroup)[(n - 1) + 1][2], now) BY <2>1, <2>3 DEF MergeThen
    <3>2. MergeStep(s, v.db, Walk(s, RootGroup)[(n - 1) + 1][2], now) \in Bringing(I, s, c, (n - 1) + 1)
      BY <2>1, <2>2, <2>3, MergeStepBrings
    <3>3. QED BY <2>1, <2>2, <3>1, <3>2
  <2>4. CASE ~v.ok
    <3>1. MergeThen(s, v, n, now) = v BY <2>4 DEF MergeThen
    <3>2. v \in Bringing(I, s, c, n) BY <2>2, <2>4 DEF Bringing, Merging
    <3>3. QED BY <2>2, <3>1, <3>2
  <2>5. QED BY <2>3, <2>4
<1>4. N \in 0 .. N BY <1>1
<1> HIDE DEF G
<1>5. MergeGroups(s, c, now) \in G[N] BY <1>2, <1>3, MergeGroupsThrough
<1>6. QED BY <1>4, <1>5 DEF G

\* What is brought to a target with the same entries is brought to the target.
LEMMA BroughtTo ==
    ASSUME NEW s, NEW c, NEW b, NEW d, b.entries = c.entries, Brought(s, b, d)
    PROVE  Brought(s, c, d)
<1>1. Brought(s, c, b) BY BroughtNot
<1>2. QED BY <1>1, BroughtAgain

\* A merge brings versions of the source only, and leaves each entry in a last
\* version it had on one of the two sides. One that completes brings all the
\* source has alive, its entries in a version that is not older.
LEMMA MergeBrings ==
    ASSUME NEW I \in SUBSET Uuid, NEW s \in Content(I), NEW c \in Content(I),
           RootGroup \in DOMAIN s.groups, NEW now \in Time, NEW by \in Devices
    PROVE  LET r == Merge(s, c, now, by) d == r.db
           IN  /\ Brought(s, c, d)
               /\ r.ok /\ ~Endless(s, RootGroup) /\ DOMAIN s.groups \cap DOMAIN s.entries = {} =>
                     /\ GroupsBelow(s, RootGroup) \subseteq DOMAIN d.groups \cup {s.bin}
                     /\ \A e \in EntriesBelow(s, RootGroup) \cap DOMAIN s.entries :
                           e \in DOMAIN d.entries /\ s.entries[e].mod <= d.entries[e].mod
<1> DEFINE b == WithSourceBin(s, MergeGroup(s, c, RootGroup), now, by)
           v == MergeGroups(s, b, now)
           w == v.db
           d == MergeDeletedObjects(s, w, now)
           m == MaintainAllHistories(d)
           r == Merge(s, c, now, by)
           walk == Walk(s, RootGroup)
<1>1. /\ b \in Content(I) /\ b.entries = c.entries
      /\ v \in Merging(I, s, b, Len(walk)) /\ w \in Content(I)
      /\ IF v.ok THEN r = Ok(m) ELSE r = v
  BY MergeParts
<1>2. b \in Content(I) /\ w \in Content(I) /\ b.entries = c.entries BY <1>1
<1> HIDE DEF b
<1>3. v \in Bringing(I, s, b, Len(walk)) BY <1>2, MergeGroupsBrings
<1> HIDE DEF v, w, r
<1>4. Brought(s, b, w) BY <1>3 DEF Bringing, w
<1>5. Brought(s, c, w) BY <1>2, <1>4, BroughtTo
<1>6. CASE ~v.ok
  <2>1. r = v BY <1>1, <1>6
  <2>2. QED BY <1>5, <1>6, <2>1 DEF r, w
<1>7. CASE v.ok
  <2>1. /\ d \in Content(I) /\ DOMAIN d.entries = DOMAIN w.entries \ DeletedEntries(s, w)
        /\ (\A e \in DOMAIN d.entries : d.entries[e] = w.entries[e])
        /\ DOMAIN w.groups \cap DOMAIN s.groups \subseteq DOMAIN d.groups
    BY <1>2, MergeDeletedTyped
  <2>2. d \in Content(I) BY <2>1
  <2> HIDE DEF d
  <2>3. /\ SamePlaces(d, m)
        /\ \A e \in DOMAIN d.entries : /\ m.entries[e].mod = d.entries[e].mod /\ m.entries[e].by = d.entries[e].by
                                       /\ m.entries[e].history = Trim(d.entries[e].history)
    BY <2>2, MaintainTyped
  <2> HIDE DEF m
  <2>4. r.db = m BY <1>1, <1>7 DEF Ok
  <2>5. DOMAIN m.entries = DOMAIN d.entries /\ DOMAIN m.groups = DOMAIN d.groups BY <2>3 DEF SamePlaces
  <2>6. ASSUME NEW e \in DOMAIN m.entries
        PROVE  /\ e \in DOMAIN w.entries /\ m.entries[e].mod = w.entries[e].mod
               /\ LastVersion(m.entries[e]) = LastVersion(w.entries[e])
               /\ Versions(m.entries[e]) \subseteq Versions(w.entries[e])
    <3>1. e \in DOMAIN d.entries /\ e \in DOMAIN w.entries /\ d.entries[e] = w.entries[e] BY <2>1, <2>5
    <3>2. w.entries[e] \in Entry BY <1>2, <3>1, ContentParts
    <3>3. w.entries[e].history \in Seq(Version) BY <3>2 DEF Entry
    <3>4. ToSet(Trim(w.entries[e].history)) \subseteq ToSet(w.entries[e].history) BY <3>3, TrimmedHistory
    <3>5. /\ m.entries[e].mod = w.entries[e].mod /\ m.entries[e].by = w.entries[e].by
          /\ m.entries[e].history = Trim(w.entries[e].history)
      BY <2>3, <3>1
    <3>6. QED BY <3>1, <3>4, <3>5 DEF Versions, LastVersion
  <2>7. Brought(s, w, m) BY <2>6, BroughtFewer
  <2>8. Brought(s, c, m) BY <1>5, <2>7, BroughtAgain
  <2>9. ASSUME ~Endless(s, RootGroup), DOMAIN s.groups \cap DOMAIN s.entries = {}
        PROVE  /\ GroupsBelow(s, RootGroup) \subseteq DOMAIN m.groups \cup {s.bin}
               /\ \A e \in EntriesBelow(s, RootGroup) \cap DOMAIN s.entries :
                     e \in DOMAIN m.entries /\ s.entries[e].mod <= m.entries[e].mod
    <3>1. ASSUME NEW x \in EntriesBelow(s, RootGroup) \cup GroupsBelow(s, RootGroup)
          PROVE  Arrived(s, w, x) /\ Caught(s, w, x)
      <4>1. PICK i \in 1 .. Len(walk) : walk[i][2] = x BY <2>9, EntriesMet, UuidsThere
      <4>2. QED BY <1>1, <1>3, <1>7, <4>1 DEF Merging, Bringing, w
    <3>2. ASSUME NEW g \in GroupsBelow(s, RootGroup) PROVE g \in DOMAIN m.groups \cup {s.bin}
      <4>1. HasGroup(s, g) /\ (g \in DOMAIN w.groups \/ g = s.bin) BY <3>1 DEF Arrived, Caught
      <4>2. QED BY <2>1, <2>5, <4>1 DEF HasGroup
    <3>3. ASSUME NEW e \in EntriesBelow(s, RootGroup), e \in DOMAIN s.entries
          PROVE  e \in DOMAIN m.entries /\ s.entries[e].mod <= m.entries[e].mod
      <4>1. e \notin GroupsBelow(s, RootGroup) BY <2>9, <3>1, <3>3 DEF Arrived, HasGroup
      <4>2. e \in DOMAIN w.entries /\ s.entries[e].mod <= w.entries[e].mod BY <3>1, <3>3, <4>1 DEF Caught
      <4>3. e \notin DeletedEntries(s, w) BY <3>3 DEF DeletedEntries, HasEntry
      <4>4. e \in DOMAIN m.entries BY <2>1, <2>5, <4>2, <4>3
      <4>5. QED BY <2>6, <4>2, <4>4
    <3>4. QED BY <3>2, <3>3
  <2>10. QED BY <2>4, <2>8, <2>9 DEF r
<1>8. QED BY <1>6, <1>7

\* A merge brings no version from elsewhere. One that completes keeps all versions
\* the target has of what is left, and the last one of all the source has alive.
LEMMA MergeHeld ==
    ASSUME HistoryMaxItems < 0, NEW I \in SUBSET Uuid, NEW s \in Content(I), NEW c \in Content(I),
           RootGroup \in DOMAIN s.groups, NEW now \in Time, NEW by \in Devices, OnePerTime(Held(s) \cup Held(c))
    PROVE  LET r == Merge(s, c, now, by) d == r.db
           IN  /\ Held(d) \subseteq Held(s) \cup Held(c)
               /\ r.ok => \A e \in DOMAIN d.entries :
                     /\ e \in DOMAIN c.entries => Versions(c.entries[e]) \subseteq Versions(d.entries[e])
                     /\ ~Endless(s, RootGroup) /\ e \in EntriesBelow(s, RootGroup) \cap DOMAIN s.entries
                        /\ DOMAIN s.groups \cap DOMAIN s.entries = {}
                        => LastVersion(s.entries[e]) \in Versions(d.entries[e])
<1> DEFINE b == WithSourceBin(s, MergeGroup(s, c, RootGroup), now, by)
           v == MergeGroups(s, b, now)
           w == v.db
           d == MergeDeletedObjects(s, w, now)
           m == MaintainAllHistories(d)
           r == Merge(s, c, now, by)
           walk == Walk(s, RootGroup)
           V == Held(s) \cup Held(c)
<1>1. /\ b \in Content(I) /\ b.entries = c.entries
      /\ v \in Merging(I, s, b, Len(walk)) /\ w \in Content(I)
      /\ IF v.ok THEN r = Ok(m) ELSE r = v
  BY MergeParts
<1>2. b \in Content(I) BY <1>1
<1>3. Held(b) = Held(c) BY <1>1, HeldSame
<1>4. OnePerTime(Held(s) \cup Held(b)) BY <1>3
<1> HIDE DEF b
<1>5. v \in Gathering(I, s, b, Len(walk)) BY <1>2, <1>4, MergeGroupsHeld
<1> HIDE DEF v, w, r
<1>6. /\ Held(w) \subseteq V
      /\ \A e \in DOMAIN c.entries : e \in DOMAIN w.entries /\ Versions(c.entries[e]) \subseteq Versions(w.entries[e])
  BY <1>1, <1>3, <1>5 DEF Gathering, Gathered, VersionsStay, w
<1>7. w \in Content(I) BY <1>1
<1>8. CASE ~v.ok
  <2>1. r = v BY <1>1, <1>8
  <2>2. QED BY <1>6, <1>8, <2>1 DEF r, w
<1>9. CASE v.ok
  <2>1. /\ d \in Content(I) /\ DOMAIN d.entries = DOMAIN w.entries \ DeletedEntries(s, w)
        /\ (\A e \in DOMAIN d.entries : d.entries[e] = w.entries[e])
    BY <1>7, MergeDeletedTyped
  <2>2. d \in Content(I) BY <2>1
  <2> HIDE DEF d
  <2>3. /\ SamePlaces(d, m)
        /\ \A e \in DOMAIN d.entries : /\ m.entries[e].mod = d.entries[e].mod /\ m.entries[e].by = d.entries[e].by
                                       /\ m.entries[e].history = Trim(d.entries[e].history)
    BY <2>2, MaintainTyped
  <2> HIDE DEF m
  <2>4. r = Ok(m) BY <1>1, <1>9
  <2>5. r.db = m BY <2>4 DEF Ok
  <2>6. DOMAIN m.entries = DOMAIN d.entries BY <2>3 DEF SamePlaces
  <2>7. ASSUME NEW e \in DOMAIN m.entries
        PROVE  e \in DOMAIN w.entries /\ Versions(m.entries[e]) = Versions(w.entries[e])
    <3>1. e \in DOMAIN d.entries /\ e \in DOMAIN w.entries /\ d.entries[e] = w.entries[e] BY <2>1, <2>6
    <3>2. w.entries[e] \in Entry BY <1>7, <3>1, ContentParts
    <3>3. w.entries[e].history \in Seq(Version) BY <3>2 DEF Entry
    <3>4. ToSet(Trim(w.entries[e].history)) = ToSet(w.entries[e].history) BY <3>3, TrimmedHistory
    <3>5. /\ m.entries[e].mod = w.entries[e].mod /\ m.entries[e].by = w.entries[e].by
          /\ m.entries[e].history = Trim(w.entries[e].history)
      BY <2>3, <3>1
    <3>6. QED BY <3>1, <3>4, <3>5 DEF Versions, LastVersion
  <2>8. Held(m) \subseteq V
    <3>1. ASSUME NEW e \in DOMAIN m.entries PROVE Versions(m.entries[e]) \subseteq V
      <4>1. Versions(w.entries[e]) \subseteq Held(w) BY <2>7, HeldOf
      <4>2. QED BY <1>6, <2>7, <4>1
    <3> HIDE DEF V
    <3>2. QED BY <3>1, HeldWithin
  <2>9. ASSUME NEW e \in DOMAIN m.entries
        PROVE  /\ e \in DOMAIN c.entries => Versions(c.entries[e]) \subseteq Versions(m.entries[e])
               /\ ~Endless(s, RootGroup) /\ e \in EntriesBelow(s, RootGroup) \cap DOMAIN s.entries
                  /\ DOMAIN s.groups \cap DOMAIN s.entries = {}
                  => LastVersion(s.entries[e]) \in Versions(m.entries[e])
    <3>1. e \in DOMAIN c.entries => Versions(c.entries[e]) \subseteq Versions(m.entries[e]) BY <1>6, <2>7
    <3>2. ASSUME ~Endless(s, RootGroup), e \in EntriesBelow(s, RootGroup), e \in DOMAIN s.entries,
                 DOMAIN s.groups \cap DOMAIN s.entries = {}
          PROVE  LastVersion(s.entries[e]) \in Versions(m.entries[e])
      <4>1. PICK i \in 1 .. Len(walk) : walk[i][2] = e BY <3>2, EntriesMet, UuidsThere
      <4>2. Arrived(s, w, e) /\ LastArrived(s, w, e) BY <1>1, <1>5, <1>9, <4>1 DEF Merging, Gathering, w
      <4>3. e \notin GroupsBelow(s, RootGroup) BY <3>2, <4>2 DEF Arrived, HasGroup
      <4>4. LastVersion(s.entries[e]) \in Versions(w.entries[e]) BY <3>2, <4>2, <4>3 DEF LastArrived, HasEntry
      <4>5. QED BY <2>7, <4>4
    <3>3. QED BY <3>1, <3>2
  <2>10. QED BY <2>5, <2>8, <2>9 DEF r
<1>10. QED BY <1>8, <1>9

-----------------------------------------------------------------------------
(* One version of each time                                                *)

\* The versions of all copies.
Everywhere == UNION {Held(db[d]) : d \in Devices}

\* No two of them are of one time, and none is of the time to come.
Dated == OnePerTime(Everywhere) /\ \A v \in Everywhere : v.mod \in 0 .. clock

\* At the start there is one version at most.
LEMMA StartDated ==
    ASSUME Init
    PROVE  Dated
<1> DEFINE entry == NewEntry(RootGroup, 0, CHOOSE d \in Devices : TRUE)
<1>1. DOMAIN Original.entries = InitialEntries /\ \A e \in InitialEntries : Original.entries[e] = entry
  BY DEF Original
<1>2. Versions(entry) = {LastVersion(entry)} /\ LastVersion(entry).mod = 0
  <2>1. entry.history = <<>> /\ entry.mod = 0 BY DEF NewEntry
  <2> HIDE DEF entry
  <2>2. ToSet(entry.history) = {} BY <2>1 DEF ToSet
  <2>3. QED BY <2>1, <2>2 DEF Versions, LastVersion
<1> HIDE DEF entry
<1>3. Held(Original) \subseteq {LastVersion(entry)} BY <1>1, <1>2 DEF Held
<1>4. \A d \in Devices : Held(db[d]) = Held(Original)
  <2>1. \A d \in Devices : db[d] = Original BY DEF Init
  <2>2. QED BY <2>1
<1>5. Everywhere \subseteq {LastVersion(entry)} BY <1>3, <1>4 DEF Everywhere
<1>6. clock = 0 BY DEF Init
<1>7. OnePerTime(Everywhere) BY <1>5 DEF OnePerTime
<1>8. \A v \in Everywhere : v.mod \in 0 .. clock BY <1>2, <1>5, <1>6
<1>9. QED BY <1>7, <1>8 DEF Dated

\* It stays so when the versions become fewer or get one made later.
LEMMA DatedStays ==
    ASSUME Dated, clock \in Nat, clock' \in Nat, clock < clock', NEW by,
           Everywhere' \subseteq Everywhere \cup {Stamp(clock', by)}
    PROVE  Dated'
<1> DEFINE V == Everywhere n == Stamp(clock', by)
<1>1. n.mod = clock' BY DEF Stamp
<1> HIDE DEF n
<1>2. Everywhere' \subseteq V \cup {n} BY DEF n
<1>3. OnePerTime(V) /\ \A v \in V : v.mod \in 0 .. clock BY DEF Dated
<1> HIDE DEF V
<1>4. \A v \in V : v.mod # n.mod /\ v.mod \in 0 .. clock' BY <1>1, <1>3
<1>5. OnePerTime(V \cup {n}) BY <1>3, <1>4 DEF OnePerTime
<1>6. OnePerTime(Everywhere') BY <1>2, <1>5, OneStays
<1>7. \A v \in Everywhere' : v.mod \in 0 .. clock' BY <1>1, <1>2, <1>4
<1>8. QED BY <1>6, <1>7 DEF Dated, OnePerTime

\* Time goes on with each call: an edit is the first at its time.
LEMMA LaterSteps ==
    ASSUME Contents, Next, 0 \notin Seconds
    PROVE  \E d \in Devices, at \in Time :
               clock < at /\ (EditCall(d, at) \/ \E from \in Devices : MergeFrom(from, d, at))
<1>1. PICK s \in Seconds, d \in Devices : clock + s \in Time /\ Step(d, clock + s) BY DEF Next
<1> DEFINE at == clock + s
<1>2. clock \in Nat /\ s \in Nat /\ s # 0 BY StartAssumption, UuidsAssumption DEF Contents, Time
<1>3. at \in Time /\ Step(d, at) /\ clock < at BY <1>1, <1>2
<1> HIDE DEF at
<1>4. EditCall(d, at) \/ \E from \in Devices : MergeFrom(from, d, at)
  BY <1>3, AddHeld, EditHeld, CopyHeld, RelocateHeld, DiscardedHeld, DeleteHeld DEF Step
<1>5. QED BY <1>3, <1>4

\* The merges of two copies, as MergeHeld wants them.
LEMMA MergedCopies ==
    ASSUME Contents, Dated, NEW from \in Devices, NEW to \in Devices
    PROVE  /\ Known(unused) \in SUBSET Uuid
           /\ db[from] \in Content(Known(unused)) /\ db[to] \in Content(Known(unused))
           /\ RootGroup \in DOMAIN db[from].groups
           /\ OnePerTime(Held(db[from]) \cup Held(db[to]))
<1>1. Known(unused) \in SUBSET Uuid BY UuidsAssumption DEF Contents, Known, Uuid
<1>2. /\ db[from] \in Content(Known(unused)) /\ db[to] \in Content(Known(unused))
      /\ RootGroup \in DOMAIN db[from].groups
  BY DEF Contents, Rooted
<1>3. Held(db[from]) \cup Held(db[to]) \subseteq Everywhere BY DEF Everywhere
<1>4. OnePerTime(Everywhere) BY DEF Dated
<1>5. OnePerTime(Held(db[from]) \cup Held(db[to])) BY <1>3, <1>4, OneStays
<1>6. QED BY <1>1, <1>2, <1>5

\* Dated holds all the time when each call has its own second.
LEMMA DatedSound ==
    ASSUME 0 \notin Seconds
    PROVE  Spec => [](Contents /\ KindsApart /\ Dated)
<1>1. Init => Dated BY StartDated
<1>2. Contents /\ Contents' /\ Dated /\ [Next]_vars => Dated'
  <2> SUFFICES ASSUME Contents, Contents', Dated, [Next]_vars PROVE Dated' OBVIOUS
  <2>0. CASE UNCHANGED vars BY <2>0 DEF vars, Dated, Everywhere
  <2>1. CASE Next
    <3>1. PICK d \in Devices, at \in Time :
              clock < at /\ (EditCall(d, at) \/ \E from \in Devices : MergeFrom(from, d, at))
      BY <2>1, LaterSteps
    <3>2. clock \in Nat /\ clock' \in Nat /\ DOMAIN db = Devices BY UuidsAssumption DEF Contents, Time
    <3>3. ASSUME NEW b, db' = [db EXCEPT ![d] = b], clock' = at, Held(b) \subseteq Everywhere \cup {Stamp(at, d)}
          PROVE  Dated'
      <4>1. ASSUME NEW x \in Devices PROVE Held(db'[x]) \subseteq Everywhere \cup {Stamp(at, d)}
        <5>1. CASE x = d
          <6>1. db'[x] = b BY <3>2, <3>3, <5>1
          <6> QED BY <3>3, <6>1
        <5>2. CASE x # d
          <6>1. db'[x] = db[x] BY <3>2, <3>3, <5>2
          <6> QED BY <6>1 DEF Everywhere
        <5> QED BY <5>1, <5>2
      <4>2. (UNION {Held(db'[x]) : x \in Devices}) \subseteq Everywhere \cup {Stamp(at, d)} BY <4>1
      <4>3. Everywhere' \subseteq Everywhere \cup {Stamp(clock', d)} BY <3>3, <4>2 DEF Everywhere
      <4>4. clock < clock' BY <3>1, <3>3
      <4> QED BY <3>2, <4>3, <4>4, DatedStays
    <3>4. CASE EditCall(d, at)
      <4>1. PICK op, n, r : Call(d, op, at, r, n) /\ OneNewer(db[d], r.db, at, d) BY <3>4 DEF EditCall
      <4>2. db' = [db EXCEPT ![d] = r.db] /\ clock' = at BY <4>1 DEF Call
      <4>3. Held(r.db) \subseteq Everywhere \cup {Stamp(at, d)} BY <4>1 DEF OneNewer, Everywhere
      <4> QED BY <3>3, <4>2, <4>3
    <3>5. ASSUME NEW from \in Devices, MergeFrom(from, d, at) PROVE Dated'
      <4> DEFINE s == db[from] c == db[d] r == Merge(s, c, at, d) b == r.db
      <4>1. db' = [db EXCEPT ![d] = b] /\ clock' = at BY <3>5 DEF MergeFrom
      <4>2. /\ Known(unused) \in SUBSET Uuid /\ s \in Content(Known(unused)) /\ c \in Content(Known(unused))
            /\ RootGroup \in DOMAIN s.groups /\ OnePerTime(Held(s) \cup Held(c))
        BY MergedCopies
      <4>3. Held(s) \cup Held(c) \subseteq Everywhere BY DEF Everywhere
      <4> HIDE DEF s, c
      <4>4. Brought(s, c, b) BY <4>2, MergeBrings
      <4> HIDE DEF b
      <4>5. Held(b) \subseteq Held(s) \cup Held(c) BY <4>4, HeldWithin DEF Brought
      <4>6. Held(b) \subseteq Everywhere \cup {Stamp(at, d)} BY <4>3, <4>5
      <4> QED BY <3>3, <4>1, <4>6
    <3> QED BY <3>1, <3>4, <3>5
  <2> QED BY <2>0, <2>1
<1> QED BY <1>1, <1>2, CopiesSound, PTL DEF Spec

\* When a copy keeps all older versions and each call has its own second, a
\* merge that completes loses no version of the target's entries that are left
\* and none of the last versions of the source's, as long as each entry is met on the way
\* down from the root group.
THEOREM MergesKeepVersions ==
    ASSUME HistoryMaxItems < 0, 0 \notin Seconds
    PROVE  Spec /\ []NothingUnreachable => MergeKeepsVersions
<1>1. Contents /\ KindsApart /\ Dated /\ NothingUnreachable /\ [Next]_vars => [KeepsVersions]_vars
  <2> SUFFICES ASSUME Contents, KindsApart, Dated, NothingUnreachable, Next, IsMerge PROVE KeepsVersions
    BY DEF KeepsVersions
  <2>1. PICK to \in Devices, at \in Time : EditCall(to, at) \/ \E from \in Devices : MergeFrom(from, to, at)
    BY LaterSteps
  <2>2. ~EditCall(to, at) BY DEF EditCall, Call, IsMerge
  <2>3. PICK from \in Devices : MergeFrom(from, to, at) BY <2>1, <2>2
  <2> DEFINE s == db[from] c == db[to] r == Merge(s, c, at, to)
  <2>4. db' = [db EXCEPT ![to] = r.db] /\ last' = [op |-> "merge", from |-> from, to |-> to, ok |-> r.ok]
    BY <2>3 DEF MergeFrom
  <2>5. r.ok BY <2>4 DEF IsMerge
  <2>6. /\ Known(unused) \in SUBSET Uuid /\ s \in Content(Known(unused)) /\ c \in Content(Known(unused))
        /\ RootGroup \in DOMAIN s.groups /\ OnePerTime(Held(s) \cup Held(c))
    BY MergedCopies
  <2>7. ~Endless(s, RootGroup) /\ DOMAIN s.entries \subseteq EntriesBelow(s, RootGroup) BY DEF NothingUnreachable
  <2>8. DOMAIN s.groups \cap DOMAIN s.entries = {} BY DEF KindsApart
  <2>12. DOMAIN db = Devices BY DEF Contents
  <2> HIDE DEF s, c
  <2>9. \A e \in DOMAIN r.db.entries :
           /\ e \in DOMAIN c.entries => Versions(c.entries[e]) \subseteq Versions(r.db.entries[e])
           /\ ~Endless(s, RootGroup) /\ e \in EntriesBelow(s, RootGroup) \cap DOMAIN s.entries
              /\ DOMAIN s.groups \cap DOMAIN s.entries = {}
              => LastVersion(s.entries[e]) \in Versions(r.db.entries[e])
    BY <2>5, <2>6, MergeHeld
  <2> HIDE DEF r
  <2>10. last'.from = from /\ last'.to = to /\ db'[to] = r.db BY <2>4, <2>12
  <2>11. \A e \in DOMAIN r.db.entries :
            /\ e \in DOMAIN s.entries => LastVersion(s.entries[e]) \in Versions(r.db.entries[e])
            /\ e \in DOMAIN c.entries => Versions(c.entries[e]) \subseteq Versions(r.db.entries[e])
    BY <2>7, <2>8, <2>9
  <2> QED BY <2>10, <2>11 DEF KeepsVersions, HasEntry, s, c
<1> QED BY <1>1, DatedSound, PTL DEF Spec, MergeKeepsVersions

-----------------------------------------------------------------------------
(* A second merge of the same source                                       *)

\* Numbers from 1 on in ascending order are in their places.
LEMMA CountedInOrder ==
    ASSUME NEW N \in Nat
    PROVE  InOrder(1 .. N, <) = [n \in 1 .. N |-> n]
<1> DEFINE Rank(i) == Cardinality({j \in 1 .. N : j < i})
           At(n) == CHOOSE i \in 1 .. N : Rank(i) = n - 1
<1>1. Cardinality(1 .. N) = N BY FS_Interval
<1>2. ASSUME NEW i \in 1 .. N PROVE Rank(i) = i - 1
  <2>1. {j \in 1 .. N : j < i} = 1 .. (i - 1) OBVIOUS
  <2>2. i - 1 \in Nat OBVIOUS
  <2>3. Cardinality(1 .. (i - 1)) = i - 1 BY <2>2, FS_Interval
  <2>4. QED BY <2>1, <2>3
<1>3. InOrder(1 .. N, <) = [n \in 1 .. N |-> At(n)] BY <1>1 DEF InOrder
<1> HIDE DEF Rank
<1>4. ASSUME NEW n \in 1 .. N PROVE At(n) = n
  <2>1. Rank(n) = n - 1 BY <1>2
  <2>2. At(n) \in 1 .. N /\ Rank(At(n)) = n - 1 BY <2>1
  <2> HIDE DEF At
  <2>3. At(n) - 1 = n - 1 BY <1>2, <2>2
  <2>4. QED BY <2>2, <2>3
<1> HIDE DEF At
<1>5. QED BY <1>3, <1>4

\* All items in ascending order of their places are the sequence.
LEMMA AllPicked ==
    ASSUME NEW S, NEW seq \in Seq(S), NEW places, places = DOMAIN seq
    PROVE  Picked(seq, places, <) = seq
<1> DEFINE N == Len(seq) order == InOrder(places, <)
<1>1. N \in Nat /\ places = 1 .. N /\ seq = [n \in 1 .. N |-> seq[n]] OBVIOUS
<1>2. order = [n \in 1 .. N |-> n] BY <1>1, CountedInOrder
<1>3. Picked(seq, places, <) = [n \in DOMAIN order |-> seq[order[n]]] BY DEF Picked
<1> HIDE DEF order
<1>4. DOMAIN order = 1 .. N /\ \A n \in 1 .. N : order[n] = n BY <1>2
<1>5. [n \in DOMAIN order |-> seq[order[n]]] = [n \in 1 .. N |-> seq[n]] BY <1>4
<1>6. QED BY <1>1, <1>3, <1>5

\* Without a limit trim_histories changes nothing.
LEMMA TrimNothing ==
    ASSUME HistoryMaxItems < 0, NEW history \in Seq(Version)
    PROVE  Trim(history) = history
<1> DEFINE Newer(i) == {j \in DOMAIN history : \/ history[i].mod < history[j].mod
                                               \/ (history[i].mod = history[j].mod /\ i < j)}
           Few(i) == Cardinality(Newer(i)) < HistoryMaxItems
           kept == {i \in DOMAIN history : HistoryMaxItems < 0 \/ Few(i)}
<1>1. Trim(history) = Picked(history, kept, <) BY DEF Trim
<1> HIDE DEF Few
<1>2. kept = DOMAIN history OBVIOUS
<1> HIDE DEF kept
<1>3. Picked(history, kept, <) = history BY <1>2, AllPicked
<1>4. QED BY <1>1, <1>3

\* So maintain_all_histories changes nothing.
LEMMA MaintainNothing ==
    ASSUME HistoryMaxItems < 0, NEW I \in SUBSET Uuid, NEW c \in Content(I)
    PROVE  MaintainAllHistories(c) = c
<1> DEFINE past(e) == Trim(c.entries[e].history)
           m == [e \in DOMAIN c.entries |-> [c.entries[e] EXCEPT !.history = past(e)]]
<1>1. MaintainAllHistories(c) = [c EXCEPT !.entries = m] BY DEF MaintainAllHistories
<1>2. ASSUME NEW e \in DOMAIN c.entries PROVE m[e] = c.entries[e]
  <2>1. c.entries[e] \in Entry BY ContentParts
  <2>2. c.entries[e].history \in Seq(Version) BY <2>1 DEF Entry
  <2>3. past(e) = c.entries[e].history BY <2>2, TrimNothing
  <2>4. m[e] = [c.entries[e] EXCEPT !.history = past(e)] OBVIOUS
  <2> HIDE DEF past, m
  <2>5. QED BY <2>1, <2>3, <2>4 DEF Entry
<1>3. c.entries \in Maps(I, Entry) BY ContentParts
<1>4. c.entries = [e \in DOMAIN c.entries |-> c.entries[e]] BY <1>3, MapIs
<1>5. m = [e \in DOMAIN c.entries |-> m[e]] OBVIOUS
<1> HIDE DEF m
<1>6. m = c.entries BY <1>2, <1>4, <1>5
<1>7. [c EXCEPT !.entries = c.entries] = c BY DEF Content
<1>8. QED BY <1>1, <1>6, <1>7

\* When no entry is removed the lists stay as they are.
LEMMA NoEntriesGone ==
    ASSUME NEW I \in SUBSET Uuid, NEW c \in Content(I)
    PROVE  WithoutEntries(c, {}) = c
<1> DEFINE ids(h) == c.groups[h].entries
           keep(h) == {i \in DOMAIN ids(h) : ids(h)[i] \notin {} \/ c.entries[ids(h)[i]].parent # h}
           left(h) == Picked(ids(h), keep(h), <)
           m == [h \in DOMAIN c.groups |-> [c.groups[h] EXCEPT !.entries = left(h)]]
           k == [e \in DOMAIN c.entries \ {} |-> c.entries[e]]
<1>1. WithoutEntries(c, {}) = [c EXCEPT !.entries = k, !.groups = m] BY DEF WithoutEntries
<1>2. ASSUME NEW h \in DOMAIN c.groups PROVE m[h] = c.groups[h]
  <2>1. c.groups[h] \in Group BY ContentParts
  <2>2. ids(h) \in Seq(Uuid) BY <2>1 DEF Group
  <2>3. keep(h) = DOMAIN ids(h) OBVIOUS
  <2>4. m[h] = [c.groups[h] EXCEPT !.entries = left(h)] OBVIOUS
  <2> HIDE DEF keep, m
  <2>5. left(h) = ids(h)
    <3> HIDE DEF ids
    <3>1. QED BY <2>2, <2>3, AllPicked
  <2> HIDE DEF left
  <2>6. QED BY <2>1, <2>4, <2>5 DEF Group
<1>3. c.groups \in Maps(I, Group) /\ c.entries \in Maps(I, Entry) BY ContentParts
<1>4. c.groups = [h \in DOMAIN c.groups |-> c.groups[h]] BY <1>3, MapIs
<1>5. c.entries = [e \in DOMAIN c.entries |-> c.entries[e]] BY <1>3, MapIs
<1>6. m = [h \in DOMAIN c.groups |-> m[h]] OBVIOUS
<1>7. k = c.entries BY <1>5
<1> HIDE DEF m, k
<1>8. m = c.groups BY <1>2, <1>4, <1>6
<1>9. [c EXCEPT !.entries = c.entries, !.groups = c.groups] = c BY DEF Content
<1>10. QED BY <1>1, <1>7, <1>8, <1>9

\* When no group is removed neither.
LEMMA NoGroupsGone ==
    ASSUME NEW I \in SUBSET Uuid, NEW c \in Content(I)
    PROVE  WithoutGroups(c, {}) = c
<1> DEFINE ids(h) == c.groups[h].subs
           keep(h) == {i \in DOMAIN ids(h) : ids(h)[i] \notin {} \/ c.groups[ids(h)[i]].parent # h}
           left(h) == Picked(ids(h), keep(h), <)
           m == [h \in DOMAIN c.groups \ {} |-> [c.groups[h] EXCEPT !.subs = left(h)]]
<1>1. WithoutGroups(c, {}) = [c EXCEPT !.groups = m] BY DEF WithoutGroups
<1>2. ASSUME NEW h \in DOMAIN c.groups PROVE m[h] = c.groups[h]
  <2>1. c.groups[h] \in Group BY ContentParts
  <2>2. ids(h) \in Seq(Uuid) BY <2>1 DEF Group
  <2>3. keep(h) = DOMAIN ids(h) OBVIOUS
  <2>4. m[h] = [c.groups[h] EXCEPT !.subs = left(h)] OBVIOUS
  <2> HIDE DEF keep, m
  <2>5. left(h) = ids(h)
    <3> HIDE DEF ids
    <3>1. QED BY <2>2, <2>3, AllPicked
  <2> HIDE DEF left
  <2>6. QED BY <2>1, <2>4, <2>5 DEF Group
<1>3. c.groups \in Maps(I, Group) BY ContentParts
<1>4. c.groups = [h \in DOMAIN c.groups |-> c.groups[h]] BY <1>3, MapIs
<1>6. m = [h \in DOMAIN c.groups |-> m[h]] OBVIOUS
<1> HIDE DEF m
<1>8. m = c.groups BY <1>2, <1>4, <1>6
<1>9. [c EXCEPT !.groups = c.groups] = c BY DEF Content
<1>10. QED BY <1>1, <1>8, <1>9

-----------------------------------------------------------------------------
(* What a merge has settled                                                *)

\* There is nothing more to take from the source for the group x: a recycle bin
\* the target does not have is not made.
SettledGroup(s, d, x) ==
    /\ x \in DOMAIN s.groups
    /\ IF x \in DOMAIN d.groups
       THEN /\ s.groups[x].mod <= d.groups[x].mod
            /\ s.groups[x].moved <= d.groups[x].moved \/ s.groups[x].parent = d.groups[x].parent
       ELSE x = s.bin

\* Nothing more for the entry x.
SettledEntry(s, d, x) ==
    /\ x \in DOMAIN d.entries
    /\ s.entries[x].moved <= d.entries[x].moved \/ s.entries[x].parent = d.entries[x].parent
    /\ \/ s.entries[x].mod = d.entries[x].mod
       \/ /\ s.entries[x].mod < d.entries[x].mod
          /\ \E i \in DOMAIN d.entries[x].history : d.entries[x].history[i].mod = s.entries[x].mod

\* Nothing more for x, which the walk through the source meets.
Settled(s, d, x) ==
    IF x \in GroupsBelow(s, RootGroup) THEN SettledGroup(s, d, x)
    ELSE x \in DOMAIN s.entries => SettledEntry(s, d, x)

\* merge_groups leaves what is settled as it is.
LEMMA SettledStep ==
    ASSUME NEW I \in SUBSET Uuid, NEW s \in Content(I), NEW d \in Content(I), NEW x, Settled(s, d, x), NEW now
    PROVE  MergeStep(s, d, x, now) = Ok(d)
<1>1. CASE x \in GroupsBelow(s, RootGroup)
  <2>1. SettledGroup(s, d, x) /\ MergeStep(s, d, x, now) = MergeChildGroup(s, d, x, now)
    BY <1>1 DEF Settled, MergeStep
  <2>2. CASE x \notin DOMAIN d.groups
    <3>1. x \in DOMAIN s.groups /\ x = s.bin BY <2>1, <2>2 DEF SettledGroup
    <3>2. QED BY <2>1, <2>2, <3>1 DEF MergeChildGroup, HasGroup
  <2>3. CASE x \in DOMAIN d.groups
    <3> DEFINE a == s.groups[x] b == d.groups[x]
    <3>1. x \in DOMAIN s.groups /\ a.mod <= b.mod /\ (a.moved <= b.moved \/ a.parent = b.parent)
      BY <2>1, <2>3 DEF SettledGroup
    <3>2. a \in Group /\ b \in Group BY <2>3, <3>1, ContentParts
    <3>3. a.mod \in Nat /\ b.mod \in Nat /\ a.moved \in Nat /\ b.moved \in Nat
      BY <3>2, UuidsAssumption DEF Group, Time
    <3>4. ~IsNewer(a.mod, b.mod) /\ ~(IsNewer(a.moved, b.moved) /\ a.parent # b.parent)
      BY <3>1, <3>3 DEF IsNewer
    <3>5. MergeGroup(s, d, x) = d BY <3>4 DEF MergeGroup
    <3>6. MergeChildGroup(s, d, x, now) = AndThen(Ok(d), LAMBDA v : Ok(MergeGroup(s, v, x)))
      BY <2>3, <3>1, <3>4 DEF MergeChildGroup, HasGroup
    <3>7. MergeChildGroup(s, d, x, now) = Ok(MergeGroup(s, d, x)) BY <3>6 DEF AndThen, Ok
    <3>8. QED BY <2>1, <3>5, <3>7
  <2>4. QED BY <2>2, <2>3
<1>2. CASE x \notin GroupsBelow(s, RootGroup) /\ x \in DOMAIN s.entries
  <2> DEFINE a == s.entries[x] b == d.entries[x]
             found == \E i \in DOMAIN b.history : b.history[i].mod = a.mod
  <2>1. SettledEntry(s, d, x) /\ MergeStep(s, d, x, now) = MergeChildEntry(s, d, x, now)
    BY <1>2 DEF Settled, MergeStep, HasEntry
  <2>2. /\ x \in DOMAIN d.entries /\ (a.moved <= b.moved \/ a.parent = b.parent)
        /\ a.mod = b.mod \/ (a.mod < b.mod /\ found)
    BY <2>1 DEF SettledEntry
  <2>3. a \in Entry /\ b \in Entry BY <1>2, <2>2, ContentParts
  <2>4. a.mod \in Nat /\ b.mod \in Nat /\ a.moved \in Nat /\ b.moved \in Nat
    BY <2>3, UuidsAssumption DEF Entry, Time
  <2>5. ~(IsNewer(a.moved, b.moved) /\ a.parent # b.parent) BY <2>2, <2>4 DEF IsNewer
  <2>6. MergeEntry(s, d, x) = d
    <3> DEFINE newer == [d EXCEPT !.entries[x] = [a EXCEPT !.history = MergedHistory(a, b)]]
               older == [d EXCEPT !.entries[x].history = MergedHistory(b, a)]
    <3>1. MergeEntry(s, d, x) = CASE a.mod = b.mod -> d
                                  [] IsNewer(a.mod, b.mod) -> newer
                                  [] OTHER -> IF found THEN d ELSE older
      BY DEF MergeEntry
    <3>2. ~IsNewer(a.mod, b.mod) BY <2>2, <2>4 DEF IsNewer
    <3> HIDE DEF newer, older, a, b, found
    <3>3. CASE a.mod = b.mod BY <3>1, <3>2, <3>3
    <3>4. CASE a.mod # b.mod BY <2>2, <3>1, <3>2, <3>4
    <3>5. QED BY <3>3, <3>4
  <2>7. MergeChildEntry(s, d, x, now) = AndThen(Ok(d), LAMBDA v : Ok(MergeEntry(s, v, x)))
    BY <2>2, <2>5 DEF MergeChildEntry, HasEntry
  <2>8. MergeChildEntry(s, d, x, now) = Ok(MergeEntry(s, d, x)) BY <2>7 DEF AndThen, Ok
  <2>9. QED BY <2>1, <2>6, <2>8
<1>3. CASE x \notin GroupsBelow(s, RootGroup) /\ x \notin DOMAIN s.entries BY <1>3 DEF MergeStep, HasEntry
<1>4. QED BY <1>1, <1>2, <1>3

\* What the merge compares of a group: its place and its times.
SamePlaceAndTimes(a, b) == b.parent = a.parent /\ b.mod = a.mod /\ b.moved = a.moved

\* Outside of G and E there are the same groups, with their places and times,
\* and the same entries.
OnlyWithin(c, d, G, E) ==
    /\ DOMAIN c.groups \subseteq DOMAIN d.groups /\ DOMAIN d.groups \subseteq DOMAIN c.groups \cup G
    /\ \A g \in DOMAIN c.groups \ G : SamePlaceAndTimes(c.groups[g], d.groups[g])
    /\ \A e \in DOMAIN c.entries \ E : e \in DOMAIN d.entries /\ d.entries[e] = c.entries[e]

\* What is settled and not touched stays settled.
LEMMA SettledStays ==
    ASSUME NEW s, NEW c, NEW d, NEW G, NEW E, OnlyWithin(c, d, G, E), NEW y, Settled(s, c, y),
           y \in GroupsBelow(s, RootGroup) => y \notin G, y \notin GroupsBelow(s, RootGroup) => y \notin E
    PROVE  Settled(s, d, y)
<1>1. CASE y \in GroupsBelow(s, RootGroup)
  <2>1. SettledGroup(s, c, y) /\ y \notin G BY <1>1 DEF Settled
  <2>2. CASE y \in DOMAIN c.groups
    <3>1. y \in DOMAIN d.groups /\ SamePlaceAndTimes(c.groups[y], d.groups[y]) BY <2>1, <2>2 DEF OnlyWithin
    <3>2. SettledGroup(s, d, y) BY <2>1, <2>2, <3>1 DEF SettledGroup, SamePlaceAndTimes
    <3>3. QED BY <1>1, <3>2 DEF Settled
  <2>3. CASE y \notin DOMAIN c.groups
    <3>1. y \notin DOMAIN d.groups BY <2>1, <2>3 DEF OnlyWithin
    <3>2. SettledGroup(s, d, y) BY <2>1, <2>3, <3>1 DEF SettledGroup
    <3>3. QED BY <1>1, <3>2 DEF Settled
  <2>4. QED BY <2>2, <2>3
<1>2. CASE y \notin GroupsBelow(s, RootGroup) /\ y \in DOMAIN s.entries
  <2>1. SettledEntry(s, c, y) /\ y \notin E BY <1>2 DEF Settled
  <2>2. y \in DOMAIN d.entries /\ d.entries[y] = c.entries[y] BY <2>1 DEF SettledEntry, OnlyWithin
  <2>3. SettledEntry(s, d, y) BY <2>1, <2>2 DEF SettledEntry
  <2>4. QED BY <1>2, <2>3 DEF Settled
<1>3. CASE y \notin GroupsBelow(s, RootGroup) /\ y \notin DOMAIN s.entries BY <1>3 DEF Settled
<1>4. QED BY <1>1, <1>2, <1>3

\* The pushes and retains on the lists of a group change no place and no time.
LEMMA ListsOnly ==
    ASSUME NEW I \in SUBSET Uuid, NEW c \in Content(I), NEW p, NEW x \in Uuid,
           NEW d \in {ListGroup(c, p, x), UnlistGroup(c, p, x), ListEntry(c, p, x), UnlistEntry(c, p, x)}
    PROVE  /\ d \in Content(I) /\ DOMAIN d.groups = DOMAIN c.groups /\ d.entries = c.entries
           /\ d.bin = c.bin /\ d.deleted = c.deleted
           /\ \A g \in DOMAIN c.groups : SamePlaceAndTimes(c.groups[g], d.groups[g])
<1> DEFINE v1 == [c.groups[p] EXCEPT !.subs = Append(c.groups[p].subs, x)]
           v2 == [c.groups[p] EXCEPT !.subs = Retained(c.groups[p].subs, x)]
           v3 == [c.groups[p] EXCEPT !.entries = Append(c.groups[p].entries, x)]
           v4 == [c.groups[p] EXCEPT !.entries = Retained(c.groups[p].entries, x)]
<1>1. /\ d \in Content(I) /\ OnlyGroup(c, d, p)
      /\ p \in DOMAIN c.groups => d.groups[p] \in {v1, v2, v3, v4}
  <2>1. CASE d = ListGroup(c, p, x)
    <3>1. ListGroup(c, p, x) \in Content(I) /\ OnlyGroup(c, ListGroup(c, p, x), p)
          /\ (p \in DOMAIN c.groups => ListGroup(c, p, x).groups[p] = v1)
      BY GroupListed, SMTT(40)
    <3>2. QED BY <2>1, <3>1
  <2>2. CASE d = UnlistGroup(c, p, x)
    <3>1. UnlistGroup(c, p, x) \in Content(I) /\ OnlyGroup(c, UnlistGroup(c, p, x), p)
          /\ (p \in DOMAIN c.groups => UnlistGroup(c, p, x).groups[p] = v2)
      BY GroupUnlisted
    <3>2. QED BY <2>2, <3>1
  <2>3. CASE d = ListEntry(c, p, x)
    <3>1. ListEntry(c, p, x) \in Content(I) /\ OnlyGroup(c, ListEntry(c, p, x), p)
          /\ (p \in DOMAIN c.groups => ListEntry(c, p, x).groups[p] = v3)
      BY EntryListed
    <3>2. QED BY <2>3, <3>1
  <2>4. CASE d = UnlistEntry(c, p, x)
    <3>1. UnlistEntry(c, p, x) \in Content(I) /\ OnlyGroup(c, UnlistEntry(c, p, x), p)
          /\ (p \in DOMAIN c.groups => UnlistEntry(c, p, x).groups[p] = v4)
      BY EntryUnlisted
    <3>2. QED BY <2>4, <3>1
  <2>5. QED BY <2>1, <2>2, <2>3, <2>4
<1> HIDE DEF v1, v2, v3, v4
<1>2. ASSUME p \in DOMAIN c.groups PROVE SamePlaceAndTimes(c.groups[p], d.groups[p])
  <2>1. c.groups[p] \in Group BY <1>2, ContentParts
  <2>2. \A v \in {v1, v2, v3, v4} : SamePlaceAndTimes(c.groups[p], v)
    BY <2>1 DEF v1, v2, v3, v4, SamePlaceAndTimes, Group
  <2>3. QED BY <1>1, <1>2, <2>2
<1>3. \A g \in DOMAIN c.groups : SamePlaceAndTimes(c.groups[g], d.groups[g])
  BY <1>1, <1>2 DEF OnlyGroup, SamePlaceAndTimes
<1>4. QED BY <1>1, <1>3 DEF OnlyGroup

\* insert_group
LEMMA InsertGroupOnly ==
    ASSUME NEW I \in SUBSET Uuid, NEW c \in Content(I), NEW g \in I, NEW group \in Group
    PROVE  LET r == InsertGroup(c, g, group)
           IN  /\ OnlyWithin(c, r.db, {g} \ DOMAIN c.groups, {}) /\ r.db.bin = c.bin
               /\ r.ok => g \in DOMAIN r.db.groups /\ SamePlaceAndTimes(group, r.db.groups[g])
<1> DEFINE r == InsertGroup(c, g, group)
           p == group.parent
           listed == ListGroup(c, p, g)
           put == PutGroup(listed, g, group)
<1>1. (r = Ok(put) /\ g \notin DOMAIN c.groups) \/ r = Err(c) BY DEF InsertGroup, HasGroup
<1>2. /\ listed \in Content(I) /\ DOMAIN listed.groups = DOMAIN c.groups /\ listed.entries = c.entries
      /\ listed.bin = c.bin /\ listed.deleted = c.deleted
      /\ \A h \in DOMAIN c.groups : SamePlaceAndTimes(c.groups[h], listed.groups[h])
  BY ListsOnly
<1> HIDE DEF listed, r
<1>3. /\ put \in Content(I) /\ DOMAIN put.groups = DOMAIN listed.groups \cup {g} /\ put.groups[g] = group
      /\ (\A y \in DOMAIN listed.groups : y # g => put.groups[y] = listed.groups[y])
      /\ put.entries = listed.entries /\ put.bin = listed.bin /\ put.deleted = listed.deleted
  BY <1>2, GroupPut
<1> HIDE DEF put
<1>4. CASE r = Err(c)
  <2>1. r.db = c /\ r.ok = FALSE BY <1>4 DEF Err
  <2>2. OnlyWithin(c, c, {g} \ DOMAIN c.groups, {}) BY DEF OnlyWithin, SamePlaceAndTimes
  <2>3. QED BY <2>1, <2>2 DEF r
<1>5. CASE r = Ok(put) /\ g \notin DOMAIN c.groups
  <2>1. r.db = put BY <1>5 DEF Ok
  <2>2. OnlyWithin(c, put, {g} \ DOMAIN c.groups, {}) BY <1>2, <1>3, <1>5 DEF OnlyWithin
  <2>3. g \in DOMAIN put.groups /\ SamePlaceAndTimes(group, put.groups[g]) BY <1>3 DEF SamePlaceAndTimes
  <2>4. QED BY <1>2, <1>3, <2>1, <2>2, <2>3 DEF r
<1>6. QED BY <1>1, <1>4, <1>5

\* insert_entry
LEMMA InsertEntryOnly ==
    ASSUME NEW I \in SUBSET Uuid, NEW c \in Content(I), NEW e \in I, NEW entry \in Entry
    PROVE  LET r == InsertEntry(c, e, entry)
           IN  /\ OnlyWithin(c, r.db, {}, {})
               /\ r.ok => e \in DOMAIN r.db.entries /\ r.db.entries[e] = entry
<1> DEFINE r == InsertEntry(c, e, entry)
           p == entry.parent
           listed == ListEntry(c, p, e)
           put == PutEntry(listed, e, entry)
<1>1. (r = Ok(put) /\ e \notin DOMAIN c.entries) \/ r = Err(c) BY DEF InsertEntry, HasEntry
<1>2. /\ listed \in Content(I) /\ DOMAIN listed.groups = DOMAIN c.groups /\ listed.entries = c.entries
      /\ listed.bin = c.bin /\ listed.deleted = c.deleted
      /\ \A h \in DOMAIN c.groups : SamePlaceAndTimes(c.groups[h], listed.groups[h])
  BY ListsOnly
<1> HIDE DEF listed, r
<1>3. /\ put \in Content(I) /\ DOMAIN put.entries = DOMAIN listed.entries \cup {e} /\ put.entries[e] = entry
      /\ (\A y \in DOMAIN listed.entries : y # e => put.entries[y] = listed.entries[y])
      /\ put.groups = listed.groups /\ put.bin = listed.bin /\ put.deleted = listed.deleted
  BY <1>2, EntryPut
<1> HIDE DEF put
<1>4. CASE r = Err(c)
  <2>1. r.db = c /\ r.ok = FALSE BY <1>4 DEF Err
  <2>2. OnlyWithin(c, c, {}, {}) BY DEF OnlyWithin, SamePlaceAndTimes
  <2>3. QED BY <2>1, <2>2 DEF r
<1>5. CASE r = Ok(put) /\ e \notin DOMAIN c.entries
  <2>1. r.db = put BY <1>5 DEF Ok
  <2>2. OnlyWithin(c, put, {}, {}) BY <1>2, <1>3, <1>5 DEF OnlyWithin
  <2>3. QED BY <1>3, <2>1, <2>2 DEF r
<1>6. QED BY <1>1, <1>4, <1>5

\* move_group
LEMMA MoveGroupOnly ==
    ASSUME NEW I \in SUBSET Uuid, NEW c \in Content(I), NEW g \in Uuid, NEW p \in Uuid, NEW now \in Time
    PROVE  LET r == MoveGroup(c, g, p, now)
           IN  /\ OnlyWithin(c, r.db, {g}, {})
               /\ r.ok => g \in DOMAIN c.groups /\ g \in DOMAIN r.db.groups /\ r.db.groups[g].parent = p
<1> DEFINE r == MoveGroup(c, g, p, now)
           v == [c.groups[g] EXCEPT !.parent = p, !.moved = now]
           moved == [c EXCEPT !.groups[g] = v]
           listed == ListGroup(moved, p, g)
           d == UnlistGroup(listed, c.groups[g].parent, g)
<1>1. (r = Ok(d) /\ g \in DOMAIN c.groups) \/ r = Err(c) BY DEF MoveGroup, HasGroup
<1> HIDE DEF r
<1>2. CASE r = Err(c)
  <2>1. r.db = c /\ r.ok = FALSE BY <1>2 DEF Err
  <2>2. OnlyWithin(c, c, {g}, {}) BY DEF OnlyWithin, SamePlaceAndTimes
  <2>3. QED BY <2>1, <2>2 DEF r
<1>3. CASE r = Ok(d) /\ g \in DOMAIN c.groups
  <2>0. c.groups[g] \in Group BY <1>3, ContentParts
  <2>1. v \in Group /\ v.parent = p BY <2>0 DEF Group
  <2> HIDE DEF v
  <2>2. /\ moved \in Content(I) /\ DOMAIN moved.groups = DOMAIN c.groups /\ moved.groups[g] = v
        /\ \A h \in DOMAIN c.groups : h # g => moved.groups[h] = c.groups[h]
        /\ moved.entries = c.entries /\ moved.bin = c.bin /\ moved.deleted = c.deleted
    BY <1>3, <2>1, ChangedGroup
  <2> HIDE DEF moved
  <2>3. /\ listed \in Content(I) /\ DOMAIN listed.groups = DOMAIN moved.groups /\ listed.entries = moved.entries
        /\ listed.bin = moved.bin /\ listed.deleted = moved.deleted
        /\ \A h \in DOMAIN moved.groups : SamePlaceAndTimes(moved.groups[h], listed.groups[h])
    BY <2>2, ListsOnly
  <2> HIDE DEF listed
  <2>4. /\ d \in Content(I) /\ DOMAIN d.groups = DOMAIN listed.groups /\ d.entries = listed.entries
        /\ d.bin = listed.bin /\ d.deleted = listed.deleted
        /\ \A h \in DOMAIN listed.groups : SamePlaceAndTimes(listed.groups[h], d.groups[h])
    BY <2>3, ListsOnly
  <2> HIDE DEF d
  <2>5. OnlyWithin(c, d, {g}, {}) BY <2>2, <2>3, <2>4 DEF OnlyWithin, SamePlaceAndTimes
  <2>6. g \in DOMAIN d.groups /\ d.groups[g].parent = p
    BY <1>3, <2>1, <2>2, <2>3, <2>4 DEF SamePlaceAndTimes
  <2>7. r.db = d BY <1>3 DEF Ok
  <2>8. QED BY <1>3, <2>5, <2>6, <2>7 DEF r
<1>4. QED BY <1>1, <1>2, <1>3

\* move_entry
LEMMA MoveEntryOnly ==
    ASSUME NEW I \in SUBSET Uuid, NEW c \in Content(I), NEW e \in Uuid, NEW p \in Uuid, NEW now \in Time
    PROVE  LET r == MoveEntry(c, e, p, now)
           IN  /\ OnlyWithin(c, r.db, {}, {e})
               /\ r.ok => e \in DOMAIN c.entries /\ e \in DOMAIN r.db.entries /\ r.db.entries[e].parent = p
<1> DEFINE r == MoveEntry(c, e, p, now)
           v == [c.entries[e] EXCEPT !.parent = p, !.moved = now]
           moved == [c EXCEPT !.entries[e] = v]
           listed == ListEntry(moved, p, e)
           d == UnlistEntry(listed, c.entries[e].parent, e)
<1>1. (r = Ok(d) /\ e \in DOMAIN c.entries) \/ r = Err(c) BY DEF MoveEntry, HasEntry
<1> HIDE DEF r
<1>2. CASE r = Err(c)
  <2>1. r.db = c /\ r.ok = FALSE BY <1>2 DEF Err
  <2>2. OnlyWithin(c, c, {}, {e}) BY DEF OnlyWithin, SamePlaceAndTimes
  <2>3. QED BY <2>1, <2>2 DEF r
<1>3. CASE r = Ok(d) /\ e \in DOMAIN c.entries
  <2>0. c.entries[e] \in Entry BY <1>3, ContentParts
  <2>1. v \in Entry /\ v.parent = p BY <2>0 DEF Entry
  <2> HIDE DEF v
  <2>2. /\ moved \in Content(I) /\ DOMAIN moved.entries = DOMAIN c.entries /\ moved.entries[e] = v
        /\ \A f \in DOMAIN c.entries : f # e => moved.entries[f] = c.entries[f]
        /\ moved.groups = c.groups /\ moved.bin = c.bin /\ moved.deleted = c.deleted
    BY <1>3, <2>1, ChangedEntry
  <2> HIDE DEF moved
  <2>3. /\ listed \in Content(I) /\ DOMAIN listed.groups = DOMAIN moved.groups /\ listed.entries = moved.entries
        /\ listed.bin = moved.bin /\ listed.deleted = moved.deleted
        /\ \A h \in DOMAIN moved.groups : SamePlaceAndTimes(moved.groups[h], listed.groups[h])
    BY <2>2, ListsOnly
  <2> HIDE DEF listed
  <2>4. /\ d \in Content(I) /\ DOMAIN d.groups = DOMAIN listed.groups /\ d.entries = listed.entries
        /\ d.bin = listed.bin /\ d.deleted = listed.deleted
        /\ \A h \in DOMAIN listed.groups : SamePlaceAndTimes(listed.groups[h], d.groups[h])
    BY <2>3, ListsOnly
  <2> HIDE DEF d
  <2>5. OnlyWithin(c, d, {}, {e}) BY <2>2, <2>3, <2>4 DEF OnlyWithin, SamePlaceAndTimes
  <2>6. e \in DOMAIN d.entries /\ d.entries[e].parent = p BY <1>3, <2>1, <2>2, <2>3, <2>4
  <2>7. r.db = d BY <1>3 DEF Ok
  <2>8. QED BY <1>3, <2>5, <2>6, <2>7 DEF r
<1>4. QED BY <1>1, <1>2, <1>3

\* update_group with a newer group: the times are then not older than the source's.
LEMMA MergeGroupOnly ==
    ASSUME NEW I \in SUBSET Uuid, NEW s \in Content(I), NEW c \in Content(I),
           NEW g \in DOMAIN s.groups, g \in DOMAIN c.groups
    PROVE  LET d == MergeGroup(s, c, g)
           IN  /\ OnlyWithin(c, d, {g}, {}) /\ DOMAIN d.groups = DOMAIN c.groups
               /\ d.groups[g].parent = c.groups[g].parent /\ s.groups[g].mod <= d.groups[g].mod
               /\ s.groups[g].moved <= c.groups[g].moved => s.groups[g].moved <= d.groups[g].moved
<1> DEFINE d == MergeGroup(s, c, g)
           a == s.groups[g]
           v == [c.groups[g] EXCEPT !.mod = a.mod, !.by = a.by, !.moved = a.moved]
<1>1. a \in Group /\ c.groups[g] \in Group BY ContentParts
<1>2. /\ a.mod \in Nat /\ a.moved \in Nat /\ c.groups[g].mod \in Nat /\ c.groups[g].moved \in Nat
  BY <1>1, UuidsAssumption DEF Group, Time
<1>3. CASE ~IsNewer(a.mod, c.groups[g].mod)
  <2>1. d = c BY <1>3 DEF MergeGroup
  <2>2. a.mod <= c.groups[g].mod BY <1>2, <1>3 DEF IsNewer
  <2>3. OnlyWithin(c, c, {g}, {}) BY DEF OnlyWithin, SamePlaceAndTimes
  <2>4. QED BY <2>1, <2>2, <2>3
<1>4. CASE IsNewer(a.mod, c.groups[g].mod)
  <2>1. d = [c EXCEPT !.groups[g] = v] BY <1>4 DEF MergeGroup, TakeGroupFields
  <2>2. v \in Group /\ v.parent = c.groups[g].parent /\ v.mod = a.mod /\ v.moved = a.moved BY <1>1 DEF Group
  <2> HIDE DEF v, d
  <2>3. /\ d \in Content(I) /\ DOMAIN d.groups = DOMAIN c.groups /\ d.groups[g] = v
        /\ \A h \in DOMAIN c.groups : h # g => d.groups[h] = c.groups[h]
        /\ d.entries = c.entries /\ d.bin = c.bin /\ d.deleted = c.deleted
    BY <2>1, <2>2, ChangedGroup
  <2>4. OnlyWithin(c, d, {g}, {}) BY <2>3 DEF OnlyWithin, SamePlaceAndTimes
  <2>5. a.mod <= v.mod /\ a.moved <= v.moved BY <1>2, <2>2
  <2>6. QED BY <2>2, <2>3, <2>4, <2>5 DEF d
<1>5. QED BY <1>3, <1>4

\* What changes within a part twice has changed within it.
LEMMA WithinAgain ==
    ASSUME NEW c, NEW d, NEW b, NEW G, NEW E, OnlyWithin(c, d, G, E), OnlyWithin(d, b, G, E)
    PROVE  OnlyWithin(c, b, G, E)
<1>1. DOMAIN c.groups \subseteq DOMAIN b.groups /\ DOMAIN b.groups \subseteq DOMAIN c.groups \cup G BY DEF OnlyWithin
<1>2. \A g \in DOMAIN c.groups \ G : SamePlaceAndTimes(c.groups[g], b.groups[g]) BY DEF OnlyWithin, SamePlaceAndTimes
<1>3. \A e \in DOMAIN c.entries \ E : e \in DOMAIN b.entries /\ b.entries[e] = c.entries[e] BY DEF OnlyWithin
<1>4. QED BY <1>1, <1>2, <1>3 DEF OnlyWithin

\* merge_groups for one group settles it.
LEMMA MergeChildGroupSettles ==
    ASSUME NEW I \in SUBSET Uuid, NEW s \in Content(I), NEW c \in Content(I), NEW g \in Uuid, NEW now \in Time,
           MergeChildGroup(s, c, g, now).ok
    PROVE  LET d == MergeChildGroup(s, c, g, now).db
           IN  OnlyWithin(c, d, {g}, {}) /\ SettledGroup(s, d, g)
<1> DEFINE r == MergeChildGroup(s, c, g, now)
           v == [s.groups[g] EXCEPT !.subs = <<>>, !.entries = <<>>]
           a == s.groups[g]
           p == a.parent
           moved == IF IsNewer(a.moved, c.groups[g].moved) /\ p # c.groups[g].parent
                    THEN MoveGroup(c, g, p, now) ELSE Ok(c)
<1>0. OnlyWithin(c, c, {g}, {}) BY DEF OnlyWithin, SamePlaceAndTimes
<1>1. CASE ~HasGroup(s, g)
  <2>1. r = Err(c) BY <1>1 DEF MergeChildGroup
  <2>2. r.ok = FALSE BY <2>1 DEF Err
  <2>3. QED BY <2>2
<1>2. CASE HasGroup(s, g) /\ ~HasGroup(c, g)
  <2>1. r = IF g = s.bin THEN Ok(c) ELSE InsertGroup(c, g, v) BY <1>2 DEF MergeChildGroup
  <2>2. g \in I /\ a \in Group BY <1>2, ContentParts DEF HasGroup
  <2>3. <<>> \in Seq(Uuid) OBVIOUS
  <2>4. v \in Group /\ v.parent = a.parent /\ v.mod = a.mod /\ v.moved = a.moved BY <2>2, <2>3 DEF Group
  <2>5. a.mod \in Nat /\ a.moved \in Nat BY <2>2, UuidsAssumption DEF Group, Time
  <2> HIDE DEF v
  <2>6. CASE g = s.bin
    <3>1. r.db = c BY <2>1, <2>6 DEF Ok
    <3>2. SettledGroup(s, c, g) BY <1>2, <2>6 DEF SettledGroup, HasGroup
    <3>3. QED BY <1>0, <3>1, <3>2
  <2>7. CASE g # s.bin
    <3> DEFINE q == InsertGroup(c, g, v)
    <3>1. r = q BY <2>1, <2>7
    <3>2. /\ OnlyWithin(c, q.db, {g} \ DOMAIN c.groups, {}) /\ q.db.bin = c.bin
          /\ q.ok => g \in DOMAIN q.db.groups /\ SamePlaceAndTimes(v, q.db.groups[g])
      BY <2>2, <2>4, InsertGroupOnly
    <3> HIDE DEF q
    <3>3. q.ok BY <3>1
    <3>4. {g} \ DOMAIN c.groups = {g} BY <1>2 DEF HasGroup
    <3>5. OnlyWithin(c, q.db, {g}, {}) BY <3>2, <3>4
    <3>6. g \in DOMAIN q.db.groups /\ q.db.groups[g].mod = a.mod /\ q.db.groups[g].parent = a.parent
      BY <2>4, <3>2, <3>3 DEF SamePlaceAndTimes
    <3>7. a.mod <= q.db.groups[g].mod BY <2>5, <3>6
    <3>8. SettledGroup(s, q.db, g) BY <1>2, <3>6, <3>7 DEF SettledGroup, HasGroup
    <3>9. QED BY <3>1, <3>5, <3>8
  <2>8. QED BY <2>6, <2>7
<1>3. CASE HasGroup(s, g) /\ HasGroup(c, g)
  <2> DEFINE b == c.groups[g]
  <2>1. r = AndThen(moved, LAMBDA d : Ok(MergeGroup(s, d, g))) BY <1>3 DEF MergeChildGroup
  <2>2. r = IF moved.ok THEN Ok(MergeGroup(s, moved.db, g)) ELSE moved BY <2>1 DEF AndThen
  <2>3. g \in I /\ a \in Group /\ b \in Group BY <1>3, ContentParts DEF HasGroup
  <2>4. a.moved \in Nat /\ b.moved \in Nat BY <2>3, UuidsAssumption DEF Group, Time
  <2>5. moved.ok => /\ moved.db \in Content(I) /\ OnlyWithin(c, moved.db, {g}, {}) /\ g \in DOMAIN moved.db.groups
                    /\ a.moved <= moved.db.groups[g].moved \/ moved.db.groups[g].parent = p
    <3> DEFINE q == MoveGroup(c, g, p, now)
    <3>1. CASE IsNewer(a.moved, b.moved) /\ p # b.parent
      <4>1. moved = q BY <3>1
      <4>2. CASE p \in Uuid
        <5>1. /\ q \in Result(I) /\ Kept(c, q.db, {})
              /\ q.db.entries = c.entries /\ q.db.bin = c.bin
          BY <4>2, MoveGroupTyped
        <5>2. /\ OnlyWithin(c, q.db, {g}, {})
              /\ q.ok => g \in DOMAIN c.groups /\ g \in DOMAIN q.db.groups /\ q.db.groups[g].parent = p
          BY <4>2, MoveGroupOnly
        <5> HIDE DEF q, moved
        <5>3. q.db \in Content(I) BY <5>1 DEF Result
        <5>4. QED BY <4>1, <5>2, <5>3
      <4>3. CASE p \notin Uuid
        <5>1. p \notin DOMAIN c.groups BY <4>3, ContentParts
        <5>2. q = Err(c) BY <5>1 DEF MoveGroup, HasGroup
        <5>3. q.ok = FALSE BY <5>2 DEF Err
        <5>4. QED BY <4>1, <5>3
      <4>4. QED BY <4>2, <4>3
    <3>2. CASE ~(IsNewer(a.moved, b.moved) /\ p # b.parent)
      <4>1. moved = Ok(c) BY <3>2
      <4>2. moved.db = c BY <4>1 DEF Ok
      <4>3. a.moved <= b.moved \/ b.parent = p BY <2>4, <3>2 DEF IsNewer
      <4>4. QED BY <1>0, <1>3, <4>2, <4>3 DEF HasGroup
    <3>3. QED BY <3>1, <3>2
  <2> HIDE DEF moved
  <2>6. moved.ok BY <2>2
  <2> DEFINE m == moved.db d == MergeGroup(s, m, g)
  <2>7. m \in Content(I) /\ g \in DOMAIN s.groups /\ g \in DOMAIN m.groups BY <1>3, <2>5, <2>6 DEF HasGroup
  <2>8. r.db = d BY <2>2, <2>6 DEF Ok
  <2>9. /\ OnlyWithin(c, m, {g}, {}) /\ (a.moved <= m.groups[g].moved \/ m.groups[g].parent = p) BY <2>5, <2>6
  <2> HIDE DEF m, r
  <2>10. /\ OnlyWithin(m, d, {g}, {}) /\ DOMAIN d.groups = DOMAIN m.groups
         /\ d.groups[g].parent = m.groups[g].parent /\ s.groups[g].mod <= d.groups[g].mod
         /\ s.groups[g].moved <= m.groups[g].moved => s.groups[g].moved <= d.groups[g].moved
    BY <2>7, MergeGroupOnly
  <2> HIDE DEF d
  <2>11. OnlyWithin(c, d, {g}, {}) BY <2>9, <2>10, WithinAgain
  <2>12. SettledGroup(s, d, g) BY <2>7, <2>9, <2>10 DEF SettledGroup
  <2>13. QED BY <2>8, <2>11, <2>12 DEF r
<1>4. QED BY <1>1, <1>2, <1>3

\* Without a limit merge_histories keeps a version of the time of the entry that
\* becomes one.
LEMMA MergedHasLast ==
    ASSUME HistoryMaxItems < 0, NEW to \in Entry, NEW from \in Entry
    PROVE  LET merged == MergedHistory(to, from)
           IN  merged \in Seq(Version) /\ \E i \in DOMAIN merged : merged[i].mod = from.mod
<1> DEFINE merged == MergedHistory(to, from)
           last1 == [mod |-> from.mod, by |-> from.by]
<1>1. /\ merged \in Seq(Version) /\ ToSet(merged) \subseteq ToSet(AllVersions(to, from))
      /\ \A v \in ToSet(AllVersions(to, from)) : \E w \in ToSet(merged) : w.mod = v.mod
  BY MergedVersions
<1>2. /\ AllVersions(to, from) \in Seq(Version)
      /\ ToSet(AllVersions(to, from)) = ToSet(to.history) \cup ToSet(CreateHistories(from))
  BY AllVersionsOf
<1>3. ToSet(CreateHistories(from)) = ToSet(from.history) \cup {last1} BY CreatedHistories
<1> HIDE DEF merged
<1>4. PICK w \in ToSet(merged) : w.mod = last1.mod BY <1>1, <1>2, <1>3
<1>5. PICK i \in DOMAIN merged : w = merged[i] BY <1>1 DEF ToSet
<1>6. QED BY <1>1, <1>4, <1>5 DEF merged

\* merge_entry settles an entry that is in its place.
LEMMA MergeEntrySettles ==
    ASSUME HistoryMaxItems < 0, NEW I \in SUBSET Uuid, NEW s \in Content(I), NEW c \in Content(I),
           NEW e \in DOMAIN s.entries, e \in DOMAIN c.entries,
           s.entries[e].moved <= c.entries[e].moved \/ s.entries[e].parent = c.entries[e].parent
    PROVE  LET d == MergeEntry(s, c, e)
           IN  OnlyWithin(c, d, {}, {e}) /\ SettledEntry(s, d, e)
<1> DEFINE d == MergeEntry(s, c, e)
           a == s.entries[e]
           b == c.entries[e]
           found == \E i \in DOMAIN b.history : b.history[i].mod = a.mod
           newer == [a EXCEPT !.history = MergedHistory(a, b)]
           older == [b EXCEPT !.history = MergedHistory(b, a)]
           taken == [c EXCEPT !.entries[e] = newer]
           joined == [c EXCEPT !.entries[e] = older]
<1>1. a \in Entry /\ b \in Entry BY ContentParts
<1>2. a.mod \in Nat /\ b.mod \in Nat BY <1>1, UuidsAssumption DEF Entry, Time
<1>3. \/ a.mod = b.mod /\ d = c
      \/ a.mod < b.mod /\ found /\ d = c
      \/ a.mod < b.mod /\ d = joined
      \/ d = taken
  <2>1. joined = [c EXCEPT !.entries[e].history = MergedHistory(b, a)] OBVIOUS
  <2>2. d = CASE a.mod = b.mod -> c
              [] IsNewer(a.mod, b.mod) -> taken
              [] OTHER -> IF found THEN c ELSE [c EXCEPT !.entries[e].history = MergedHistory(b, a)]
    BY DEF MergeEntry
  <2>3. a.mod = b.mod \/ (IsNewer(a.mod, b.mod) /\ a.mod # b.mod) \/ (a.mod < b.mod /\ ~IsNewer(a.mod, b.mod) /\ a.mod # b.mod)
    BY <1>2 DEF IsNewer
  <2>4. ~(a.mod = b.mod /\ IsNewer(a.mod, b.mod)) BY <1>2 DEF IsNewer
  <2> HIDE DEF d, taken, joined, a, b, found
  <2>5. CASE a.mod = b.mod BY <2>2, <2>4, <2>5
  <2>6. CASE IsNewer(a.mod, b.mod) /\ a.mod # b.mod BY <2>2, <2>6
  <2>7. CASE a.mod < b.mod /\ ~IsNewer(a.mod, b.mod) /\ a.mod # b.mod BY <2>1, <2>2, <2>7
  <2>8. QED BY <2>3, <2>5, <2>6, <2>7
<1>4. OnlyWithin(c, c, {}, {e}) BY DEF OnlyWithin, SamePlaceAndTimes
<1>5. MergedHistory(a, b) \in Seq(Version) BY <1>1, MergedVersions
<1>6. MergedHistory(b, a) \in Seq(Version) /\ \E i \in DOMAIN MergedHistory(b, a) : MergedHistory(b, a)[i].mod = a.mod
  <2> DEFINE m == MergedHistory(b, a)
  <2>1. m \in Seq(Version) /\ \E i \in DOMAIN m : m[i].mod = a.mod BY <1>1, MergedHasLast
  <2>2. QED BY <2>1
<1>7. newer \in Entry /\ newer.mod = a.mod /\ newer.parent = a.parent
  <2> HIDE DEF a
  <2>1. QED BY <1>1, <1>5 DEF Entry
<1>8. /\ older \in Entry /\ older.mod = b.mod /\ older.parent = b.parent /\ older.moved = b.moved
      /\ older.history = MergedHistory(b, a)
  <2> HIDE DEF b
  <2>1. QED BY <1>1, <1>6 DEF Entry
<1> HIDE DEF d, newer, older
<1>9. CASE d = c /\ (a.mod = b.mod \/ (a.mod < b.mod /\ found))
  <2>1. SettledEntry(s, c, e) BY <1>9 DEF SettledEntry
  <2>2. QED BY <1>4, <1>9, <2>1 DEF d
<1>10. CASE d = taken
  <2>1. /\ taken \in Content(I) /\ DOMAIN taken.entries = DOMAIN c.entries /\ taken.entries[e] = newer
        /\ \A f \in DOMAIN c.entries : f # e => taken.entries[f] = c.entries[f]
        /\ taken.groups = c.groups /\ taken.bin = c.bin /\ taken.deleted = c.deleted
    BY <1>7, ChangedEntry
  <2> HIDE DEF taken
  <2>2. OnlyWithin(c, taken, {}, {e}) BY <2>1 DEF OnlyWithin, SamePlaceAndTimes
  <2>3. SettledEntry(s, taken, e) BY <1>7, <2>1 DEF SettledEntry
  <2>4. QED BY <1>10, <2>2, <2>3 DEF d
<1>11. CASE d = joined /\ a.mod < b.mod
  <2>1. /\ joined \in Content(I) /\ DOMAIN joined.entries = DOMAIN c.entries /\ joined.entries[e] = older
        /\ \A f \in DOMAIN c.entries : f # e => joined.entries[f] = c.entries[f]
        /\ joined.groups = c.groups /\ joined.bin = c.bin /\ joined.deleted = c.deleted
    BY <1>8, ChangedEntry
  <2> HIDE DEF joined
  <2>2. OnlyWithin(c, joined, {}, {e}) BY <2>1 DEF OnlyWithin, SamePlaceAndTimes
  <2>3. a.mod < joined.entries[e].mod
        /\ \E i \in DOMAIN joined.entries[e].history : joined.entries[e].history[i].mod = a.mod
    BY <1>6, <1>8, <1>11, <2>1
  <2>4. SettledEntry(s, joined, e) BY <1>8, <2>1, <2>3 DEF SettledEntry
  <2>5. QED BY <1>11, <2>2, <2>4 DEF d
<1>12. QED BY <1>3, <1>9, <1>10, <1>11

\* merge_entries for one entry settles it.
LEMMA MergeChildEntrySettles ==
    ASSUME HistoryMaxItems < 0, NEW I \in SUBSET Uuid, NEW s \in Content(I), NEW c \in Content(I),
           NEW e \in DOMAIN s.entries, NEW now \in Time, MergeChildEntry(s, c, e, now).ok
    PROVE  LET d == MergeChildEntry(s, c, e, now).db
           IN  OnlyWithin(c, d, {}, {e}) /\ SettledEntry(s, d, e)
<1> DEFINE r == MergeChildEntry(s, c, e, now)
           a == s.entries[e]
           moved == IF IsNewer(a.moved, c.entries[e].moved) /\ a.parent # c.entries[e].parent
                    THEN MoveEntry(c, e, a.parent, now) ELSE Ok(c)
<1>0. a \in Entry /\ e \in I /\ e \in Uuid /\ OnlyWithin(c, c, {}, {e})
  BY ContentParts DEF OnlyWithin, SamePlaceAndTimes
<1>1. CASE ~HasEntry(c, e)
  <2> DEFINE q == InsertEntry(c, e, a)
  <2>1. r = q BY <1>1 DEF MergeChildEntry
  <2>2. OnlyWithin(c, q.db, {}, {}) /\ (q.ok => e \in DOMAIN q.db.entries /\ q.db.entries[e] = a)
    BY <1>0, InsertEntryOnly
  <2> HIDE DEF q
  <2>3. e \in DOMAIN q.db.entries /\ q.db.entries[e] = a BY <2>1, <2>2
  <2>4. SettledEntry(s, q.db, e) BY <2>3 DEF SettledEntry
  <2>5. OnlyWithin(c, q.db, {}, {e}) BY <2>2 DEF OnlyWithin
  <2>6. QED BY <2>1, <2>4, <2>5
<1>2. CASE HasEntry(c, e)
  <2> DEFINE b == c.entries[e]
  <2>1. r = AndThen(moved, LAMBDA d : Ok(MergeEntry(s, d, e))) BY <1>2 DEF MergeChildEntry
  <2>2. r = IF moved.ok THEN Ok(MergeEntry(s, moved.db, e)) ELSE moved BY <2>1 DEF AndThen
  <2>3. b \in Entry BY <1>2, ContentParts DEF HasEntry
  <2>4. a.moved \in Nat /\ b.moved \in Nat /\ a.parent \in Uuid BY <1>0, <2>3, UuidsAssumption DEF Entry, Time
  <2>5. moved.ok => /\ moved.db \in Content(I) /\ OnlyWithin(c, moved.db, {}, {e}) /\ e \in DOMAIN moved.db.entries
                    /\ a.moved <= moved.db.entries[e].moved \/ a.parent = moved.db.entries[e].parent
    <3> DEFINE q == MoveEntry(c, e, a.parent, now)
    <3>1. CASE IsNewer(a.moved, b.moved) /\ a.parent # b.parent
      <4>1. moved = q BY <3>1
      <4>2. q \in Result(I) /\ Kept(c, q.db, {}) /\ q.db.bin = c.bin /\ SameVersions(c, q.db)
        BY <1>0, <2>4, MoveEntryTyped
      <4>3. /\ OnlyWithin(c, q.db, {}, {e})
            /\ q.ok => e \in DOMAIN c.entries /\ e \in DOMAIN q.db.entries /\ q.db.entries[e].parent = a.parent
        BY <1>0, <2>4, MoveEntryOnly
      <4> HIDE DEF q, moved
      <4>4. q.db \in Content(I) BY <4>2 DEF Result
      <4>5. QED BY <4>1, <4>3, <4>4
    <3>2. CASE ~(IsNewer(a.moved, b.moved) /\ a.parent # b.parent)
      <4>1. moved = Ok(c) BY <3>2
      <4>2. moved.db = c BY <4>1 DEF Ok
      <4>3. a.moved <= b.moved \/ a.parent = b.parent BY <2>4, <3>2 DEF IsNewer
      <4>4. QED BY <1>0, <1>2, <4>2, <4>3 DEF HasEntry
    <3>3. QED BY <3>1, <3>2
  <2> HIDE DEF moved
  <2>6. moved.ok BY <2>2
  <2> DEFINE m == moved.db d == MergeEntry(s, m, e)
  <2>7. /\ m \in Content(I) /\ e \in DOMAIN m.entries /\ OnlyWithin(c, m, {}, {e})
        /\ s.entries[e].moved <= m.entries[e].moved \/ s.entries[e].parent = m.entries[e].parent
    BY <2>5, <2>6
  <2>8. r.db = d BY <2>2, <2>6 DEF Ok
  <2> HIDE DEF m, r
  <2>9. OnlyWithin(m, d, {}, {e}) /\ SettledEntry(s, d, e) BY <2>7, MergeEntrySettles
  <2> HIDE DEF d
  <2>10. OnlyWithin(c, d, {}, {e}) BY <2>7, <2>9, WithinAgain
  <2>11. QED BY <2>8, <2>9, <2>10 DEF r
<1>3. QED BY <1>1, <1>2

\* The root group is there and not older than in the source.
RootSettled(s, d) == RootGroup \in DOMAIN d.groups /\ s.groups[RootGroup].mod <= d.groups[RootGroup].mod

\* It stays so when the root group is not touched.
LEMMA RootStays ==
    ASSUME NEW s, NEW c, NEW d, NEW G, NEW E, OnlyWithin(c, d, G, E), RootGroup \notin G, RootSettled(s, c)
    PROVE  RootSettled(s, d)
<1>1. RootGroup \in DOMAIN d.groups /\ SamePlaceAndTimes(c.groups[RootGroup], d.groups[RootGroup])
  BY DEF OnlyWithin, RootSettled
<1>2. QED BY <1>1 DEF RootSettled, SamePlaceAndTimes

\* A step of merge_groups settles what it is for and unsettles nothing.
LEMMA StepSettles ==
    ASSUME HistoryMaxItems < 0, NEW I \in SUBSET Uuid, NEW s \in Content(I), NEW c \in Content(I), NEW now \in Time,
           RootGroup \notin Named(s), RootSettled(s, c), NEW x \in Uuid, MergeStep(s, c, x, now).ok
    PROVE  LET d == MergeStep(s, c, x, now).db
           IN  RootSettled(s, d) /\ Settled(s, d, x) /\ \A y : Settled(s, c, y) => Settled(s, d, y)
<1> DEFINE r == MergeStep(s, c, x, now) d == r.db
<1>1. CASE x \in GroupsBelow(s, RootGroup)
  <2>1. r = MergeChildGroup(s, c, x, now) BY <1>1 DEF MergeStep
  <2>2. OnlyWithin(c, d, {x}, {}) /\ SettledGroup(s, d, x)
    <3> DEFINE q == MergeChildGroup(s, c, x, now).db
    <3>1. MergeChildGroup(s, c, x, now).ok BY <2>1
    <3>2. OnlyWithin(c, q, {x}, {}) /\ SettledGroup(s, q, x) BY <3>1, MergeChildGroupSettles
    <3>3. QED BY <2>1, <3>2
  <2> HIDE DEF r
  <2>3. x # RootGroup BY <1>1, BelowNamed
  <2>4. RootSettled(s, d) BY <2>2, <2>3, RootStays
  <2>5. Settled(s, d, x) BY <1>1, <2>2 DEF Settled
  <2>6. ASSUME NEW y, Settled(s, c, y) PROVE Settled(s, d, y)
    <3>1. CASE y = x BY <2>5, <3>1
    <3>2. CASE y # x
      <4>1. OnlyWithin(c, d, {x}, {}) BY <2>2
      <4>2. y \in GroupsBelow(s, RootGroup) => y \notin {x} BY <3>2
      <4>3. y \notin GroupsBelow(s, RootGroup) => y \notin {} BY <3>2
      <4>4. Settled(s, c, y) BY <2>6
      <4> HIDE DEF d
      <4>5. QED BY <4>1, <4>2, <4>3, <4>4, SettledStays
    <3>3. QED BY <3>1, <3>2
  <2>7. QED BY <2>4, <2>5, <2>6 DEF r
<1>2. CASE x \notin GroupsBelow(s, RootGroup) /\ x \in DOMAIN s.entries
  <2>1. r = MergeChildEntry(s, c, x, now) BY <1>2 DEF MergeStep, HasEntry
  <2>2. OnlyWithin(c, d, {}, {x}) /\ SettledEntry(s, d, x)
    <3> DEFINE q == MergeChildEntry(s, c, x, now).db
    <3>1. MergeChildEntry(s, c, x, now).ok BY <2>1
    <3>2. OnlyWithin(c, q, {}, {x}) /\ SettledEntry(s, q, x) BY <1>2, <3>1, MergeChildEntrySettles
    <3>3. QED BY <2>1, <3>2
  <2> HIDE DEF r
  <2>4. RootSettled(s, d)
    <3>1. RootGroup \notin {} OBVIOUS
    <3>2. QED BY <2>2, <3>1, RootStays
  <2>5. Settled(s, d, x) BY <1>2, <2>2 DEF Settled
  <2>6. ASSUME NEW y, Settled(s, c, y) PROVE Settled(s, d, y)
    <3>1. CASE y = x BY <2>5, <3>1
    <3>2. CASE y # x
      <4> DEFINE G == {} E == {x}
      <4>1. OnlyWithin(c, d, G, E) BY <2>2
      <4>2. y \in GroupsBelow(s, RootGroup) => y \notin G OBVIOUS
      <4>3. y \notin GroupsBelow(s, RootGroup) => y \notin E BY <3>2
      <4>4. Settled(s, c, y) BY <2>6
      <4> HIDE DEF d, G, E
      <4>5. QED BY <4>1, <4>2, <4>3, <4>4, SettledStays
    <3>3. QED BY <3>1, <3>2
  <2>7. QED BY <2>4, <2>5, <2>6 DEF r
<1>3. CASE x \notin GroupsBelow(s, RootGroup) /\ x \notin DOMAIN s.entries
  <2>1. r = Ok(c) BY <1>3 DEF MergeStep, HasEntry
  <2>2. d = c BY <2>1 DEF Ok
  <2>3. Settled(s, c, x) BY <1>3 DEF Settled
  <2> HIDE DEF r
  <2>4. QED BY <2>2, <2>3 DEF r
<1>4. QED BY <1>1, <1>2, <1>3

\* The results of merge_groups: what has been met is settled.
Settling(I, s, c, n) ==
    {v \in Merging(I, s, c, n) :
        v.ok => RootSettled(s, v.db) /\ \A i \in 1 .. n : Settled(s, v.db, Walk(s, RootGroup)[i][2])}

\* One step of merge_groups leads on.
LEMMA MergeStepSettles ==
    ASSUME HistoryMaxItems < 0, NEW I \in SUBSET Uuid, NEW s \in Content(I), NEW c \in Content(I), NEW now \in Time,
           RootGroup \notin Named(s), NEW n \in Nat, n < Len(Walk(s, RootGroup)),
           NEW v \in Settling(I, s, c, n), v.ok
    PROVE  MergeStep(s, v.db, Walk(s, RootGroup)[n + 1][2], now) \in Settling(I, s, c, n + 1)
<1> DEFINE x == Walk(s, RootGroup)[n + 1][2]
           d == v.db
           r == MergeStep(s, d, x, now)
<1>1. v \in Merging(I, s, c, n) BY DEF Settling
<1>2. d \in Content(I) BY <1>1 DEF Merging, Result
<1>3. RootSettled(s, d) /\ \A i \in 1 .. n : Settled(s, d, Walk(s, RootGroup)[i][2]) BY DEF Settling
<1>4. r \in Merging(I, s, c, n + 1) BY <1>1, MergeStepOutcome
<1>5. x \in Uuid
  <2>1. Lists(s) BY ContentParts
  <2>2. Walk(s, RootGroup) \in Seq(Item) BY <2>1, UuidsThere, WalkMeets
  <2>3. n + 1 \in 1 .. Len(Walk(s, RootGroup)) BY <2>2
  <2>4. Walk(s, RootGroup)[n + 1] \in Item BY <2>2, <2>3
  <2>5. QED BY <2>4 DEF Item
<1>6. ASSUME r.ok
      PROVE  RootSettled(s, r.db) /\ \A i \in 1 .. (n + 1) : Settled(s, r.db, Walk(s, RootGroup)[i][2])
  <2>1. RootSettled(s, r.db) /\ Settled(s, r.db, x) /\ \A y : Settled(s, d, y) => Settled(s, r.db, y)
    <3> HIDE DEF x, d
    <3>1. MergeStep(s, d, x, now).ok BY <1>6
    <3>2. QED BY <1>2, <1>3, <1>5, <3>1, StepSettles
  <2> HIDE DEF r, d
  <2>2. ASSUME NEW i \in 1 .. (n + 1) PROVE Settled(s, r.db, Walk(s, RootGroup)[i][2])
    <3>1. CASE i = n + 1 BY <2>1, <3>1
    <3>2. CASE i # n + 1
      <4>1. i \in 1 .. n BY <3>2
      <4>2. QED BY <1>3, <2>1, <4>1
    <3>3. QED BY <3>1, <3>2
  <2>3. QED BY <2>1, <2>2
<1> HIDE DEF r
<1>7. r \in Settling(I, s, c, n + 1) BY <1>4, <1>6 DEF Settling
<1>8. QED BY <1>7 DEF r, d, x

\* merge_groups
LEMMA MergeGroupsSettles ==
    ASSUME HistoryMaxItems < 0, NEW I \in SUBSET Uuid, NEW s \in Content(I), NEW c \in Content(I), NEW now \in Time,
           RootGroup \notin Named(s), RootSettled(s, c)
    PROVE  MergeGroups(s, c, now) \in Settling(I, s, c, Len(Walk(s, RootGroup)))
<1> DEFINE N == Len(Walk(s, RootGroup))
           G == [n \in 0 .. N |-> Settling(I, s, c, n)]
<1>1. N \in Nat
  <2>1. Lists(s) BY ContentParts
  <2>2. Walk(s, RootGroup) \in Seq(Item) BY <2>1, UuidsThere, WalkMeets
  <2>3. QED BY <2>2
<1>2. Ok(c) \in G[0]
  <2>1. Ok(c) \in Result(I) /\ Ok(c).db = c BY Results
  <2>2. Grown(s, c, c) BY GrownNot
  <2>3. Ok(c) \in Merging(I, s, c, 0) BY <2>1, <2>2 DEF Merging
  <2>4. Ok(c) \in Settling(I, s, c, 0) BY <2>1, <2>3 DEF Settling
  <2>5. 0 \in 0 .. N BY <1>1
  <2>6. QED BY <2>4, <2>5
<1>3. ASSUME NEW n \in 1 .. N, NEW v \in G[n - 1] PROVE MergeThen(s, v, n, now) \in G[n]
  <2>1. n - 1 \in Nat /\ (n - 1) + 1 = n /\ n - 1 \in 0 .. N /\ n \in 0 .. N /\ n - 1 < N BY <1>1
  <2>2. v \in Settling(I, s, c, n - 1) /\ G[n] = Settling(I, s, c, n) BY <2>1
  <2> HIDE DEF G
  <2>3. CASE v.ok
    <3>1. MergeThen(s, v, n, now) = MergeStep(s, v.db, Walk(s, RootGroup)[(n - 1) + 1][2], now) BY <2>1, <2>3 DEF MergeThen
    <3>2. MergeStep(s, v.db, Walk(s, RootGroup)[(n - 1) + 1][2], now) \in Settling(I, s, c, (n - 1) + 1)
      BY <2>1, <2>2, <2>3, MergeStepSettles
    <3>3. QED BY <2>1, <2>2, <3>1, <3>2
  <2>4. CASE ~v.ok
    <3>1. MergeThen(s, v, n, now) = v BY <2>4 DEF MergeThen
    <3>2. v \in Settling(I, s, c, n) BY <2>2, <2>4 DEF Settling, Merging
    <3>3. QED BY <2>2, <3>1, <3>2
  <2>5. QED BY <2>3, <2>4
<1>4. N \in 0 .. N BY <1>1
<1> HIDE DEF G
<1>5. MergeGroups(s, c, now) \in G[N] BY <1>2, <1>3, MergeGroupsThrough
<1>6. QED BY <1>4, <1>5 DEF G

\* When all that the walk meets is settled merge_groups changes nothing.
LEMMA SettledGroups ==
    ASSUME NEW I \in SUBSET Uuid, NEW s \in Content(I), NEW c \in Content(I), NEW now,
           \A i \in 1 .. Len(Walk(s, RootGroup)) : Settled(s, c, Walk(s, RootGroup)[i][2])
    PROVE  MergeGroups(s, c, now) = Ok(c)
<1> DEFINE N == Len(Walk(s, RootGroup))
           G == [n \in 0 .. N |-> {Ok(c)}]
<1>1. N \in Nat
  <2>1. Lists(s) BY ContentParts
  <2>2. Walk(s, RootGroup) \in Seq(Item) BY <2>1, UuidsThere, WalkMeets
  <2>3. QED BY <2>2
<1>2. Ok(c) \in G[0] BY <1>1
<1>3. ASSUME NEW n \in 1 .. N, NEW v \in G[n - 1] PROVE MergeThen(s, v, n, now) \in G[n]
  <2>1. n - 1 \in 0 .. N /\ n \in 0 .. N BY <1>1
  <2>2. v = Ok(c) /\ G[n] = {Ok(c)} BY <2>1
  <2> HIDE DEF G
  <2>3. v.ok = TRUE /\ v.db = c BY <2>2 DEF Ok
  <2> DEFINE x == Walk(s, RootGroup)[n][2]
  <2>4. MergeThen(s, v, n, now) = MergeStep(s, c, x, now) BY <2>3 DEF MergeThen
  <2>5. Settled(s, c, x) OBVIOUS
  <2> HIDE DEF x
  <2>6. MergeStep(s, c, x, now) = Ok(c) BY <2>5, SettledStep
  <2>7. QED BY <2>2, <2>4, <2>6
<1>4. N \in 0 .. N BY <1>1
<1>7. G[N] = {Ok(c)} BY <1>4
<1> HIDE DEF G
<1>5. MergeGroups(s, c, now) \in G[N] BY <1>2, <1>3, MergeGroupsThrough
<1>6. QED BY <1>5, <1>7

-----------------------------------------------------------------------------
(* What a merge has removed                                                *)

\* The groups that are to be removed as soon as they are empty.
DueGroups(s, c) ==
    {g \in DOMAIN c.groups : /\ g \in DOMAIN Deletions(s, c)
                             /\ c.groups[g].mod <= Deletions(s, c)[g]
                             /\ ~HasGroup(s, g)
                             /\ c.groups[g].entries = <<>>}

\* A group that is due goes when its subgroups go; if each that is due has a
\* subgroup, none goes.
LEMMA DeletedFromBelow ==
    ASSUME NEW s, NEW c
    PROVE  /\ DeletedGroups(s, c) \subseteq DueGroups(s, c)
           /\ \A g \in DueGroups(s, c) : Subs(c, g) \subseteq DeletedGroups(s, c) => g \in DeletedGroups(s, c)
           /\ (\A g \in DueGroups(s, c) : Subs(c, g) # {}) => DeletedGroups(s, c) = {}
<1> DEFINE due == DueGroups(s, c)
           closed == {S \in SUBSET due : \A g \in due : Subs(c, g) \subseteq S => g \in S}
           gone == DeletedGroups(s, c)
<1>1. gone = {g \in due : \A S \in closed : g \in S} BY DEF DeletedGroups, DueGroups, Subs
<1> HIDE DEF gone, due
<1>2. ASSUME NEW g \in due, Subs(c, g) \subseteq gone PROVE g \in gone
  <2>1. ASSUME NEW S \in closed PROVE g \in S
    <3>1. gone \subseteq S BY <1>1
    <3>2. Subs(c, g) \subseteq S BY <1>2, <3>1
    <3>3. QED BY <1>2, <3>2
  <2>2. QED BY <1>1, <2>1
<1>3. ASSUME \A g \in due : Subs(c, g) # {} PROVE gone = {}
  <2>1. {} \in closed BY <1>3
  <2>2. QED BY <1>1, <2>1
<1>4. gone \subseteq due BY <1>1
<1>5. QED BY <1>2, <1>3, <1>4 DEF gone, due

\* A deletion of the source is not taken for an earlier one, and counts alone
\* for what the target has not deleted.
LEMMA SourceDeletions ==
    ASSUME NEW I \in SUBSET Uuid, NEW s \in Content(I), NEW c \in Content(I)
    PROVE  /\ DOMAIN Deletions(s, c) = DOMAIN s.deleted \cup DOMAIN c.deleted
           /\ \A x \in DOMAIN s.deleted : s.deleted[x] <= Deletions(s, c)[x]
           /\ \A x \in DOMAIN s.deleted \ DOMAIN c.deleted : Deletions(s, c)[x] = s.deleted[x]
<1>1. /\ \A x \in DOMAIN s.deleted : s.deleted[x] \in Nat
      /\ \A x \in DOMAIN c.deleted : c.deleted[x] \in Nat
  BY ContentParts, UuidsAssumption DEF Time
<1>2. QED BY <1>1 DEF Deletions

\* The entries go, and the groups stay with their places and times.
LEMMA WithoutEntriesOnly ==
    ASSUME NEW I \in SUBSET Uuid, NEW c \in Content(I), NEW gone
    PROVE  LET d == WithoutEntries(c, gone)
           IN  \A h \in DOMAIN c.groups : SamePlaceAndTimes(c.groups[h], d.groups[h])
<1> DEFINE ids(h) == c.groups[h].entries
           keep(h) == {i \in DOMAIN ids(h) : ids(h)[i] \notin gone \/ c.entries[ids(h)[i]].parent # h}
           left(h) == Picked(ids(h), keep(h), <)
           m == [h \in DOMAIN c.groups |-> [c.groups[h] EXCEPT !.entries = left(h)]]
           k == [e \in DOMAIN c.entries \ gone |-> c.entries[e]]
           d == [c EXCEPT !.entries = k, !.groups = m]
<1>1. WithoutEntries(c, gone) = d BY DEF WithoutEntries
<1>2. ASSUME NEW h \in DOMAIN c.groups PROVE SamePlaceAndTimes(c.groups[h], m[h])
  <2>1. c.groups[h] \in Group BY ContentParts
  <2>2. m[h] = [c.groups[h] EXCEPT !.entries = left(h)] OBVIOUS
  <2> HIDE DEF m, left
  <2>3. QED BY <2>1, <2>2 DEF Group, SamePlaceAndTimes
<1> HIDE DEF m, k
<1>3. d.groups = m BY DEF Content
<1> HIDE DEF d
<1>4. QED BY <1>1, <1>2, <1>3

\* The groups go, and the other ones stay with their places, times and entries;
\* no more is taken off a list than what goes.
LEMMA WithoutGroupsOnly ==
    ASSUME NEW I \in SUBSET Uuid, NEW c \in Content(I), NEW gone
    PROVE  LET d == WithoutGroups(c, gone)
           IN  \A h \in DOMAIN c.groups \ gone :
                  /\ SamePlaceAndTimes(c.groups[h], d.groups[h]) /\ d.groups[h].entries = c.groups[h].entries
                  /\ Subs(c, h) \subseteq Subs(d, h) \cup gone
<1> DEFINE ids(h) == c.groups[h].subs
           keep(h) == {i \in DOMAIN ids(h) : ids(h)[i] \notin gone \/ c.groups[ids(h)[i]].parent # h}
           left(h) == Picked(ids(h), keep(h), <)
           m == [h \in DOMAIN c.groups \ gone |-> [c.groups[h] EXCEPT !.subs = left(h)]]
           d == [c EXCEPT !.groups = m]
<1>1. WithoutGroups(c, gone) = d BY DEF WithoutGroups
<1>2. ASSUME NEW h \in DOMAIN c.groups \ gone
      PROVE  /\ SamePlaceAndTimes(c.groups[h], m[h]) /\ m[h].entries = c.groups[h].entries
             /\ Subs(c, h) \subseteq ToSet(m[h].subs) \cup gone
  <2>1. c.groups[h] \in Group BY ContentParts
  <2>2. ids(h) \in Seq(Uuid) /\ keep(h) \in SUBSET (DOMAIN ids(h)) BY <2>1 DEF Group
  <2>3. \A i \in DOMAIN ids(h) : i \in keep(h) \/ ids(h)[i] \in gone OBVIOUS
  <2> DEFINE list == left(h)
  <2>4. m[h] = [c.groups[h] EXCEPT !.subs = list] OBVIOUS
  <2>5. Subs(c, h) = {ids(h)[i] : i \in DOMAIN ids(h)} BY DEF ToSet, Subs
  <2>6. ToSet(list) = {ids(h)[i] : i \in keep(h)}
    <3> HIDE DEF ids, keep, m, d
    <3>1. /\ Picked(ids(h), keep(h), <) \in Seq(Uuid)
          /\ ToSet(Picked(ids(h), keep(h), <)) = {ids(h)[i] : i \in keep(h)}
      BY <2>2, PickedAscending
    <3>2. QED BY <3>1
  <2> HIDE DEF list, m, left, keep, ids
  <2>7. Subs(c, h) \subseteq ToSet(list) \cup gone BY <2>3, <2>5, <2>6
  <2>8. m[h].subs = list /\ SamePlaceAndTimes(c.groups[h], m[h]) /\ m[h].entries = c.groups[h].entries
    BY <2>1, <2>4 DEF Group, SamePlaceAndTimes
  <2>9. QED BY <2>7, <2>8
<1> HIDE DEF m
<1>3. d.groups = m BY DEF Content
<1> HIDE DEF d
<1>4. QED BY <1>1, <1>2, <1>3 DEF Subs

\* The deleted objects of both that are not alive are left deleted, and there is
\* nothing more to remove.
NothingDue(s, c) ==
    /\ DeletedEntries(s, c) = {} /\ DeletedGroups(s, c) = {}
    /\ DOMAIN c.deleted \cap (DOMAIN c.groups \cup DOMAIN c.entries) = {}
    /\ DOMAIN s.deleted \ (DOMAIN c.groups \cup DOMAIN c.entries) \subseteq DOMAIN c.deleted

\* merge_deleted_objects leaves nothing to do, and unsettles nothing.
LEMMA MergeDeletedSettles ==
    ASSUME NEW I \in SUBSET Uuid, NEW s \in Content(I), NEW c \in Content(I), NEW now \in Time,
           DOMAIN c.groups \cap DOMAIN c.entries = {}
    PROVE  LET d == MergeDeletedObjects(s, c, now)
           IN  /\ NothingDue(s, d)
               /\ RootGroup \in DOMAIN s.groups /\ RootSettled(s, c) => RootSettled(s, d)
               /\ \A y : Settled(s, c, y) => Settled(s, d, y)
<1> DEFINE deletions == Deletions(s, c)
           entries == DeletedEntries(s, c)
           emptied == WithoutEntries(c, entries)
           groups == DeletedGroups(s, emptied)
           left == WithoutGroups(emptied, groups)
           absent == DOMAIN deletions \ (DOMAIN c.groups \cup DOMAIN c.entries)
           dead == absent \cup entries \cup groups
           m == [x \in dead |-> IF x \in absent THEN deletions[x] ELSE now]
           d == MergeDeletedObjects(s, c, now)
<1>1. d = [left EXCEPT !.deleted = m] BY DEF MergeDeletedObjects
<1>0. /\ d \in Content(I) /\ d.bin = c.bin
      /\ DOMAIN d.entries = DOMAIN c.entries \ DeletedEntries(s, c)
      /\ (\A e \in DOMAIN d.entries : d.entries[e] = c.entries[e])
      /\ DOMAIN d.groups \subseteq DOMAIN c.groups
      /\ DOMAIN c.groups \cap DOMAIN s.groups \subseteq DOMAIN d.groups
      /\ \A x \in DOMAIN d.deleted :
            \/ x \in DOMAIN c.entries \ DOMAIN d.entries
            \/ x \in DOMAIN c.groups \ DOMAIN d.groups
            \/ x \notin DOMAIN c.entries \cup DOMAIN c.groups
  BY MergeDeletedTyped
<1>2. /\ DOMAIN deletions = DOMAIN s.deleted \cup DOMAIN c.deleted
      /\ \A x \in DOMAIN s.deleted : s.deleted[x] <= deletions[x]
      /\ \A x \in DOMAIN s.deleted \ DOMAIN c.deleted : deletions[x] = s.deleted[x]
  BY SourceDeletions
<1>3. /\ entries \subseteq DOMAIN c.entries
      /\ \A e \in DOMAIN c.entries \ entries :
            ~(e \in DOMAIN deletions /\ c.entries[e].mod < deletions[e] /\ ~HasEntry(s, e))
  BY DEF DeletedEntries
<1>4. /\ emptied \in Content(I) /\ emptied.bin = c.bin /\ emptied.deleted = c.deleted
      /\ DOMAIN emptied.entries = DOMAIN c.entries \ entries
      /\ (\A e \in DOMAIN emptied.entries : emptied.entries[e] = c.entries[e])
      /\ DOMAIN emptied.groups = DOMAIN c.groups
      /\ \A h \in DOMAIN c.groups : emptied.groups[h].subs = c.groups[h].subs
  BY WithoutEntriesTyped
<1>5. \A h \in DOMAIN c.groups : SamePlaceAndTimes(c.groups[h], emptied.groups[h]) BY WithoutEntriesOnly
<1>6. Deletions(s, emptied) = deletions BY <1>4 DEF Deletions
<1> HIDE DEF d, emptied
<1>7. /\ groups \subseteq DueGroups(s, emptied)
      /\ \A g \in DueGroups(s, emptied) : Subs(emptied, g) \subseteq groups => g \in groups
  BY DeletedFromBelow
<1> HIDE DEF groups, entries
<1>8. /\ left \in Content(I) /\ left.bin = emptied.bin /\ left.deleted = emptied.deleted /\ left.entries = emptied.entries
      /\ DOMAIN left.groups = DOMAIN emptied.groups \ groups
      /\ \A h \in DOMAIN left.groups : Subs(left, h) \subseteq Subs(emptied, h)
  BY <1>4, WithoutGroupsTyped
<1>9. \A h \in DOMAIN emptied.groups \ groups :
         /\ SamePlaceAndTimes(emptied.groups[h], left.groups[h])
         /\ left.groups[h].entries = emptied.groups[h].entries
         /\ Subs(emptied, h) \subseteq Subs(left, h) \cup groups
  BY <1>4, WithoutGroupsOnly
<1>10. DOMAIN m = dead OBVIOUS
<1> HIDE DEF left, m
<1>11. d.deleted = m /\ d.groups = left.groups BY <1>1, <1>8 DEF Content
<1> HIDE DEF deletions
<1>12. groups \subseteq DOMAIN c.groups BY <1>4, <1>7 DEF DueGroups
<1>13. DOMAIN d.deleted \cap (DOMAIN d.groups \cup DOMAIN d.entries) = {} BY <1>0
<1>14. DOMAIN d.groups = DOMAIN c.groups \ groups /\ DOMAIN d.entries = DOMAIN c.entries \ entries
  BY <1>0, <1>4, <1>8, <1>11 DEF entries
<1>15. ASSUME NEW x \in DOMAIN s.deleted \ (DOMAIN d.groups \cup DOMAIN d.entries) PROVE x \in DOMAIN d.deleted
  BY <1>2, <1>10, <1>11, <1>14
<1>16. ASSUME NEW x \in DOMAIN d.groups \cup DOMAIN d.entries, x \in DOMAIN Deletions(s, d)
       PROVE  /\ x \in DOMAIN deletions /\ Deletions(s, d)[x] \in Nat /\ deletions[x] \in Nat
              /\ Deletions(s, d)[x] <= deletions[x]
  <2>1. /\ DOMAIN Deletions(s, d) = DOMAIN s.deleted \cup DOMAIN d.deleted
        /\ \A y \in DOMAIN s.deleted : s.deleted[y] <= Deletions(s, d)[y]
        /\ \A y \in DOMAIN s.deleted \ DOMAIN d.deleted : Deletions(s, d)[y] = s.deleted[y]
    <3>1. d \in Content(I) BY <1>0
    <3>2. QED BY <3>1, SourceDeletions
  <2>2. x \in DOMAIN s.deleted \ DOMAIN d.deleted BY <1>13, <1>16, <2>1
  <2>3. Deletions(s, d)[x] = s.deleted[x] /\ s.deleted[x] <= deletions[x] BY <1>2, <2>1, <2>2
  <2>4. s.deleted[x] \in Nat BY <2>2, ContentParts, UuidsAssumption DEF Time
  <2>5. deletions[x] \in Nat
    <3>1. deletions \in [DOMAIN s.deleted \cup DOMAIN c.deleted -> Time]
          /\ \A y \in DOMAIN s.deleted \cup DOMAIN c.deleted :
                \/ y \in DOMAIN s.deleted /\ deletions[y] = s.deleted[y]
                \/ y \in DOMAIN c.deleted /\ deletions[y] = c.deleted[y]
      BY DeletionsTyped DEF deletions
    <3>2. QED BY <2>2, <3>1, UuidsAssumption DEF Time
  <2>6. QED BY <1>2, <2>2, <2>3, <2>4, <2>5
<1>17. DeletedEntries(s, d) = {}
  <2>1. ASSUME NEW e \in DeletedEntries(s, d) PROVE FALSE
    <3>1. e \in DOMAIN d.entries /\ e \in DOMAIN Deletions(s, d) /\ d.entries[e].mod < Deletions(s, d)[e] /\ ~HasEntry(s, e)
      BY <2>1 DEF DeletedEntries
    <3>2. e \in DOMAIN c.entries \ entries /\ d.entries[e] = c.entries[e] BY <1>0, <1>14, <3>1
    <3>3. c.entries[e].mod \in Nat BY <3>2, ContentParts, UuidsAssumption DEF Entry, Time
    <3>4. /\ e \in DOMAIN deletions /\ Deletions(s, d)[e] \in Nat /\ deletions[e] \in Nat
          /\ Deletions(s, d)[e] <= deletions[e]
      BY <1>16, <3>1
    <3>5. c.entries[e].mod < deletions[e] BY <3>1, <3>2, <3>3, <3>4
    <3>6. QED BY <1>3, <3>1, <3>2, <3>4, <3>5
  <2>2. QED BY <2>1
<1>18. DeletedGroups(s, d) = {}
  <2>1. ASSUME NEW g \in DueGroups(s, d), Subs(d, g) = {} PROVE FALSE
    <3>1. /\ g \in DOMAIN d.groups /\ g \in DOMAIN Deletions(s, d) /\ d.groups[g].mod <= Deletions(s, d)[g]
          /\ ~HasGroup(s, g) /\ d.groups[g].entries = <<>>
      BY <2>1 DEF DueGroups
    <3>2. g \in DOMAIN emptied.groups \ groups BY <1>4, <1>14, <3>1
    <3>3. d.groups[g] = left.groups[g] BY <1>11
    <3>4. emptied.groups[g].entries = <<>> /\ emptied.groups[g].mod = d.groups[g].mod
      BY <1>9, <3>1, <3>2, <3>3 DEF SamePlaceAndTimes
    <3>5. Subs(emptied, g) \subseteq groups
      <4>1. Subs(left, g) = {} BY <2>1, <3>3 DEF Subs
      <4>2. QED BY <1>9, <3>2, <4>1
    <3>6. /\ g \in DOMAIN deletions /\ Deletions(s, d)[g] \in Nat /\ deletions[g] \in Nat
          /\ Deletions(s, d)[g] <= deletions[g]
      BY <1>16, <3>1
    <3>7. d.groups[g].mod \in Nat BY <1>0, <3>1, ContentParts, UuidsAssumption DEF Group, Time
    <3>8. emptied.groups[g].mod <= deletions[g] BY <3>1, <3>4, <3>6, <3>7
    <3>9. g \in DueGroups(s, emptied) BY <1>6, <3>1, <3>2, <3>4, <3>6, <3>8 DEF DueGroups
    <3>10. QED BY <1>7, <3>2, <3>5, <3>9
  <2>2. QED BY <2>1, DeletedFromBelow
<1>19. NothingDue(s, d) BY <1>13, <1>15, <1>17, <1>18 DEF NothingDue
<1>20. \A h \in DOMAIN d.groups : SamePlaceAndTimes(c.groups[h], d.groups[h])
  BY <1>4, <1>5, <1>9, <1>11, <1>14 DEF SamePlaceAndTimes
<1>21. ASSUME RootGroup \in DOMAIN s.groups, RootSettled(s, c) PROVE RootSettled(s, d)
  <2>1. RootGroup \in DOMAIN d.groups BY <1>0, <1>21 DEF RootSettled
  <2>2. QED BY <1>20, <1>21, <2>1 DEF RootSettled, SamePlaceAndTimes
<1>22. ASSUME NEW y, Settled(s, c, y) PROVE Settled(s, d, y)
  <2>1. CASE y \in GroupsBelow(s, RootGroup)
    <3>1. SettledGroup(s, c, y) BY <1>22, <2>1 DEF Settled
    <3>2. CASE y \in DOMAIN c.groups
      <4>1. y \in DOMAIN d.groups BY <1>0, <3>1, <3>2 DEF SettledGroup
      <4>2. SettledGroup(s, d, y) BY <1>20, <3>1, <3>2, <4>1 DEF SettledGroup, SamePlaceAndTimes
      <4>3. QED BY <2>1, <4>2 DEF Settled
    <3>3. CASE y \notin DOMAIN c.groups
      <4>1. y \notin DOMAIN d.groups BY <1>0, <3>3
      <4>2. SettledGroup(s, d, y) BY <3>1, <3>3, <4>1 DEF SettledGroup
      <4>3. QED BY <2>1, <4>2 DEF Settled
    <3>4. QED BY <3>2, <3>3
  <2>2. CASE y \notin GroupsBelow(s, RootGroup) /\ y \in DOMAIN s.entries
    <3>1. SettledEntry(s, c, y) BY <1>22, <2>2 DEF Settled
    <3>2. y \notin DeletedEntries(s, c) BY <2>2 DEF DeletedEntries, HasEntry
    <3>3. y \in DOMAIN d.entries /\ d.entries[y] = c.entries[y] BY <1>0, <3>1, <3>2 DEF SettledEntry
    <3>4. SettledEntry(s, d, y) BY <3>1, <3>3 DEF SettledEntry
    <3>5. QED BY <2>2, <3>4 DEF Settled
  <2>3. CASE y \notin GroupsBelow(s, RootGroup) /\ y \notin DOMAIN s.entries BY <2>3 DEF Settled
  <2>4. QED BY <2>1, <2>2, <2>3
<1>23. QED BY <1>19, <1>21, <1>22 DEF d

-----------------------------------------------------------------------------
(* A merge leaves nothing for a second one                                 *)

\* All a second merge of the source would look at has been settled by one.
Fixed(s, c) ==
    /\ RootSettled(s, c)
    /\ s.bin = Nil \/ c.bin # Nil
    /\ \A i \in 1 .. Len(Walk(s, RootGroup)) : Settled(s, c, Walk(s, RootGroup)[i][2])
    /\ NothingDue(s, c)

\* update_group for the root group settles it.
LEMMA RootMergeSettles ==
    ASSUME NEW I \in SUBSET Uuid, NEW s \in Content(I), NEW c \in Content(I),
           RootGroup \in DOMAIN s.groups, RootGroup \in DOMAIN c.groups
    PROVE  RootSettled(s, MergeGroup(s, c, RootGroup))
<1> DEFINE d == MergeGroup(s, c, RootGroup)
<1>1. /\ OnlyWithin(c, d, {RootGroup}, {}) /\ DOMAIN d.groups = DOMAIN c.groups
      /\ d.groups[RootGroup].parent = c.groups[RootGroup].parent
      /\ s.groups[RootGroup].mod <= d.groups[RootGroup].mod
      /\ s.groups[RootGroup].moved <= c.groups[RootGroup].moved
         => s.groups[RootGroup].moved <= d.groups[RootGroup].moved
  BY MergeGroupOnly
<1>2. QED BY <1>1 DEF RootSettled

\* set_recycle_bin_group_on_merge leaves the root group settled.
LEMMA SourceBinSettles ==
    ASSUME NEW I \in SUBSET Uuid, NEW s \in Content(I), NEW c \in Content(I), NEW now \in Time, NEW by \in Devices,
           RootSettled(s, c)
    PROVE  LET d == WithSourceBin(s, c, now, by)
           IN  RootSettled(s, d) /\ (s.bin = Nil \/ d.bin # Nil)
<1> DEFINE d == WithSourceBin(s, c, now, by)
           named == [c EXCEPT !.bin = s.bin]
           group == NewGroup(RootGroup, now, by)
           r == InsertGroup(named, s.bin, group)
<1>1. CASE s.bin = Nil \/ c.bin # Nil
  <2>1. d = c BY <1>1 DEF WithSourceBin
  <2> HIDE DEF d
  <2>2. QED BY <1>1, <2>1 DEF d
<1>2. CASE s.bin # Nil /\ c.bin = Nil
  <2>1. d = r.db BY <1>2 DEF WithSourceBin
  <2>2. s.bin \in I BY <1>2, ContentParts
  <2>3. group \in Group BY NewTyped, UuidsThere
  <2> HIDE DEF group
  <2>4. named \in Content(I) BY <2>2, OtherParts
  <2>5. named.groups = c.groups /\ named.bin = s.bin BY DEF Content
  <2> HIDE DEF named
  <2>6. /\ OnlyWithin(named, r.db, {s.bin} \ DOMAIN named.groups, {}) /\ r.db.bin = named.bin
        /\ r.ok => s.bin \in DOMAIN r.db.groups /\ SamePlaceAndTimes(group, r.db.groups[s.bin])
    BY <2>2, <2>3, <2>4, InsertGroupOnly
  <2> HIDE DEF r, d
  <2>7. RootSettled(s, named) BY <2>5 DEF RootSettled
  <2> DEFINE G == {s.bin} \ DOMAIN named.groups b == r.db
  <2>8. RootGroup \notin G BY <2>7 DEF RootSettled
  <2>9. OnlyWithin(named, b, G, {}) BY <2>6
  <2> HIDE DEF G, b
  <2>10. RootSettled(s, b) BY <2>7, <2>8, <2>9, RootStays
  <2>11. QED BY <1>2, <2>1, <2>5, <2>6, <2>10 DEF d, b
<1>3. QED BY <1>1, <1>2

\* A merge that completes leaves nothing for a second one.
LEMMA MergeFixes ==
    ASSUME HistoryMaxItems < 0, NEW I \in SUBSET Uuid, NEW s \in Content(I), NEW c \in Content(I),
           NEW now \in Time, NEW by \in Devices,
           RootGroup \in DOMAIN s.groups, RootGroup \in DOMAIN c.groups, RootGroup \notin Named(s)
    PROVE  (DOMAIN c.groups \cup DOMAIN s.groups \cup {s.bin}) \cap (DOMAIN c.entries \cup DOMAIN s.entries) = {}
           /\ Merge(s, c, now, by).ok => Fixed(s, Merge(s, c, now, by).db)
<1> DEFINE m == MergeGroup(s, c, RootGroup)
           b == WithSourceBin(s, MergeGroup(s, c, RootGroup), now, by)
           v == MergeGroups(s, b, now)
           w == v.db
           d == MergeDeletedObjects(s, w, now)
           r == Merge(s, c, now, by)
           walk == Walk(s, RootGroup)
<1>1. /\ b \in Content(I) /\ b.bin \in {c.bin, s.bin} /\ b.entries = c.entries /\ b.deleted = c.deleted
      /\ DOMAIN c.groups \subseteq DOMAIN b.groups
      /\ DOMAIN b.groups \subseteq DOMAIN c.groups \cup ({s.bin} \cap Uuid)
      /\ Named(b) \subseteq Named(c) \cup ({s.bin} \ DOMAIN c.groups)
      /\ v \in Merging(I, s, b, Len(walk)) /\ w \in Content(I) /\ Grown(s, b, w)
      /\ IF v.ok THEN r = Ok(MaintainAllHistories(d)) ELSE r = v
  BY MergeParts
<1> SUFFICES ASSUME (DOMAIN c.groups \cup DOMAIN s.groups \cup {s.bin}) \cap (DOMAIN c.entries \cup DOMAIN s.entries) = {},
                    r.ok
             PROVE  Fixed(s, r.db)
  OBVIOUS
<1>2. m \in Content(I) BY MergeGroupTyped
<1>3. RootSettled(s, m) BY RootMergeSettles
<1>20. b = WithSourceBin(s, m, now, by) OBVIOUS
<1> HIDE DEF m, b
<1>4. RootSettled(s, b) /\ (s.bin = Nil \/ b.bin # Nil) BY <1>2, <1>3, <1>20, SourceBinSettles
<1>5. b \in Content(I) BY <1>1
<1>6. RootSettled(s, b) BY <1>4
<1> HIDE DEF b
<1>7. v \in Settling(I, s, b, Len(walk)) BY <1>5, <1>6, MergeGroupsSettles
<1>8. v.ok
  <2>1. r.ok OBVIOUS
  <2> HIDE DEF v, r
  <2>2. QED BY <1>1, <2>1
<1>9. RootSettled(s, w) /\ \A i \in 1 .. Len(walk) : Settled(s, w, walk[i][2]) BY <1>7, <1>8 DEF Settling
<1> HIDE DEF v, r
<1>10. w \in Content(I) /\ w.bin = b.bin BY <1>1 DEF Grown
<1>11. DOMAIN w.groups \cap DOMAIN w.entries = {} BY <1>1 DEF Grown
<1> HIDE DEF w
<1>12. /\ NothingDue(s, d)
       /\ RootGroup \in DOMAIN s.groups /\ RootSettled(s, w) => RootSettled(s, d)
       /\ \A y : Settled(s, w, y) => Settled(s, d, y)
  BY <1>10, <1>11, MergeDeletedSettles
<1>13. /\ d \in Content(I) /\ d.bin = w.bin
       /\ DOMAIN d.entries = DOMAIN w.entries \ DeletedEntries(s, w)
       /\ (\A e \in DOMAIN d.entries : d.entries[e] = w.entries[e])
       /\ DOMAIN d.groups \subseteq DOMAIN w.groups
       /\ DOMAIN w.groups \cap DOMAIN s.groups \subseteq DOMAIN d.groups
       /\ \A x \in DOMAIN d.deleted :
             \/ x \in DOMAIN w.entries \ DOMAIN d.entries
             \/ x \in DOMAIN w.groups \ DOMAIN d.groups
             \/ x \notin DOMAIN w.entries \cup DOMAIN w.groups
       /\ Named(d) \subseteq Named(w)
  BY <1>10, MergeDeletedTyped
<1>14. d \in Content(I) BY <1>13
<1> HIDE DEF d
<1>15. MaintainAllHistories(d) = d BY <1>14, MaintainNothing
<1>16. r.db = d BY <1>1, <1>8, <1>15 DEF Ok
<1>17. Fixed(s, d) BY <1>4, <1>9, <1>10, <1>12, <1>13 DEF Fixed
<1>18. QED BY <1>16, <1>17 DEF r

\* A second merge of the source changes no group and no entry.
LEMMA FixedMerge ==
    ASSUME HistoryMaxItems < 0, NEW I \in SUBSET Uuid, NEW s \in Content(I), NEW c \in Content(I),
           NEW now, NEW by, RootGroup \in DOMAIN s.groups, Fixed(s, c)
    PROVE  LET r == Merge(s, c, now, by)
           IN  /\ r.ok /\ r.db.groups = c.groups /\ r.db.entries = c.entries
               /\ DOMAIN r.db.deleted = DOMAIN c.deleted
<1> DEFINE d == MergeDeletedObjects(s, c, now)
           r == Merge(s, c, now, by)
           absent == DOMAIN Deletions(s, c) \ (DOMAIN c.groups \cup DOMAIN c.entries)
           t == [x \in absent |-> Deletions(s, c)[x]]
<1>1. /\ RootSettled(s, c) /\ (s.bin = Nil \/ c.bin # Nil) /\ NothingDue(s, c)
      /\ \A i \in 1 .. Len(Walk(s, RootGroup)) : Settled(s, c, Walk(s, RootGroup)[i][2])
  BY DEF Fixed
<1>2. MergeGroup(s, c, RootGroup) = c
  <2>1. RootGroup \in DOMAIN c.groups /\ s.groups[RootGroup].mod <= c.groups[RootGroup].mod BY <1>1 DEF RootSettled
  <2>2. s.groups[RootGroup].mod \in Nat /\ c.groups[RootGroup].mod \in Nat
    BY <2>1, ContentParts, UuidsAssumption DEF Group, Time
  <2>3. ~(s.groups[RootGroup].mod > c.groups[RootGroup].mod) BY <2>1, <2>2
  <2>4. QED BY <2>3 DEF MergeGroup, IsNewer
<1>3. WithSourceBin(s, c, now, by) = c BY <1>1 DEF WithSourceBin
<1>4. MergeGroups(s, c, now) = Ok(c) BY <1>1, SettledGroups
<1>5. d = [c EXCEPT !.deleted = t]
  <2>1. DeletedEntries(s, c) = {} /\ DeletedGroups(s, c) = {} BY <1>1 DEF NothingDue
  <2>2. WithoutEntries(c, DeletedEntries(s, c)) = c BY <2>1, NoEntriesGone
  <2>3. WithoutGroups(c, {}) = c BY NoGroupsGone
  <2>4. d = [c EXCEPT !.deleted =
               [x \in absent \cup DeletedEntries(s, c) \cup {} |-> IF x \in absent THEN Deletions(s, c)[x] ELSE now]]
    BY <2>1, <2>2, <2>3 DEF MergeDeletedObjects
  <2>5. absent \cup DeletedEntries(s, c) \cup {} = absent BY <2>1
  <2> HIDE DEF absent, d
  <2>6. [x \in absent |-> IF x \in absent THEN Deletions(s, c)[x] ELSE now] = t OBVIOUS
  <2>7. QED BY <2>4, <2>5, <2>6
<1>6. r = Ok(MaintainAllHistories(d))
  <2>1. r = AndThen(MergeGroups(s, c, now), LAMBDA x : Ok(MaintainAllHistories(MergeDeletedObjects(s, x, now))))
    BY <1>2, <1>3 DEF Merge
  <2>2. Ok(c).ok /\ Ok(c).db = c BY DEF Ok
  <2>3. QED BY <1>4, <2>1, <2>2 DEF AndThen
<1>7. absent = DOMAIN c.deleted
  <2>1. /\ DOMAIN Deletions(s, c) = DOMAIN s.deleted \cup DOMAIN c.deleted
    BY DEF Deletions
  <2>2. QED BY <1>1, <2>1 DEF NothingDue
<1> HIDE DEF absent
<1>8. DOMAIN t = absent OBVIOUS
<1>9. d.groups = c.groups /\ d.entries = c.entries /\ d.deleted = t
  <2> HIDE DEF t, d
  <2>1. QED BY <1>5 DEF Content
<1>10. d \in Content(I)
  <2>1. t \in Maps(I, Time)
    <3>1. /\ DOMAIN c.deleted \in SUBSET I /\ \A x \in DOMAIN c.deleted : c.deleted[x] \in Time BY ContentParts
    <3>2. \A x \in DOMAIN s.deleted : s.deleted[x] \in Time BY ContentParts
    <3>3. /\ Deletions(s, c) \in [DOMAIN s.deleted \cup DOMAIN c.deleted -> Time] BY DeletionsTyped
    <3>4. absent \subseteq DOMAIN s.deleted \cup DOMAIN c.deleted BY <1>7
    <3>5. t \in [absent -> Time] BY <3>3, <3>4
    <3>6. absent \in SUBSET I BY <1>7, <3>1
    <3> HIDE DEF t
    <3>7. QED BY <3>5, <3>6 DEF Maps
  <2> HIDE DEF t, d
  <2>2. QED BY <1>5, <2>1, OtherParts
<1> HIDE DEF t, d, r
<1>11. MaintainAllHistories(d) = d BY <1>10, MaintainNothing
<1>12. r.ok /\ r.db = d BY <1>6, <1>11 DEF Ok
<1>13. QED BY <1>7, <1>8, <1>9, <1>12 DEF r

\* After a merge that completed and until the next call, there is nothing more
\* to take from the copy that was merged.
FixedAfter ==
    last.op = "merge" /\ last.ok =>
        /\ last.from \in Devices /\ last.to \in Devices /\ last.from # last.to
        /\ Fixed(db[last.from], db[last.to])

\* What the lemmas about one merge ask of two copies.
LEMMA TwoCopies ==
    ASSUME Contents, KindsApart, NEW from \in Devices, NEW to \in Devices
    PROVE  LET s == db[from] c == db[to]
           IN  /\ Known(unused) \in SUBSET Uuid /\ s \in Content(Known(unused)) /\ c \in Content(Known(unused))
               /\ RootGroup \in DOMAIN s.groups /\ RootGroup \in DOMAIN c.groups /\ RootGroup \notin Named(s)
               /\ (DOMAIN c.groups \cup DOMAIN s.groups \cup {s.bin}) \cap (DOMAIN c.entries \cup DOMAIN s.entries) = {}
<1>1. Known(unused) \in SUBSET Uuid BY UuidsAssumption DEF Contents, Known, Uuid
<1>2. \A x \in {from, to} : db[x] \in Content(Known(unused)) /\ RootGroup \in DOMAIN db[x].groups /\ RootGroup \notin Named(db[x])
  BY DEF Contents, Rooted
<1>3. \A x, y \in {from, to} : (DOMAIN db[x].groups \cup {db[x].bin}) \cap DOMAIN db[y].entries = {} BY DEF KindsApart
<1>4. QED BY <1>1, <1>2, <1>3

\* A merge leaves the copies so.
LEMMA MergeFromFixes ==
    ASSUME HistoryMaxItems < 0, Contents, KindsApart, NEW from \in Devices, NEW to \in Devices, NEW at \in Time,
           MergeFrom(from, to, at)
    PROVE  FixedAfter'
<1> DEFINE s == db[from] c == db[to] r == Merge(s, c, at, to)
<1>1. /\ from # to /\ db' = [db EXCEPT ![to] = r.db]
      /\ last' = [op |-> "merge", from |-> from, to |-> to, ok |-> r.ok]
  BY DEF MergeFrom
<1>2. DOMAIN db = Devices BY DEF Contents
<1>3. /\ Known(unused) \in SUBSET Uuid /\ s \in Content(Known(unused)) /\ c \in Content(Known(unused))
      /\ RootGroup \in DOMAIN s.groups /\ RootGroup \in DOMAIN c.groups /\ RootGroup \notin Named(s)
      /\ (DOMAIN c.groups \cup DOMAIN s.groups \cup {s.bin}) \cap (DOMAIN c.entries \cup DOMAIN s.entries) = {}
  BY TwoCopies
<1> HIDE DEF s, c
<1>4. (DOMAIN c.groups \cup DOMAIN s.groups \cup {s.bin}) \cap (DOMAIN c.entries \cup DOMAIN s.entries) = {}
      /\ Merge(s, c, at, to).ok => Fixed(s, Merge(s, c, at, to).db)
  BY <1>3, MergeFixes
<1>5. r.ok => Fixed(s, r.db) BY <1>3, <1>4
<1> HIDE DEF r
<1>6. db'[from] = s /\ db'[to] = r.db BY <1>1, <1>2 DEF s
<1>7. last'.ok = r.ok /\ last'.from = from /\ last'.to = to BY <1>1
<1>8. QED BY <1>1, <1>5, <1>6, <1>7 DEF FixedAfter

\* FixedAfter holds all the time.
LEMMA FixedSound ==
    ASSUME HistoryMaxItems < 0
    PROVE  Spec => [](Contents /\ KindsApart /\ FixedAfter)
<1>1. Init => FixedAfter BY DEF Init, FixedAfter
<1>2. Contents /\ KindsApart /\ FixedAfter /\ [Next]_vars => FixedAfter'
  <2> SUFFICES ASSUME Contents, KindsApart, FixedAfter, [Next]_vars PROVE FixedAfter' OBVIOUS
  <2>1. CASE UNCHANGED vars BY <2>1 DEF vars, FixedAfter
  <2>2. CASE Next
    <3>1. PICK d \in Devices, at \in Time : OwnCall(d, at) \/ \E from \in Devices : MergeFrom(from, d, at)
      BY <2>2, Steps
    <3>2. CASE OwnCall(d, at)
      <4>1. last'.op # "merge" BY <3>2 DEF OwnCall, Call
      <4>2. QED BY <4>1 DEF FixedAfter
    <3>3. CASE \E from \in Devices : MergeFrom(from, d, at) BY <3>3, MergeFromFixes
    <3>4. QED BY <3>1, <3>2, <3>3
  <2>3. QED BY <2>1, <2>2
<1>3. QED BY <1>1, <1>2, CopiesSound, PTL DEF Spec

\* When a copy keeps all older versions, merging the same source a second time
\* in a row changes no group and no entry of it, whatever was merged, edited or
\* deleted on the two sides before, and notes no other deletion.
THEOREM SecondMergeIsIdle ==
    ASSUME HistoryMaxItems < 0
    PROVE  Spec => MergeAgainChangesNothing
<1>1. Contents /\ KindsApart /\ FixedAfter /\ [Next]_vars => [OnceIsEnough]_vars
  <2> SUFFICES ASSUME Contents, KindsApart, FixedAfter, Next, IsMerge,
                      last.op = "merge", last.ok, last.from = last'.from, last.to = last'.to
               PROVE  OnceIsEnough
    BY DEF OnceIsEnough
  <2>1. PICK to \in Devices, at \in Time : OwnCall(to, at) \/ \E from \in Devices : MergeFrom(from, to, at)
    BY Steps
  <2>2. ~OwnCall(to, at) BY DEF OwnCall, Call, IsMerge
  <2>3. PICK from \in Devices : MergeFrom(from, to, at) BY <2>1, <2>2
  <2> DEFINE s == db[from] c == db[to] r == Merge(s, c, at, to)
  <2>4. db' = [db EXCEPT ![to] = r.db] /\ last' = [op |-> "merge", from |-> from, to |-> to, ok |-> r.ok]
    BY <2>3 DEF MergeFrom
  <2>5. last.from = from /\ last.to = to BY <2>4
  <2>6. Fixed(s, c) BY <2>5 DEF FixedAfter
  <2>7. /\ Known(unused) \in SUBSET Uuid /\ s \in Content(Known(unused)) /\ c \in Content(Known(unused))
        /\ RootGroup \in DOMAIN s.groups /\ RootGroup \in DOMAIN c.groups /\ RootGroup \notin Named(s)
        /\ (DOMAIN c.groups \cup DOMAIN s.groups \cup {s.bin}) \cap (DOMAIN c.entries \cup DOMAIN s.entries) = {}
    BY TwoCopies
  <2>8. DOMAIN db = Devices BY DEF Contents
  <2> HIDE DEF s, c
  <2>9. /\ r.ok /\ r.db.groups = c.groups /\ r.db.entries = c.entries
        /\ DOMAIN r.db.deleted = DOMAIN c.deleted
    BY <2>6, <2>7, FixedMerge
  <2> HIDE DEF r
  <2>10. db'[to] = r.db BY <2>4, <2>8
  <2> QED BY <2>5, <2>9, <2>10 DEF OnceIsEnough, c
<1>2. QED BY <1>1, FixedSound, PTL DEF Spec, MergeAgainChangesNothing

-----------------------------------------------------------------------------
(* Both ways                                                               *)

\* All copies have the one recycle bin.
OneBin == \A d \in Devices : db[d].bin = BinGroup /\ BinGroup \in DOMAIN db[d].groups

\* So it is when the database they start with has one.
LEMMA OneBinSound ==
    ASSUME InitialBin # Nil
    PROVE  Spec => []OneBin
<1>1. Init => OneBin
  <2> SUFFICES ASSUME Init, NEW d \in Devices PROVE db[d].bin = BinGroup /\ BinGroup \in DOMAIN db[d].groups
    BY DEF OneBin
  <2>1. db[d] = Original BY DEF Init
  <2>2. Original.bin = InitialBin /\ StartGroups \subseteq DOMAIN Original.groups BY OriginalParts
  <2>3. InitialBin = BinGroup BY StartAssumption
  <2>4. BinGroup \in StartGroups BY <2>3 DEF StartGroups
  <2> QED BY <2>1, <2>2, <2>3, <2>4
<1>2. Contents /\ OneBin /\ [Next]_vars => OneBin'
  <2> SUFFICES ASSUME Contents, OneBin, [Next]_vars PROVE OneBin' OBVIOUS
  <2>1. CASE UNCHANGED vars BY <2>1 DEF vars, OneBin
  <2>2. CASE Next
    <3>1. PICK d \in Devices, at \in Time : OwnCall(d, at) \/ \E from \in Devices : MergeFrom(from, d, at)
      BY <2>2, Steps
    <3>2. DOMAIN db = Devices BY DEF Contents
    <3>3. ASSUME NEW b, db' = [db EXCEPT ![d] = b], b.bin = BinGroup, BinGroup \in DOMAIN b.groups
          PROVE  OneBin'
      <4>1. db'[d] = b /\ \A x \in Devices \ {d} : db'[x] = db[x] BY <3>2, <3>3
      <4> QED BY <3>3, <4>1 DEF OneBin
    <3>4. db[d].bin = BinGroup /\ BinGroup \in DOMAIN db[d].groups BY DEF OneBin
    <3>5. CASE OwnCall(d, at)
      <4>1. PICK op, n, r : Call(d, op, at, r, n) /\ Own(db[d], r.db, Handed(unused, n))
        BY <3>5 DEF OwnCall
      <4>2. r.db.bin = BinGroup /\ BinGroup \in DOMAIN r.db.groups BY <3>4, <4>1 DEF Own, BinGroup, Nil
      <4>3. db' = [db EXCEPT ![d] = r.db] BY <4>1 DEF Call
      <4> QED BY <3>3, <4>2, <4>3
    <3>6. CASE \E from \in Devices : MergeFrom(from, d, at)
      <4>1. PICK from \in Devices : MergeFrom(from, d, at) BY <3>6
      <4> DEFINE s == db[from] c == db[d] r == Merge(s, c, at, d)
      <4>2. db' = [db EXCEPT ![d] = r.db] BY <4>1 DEF MergeFrom
      <4>3. /\ Known(unused) \in SUBSET Uuid /\ s \in Content(Known(unused)) /\ c \in Content(Known(unused))
            /\ RootGroup \in DOMAIN s.groups
        BY UuidsAssumption DEF Contents, Known, Uuid, Rooted
      <4>4. s.bin = BinGroup /\ BinGroup \in DOMAIN s.groups BY DEF OneBin
      <4>5. c.bin = BinGroup /\ BinGroup \in DOMAIN c.groups BY <3>4
      <4> HIDE DEF s, c
      <4>6. r.db.bin \in {c.bin, s.bin} /\ DOMAIN c.groups \cap DOMAIN s.groups \subseteq DOMAIN r.db.groups
        BY <4>3, MergeTyped
      <4> HIDE DEF r
      <4> QED BY <3>3, <4>2, <4>4, <4>5, <4>6
    <3> QED BY <3>1, <3>5, <3>6
  <2> QED BY <2>1, <2>2
<1> QED BY <1>1, <1>2, CopiesSound, PTL DEF Spec

\* What a walk enters is what it begins with, and what is listed below.
LEMMA EnteredBelow ==
    ASSUME NEW c, IsFiniteSet(DOMAIN c.groups), NEW g
    PROVE  Entered(c, g) \subseteq {g} \cup GroupsBelow(c, g)
<1> SUFFICES ASSUME NEW h \in Entered(c, g), h # g PROVE h \in GroupsBelow(c, g) OBVIOUS
<1> DEFINE E == Entered(c, g) T == E \cap ({g} \cup GroupsBelow(c, g))
<1>1. E \subseteq DOMAIN c.groups /\ Closed(c, E) BY EnteredGroups
<1>2. g \in DOMAIN c.groups BY EnteredGroups
<1>3. g \in E BY <1>2, EnteredGroups
<1>4. Closed(c, T)
  <2>1. ASSUME NEW x \in E, NEW y \in Children(c, x) PROVE y \in T
    <3>1. y \in E BY <1>1, <2>1 DEF Closed
    <3>2. y \in GroupsBelow(c, g) BY <2>1 DEF Children, GroupsBelow
    <3> QED BY <3>1, <3>2
  <2> QED BY <2>1 DEF Closed
<1>5. E \subseteq T
  <2>1. T \in SUBSET DOMAIN c.groups BY <1>1
  <2>2. g \in T BY <1>3
  <2> HIDE DEF T
  <2> QED BY <1>4, <2>1, <2>2, EnteredGroups
<1> QED BY <1>5

\* d has all that is met in s, the entries in versions that are not older.
HasMet(s, d) ==
    ~Endless(s, RootGroup) =>
        /\ GroupsBelow(s, RootGroup) \subseteq DOMAIN d.groups \cup {s.bin}
        /\ \A e \in EntriesBelow(s, RootGroup) \cap DOMAIN s.entries :
              e \in DOMAIN d.entries /\ s.entries[e].mod <= d.entries[e].mod

\* After a merge that completed and until the next call, the target has all of
\* the source.
MetAfter ==
    last.op = "merge" /\ last.ok =>
        /\ last.from \in Devices /\ last.to \in Devices /\ last.from # last.to
        /\ HasMet(db[last.from], db[last.to])

\* What a merge brings, for the copies of two devices.
LEMMA MergedMet ==
    ASSUME Contents, KindsApart, NEW from \in Devices, NEW to \in Devices, NEW at \in Time
    PROVE  LET s == db[from] c == db[to] r == Merge(s, c, at, to)
           IN  Brought(s, c, r.db) /\ (r.ok => HasMet(s, r.db))
<1> DEFINE s == db[from] c == db[to] r == Merge(s, c, at, to)
<1>1. /\ Known(unused) \in SUBSET Uuid /\ s \in Content(Known(unused)) /\ c \in Content(Known(unused))
      /\ RootGroup \in DOMAIN s.groups
  BY UuidsAssumption DEF Contents, Known, Uuid, Rooted
<1>2. DOMAIN s.groups \cap DOMAIN s.entries = {} BY DEF KindsApart
<1> HIDE DEF s, c
<1>3. /\ Brought(s, c, r.db)
      /\ r.ok /\ ~Endless(s, RootGroup) /\ DOMAIN s.groups \cap DOMAIN s.entries = {} =>
            /\ GroupsBelow(s, RootGroup) \subseteq DOMAIN r.db.groups \cup {s.bin}
            /\ \A e \in EntriesBelow(s, RootGroup) \cap DOMAIN s.entries :
                  e \in DOMAIN r.db.entries /\ s.entries[e].mod <= r.db.entries[e].mod
  BY <1>1, MergeBrings
<1> HIDE DEF r
<1>4. Brought(s, c, r.db) /\ (r.ok => HasMet(s, r.db)) BY <1>2, <1>3 DEF HasMet
<1> QED BY <1>4 DEF r, s, c

\* MetAfter holds all the time.
LEMMA MetSound == Spec => []MetAfter
<1>1. Init => MetAfter BY DEF Init, MetAfter
<1>2. Contents /\ KindsApart /\ MetAfter /\ [Next]_vars => MetAfter'
  <2> SUFFICES ASSUME Contents, KindsApart, MetAfter, [Next]_vars PROVE MetAfter' OBVIOUS
  <2>1. CASE UNCHANGED vars BY <2>1 DEF vars, MetAfter
  <2>2. CASE Next
    <3>1. PICK to \in Devices, at \in Time : OwnCall(to, at) \/ \E from \in Devices : MergeFrom(from, to, at)
      BY <2>2, Steps
    <3>2. CASE OwnCall(to, at)
      <4>1. last'.op # "merge" BY <3>2 DEF OwnCall, Call
      <4> QED BY <4>1 DEF MetAfter
    <3>3. CASE \E from \in Devices : MergeFrom(from, to, at)
      <4>1. PICK from \in Devices : MergeFrom(from, to, at) BY <3>3
      <4> DEFINE s == db[from] c == db[to] r == Merge(s, c, at, to)
      <4>2. /\ from # to /\ db' = [db EXCEPT ![to] = r.db]
            /\ last' = [op |-> "merge", from |-> from, to |-> to, ok |-> r.ok]
        BY <4>1 DEF MergeFrom
      <4>3. DOMAIN db = Devices BY DEF Contents
      <4>4. r.ok => HasMet(s, r.db) BY MergedMet
      <4> HIDE DEF r
      <4>5. db'[from] = s /\ db'[to] = r.db BY <4>2, <4>3
      <4>6. last'.ok = r.ok /\ last'.from = from /\ last'.to = to BY <4>2
      <4> QED BY <4>2, <4>4, <4>5, <4>6 DEF MetAfter
    <3> QED BY <3>1, <3>2, <3>3
  <2> QED BY <2>1, <2>2
<1> QED BY <1>1, <1>2, CopiesSound, PTL DEF Spec

\* Two copies of which each has what is met in the other one, as far as its own
\* version is concerned: a merge of the second one leaves the first one like it.
LEMMA BothWays ==
    ASSUME Contents, KindsApart, Dated, OneBin, NothingUnreachable,
           NEW from \in Devices, NEW to \in Devices, NEW at \in Time,
           HasMet(db[to], db[from]), Merge(db[from], db[to], at, to).ok
    PROVE  LET s == db[from] d == Merge(db[from], db[to], at, to).db
           IN  /\ DOMAIN d.groups = DOMAIN s.groups
               /\ DOMAIN d.entries = DOMAIN s.entries
               /\ \A e \in DOMAIN d.entries : LastVersion(d.entries[e]) = LastVersion(s.entries[e])
<1> DEFINE s == db[from] c == db[to] r == Merge(s, c, at, to) d == r.db I == Known(unused)
<1>1. /\ I \in SUBSET Uuid /\ s \in Content(I) /\ c \in Content(I)
      /\ RootGroup \in DOMAIN s.groups /\ RootGroup \in DOMAIN c.groups
  BY UuidsAssumption DEF Contents, Known, Uuid, Rooted
<1>2. OnePerTime(Held(s) \cup Held(c)) BY MergedCopies
<1>3. \A k \in {s, c} : /\ ~Endless(k, RootGroup) /\ DOMAIN k.groups \subseteq Entered(k, RootGroup)
                        /\ DOMAIN k.entries \subseteq EntriesBelow(k, RootGroup)
  BY DEF NothingUnreachable
<1>4. \A k \in {s, c} : k.bin = BinGroup /\ BinGroup \in DOMAIN k.groups BY DEF OneBin
<1>5. Brought(s, c, d) /\ HasMet(s, d) /\ HasMet(c, s) BY MergedMet
<1> HIDE DEF I, s, c
<1>6. /\ DOMAIN d.groups \subseteq DOMAIN c.groups \cup DOMAIN s.groups \cup ({s.bin} \cap Uuid)
      /\ DOMAIN d.entries \subseteq DOMAIN c.entries \cup DOMAIN s.entries
      /\ DOMAIN c.groups \cap DOMAIN s.groups \subseteq DOMAIN d.groups
      /\ r \in Result(I)
  BY <1>1, MergeTyped
<1> HIDE DEF r
<1>7. \A k \in {s, c} : DOMAIN k.groups \subseteq {RootGroup} \cup GroupsBelow(k, RootGroup)
  <2>1. IsFiniteSet(DOMAIN s.groups) /\ IsFiniteSet(DOMAIN c.groups) BY <1>1, ContentParts
  <2>2. /\ Entered(s, RootGroup) \subseteq {RootGroup} \cup GroupsBelow(s, RootGroup)
        /\ Entered(c, RootGroup) \subseteq {RootGroup} \cup GroupsBelow(c, RootGroup)
    BY <2>1, EnteredBelow
  <2> QED BY <1>3, <2>2
<1>8. DOMAIN c.groups \subseteq DOMAIN s.groups BY <1>1, <1>3, <1>4, <1>5, <1>7 DEF HasMet
<1>9. DOMAIN d.groups = DOMAIN s.groups BY <1>1, <1>3, <1>4, <1>5, <1>6, <1>7, <1>8 DEF HasMet
<1>10. /\ \A e \in DOMAIN c.entries : e \in DOMAIN s.entries /\ c.entries[e].mod <= s.entries[e].mod
       /\ \A e \in DOMAIN s.entries : e \in DOMAIN d.entries /\ s.entries[e].mod <= d.entries[e].mod
  BY <1>3, <1>5 DEF HasMet
<1>11. DOMAIN d.entries = DOMAIN s.entries BY <1>6, <1>10
<1>12. ASSUME NEW e \in DOMAIN d.entries PROVE LastVersion(d.entries[e]) = LastVersion(s.entries[e])
  <2>1. e \in DOMAIN s.entries /\ s.entries[e].mod <= d.entries[e].mod BY <1>10, <1>11
  <2>2. CASE LastVersion(d.entries[e]) = LastVersion(s.entries[e]) BY <2>2
  <2>3. CASE e \in DOMAIN c.entries /\ LastVersion(d.entries[e]) = LastVersion(c.entries[e])
    <3>1. c.entries[e].mod <= s.entries[e].mod BY <1>10, <2>3
    <3>2. c.entries[e].mod \in Nat /\ s.entries[e].mod \in Nat
      <4>1. s.entries[e] \in Entry /\ c.entries[e] \in Entry BY <1>1, <2>1, <2>3, ContentParts
      <4> QED BY <4>1 DEF Entry, Time
    <3>3. d.entries[e].mod = c.entries[e].mod BY <2>3 DEF LastVersion, Stamp
    <3>4. c.entries[e].mod = s.entries[e].mod BY <2>1, <3>1, <3>2, <3>3
    <3>5. LastVersion(s.entries[e]) \in Held(s) /\ LastVersion(c.entries[e]) \in Held(c)
      BY <2>1, <2>3 DEF Held, Versions
    <3>6. LastVersion(s.entries[e]).mod = LastVersion(c.entries[e]).mod BY <3>4 DEF LastVersion, Stamp
    <3> QED BY <1>2, <2>3, <3>5, <3>6 DEF OnePerTime
  <2> QED BY <1>5, <2>1, <2>2, <2>3 DEF Brought
<1>13. /\ DOMAIN d.groups = DOMAIN s.groups
       /\ DOMAIN d.entries = DOMAIN s.entries
       /\ \A e \in DOMAIN d.entries : LastVersion(d.entries[e]) = LastVersion(s.entries[e])
  BY <1>9, <1>11, <1>12
<1> QED BY <1>13 DEF r, s, c

\* When the database has its recycle bin before it is copied, and each call has
\* its own second, a merge one way and one back leaves two copies with the same
\* groups and the same versions of the same entries, whatever both had edited,
\* moved or deleted before, as long as each group and entry is met on the way
\* down from the root group.
THEOREM CopiesConverge ==
    ASSUME 0 \notin Seconds, InitialBin # Nil
    PROVE  Spec /\ []NothingUnreachable => MergesConverge
<1>1. Contents /\ KindsApart /\ Dated /\ OneBin /\ MetAfter /\ NothingUnreachable /\ [Next]_vars
        => [SameAfterBothWays]_vars
  <2> SUFFICES ASSUME Contents, KindsApart, Dated, OneBin, MetAfter, NothingUnreachable, Next, IsMerge,
                      last.op = "merge", last.ok, last.from = last'.to, last.to = last'.from
               PROVE  SameAfterBothWays
    BY DEF SameAfterBothWays
  <2>1. PICK to \in Devices, at \in Time : OwnCall(to, at) \/ \E from \in Devices : MergeFrom(from, to, at)
    BY Steps
  <2>2. ~OwnCall(to, at) BY DEF OwnCall, Call, IsMerge
  <2>3. PICK from \in Devices : MergeFrom(from, to, at) BY <2>1, <2>2
  <2> DEFINE s == db[from] r == Merge(s, db[to], at, to) d == r.db
  <2>4. /\ from # to /\ db' = [db EXCEPT ![to] = d]
        /\ last' = [op |-> "merge", from |-> from, to |-> to, ok |-> r.ok]
    BY <2>3 DEF MergeFrom
  <2>5. last.from = to /\ last.to = from /\ r.ok BY <2>4 DEF IsMerge
  <2>6. HasMet(db[to], s) BY <2>5 DEF MetAfter
  <2>7. /\ DOMAIN d.groups = DOMAIN s.groups
        /\ DOMAIN d.entries = DOMAIN s.entries
        /\ \A e \in DOMAIN d.entries : LastVersion(d.entries[e]) = LastVersion(s.entries[e])
    BY <2>5, <2>6, BothWays
  <2>8. DOMAIN db = Devices BY DEF Contents
  <2> HIDE DEF r, s
  <2>9. db'[to] = d /\ db'[from] = s BY <2>4, <2>8 DEF s
  <2>10. \A e \in DOMAIN d.entries : d.entries[e].mod = s.entries[e].mod /\ d.entries[e].by = s.entries[e].by
    BY <2>7 DEF LastVersion, Stamp
  <2> HIDE DEF d
  <2> QED BY <2>5, <2>7, <2>9, <2>10 DEF SameAfterBothWays
<1> QED BY <1>1, DatedSound, OneBinSound, MetSound, PTL DEF Spec, MergesConverge

-----------------------------------------------------------------------------
(* What a merge leaves of a tree when it removes what is deleted           *)

\* Entries that are removed leave the other ones where they are.
LEMMA WithoutEntriesGone ==
    ASSUME NEW I \in SUBSET Uuid, NEW c \in Content(I), Placed(c), NEW E
    PROVE  Gone(c, WithoutEntries(c, E), {}, E)
<1> DEFINE ids(h) == c.groups[h].entries
           keep(h) == {i \in DOMAIN ids(h) : ids(h)[i] \notin E \/ c.entries[ids(h)[i]].parent # h}
           left(h) == Picked(ids(h), keep(h), <)
           m == [h \in DOMAIN c.groups |-> [c.groups[h] EXCEPT !.entries = left(h)]]
           k == [e \in DOMAIN c.entries \ E |-> c.entries[e]]
           d == [c EXCEPT !.entries = k, !.groups = m]
<1>1. WithoutEntries(c, E) = d BY DEF WithoutEntries
<1>2. ASSUME NEW h \in DOMAIN c.groups
      PROVE  /\ m[h].parent = c.groups[h].parent /\ m[h].subs = c.groups[h].subs
             /\ ToSet(m[h].entries) = Ents(c, h) \ E
             /\ IsInjective(c.groups[h].entries) => IsInjective(m[h].entries)
  <2>1. c.groups[h] \in Group BY ContentParts
  <2>2. ids(h) \in Seq(Uuid) /\ keep(h) \in SUBSET (DOMAIN ids(h)) BY <2>1 DEF Group
  <2> DEFINE list == left(h)
  <2>3. m[h] = [c.groups[h] EXCEPT !.entries = list] OBVIOUS
  <2>4. Ents(c, h) = {ids(h)[i] : i \in DOMAIN ids(h)} BY DEF ToSet, Ents
  <2>5. \A i \in DOMAIN ids(h) : c.entries[ids(h)[i]].parent = h
    <3>1. Ents(c, h) = {e \in DOMAIN c.entries : c.entries[e].parent = h} BY PlacedNeat
    <3> HIDE DEF ids, keep, m, d
    <3> QED BY <2>4, <3>1
  <2>6. ToSet(list) = {ids(h)[i] : i \in keep(h)} /\ (IsInjective(ids(h)) => IsInjective(list))
    <3> HIDE DEF ids, keep, m, d
    <3>1. /\ Picked(ids(h), keep(h), <) \in Seq(Uuid)
          /\ ToSet(Picked(ids(h), keep(h), <)) = {ids(h)[i] : i \in keep(h)}
          /\ IsInjective(ids(h)) => IsInjective(Picked(ids(h), keep(h), <))
      BY <2>2, PickedAscending
    <3> QED BY <3>1
  <2>7. ToSet(list) = Ents(c, h) \ E
    <3> HIDE DEF list, ids, m, d
    <3> QED BY <2>4, <2>5, <2>6
  <2> HIDE DEF list, m, left, keep
  <2> QED BY <2>1, <2>3, <2>6, <2>7 DEF Group
<1>3. DOMAIN m = DOMAIN c.groups OBVIOUS
<1>4. DOMAIN k = DOMAIN c.entries \ E /\ \A e \in DOMAIN k : k[e] = c.entries[e] OBVIOUS
<1> HIDE DEF m, k
<1>5. d.entries = k /\ d.groups = m BY DEF Content
<1> HIDE DEF d
<1>6. \A e \in DOMAIN c.entries : c.entries[e].parent \notin {} OBVIOUS
<1>7. Gone(c, d, {}, E) BY <1>2, <1>3, <1>4, <1>5 DEF Gone, Neat, Subs, Ents
<1> QED BY <1>1, <1>7

\* So do groups that are removed, without entries and with all groups below them.
LEMMA WithoutGroupsGone ==
    ASSUME NEW I \in SUBSET Uuid, NEW c \in Content(I), Placed(c), NEW H, RootGroup \notin H,
           \A g \in H : g \in DOMAIN c.groups /\ Subs(c, g) \subseteq H /\ Ents(c, g) = {}
    PROVE  Gone(c, WithoutGroups(c, H), H, {})
<1> DEFINE ids(h) == c.groups[h].subs
           keep(h) == {i \in DOMAIN ids(h) : ids(h)[i] \notin H \/ c.groups[ids(h)[i]].parent # h}
           left(h) == Picked(ids(h), keep(h), <)
           m == [h \in DOMAIN c.groups \ H |-> [c.groups[h] EXCEPT !.subs = left(h)]]
           d == [c EXCEPT !.groups = m]
<1>1. WithoutGroups(c, H) = d BY DEF WithoutGroups
<1>2. ASSUME NEW h \in DOMAIN c.groups \ H
      PROVE  /\ m[h].parent = c.groups[h].parent /\ m[h].entries = c.groups[h].entries
             /\ ToSet(m[h].subs) = Subs(c, h) \ H
             /\ IsInjective(c.groups[h].subs) => IsInjective(m[h].subs)
  <2>1. c.groups[h] \in Group BY ContentParts
  <2>2. ids(h) \in Seq(Uuid) /\ keep(h) \in SUBSET (DOMAIN ids(h)) BY <2>1 DEF Group
  <2> DEFINE list == left(h)
  <2>3. m[h] = [c.groups[h] EXCEPT !.subs = list] OBVIOUS
  <2>4. Subs(c, h) = {ids(h)[i] : i \in DOMAIN ids(h)} BY DEF ToSet, Subs
  <2>5. \A i \in DOMAIN ids(h) : c.groups[ids(h)[i]].parent = h
    <3>1. Subs(c, h) = {g \in DOMAIN c.groups : c.groups[g].parent = h} BY PlacedNeat
    <3> HIDE DEF ids, keep, m, d
    <3> QED BY <2>4, <3>1
  <2>6. ToSet(list) = {ids(h)[i] : i \in keep(h)} /\ (IsInjective(ids(h)) => IsInjective(list))
    <3> HIDE DEF ids, keep, m, d
    <3>1. /\ Picked(ids(h), keep(h), <) \in Seq(Uuid)
          /\ ToSet(Picked(ids(h), keep(h), <)) = {ids(h)[i] : i \in keep(h)}
          /\ IsInjective(ids(h)) => IsInjective(Picked(ids(h), keep(h), <))
      BY <2>2, PickedAscending
    <3> QED BY <3>1
  <2>7. ToSet(list) = Subs(c, h) \ H
    <3> HIDE DEF list, ids, m, d
    <3> QED BY <2>4, <2>5, <2>6
  <2> HIDE DEF list, m, left, keep
  <2> QED BY <2>1, <2>3, <2>6, <2>7 DEF Group
<1>3. DOMAIN m = DOMAIN c.groups \ H OBVIOUS
<1> HIDE DEF m
<1>4. d.entries = c.entries /\ d.groups = m BY DEF Content
<1> HIDE DEF d
<1>5. /\ \A h \in DOMAIN c.groups : Subs(c, h) = {g \in DOMAIN c.groups : c.groups[g].parent = h}
      /\ \A h \in DOMAIN c.groups : Ents(c, h) = {e \in DOMAIN c.entries : c.entries[e].parent = h}
  BY PlacedNeat
<1>6. \A x \in DOMAIN c.groups : c.groups[x].parent \in H => x \in H BY <1>5
<1>7. \A e \in DOMAIN c.entries : c.entries[e].parent \notin H BY <1>5
<1>8. Gone(c, d, H, {}) BY <1>2, <1>3, <1>4, <1>6, <1>7 DEF Gone, Neat, Subs, Ents
<1> QED BY <1>1, <1>8

\* A group that merge_deleted_objects removes goes with all subgroups.
LEMMA DeletedWithBelow ==
    ASSUME NEW s, NEW c, NEW g \in DeletedGroups(s, c)
    PROVE  Subs(c, g) \subseteq DeletedGroups(s, c)
<1> DEFINE due == DueGroups(s, c)
           closed == {S \in SUBSET due : \A h \in due : Subs(c, h) \subseteq S => h \in S}
           gone == DeletedGroups(s, c)
<1>1. gone = {h \in due : \A S \in closed : h \in S} BY DEF DeletedGroups, DueGroups, Subs
<1>2. \A h \in due : Subs(c, h) \subseteq gone => h \in gone BY DeletedFromBelow
<1> HIDE DEF gone, due
<1> SUFFICES ASSUME NEW x \in Subs(c, g), x \notin gone PROVE FALSE BY DEF gone
<1>3. gone \ {g} \in closed
  <2>1. gone \ {g} \in SUBSET due BY <1>1
  <2>2. ASSUME NEW h \in due, Subs(c, h) \subseteq gone \ {g} PROVE h \in gone \ {g}
    <3>1. h \in gone BY <1>2, <2>2
    <3>2. h # g BY <2>2
    <3> QED BY <3>1, <3>2
  <2> QED BY <2>1, <2>2
<1>4. g \in gone BY DEF gone
<1> QED BY <1>1, <1>3, <1>4

\* merge_deleted_objects
LEMMA MergeDeletedPlaced ==
    ASSUME NEW I \in SUBSET Uuid, NEW s \in Content(I), NEW c \in Content(I), NEW now \in Time,
           Placed(c), RootGroup \in DOMAIN s.groups
    PROVE  Placed(MergeDeletedObjects(s, c, now))
<1> DEFINE E == DeletedEntries(s, c)
           emptied == WithoutEntries(c, E)
           H == DeletedGroups(s, emptied)
           left == WithoutGroups(emptied, H)
           d == MergeDeletedObjects(s, c, now)
<1>1. \E m : d = [left EXCEPT !.deleted = m] BY DEF MergeDeletedObjects
<1> HIDE DEF E
<1>2. emptied \in Content(I) BY WithoutEntriesTyped
<1>3. Gone(c, emptied, {}, E) BY WithoutEntriesGone
<1> HIDE DEF emptied
<1>4. Placed(emptied) BY <1>3, GonePlaced
<1>5. \A g \in H : /\ g \in DOMAIN emptied.groups /\ g \notin DOMAIN s.groups
                   /\ emptied.groups[g].entries = <<>>
  BY DEF DeletedGroups, HasGroup
<1>6. \A g \in H : Subs(emptied, g) \subseteq H BY DeletedWithBelow
<1> HIDE DEF H
<1>7. \A g \in H : Ents(emptied, g) = {} BY <1>5, EmptyList DEF Ents
<1>8. RootGroup \notin H BY <1>5
<1>9. Gone(emptied, left, H, {}) BY <1>2, <1>4, <1>5, <1>6, <1>7, <1>8, WithoutGroupsGone
<1>10. left \in Content(I) BY <1>2, WithoutGroupsTyped
<1> HIDE DEF left, d
<1>11. Placed(left) BY <1>4, <1>9, GonePlaced
<1>12. d.groups = left.groups /\ d.entries = left.entries BY <1>1, <1>10 DEF Content
<1>13. Placed(d) BY <1>11, <1>12 DEF Placed, ListedByParent
<1> QED BY <1>13 DEF d

-----------------------------------------------------------------------------
(* A merge that puts one group or entry in its place                       *)

\* The target's entry keeps its parent or takes that of a newer one of the source,
\* and is not older afterwards.
LEMMA MergeEntryPlaces ==
    ASSUME NEW I \in SUBSET Uuid, NEW s \in Content(I), NEW c \in Content(I),
           NEW e \in DOMAIN s.entries, e \in DOMAIN c.entries
    PROVE  LET d == MergeEntry(s, c, e)
           IN  /\ \A f \in DOMAIN c.entries \ {e} : d.entries[f] = c.entries[f]
               /\ ~(s.entries[e].mod > d.entries[e].mod)
               /\ \/ d.entries[e].parent = c.entries[e].parent
                  \/ s.entries[e].mod > c.entries[e].mod /\ d.entries[e].parent = s.entries[e].parent
<1> DEFINE d == MergeEntry(s, c, e)
           a == s.entries[e]
           b == c.entries[e]
           found == \E i \in DOMAIN b.history : b.history[i].mod = a.mod
           newer == [a EXCEPT !.history = MergedHistory(a, b)]
           older == [b EXCEPT !.history = MergedHistory(b, a)]
           taken == [c EXCEPT !.entries[e] = newer]
           joined == [c EXCEPT !.entries[e] = older]
<1>1. a \in Entry /\ b \in Entry BY ContentParts
<1>2. a.mod \in Nat /\ b.mod \in Nat BY <1>1, UuidsAssumption DEF Entry, Time
<1>3. \/ ~(a.mod > b.mod) /\ d = c
      \/ ~(a.mod > b.mod) /\ d = joined
      \/ a.mod > b.mod /\ d = taken
  <2>1. joined = [c EXCEPT !.entries[e].history = MergedHistory(b, a)] OBVIOUS
  <2>2. d = CASE a.mod = b.mod -> c
              [] a.mod > b.mod -> taken
              [] OTHER -> IF found THEN c ELSE [c EXCEPT !.entries[e].history = MergedHistory(b, a)]
    BY DEF MergeEntry, IsNewer
  <2>3. a.mod = b.mod => ~(a.mod > b.mod) BY <1>2
  <2> HIDE DEF d, taken, joined, a, b, found
  <2>4. CASE a.mod = b.mod BY <2>2, <2>3, <2>4
  <2>5. CASE a.mod # b.mod /\ a.mod > b.mod BY <2>2, <2>5
  <2>6. CASE a.mod # b.mod /\ ~(a.mod > b.mod) BY <2>1, <2>2, <2>6
  <2> QED BY <2>4, <2>5, <2>6
<1>4. MergedHistory(a, b) \in Seq(Version) /\ MergedHistory(b, a) \in Seq(Version) BY <1>1, MergedVersions
<1>5. newer \in Entry /\ newer.mod = a.mod /\ newer.parent = a.parent
      /\ older \in Entry /\ older.mod = b.mod /\ older.parent = b.parent
  <2> HIDE DEF a, b
  <2> QED BY <1>1, <1>4 DEF Entry
<1>6. ~(a.mod > a.mod) BY <1>2
<1> HIDE DEF d, newer, older
<1>7. CASE ~(a.mod > b.mod) /\ d = c BY <1>7 DEF d
<1>8. CASE ~(a.mod > b.mod) /\ d = joined
  <2>1. joined.entries[e] = older /\ \A f \in DOMAIN c.entries : f # e => joined.entries[f] = c.entries[f]
    BY <1>5, ChangedEntry
  <2> HIDE DEF joined
  <2> QED BY <1>5, <1>8, <2>1 DEF d
<1>9. CASE a.mod > b.mod /\ d = taken
  <2>1. taken.entries[e] = newer /\ \A f \in DOMAIN c.entries : f # e => taken.entries[f] = c.entries[f]
    BY <1>5, ChangedEntry
  <2> HIDE DEF taken
  <2> QED BY <1>5, <1>6, <1>9, <2>1 DEF d
<1> QED BY <1>3, <1>7, <1>8, <1>9

\* Every entry is in a group that is there.
ParentsThere(c) == \A e \in DOMAIN c.entries : c.entries[e].parent \in DOMAIN c.groups

\* merge_groups for a group whose parent the target has completes.
LEMMA MergeChildGroupCompletes ==
    ASSUME NEW I \in SUBSET Uuid, NEW s \in Content(I), NEW c \in Content(I), NEW g \in DOMAIN s.groups, NEW now \in Time,
           s.groups[g].parent \in DOMAIN c.groups, s.groups[g].parent # g, s.bin \in DOMAIN c.groups,
           g \notin DOMAIN c.entries
    PROVE  LET r == MergeChildGroup(s, c, g, now)
           IN  r.ok = TRUE /\ g \in DOMAIN r.db.groups
<1> DEFINE r == MergeChildGroup(s, c, g, now)
           v == [s.groups[g] EXCEPT !.subs = <<>>, !.entries = <<>>]
           p == s.groups[g].parent
           moved == IF IsNewer(s.groups[g].moved, c.groups[g].moved) /\ p # c.groups[g].parent
                    THEN MoveGroup(c, g, p, now) ELSE Ok(c)
<1>0. g \in I /\ g \in Uuid /\ s.groups[g] \in Group /\ p \in Uuid BY ContentParts
<1>1. CASE ~HasGroup(c, g)
  <2>1. g # s.bin BY <1>1 DEF HasGroup
  <2>2. r = InsertGroup(c, g, v) BY <1>1, <2>1 DEF MergeChildGroup, HasGroup
  <2>3. <<>> \in Seq(Uuid) OBVIOUS
  <2>4. v \in Group /\ v.subs = <<>> /\ v.entries = <<>> /\ v.parent = p BY <1>0, <2>3 DEF Group
  <2> HIDE DEF v, r
  <2> DEFINE q == InsertGroup(c, g, v)
  <2>5. g \notin DOMAIN c.groups \cup DOMAIN c.entries BY <1>1 DEF HasGroup
  <2>6. q.ok = TRUE /\ GroupAdded(c, q.db, g, v.parent) BY <1>0, <2>4, <2>5, InsertGroupAdds
  <2> HIDE DEF q
  <2>7. r.ok = TRUE /\ g \in DOMAIN r.db.groups BY <2>2, <2>6 DEF GroupAdded, q
  <2> QED BY <2>7 DEF r
<1>2. CASE HasGroup(c, g)
  <2>1. r = AndThen(moved, LAMBDA d : Ok(MergeGroup(s, d, g))) BY <1>2 DEF MergeChildGroup, HasGroup
  <2>2. r = IF moved.ok THEN Ok(MergeGroup(s, moved.db, g)) ELSE moved BY <2>1 DEF AndThen
  <2>3. moved.ok = TRUE /\ moved.db \in Content(I) /\ g \in DOMAIN moved.db.groups
    <3> DEFINE q == MoveGroup(c, g, p, now)
    <3>1. CASE IsNewer(s.groups[g].moved, c.groups[g].moved) /\ p # c.groups[g].parent
      <4>1. moved = q BY <3>1
      <4>2. \E d : q = Ok(d) BY <1>2, <3>1 DEF MoveGroup, HasGroup
      <4>3. q \in Result(I) /\ Kept(c, q.db, {}) BY <1>0, MoveGroupTyped
      <4> HIDE DEF q, moved
      <4>4. q.ok = TRUE /\ q.db \in Content(I) BY <4>2, <4>3 DEF Ok, Result
      <4>5. g \in DOMAIN q.db.groups BY <1>2, <4>3 DEF Kept, HasGroup
      <4> QED BY <4>1, <4>4, <4>5
    <3>2. CASE ~(IsNewer(s.groups[g].moved, c.groups[g].moved) /\ p # c.groups[g].parent)
      <4>1. moved = Ok(c) BY <3>2
      <4> QED BY <1>2, <4>1 DEF HasGroup, Ok
    <3> QED BY <3>1, <3>2
  <2> HIDE DEF moved, r
  <2> DEFINE d == MergeGroup(s, moved.db, g)
  <2>4. SamePlaces(moved.db, d) BY <2>3, MergeGroupTyped
  <2>5. r = Ok(d) BY <2>2, <2>3
  <2> HIDE DEF d
  <2>6. r.ok = TRUE /\ g \in DOMAIN r.db.groups BY <2>3, <2>4, <2>5 DEF Ok, SamePlaces
  <2> QED BY <2>6 DEF r
<1> QED BY <1>1, <1>2

\* So does merge_entries for an entry whose parent the target has.
LEMMA MergeChildEntryCompletes ==
    ASSUME NEW I \in SUBSET Uuid, NEW s \in Content(I), NEW c \in Content(I), NEW e \in DOMAIN s.entries, NEW now \in Time,
           s.entries[e].parent \in DOMAIN c.groups, ParentsThere(c)
    PROVE  LET r == MergeChildEntry(s, c, e, now)
           IN  r.ok = TRUE /\ ParentsThere(r.db)
<1> DEFINE r == MergeChildEntry(s, c, e, now)
           a == s.entries[e]
           moved == IF IsNewer(a.moved, c.entries[e].moved) /\ a.parent # c.entries[e].parent
                    THEN MoveEntry(c, e, a.parent, now) ELSE Ok(c)
<1>0. a \in Entry /\ e \in I /\ e \in Uuid /\ a.parent \in Uuid BY ContentParts
<1>1. CASE ~HasEntry(c, e)
  <2> DEFINE q == InsertEntry(c, e, a)
  <2>1. r = q BY <1>1 DEF MergeChildEntry
  <2>2. /\ q \in Result(I) /\ Kept(c, q.db, {e}) /\ q.db.bin = c.bin
        /\ \A x \in DOMAIN c.entries : q.db.entries[x] = c.entries[x]
        /\ q.ok => e \in DOMAIN q.db.entries
    BY <1>0, InsertEntryTyped
  <2>3. OnlyWithin(c, q.db, {}, {}) /\ (q.ok => e \in DOMAIN q.db.entries /\ q.db.entries[e] = a)
    BY <1>0, InsertEntryOnly
  <2>4. \E d : q = Ok(d) BY <1>1 DEF InsertEntry, HasGroup
  <2> HIDE DEF q
  <2>5. q.ok = TRUE BY <2>4 DEF Ok
  <2>6. /\ DOMAIN q.db.entries \subseteq DOMAIN c.entries \cup {e} /\ DOMAIN c.groups \subseteq DOMAIN q.db.groups
    BY <2>2 DEF Kept
  <2>7. ParentsThere(q.db) BY <2>2, <2>3, <2>5, <2>6 DEF ParentsThere
  <2> QED BY <2>1, <2>5, <2>7
<1>2. CASE HasEntry(c, e)
  <2>1. r = AndThen(moved, LAMBDA d : Ok(MergeEntry(s, d, e))) BY <1>2 DEF MergeChildEntry
  <2>2. r = IF moved.ok THEN Ok(MergeEntry(s, moved.db, e)) ELSE moved BY <2>1 DEF AndThen
  <2>3. /\ moved.ok = TRUE /\ moved.db \in Content(I) /\ e \in DOMAIN moved.db.entries
        /\ ParentsThere(moved.db) /\ a.parent \in DOMAIN moved.db.groups
    <3> DEFINE q == MoveEntry(c, e, a.parent, now)
    <3>1. CASE IsNewer(a.moved, c.entries[e].moved) /\ a.parent # c.entries[e].parent
      <4>1. moved = q BY <3>1
      <4>2. \E d : q = Ok(d) BY <1>2, <3>1 DEF MoveEntry, HasGroup, HasEntry, ParentsThere
      <4>3. q \in Result(I) /\ Kept(c, q.db, {}) /\ q.db.bin = c.bin /\ SameVersions(c, q.db)
        BY <1>0, MoveEntryTyped
      <4>4. q = Err(c) \/ (q.ok /\ EntryMoved(c, q.db, e, a.parent) /\ q.db.bin = c.bin) BY <1>0, MoveEntryMoves
      <4> HIDE DEF q, moved
      <4>5. q.ok = TRUE BY <4>2 DEF Ok
      <4>6. EntryMoved(c, q.db, e, a.parent) BY <4>4, <4>5 DEF Err
      <4>7. ParentsThere(q.db) BY <4>6 DEF EntryMoved, ParentsThere
      <4>8. q.db \in Content(I) BY <4>3 DEF Result
      <4>9. e \in DOMAIN q.db.entries /\ a.parent \in DOMAIN q.db.groups BY <4>6 DEF EntryMoved
      <4> QED BY <4>1, <4>5, <4>7, <4>8, <4>9
    <3>2. CASE ~(IsNewer(a.moved, c.entries[e].moved) /\ a.parent # c.entries[e].parent)
      <4>1. moved = Ok(c) BY <3>2
      <4> QED BY <1>2, <4>1 DEF HasEntry, Ok
    <3> QED BY <3>1, <3>2
  <2> HIDE DEF moved, r
  <2> DEFINE m == moved.db d == MergeEntry(s, m, e)
  <2>4. m \in Content(I) /\ e \in DOMAIN m.entries /\ ParentsThere(m) /\ a.parent \in DOMAIN m.groups BY <2>3
  <2>5. r = Ok(d) BY <2>2, <2>3
  <2> HIDE DEF m
  <2>6. /\ d \in Content(I) /\ DOMAIN d.entries = DOMAIN m.entries /\ d.groups = m.groups
        /\ d.bin = m.bin /\ d.deleted = m.deleted
        /\ \A x \in DOMAIN m.entries : m.entries[x].mod <= d.entries[x].mod
    BY <2>4, MergeEntryTyped
  <2>7. /\ \A f \in DOMAIN m.entries \ {e} : d.entries[f] = m.entries[f]
        /\ ~(s.entries[e].mod > d.entries[e].mod)
        /\ \/ d.entries[e].parent = m.entries[e].parent
           \/ s.entries[e].mod > m.entries[e].mod /\ d.entries[e].parent = s.entries[e].parent
    BY <2>4, MergeEntryPlaces
  <2> HIDE DEF d
  <2>8. ParentsThere(d) BY <2>4, <2>6, <2>7 DEF ParentsThere
  <2>9. r.ok = TRUE /\ ParentsThere(r.db) BY <2>5, <2>8 DEF Ok
  <2> QED BY <2>9 DEF r
<1> QED BY <1>1, <1>2

-----------------------------------------------------------------------------
(* What merge_groups has met on its way                                    *)

\* What the walk through a copy meets is in the group that lists it, and that is
\* the root group or has been met before.
LEMMA MetInOrder ==
    ASSUME NEW I \in SUBSET Uuid, NEW s \in Content(I), ListedByParent(s), RootGroup \in DOMAIN s.groups,
           NEW n \in 1 .. Len(Walk(s, RootGroup))
    PROVE  LET h == Walk(s, RootGroup)[n][1]
               x == Walk(s, RootGroup)[n][2]
           IN  /\ x \in Uuid /\ h \in DOMAIN s.groups
               /\ h = RootGroup \/ \E j \in 1 .. (n - 1) : Walk(s, RootGroup)[j][2] = h
               /\ \/ x \in DOMAIN s.groups /\ x \in GroupsBelow(s, RootGroup) /\ s.groups[x].parent = h
                  \/ x \in DOMAIN s.entries /\ s.entries[x].parent = h
               /\ GroupsBelow(s, RootGroup) \subseteq DOMAIN s.groups
<1> DEFINE walk == Walk(s, RootGroup)
           item == walk[n]
           h == item[1]
           x == item[2]
<1>1. Lists(s) /\ IsFiniteSet(DOMAIN s.groups) /\ DOMAIN s.groups \in SUBSET I BY ContentParts
<1>2. walk \in Seq(Item) /\ ToSet(walk) \subseteq Ways(s, RootGroup) /\ FromTop(walk, RootGroup)
  BY <1>1, WalkMeets
<1>3. Entered(s, RootGroup) \subseteq DOMAIN s.groups BY <1>1, EnteredGroups
<1>4. item \in Ways(s, RootGroup) /\ n \in DOMAIN walk
  <2>1. n \in 1 .. Len(walk) OBVIOUS
  <2> HIDE DEF walk
  <2>2. walk[n] \in ToSet(walk) BY <1>2, <2>1, ElementsOf
  <2>3. DOMAIN walk = 1 .. Len(walk) BY <1>2
  <2> QED BY <1>2, <2>1, <2>2, <2>3
<1>5. h = RootGroup \/ \E j \in 1 .. (n - 1) : walk[j][2] = h BY <1>2, <1>4 DEF FromTop
<1> HIDE DEF walk, item
<1>6. item \in Item /\ h \in Entered(s, RootGroup) /\ x \in Subs(s, h) \cup Ents(s, h)
  BY <1>4 DEF Ways, Listed
<1>7. x \in Uuid /\ h \in DOMAIN s.groups BY <1>3, <1>6 DEF Item
<1>8. \A k \in DOMAIN s.groups :
         /\ Subs(s, k) = {g \in DOMAIN s.groups : s.groups[g].parent = k}
         /\ Ents(s, k) = {e \in DOMAIN s.entries : s.entries[e].parent = k}
  BY DEF ListedByParent, Subs, Ents
<1>9. \/ x \in DOMAIN s.groups /\ x \in GroupsBelow(s, RootGroup) /\ s.groups[x].parent = h
      \/ x \in DOMAIN s.entries /\ s.entries[x].parent = h
  BY <1>6, <1>7, <1>8 DEF GroupsBelow, Subs
<1>10. GroupsBelow(s, RootGroup) \subseteq DOMAIN s.groups BY <1>3, <1>8 DEF GroupsBelow, Subs
<1> QED BY <1>5, <1>7, <1>9, <1>10 DEF walk, item

\* Groups that are all met on the way down from the root group are in a tree.
LEMMA ReachedUp ==
    ASSUME NEW I \in SUBSET Uuid, NEW s \in Content(I), ListedByParent(s), RootGroup \in DOMAIN s.groups,
           DOMAIN s.groups \subseteq Entered(s, RootGroup)
    PROVE  Up(s)
<1> SUFFICES ASSUME NEW S \in SUBSET (DOMAIN s.groups), S # {}, RootGroup \notin S,
                    \A x \in S : s.groups[x].parent \in S
             PROVE  FALSE
  BY DEF Up
<1>1. IsFiniteSet(DOMAIN s.groups) BY ContentParts
<1> DEFINE T == DOMAIN s.groups \ S
<1>2. Closed(s, T)
  <2> SUFFICES ASSUME NEW h \in T, NEW x \in Children(s, h) PROVE x \notin S BY DEF Closed, Children
  <2>1. ToSet(s.groups[h].subs) = {g \in DOMAIN s.groups : s.groups[g].parent = h} BY DEF ListedByParent
  <2>2. s.groups[x].parent = h BY <2>1 DEF Children
  <2> QED BY <2>2
<1>3. T \in SUBSET (DOMAIN s.groups) /\ RootGroup \in T OBVIOUS
<1> HIDE DEF T
<1>4. Entered(s, RootGroup) \subseteq T BY <1>1, <1>2, <1>3, EnteredGroups
<1> QED BY <1>4 DEF T

\* The source of a merge: everything is in the group that lists it, below the
\* root group.
Sound(s) ==
    /\ ListedByParent(s) /\ Up(s)
    /\ RootGroup \in DOMAIN s.groups /\ RootGroup \notin Named(s)

\* No uuid is that of a group and of an entry on the two sides of a merge.
KindsDiffer(s, c) == (DOMAIN c.groups \cup DOMAIN s.groups) \cap (DOMAIN c.entries \cup DOMAIN s.entries) = {}

\* What merge_groups has met has been merged, and the next has a place.
Completing(I, s, c, n) ==
    {v \in Merging(I, s, c, n) :
        /\ v.ok = TRUE /\ ParentsThere(v.db) /\ RootGroup \in DOMAIN v.db.groups /\ s.bin \in DOMAIN v.db.groups
        /\ \A i \in 1 .. n : Walk(s, RootGroup)[i][2] \in DOMAIN s.groups =>
                                 Walk(s, RootGroup)[i][2] \in DOMAIN v.db.groups}

\* What the next step of merge_groups finds.
LEMMA NextHasPlace ==
    ASSUME NEW I \in SUBSET Uuid, NEW s \in Content(I), NEW c \in Content(I), Sound(s), KindsDiffer(s, c),
           NEW n \in Nat, n < Len(Walk(s, RootGroup)), NEW v \in Completing(I, s, c, n)
    PROVE  LET x == Walk(s, RootGroup)[n + 1][2]
               d == v.db
           IN  /\ x \in Uuid /\ d \in Content(I) /\ Grown(s, c, d) /\ KindsDiffer(s, d)
               /\ \/ /\ x \in GroupsBelow(s, RootGroup) /\ x \in DOMAIN s.groups /\ x # RootGroup
                     /\ x \notin DOMAIN d.entries
                     /\ s.groups[x].parent \in DOMAIN d.groups /\ s.groups[x].parent # x
                  \/ /\ x \notin GroupsBelow(s, RootGroup) /\ x \in DOMAIN s.entries
                     /\ x \notin DOMAIN s.groups /\ x \notin DOMAIN d.groups
                     /\ s.entries[x].parent \in DOMAIN d.groups
<1> DEFINE walk == Walk(s, RootGroup)
           h == walk[n + 1][1]
           x == walk[n + 1][2]
           d == v.db
<1>1. ListedByParent(s) /\ Up(s) /\ RootGroup \in DOMAIN s.groups /\ RootGroup \notin Named(s) BY DEF Sound
<1>2. n + 1 \in 1 .. Len(walk) /\ (n + 1) - 1 = n
  <2>1. Lists(s) BY ContentParts
  <2>2. walk \in Seq(Item) BY <2>1, UuidsThere, WalkMeets
  <2> QED BY <2>2
<1>3. /\ x \in Uuid /\ h \in DOMAIN s.groups
      /\ h = RootGroup \/ \E j \in 1 .. ((n + 1) - 1) : walk[j][2] = h
      /\ \/ x \in DOMAIN s.groups /\ x \in GroupsBelow(s, RootGroup) /\ s.groups[x].parent = h
         \/ x \in DOMAIN s.entries /\ s.entries[x].parent = h
      /\ GroupsBelow(s, RootGroup) \subseteq DOMAIN s.groups
  BY <1>1, <1>2, MetInOrder
<1>4. /\ d \in Content(I) /\ Grown(s, c, d) /\ RootGroup \in DOMAIN d.groups
      /\ \A i \in 1 .. n : walk[i][2] \in DOMAIN s.groups => walk[i][2] \in DOMAIN d.groups
  BY DEF Completing, Merging, Result
<1> HIDE DEF x, h, d, walk
<1>5. h \in DOMAIN d.groups BY <1>2, <1>3, <1>4
<1>6. KindsDiffer(s, d)
  <2>1. DOMAIN d.groups \subseteq DOMAIN c.groups \cup DOMAIN s.groups BY <1>4 DEF Grown
  <2>2. DOMAIN d.entries \subseteq DOMAIN c.entries \cup DOMAIN s.entries BY <1>4 DEF Grown
  <2> QED BY <2>1, <2>2 DEF KindsDiffer
<1>7. CASE x \in DOMAIN s.groups /\ x \in GroupsBelow(s, RootGroup) /\ s.groups[x].parent = h
  <2>1. x # RootGroup BY <1>1, <1>7, BelowNamed
  <2>2. h # x
    <3>1. {x} \in SUBSET (DOMAIN s.groups) /\ {x} # {} /\ RootGroup \notin {x} BY <1>7, <2>1
    <3>2. \E y \in {x} : s.groups[y].parent \notin {x} BY <1>1, <3>1 DEF Up
    <3> QED BY <1>7, <3>2
  <2>3. x \notin DOMAIN d.entries BY <1>6, <1>7 DEF KindsDiffer
  <2> QED BY <1>3, <1>4, <1>5, <1>6, <1>7, <2>1, <2>2, <2>3 DEF x, d, walk
<1>8. CASE x \in DOMAIN s.entries /\ s.entries[x].parent = h
  <2>1. x \notin DOMAIN s.groups /\ x \notin DOMAIN d.groups BY <1>6, <1>8 DEF KindsDiffer
  <2> QED BY <1>3, <1>4, <1>5, <1>6, <1>8, <2>1 DEF x, d, walk
<1> QED BY <1>3, <1>7, <1>8

-----------------------------------------------------------------------------
(* A merge of two copies completes                                         *)

\* One step of merge_groups completes.
LEMMA MergeStepCompletes ==
    ASSUME NEW I \in SUBSET Uuid, NEW s \in Content(I), NEW c \in Content(I), NEW now \in Time,
           Sound(s), KindsDiffer(s, c),
           NEW n \in Nat, n < Len(Walk(s, RootGroup)), NEW v \in Completing(I, s, c, n)
    PROVE  MergeStep(s, v.db, Walk(s, RootGroup)[n + 1][2], now) \in Completing(I, s, c, n + 1)
<1> DEFINE x == Walk(s, RootGroup)[n + 1][2]
           d == v.db
           r == MergeStep(s, d, x, now)
<1>1. v \in Merging(I, s, c, n) /\ v.ok /\ ParentsThere(d) /\ RootGroup \in DOMAIN d.groups /\ s.bin \in DOMAIN d.groups
      /\ \A i \in 1 .. n : Walk(s, RootGroup)[i][2] \in DOMAIN s.groups => Walk(s, RootGroup)[i][2] \in DOMAIN d.groups
  BY DEF Completing
<1>2. r \in Merging(I, s, c, n + 1) BY <1>1, MergeStepOutcome
<1>3. /\ x \in Uuid /\ d \in Content(I) /\ Grown(s, c, d) /\ KindsDiffer(s, d)
      /\ \/ /\ x \in GroupsBelow(s, RootGroup) /\ x \in DOMAIN s.groups /\ x # RootGroup
            /\ x \notin DOMAIN d.entries
            /\ s.groups[x].parent \in DOMAIN d.groups /\ s.groups[x].parent # x
         \/ /\ x \notin GroupsBelow(s, RootGroup) /\ x \in DOMAIN s.entries
            /\ x \notin DOMAIN s.groups /\ x \notin DOMAIN d.groups
            /\ s.entries[x].parent \in DOMAIN d.groups
  BY NextHasPlace
<1>4. /\ r.ok = TRUE /\ ParentsThere(r.db) /\ DOMAIN d.groups \subseteq DOMAIN r.db.groups
      /\ x \in DOMAIN s.groups => x \in DOMAIN r.db.groups
  <2>1. CASE /\ x \in GroupsBelow(s, RootGroup) /\ x \in DOMAIN s.groups /\ x \notin DOMAIN d.entries
             /\ s.groups[x].parent \in DOMAIN d.groups /\ s.groups[x].parent # x
    <3>1. r = MergeChildGroup(s, d, x, now) BY <2>1 DEF MergeStep
    <3>2. x \in Named(s) BY <2>1, BelowNamed
    <3> HIDE DEF x, d, r
    <3>3. r.ok = TRUE /\ x \in DOMAIN r.db.groups BY <1>1, <1>3, <2>1, <3>1, MergeChildGroupCompletes
    <3>4. Grown(s, d, r.db) BY <1>3, <3>1, <3>2, MergeChildGroupTyped
    <3>5. r.db.entries = d.entries BY <3>1, MergeChildGroupEntries
    <3>6. DOMAIN d.groups \subseteq DOMAIN r.db.groups BY <3>4 DEF Grown
    <3>7. ParentsThere(r.db) BY <1>1, <3>5, <3>6 DEF ParentsThere
    <3> QED BY <3>3, <3>6, <3>7
  <2>2. CASE /\ x \notin GroupsBelow(s, RootGroup) /\ x \in DOMAIN s.entries /\ x \notin DOMAIN s.groups
             /\ s.entries[x].parent \in DOMAIN d.groups
    <3>1. r = MergeChildEntry(s, d, x, now) BY <2>2 DEF MergeStep, HasEntry
    <3> HIDE DEF x, d, r
    <3>2. r.ok = TRUE /\ ParentsThere(r.db) BY <1>1, <1>3, <2>2, <3>1, MergeChildEntryCompletes
    <3>3. Grown(s, d, r.db) BY <1>3, <2>2, <3>1, MergeChildEntryTyped
    <3>4. DOMAIN d.groups \subseteq DOMAIN r.db.groups BY <3>3 DEF Grown
    <3> QED BY <2>2, <3>2, <3>4
  <2> QED BY <1>3, <2>1, <2>2
<1> HIDE DEF r, d
<1>5. ASSUME NEW i \in 1 .. (n + 1), Walk(s, RootGroup)[i][2] \in DOMAIN s.groups
      PROVE  Walk(s, RootGroup)[i][2] \in DOMAIN r.db.groups
  <2>1. CASE i = n + 1 BY <1>4, <1>5, <2>1
  <2>2. CASE i # n + 1
    <3>1. i \in 1 .. n BY <2>2
    <3> QED BY <1>1, <1>4, <1>5, <3>1
  <2> QED BY <2>1, <2>2
<1> HIDE DEF x
<1>6. r \in Completing(I, s, c, n + 1) BY <1>1, <1>2, <1>4, <1>5 DEF Completing
<1> QED BY <1>6 DEF r, d, x

\* merge_groups completes when the target has the groups that are not walked to.
LEMMA MergeGroupsComplete ==
    ASSUME NEW I \in SUBSET Uuid, NEW s \in Content(I), NEW c \in Content(I), NEW now \in Time,
           Sound(s), KindsDiffer(s, c), ParentsThere(c), RootGroup \in DOMAIN c.groups, s.bin \in DOMAIN c.groups
    PROVE  MergeGroups(s, c, now) \in Completing(I, s, c, Len(Walk(s, RootGroup)))
<1> DEFINE N == Len(Walk(s, RootGroup))
           G == [n \in 0 .. N |-> Completing(I, s, c, n)]
<1>1. N \in Nat
  <2>1. Lists(s) BY ContentParts
  <2>2. Walk(s, RootGroup) \in Seq(Item) BY <2>1, UuidsThere, WalkMeets
  <2> QED BY <2>2
<1>2. Ok(c) \in G[0]
  <2>1. Ok(c) \in Result(I) /\ Ok(c).db = c BY Results
  <2>2. Grown(s, c, c) BY GrownNot
  <2>3. Ok(c) \in Merging(I, s, c, 0) BY <2>1, <2>2 DEF Merging
  <2>4. Ok(c).ok = TRUE BY DEF Ok
  <2>5. Ok(c) \in Completing(I, s, c, 0) BY <2>1, <2>3, <2>4 DEF Completing
  <2>6. 0 \in 0 .. N BY <1>1
  <2> QED BY <2>5, <2>6
<1>3. ASSUME NEW n \in 1 .. N, NEW v \in G[n - 1] PROVE MergeThen(s, v, n, now) \in G[n]
  <2>1. n - 1 \in Nat /\ (n - 1) + 1 = n /\ n - 1 \in 0 .. N /\ n \in 0 .. N /\ n - 1 < N BY <1>1
  <2>2. v \in Completing(I, s, c, n - 1) /\ G[n] = Completing(I, s, c, n) BY <2>1
  <2> HIDE DEF G
  <2>3. v.ok BY <2>2 DEF Completing
  <2>4. MergeThen(s, v, n, now) = MergeStep(s, v.db, Walk(s, RootGroup)[(n - 1) + 1][2], now) BY <2>1, <2>3 DEF MergeThen
  <2>5. MergeStep(s, v.db, Walk(s, RootGroup)[(n - 1) + 1][2], now) \in Completing(I, s, c, (n - 1) + 1)
    BY <2>1, <2>2, MergeStepCompletes
  <2> QED BY <2>1, <2>2, <2>4, <2>5
<1>4. N \in 0 .. N BY <1>1
<1> HIDE DEF G
<1>5. MergeGroups(s, c, now) \in G[N] BY <1>2, <1>3, MergeGroupsThrough
<1> QED BY <1>4, <1>5 DEF G

\* The target as merge_groups finds it, when both sides have the recycle bin:
\* only the fields of the root group have changed.
LEMMA MergeStart ==
    ASSUME NEW I \in SUBSET Uuid, NEW s \in Content(I), NEW c \in Content(I), RootGroup \in DOMAIN s.groups,
           c.bin = s.bin, NEW now, NEW by
    PROVE  LET b == WithSourceBin(s, MergeGroup(s, c, RootGroup), now, by)
           IN  b = MergeGroup(s, c, RootGroup) /\ b \in Content(I) /\ SamePlaces(c, b) /\ b.entries = c.entries
<1> DEFINE m == MergeGroup(s, c, RootGroup)
<1>1. m \in Content(I) /\ SamePlaces(c, m) /\ m.entries = c.entries BY MergeGroupTyped
<1> HIDE DEF m
<1>2. m.bin = s.bin BY <1>1 DEF SamePlaces
<1>3. WithSourceBin(s, m, now, by) = m BY <1>2 DEF WithSourceBin
<1> QED BY <1>1, <1>3 DEF m

\* A merge of two copies of one database completes.
LEMMA OneMergeCompletes ==
    ASSUME NEW I \in SUBSET Uuid, NEW s \in Content(I), NEW c \in Content(I), NEW now \in Time, NEW by \in Devices,
           Sound(s), KindsDiffer(s, c), ParentsThere(c), RootGroup \in DOMAIN c.groups,
           c.bin = s.bin, s.bin \in DOMAIN c.groups
    PROVE  Merge(s, c, now, by).ok = TRUE
<1> DEFINE b == WithSourceBin(s, MergeGroup(s, c, RootGroup), now, by)
           v == MergeGroups(s, b, now)
           r == Merge(s, c, now, by)
<1>0. RootGroup \in DOMAIN s.groups BY DEF Sound
<1>1. b \in Content(I) /\ SamePlaces(c, b) /\ b.entries = c.entries BY <1>0, MergeStart
<1>2. r = AndThen(v, LAMBDA x : Ok(MaintainAllHistories(MergeDeletedObjects(s, x, now)))) BY DEF Merge
<1> HIDE DEF b
<1>3. /\ KindsDiffer(s, b) /\ ParentsThere(b) /\ RootGroup \in DOMAIN b.groups /\ s.bin \in DOMAIN b.groups
  BY <1>1 DEF SamePlaces, KindsDiffer, ParentsThere
<1>4. v \in Completing(I, s, b, Len(Walk(s, RootGroup))) BY <1>1, <1>3, MergeGroupsComplete
<1> HIDE DEF v
<1>5. v.ok BY <1>4 DEF Completing
<1>6. r = Ok(MaintainAllHistories(MergeDeletedObjects(s, v.db, now))) BY <1>2, <1>5 DEF AndThen
<1> HIDE DEF r
<1>7. r.ok = TRUE BY <1>6 DEF Ok
<1> QED BY <1>7 DEF r

\* As long as everything is in the one place that its parent and the list of the
\* parent give, and is met on the way down from the root group, every merge of
\* two copies with a recycle bin comes to its end: no group and no entry of the
\* source is met before the target has the group it is in.
THEOREM MergesComplete ==
    ASSUME InitialBin # Nil
    PROVE  Spec /\ []PlacesAgree /\ []NothingUnreachable => []MergeCompletes
<1>1. Init => MergeCompletes BY DEF Init, MergeCompletes
<1>2. Contents /\ KindsApart /\ OneBin /\ PlacesAgree /\ NothingUnreachable /\ MergeCompletes /\ [Next]_vars
        => MergeCompletes'
  <2> SUFFICES ASSUME Contents, KindsApart, OneBin, PlacesAgree, NothingUnreachable, MergeCompletes, [Next]_vars
               PROVE  MergeCompletes'
    OBVIOUS
  <2>1. CASE UNCHANGED vars BY <2>1 DEF vars, MergeCompletes
  <2>2. CASE Next
    <3>1. PICK to \in Devices, at \in Time : OwnCall(to, at) \/ \E from \in Devices : MergeFrom(from, to, at)
      BY <2>2, Steps
    <3>2. CASE OwnCall(to, at)
      <4>1. last'.op # "merge" BY <3>2 DEF OwnCall, Call
      <4> QED BY <4>1 DEF MergeCompletes
    <3>3. CASE \E from \in Devices : MergeFrom(from, to, at)
      <4>1. PICK from \in Devices : MergeFrom(from, to, at) BY <3>3
      <4> DEFINE s == db[from] c == db[to] r == Merge(s, c, at, to)
      <4>2. last' = [op |-> "merge", from |-> from, to |-> to, ok |-> r.ok] BY <4>1 DEF MergeFrom
      <4>3. /\ Known(unused) \in SUBSET Uuid /\ s \in Content(Known(unused)) /\ c \in Content(Known(unused))
            /\ RootGroup \in DOMAIN s.groups /\ RootGroup \in DOMAIN c.groups /\ RootGroup \notin Named(s)
            /\ (DOMAIN c.groups \cup DOMAIN s.groups \cup {s.bin}) \cap (DOMAIN c.entries \cup DOMAIN s.entries) = {}
        BY TwoCopies
      <4>4. KindsDiffer(s, c) BY <4>3 DEF KindsDiffer
      <4>5. ListedByParent(s) /\ ListedByParent(c) BY DEF PlacesAgree
      <4>6. DOMAIN s.groups \subseteq Entered(s, RootGroup) BY DEF NothingUnreachable
      <4>7. c.bin = s.bin /\ s.bin \in DOMAIN c.groups BY DEF OneBin
      <4> HIDE DEF s, c
      <4>8. Sound(s) BY <4>3, <4>5, <4>6, ReachedUp DEF Sound
      <4>9. ParentsThere(c) BY <4>5 DEF ListedByParent, ParentsThere
      <4>10. r.ok = TRUE BY <4>3, <4>4, <4>7, <4>8, <4>9, OneMergeCompletes
      <4> HIDE DEF r
      <4>11. last'.ok = TRUE BY <4>2, <4>10
      <4> QED BY <4>11 DEF MergeCompletes
    <3> QED BY <3>1, <3>2, <3>3
  <2> QED BY <2>1, <2>2
<1> QED BY <1>1, <1>2, CopiesSound, OneBinSound, PTL DEF Spec

-----------------------------------------------------------------------------
(* The places after one group or entry is merged                           *)

\* A change of no place.
LEMMA SamePlacesPlaced ==
    ASSUME NEW c, Placed(c), NEW d, SamePlaces(c, d)
    PROVE  Placed(d)
<1>1. Gone(c, d, {}, {}) BY NothingGone
<1> DEFINE H == {}
<1>2. Gone(c, d, H, H) BY <1>1
<1> HIDE DEF H
<1> QED BY <1>2, GonePlaced

\* merge_groups for a group that is not the root group
LEMMA MergeChildGroupPlaced ==
    ASSUME NEW I \in SUBSET Uuid, NEW s \in Content(I), NEW c \in Content(I), NEW g \in DOMAIN s.groups, NEW now \in Time,
           g # RootGroup, g \notin DOMAIN c.entries, s.groups[g].parent \in DOMAIN c.groups, Placed(c)
    PROVE  Placed(MergeChildGroup(s, c, g, now).db)
<1> DEFINE r == MergeChildGroup(s, c, g, now)
           v == [s.groups[g] EXCEPT !.subs = <<>>, !.entries = <<>>]
           p == s.groups[g].parent
           moved == IF IsNewer(s.groups[g].moved, c.groups[g].moved) /\ p # c.groups[g].parent
                    THEN MoveGroup(c, g, p, now) ELSE Ok(c)
<1>0. g \in I /\ g \in Uuid /\ s.groups[g] \in Group /\ p \in Uuid /\ g # Nil BY ContentParts, UuidsThere
<1>a. Nil \notin DOMAIN c.groups BY TreeUuids
<1>1. CASE ~HasGroup(c, g)
  <2> DEFINE q == InsertGroup(c, g, v)
  <2>1. r = q \/ r = Ok(c) BY <1>1 DEF MergeChildGroup, HasGroup
  <2>2. <<>> \in Seq(Uuid) OBVIOUS
  <2>3. v \in Group /\ v.subs = <<>> /\ v.entries = <<>> /\ v.parent = p BY <1>0, <2>2 DEF Group
  <2> HIDE DEF v, r
  <2>4. g \notin DOMAIN c.groups \cup DOMAIN c.entries BY <1>1 DEF HasGroup
  <2>5. q.ok = TRUE /\ GroupAdded(c, q.db, g, v.parent) BY <1>0, <2>3, <2>4, InsertGroupAdds
  <2> HIDE DEF q
  <2>6. Placed(q.db) BY <1>0, <1>a, <2>5, GroupAddedPlaced
  <2>7. Placed(r.db) BY <2>1, <2>6 DEF Ok
  <2> QED BY <2>7 DEF r
<1>2. CASE HasGroup(c, g)
  <2>1. r = AndThen(moved, LAMBDA d : Ok(MergeGroup(s, d, g))) BY <1>2 DEF MergeChildGroup, HasGroup
  <2>2. r = IF moved.ok THEN Ok(MergeGroup(s, moved.db, g)) ELSE moved BY <2>1 DEF AndThen
  <2>3. moved.db \in Content(I) /\ Placed(moved.db)
    <3> DEFINE q == MoveGroup(c, g, p, now)
    <3>1. q \in Result(I) /\ Kept(c, q.db, {}) BY <1>0, MoveGroupTyped
    <3>2. g \in DOMAIN c.groups => g # RootGroup /\ c.groups[g].parent \in DOMAIN c.groups BY PlacedNeat
    <3>3. q = Err(c) \/ (q.ok /\ GroupMoved(c, q.db, g, p) /\ q.db.bin = c.bin) BY <1>0, <3>2, MoveGroupMoves
    <3>4. moved = q \/ moved = Ok(c) OBVIOUS
    <3> HIDE DEF q, moved
    <3>5. Placed(q.db)
      <4>1. CASE q = Err(c) BY <4>1 DEF Err
      <4>2. CASE GroupMoved(c, q.db, g, p) BY <4>2, GroupMovedPlaced
      <4> QED BY <3>3, <4>1, <4>2
    <3>6. q.db \in Content(I) BY <3>1 DEF Result
    <3> QED BY <3>4, <3>5, <3>6 DEF Ok
  <2> HIDE DEF moved, r
  <2> DEFINE d == MergeGroup(s, moved.db, g)
  <2>4. SamePlaces(moved.db, d) BY <2>3, MergeGroupTyped
  <2>5. Placed(d) BY <2>3, <2>4, SamePlacesPlaced
  <2>6. r = Ok(d) \/ r = moved BY <2>2
  <2> HIDE DEF d
  <2>7. Placed(r.db) BY <2>3, <2>5, <2>6 DEF Ok
  <2> QED BY <2>7 DEF r
<1> QED BY <1>1, <1>2

\* Where an entry of s is newer than that of c and in another group, it has been
\* moved there later than that of c.
Follows(s, c) ==
    \A e \in DOMAIN s.entries \cap DOMAIN c.entries :
        s.entries[e].mod > c.entries[e].mod /\ s.entries[e].parent # c.entries[e].parent =>
            s.entries[e].moved > c.entries[e].moved

\* merge_entries for an entry takes over a parent only with the lists.
LEMMA MergeChildEntryPlaced ==
    ASSUME NEW I \in SUBSET Uuid, NEW s \in Content(I), NEW c \in Content(I), NEW e \in DOMAIN s.entries, NEW now \in Time,
           e \notin DOMAIN c.groups, s.entries[e].parent \in DOMAIN c.groups, Placed(c), Follows(s, c)
    PROVE  LET r == MergeChildEntry(s, c, e, now)
           IN  Placed(r.db) /\ Follows(s, r.db)
<1> DEFINE r == MergeChildEntry(s, c, e, now)
           a == s.entries[e]
           p == a.parent
           moved == IF IsNewer(a.moved, c.entries[e].moved) /\ p # c.entries[e].parent
                    THEN MoveEntry(c, e, p, now) ELSE Ok(c)
<1>0. a \in Entry /\ e \in I /\ e \in Uuid /\ p \in Uuid /\ ~(a.mod > a.mod)
  BY ContentParts, UuidsAssumption DEF Entry, Time
<1>1. CASE ~HasEntry(c, e)
  <2> DEFINE d == PutEntry(ListEntry(c, p, e), e, a)
  <2>1. r = Ok(d) BY <1>1 DEF MergeChildEntry, InsertEntry, HasGroup
  <2>2. e \notin DOMAIN c.groups \cup DOMAIN c.entries BY <1>1 DEF HasEntry
  <2>3. /\ d \in Content(I) /\ EntryAdded(c, d, e, p) /\ d.bin = c.bin
        /\ d.entries[e] = a /\ \A y \in DOMAIN c.entries : d.entries[y] = c.entries[y]
    <3> HIDE DEF a
    <3>1. /\ PutEntry(ListEntry(c, a.parent, e), e, a) \in Content(I)
          /\ EntryAdded(c, PutEntry(ListEntry(c, a.parent, e), e, a), e, a.parent)
          /\ PutEntry(ListEntry(c, a.parent, e), e, a).bin = c.bin
          /\ PutEntry(ListEntry(c, a.parent, e), e, a).entries[e] = a
          /\ \A y \in DOMAIN c.entries : PutEntry(ListEntry(c, a.parent, e), e, a).entries[y] = c.entries[y]
      BY <1>0, <2>2, EntryPutAdds DEF a
    <3> QED BY <3>1
  <2> HIDE DEF d, r
  <2>4. Placed(d) BY <2>3, EntryAddedPlaced
  <2>5. Follows(s, d)
    <3>1. DOMAIN d.entries = DOMAIN c.entries \cup {e} BY <2>3 DEF EntryAdded
    <3> QED BY <1>0, <2>3, <3>1 DEF Follows
  <2>6. Placed(r.db) /\ Follows(s, r.db) BY <2>1, <2>4, <2>5 DEF Ok
  <2> QED BY <2>6 DEF r
<1>2. CASE HasEntry(c, e)
  <2>1. r = AndThen(moved, LAMBDA d : Ok(MergeEntry(s, d, e))) BY <1>2 DEF MergeChildEntry
  <2>2. r = IF moved.ok THEN Ok(MergeEntry(s, moved.db, e)) ELSE moved BY <2>1 DEF AndThen
  <2>3. /\ moved.ok = TRUE /\ moved.db \in Content(I) /\ e \in DOMAIN moved.db.entries /\ Placed(moved.db)
        /\ DOMAIN moved.db.entries = DOMAIN c.entries
        /\ \A f \in DOMAIN c.entries \ {e} : moved.db.entries[f] = c.entries[f]
        /\ a.mod > moved.db.entries[e].mod => moved.db.entries[e].parent = p
    <3> DEFINE q == MoveEntry(c, e, p, now)
    <3>1. CASE IsNewer(a.moved, c.entries[e].moved) /\ p # c.entries[e].parent
      <4>1. moved = q BY <3>1
      <4>2. c.entries[e].parent \in DOMAIN c.groups BY <1>2, PlacedNeat DEF HasEntry
      <4>3. \E d : q = Ok(d) BY <1>2, <3>1, <4>2 DEF MoveEntry, HasGroup, HasEntry
      <4>4. q \in Result(I) /\ Kept(c, q.db, {}) /\ q.db.bin = c.bin /\ SameVersions(c, q.db)
        BY <1>0, MoveEntryTyped
      <4>5. /\ OnlyWithin(c, q.db, {}, {e})
            /\ q.ok => e \in DOMAIN c.entries /\ e \in DOMAIN q.db.entries /\ q.db.entries[e].parent = p
        BY <1>0, MoveEntryOnly
      <4>6. q = Err(c) \/ (q.ok /\ EntryMoved(c, q.db, e, p) /\ q.db.bin = c.bin) BY <1>0, MoveEntryMoves
      <4> HIDE DEF q, moved, p
      <4>7. q.ok = TRUE BY <4>3 DEF Ok
      <4>8. EntryMoved(c, q.db, e, p) BY <4>6, <4>7 DEF Err
      <4>9. Placed(q.db) BY <4>8, EntryMovedPlaced
      <4>10. q.db \in Content(I) BY <4>4 DEF Result
      <4>11. DOMAIN q.db.entries = DOMAIN c.entries BY <4>8 DEF EntryMoved
      <4>12. \A f \in DOMAIN c.entries \ {e} : q.db.entries[f] = c.entries[f] BY <4>5 DEF OnlyWithin
      <4> QED BY <1>2, <4>1, <4>5, <4>7, <4>9, <4>10, <4>11, <4>12 DEF HasEntry
    <3>2. CASE ~(IsNewer(a.moved, c.entries[e].moved) /\ p # c.entries[e].parent)
      <4>1. moved = Ok(c) BY <3>2
      <4>2. moved.ok = TRUE /\ moved.db = c BY <4>1 DEF Ok
      <4>3. a.mod > c.entries[e].mod => c.entries[e].parent = p
        BY <1>2, <3>2 DEF Follows, IsNewer, HasEntry
      <4> HIDE DEF moved
      <4> QED BY <1>2, <4>2, <4>3 DEF HasEntry
    <3> QED BY <3>1, <3>2
  <2> HIDE DEF moved, r
  <2> DEFINE m == moved.db d == MergeEntry(s, m, e)
  <2>4. /\ m \in Content(I) /\ e \in DOMAIN m.entries /\ Placed(m) /\ DOMAIN m.entries = DOMAIN c.entries
        /\ \A f \in DOMAIN c.entries \ {e} : m.entries[f] = c.entries[f]
        /\ a.mod > m.entries[e].mod => m.entries[e].parent = p
    BY <2>3
  <2>5. r = Ok(d) BY <2>2, <2>3
  <2> HIDE DEF m
  <2>6. /\ d \in Content(I) /\ DOMAIN d.entries = DOMAIN m.entries /\ d.groups = m.groups
        /\ d.bin = m.bin /\ d.deleted = m.deleted
        /\ \A x \in DOMAIN m.entries : m.entries[x].mod <= d.entries[x].mod
    BY <2>4, MergeEntryTyped
  <2>7. /\ \A f \in DOMAIN m.entries \ {e} : d.entries[f] = m.entries[f]
        /\ ~(s.entries[e].mod > d.entries[e].mod)
        /\ \/ d.entries[e].parent = m.entries[e].parent
           \/ s.entries[e].mod > m.entries[e].mod /\ d.entries[e].parent = s.entries[e].parent
    BY <2>4, MergeEntryPlaces
  <2> HIDE DEF d
  <2>8. d.entries[e].parent = m.entries[e].parent BY <2>4, <2>7
  <2>9. SamePlaces(m, d) BY <2>6, <2>7, <2>8 DEF SamePlaces
  <2>10. Placed(d) BY <2>4, <2>9, SamePlacesPlaced
  <2>11. Follows(s, d)
    <3>1. DOMAIN d.entries = DOMAIN c.entries BY <2>4, <2>6
    <3>2. \A f \in DOMAIN c.entries \ {e} : d.entries[f] = c.entries[f] BY <2>4, <2>7
    <3>3. ~(s.entries[e].mod > d.entries[e].mod) BY <2>7
    <3> QED BY <3>1, <3>2, <3>3 DEF Follows
  <2>12. Placed(r.db) /\ Follows(s, r.db) BY <2>5, <2>10, <2>11 DEF Ok
  <2> QED BY <2>12 DEF r
<1> QED BY <1>1, <1>2

-----------------------------------------------------------------------------
(* The places after a merge                                                *)

\* Of all that merge_groups has merged, the parents and the lists agree.
Agreeing(I, s, c, n) == {v \in Completing(I, s, c, n) : Placed(v.db) /\ Follows(s, v.db)}

\* One step of merge_groups leads on.
LEMMA MergeStepAgrees ==
    ASSUME NEW I \in SUBSET Uuid, NEW s \in Content(I), NEW c \in Content(I), NEW now \in Time,
           Sound(s), KindsDiffer(s, c),
           NEW n \in Nat, n < Len(Walk(s, RootGroup)), NEW v \in Agreeing(I, s, c, n)
    PROVE  MergeStep(s, v.db, Walk(s, RootGroup)[n + 1][2], now) \in Agreeing(I, s, c, n + 1)
<1> DEFINE x == Walk(s, RootGroup)[n + 1][2]
           d == v.db
           r == MergeStep(s, d, x, now)
<1>1. v \in Completing(I, s, c, n) /\ Placed(d) /\ Follows(s, d) BY DEF Agreeing
<1>2. r \in Completing(I, s, c, n + 1) BY <1>1, MergeStepCompletes
<1>3. /\ x \in Uuid /\ d \in Content(I) /\ Grown(s, c, d) /\ KindsDiffer(s, d)
      /\ \/ /\ x \in GroupsBelow(s, RootGroup) /\ x \in DOMAIN s.groups /\ x # RootGroup
            /\ x \notin DOMAIN d.entries
            /\ s.groups[x].parent \in DOMAIN d.groups /\ s.groups[x].parent # x
         \/ /\ x \notin GroupsBelow(s, RootGroup) /\ x \in DOMAIN s.entries
            /\ x \notin DOMAIN s.groups /\ x \notin DOMAIN d.groups
            /\ s.entries[x].parent \in DOMAIN d.groups
  BY <1>1, NextHasPlace
<1>4. Placed(r.db) /\ Follows(s, r.db)
  <2>1. CASE /\ x \in GroupsBelow(s, RootGroup) /\ x \in DOMAIN s.groups /\ x # RootGroup /\ x \notin DOMAIN d.entries
             /\ s.groups[x].parent \in DOMAIN d.groups
    <3>1. r = MergeChildGroup(s, d, x, now) BY <2>1 DEF MergeStep
    <3> HIDE DEF x, d, r
    <3>2. Placed(r.db) BY <1>1, <1>3, <2>1, <3>1, MergeChildGroupPlaced
    <3>3. r.db.entries = d.entries BY <3>1, MergeChildGroupEntries
    <3>4. Follows(s, r.db) BY <1>1, <3>3 DEF Follows
    <3> QED BY <3>2, <3>4
  <2>2. CASE /\ x \notin GroupsBelow(s, RootGroup) /\ x \in DOMAIN s.entries /\ x \notin DOMAIN d.groups
             /\ s.entries[x].parent \in DOMAIN d.groups
    <3>1. r = MergeChildEntry(s, d, x, now) BY <2>2 DEF MergeStep, HasEntry
    <3> HIDE DEF x, d, r
    <3> QED BY <1>1, <1>3, <2>2, <3>1, MergeChildEntryPlaced
  <2> QED BY <1>3, <2>1, <2>2
<1> HIDE DEF r
<1>5. r \in Agreeing(I, s, c, n + 1) BY <1>2, <1>4 DEF Agreeing
<1> QED BY <1>5 DEF r, d, x

\* merge_groups
LEMMA MergeGroupsAgree ==
    ASSUME NEW I \in SUBSET Uuid, NEW s \in Content(I), NEW c \in Content(I), NEW now \in Time,
           Sound(s), KindsDiffer(s, c), Placed(c), Follows(s, c), s.bin \in DOMAIN c.groups
    PROVE  MergeGroups(s, c, now) \in Agreeing(I, s, c, Len(Walk(s, RootGroup)))
<1> DEFINE N == Len(Walk(s, RootGroup))
           G == [n \in 0 .. N |-> Agreeing(I, s, c, n)]
<1>1. N \in Nat
  <2>1. Lists(s) BY ContentParts
  <2>2. Walk(s, RootGroup) \in Seq(Item) BY <2>1, UuidsThere, WalkMeets
  <2> QED BY <2>2
<1>2. Ok(c) \in G[0]
  <2>1. Ok(c) \in Result(I) /\ Ok(c).db = c BY Results
  <2>2. Grown(s, c, c) BY GrownNot
  <2>3. Ok(c) \in Merging(I, s, c, 0) BY <2>1, <2>2 DEF Merging
  <2>4. Ok(c).ok = TRUE BY DEF Ok
  <2>5. ParentsThere(c) /\ RootGroup \in DOMAIN c.groups BY PlacedNeat DEF ParentsThere
  <2>6. Ok(c) \in Completing(I, s, c, 0) BY <2>1, <2>3, <2>4, <2>5 DEF Completing
  <2>7. Ok(c) \in Agreeing(I, s, c, 0) BY <2>1, <2>6 DEF Agreeing
  <2>8. 0 \in 0 .. N BY <1>1
  <2> QED BY <2>7, <2>8
<1>3. ASSUME NEW n \in 1 .. N, NEW v \in G[n - 1] PROVE MergeThen(s, v, n, now) \in G[n]
  <2>1. n - 1 \in Nat /\ (n - 1) + 1 = n /\ n - 1 \in 0 .. N /\ n \in 0 .. N /\ n - 1 < N BY <1>1
  <2>2. v \in Agreeing(I, s, c, n - 1) /\ G[n] = Agreeing(I, s, c, n) BY <2>1
  <2> HIDE DEF G
  <2>3. v.ok BY <2>2 DEF Agreeing, Completing
  <2>4. MergeThen(s, v, n, now) = MergeStep(s, v.db, Walk(s, RootGroup)[(n - 1) + 1][2], now) BY <2>1, <2>3 DEF MergeThen
  <2>5. MergeStep(s, v.db, Walk(s, RootGroup)[(n - 1) + 1][2], now) \in Agreeing(I, s, c, (n - 1) + 1)
    BY <2>1, <2>2, MergeStepAgrees
  <2> QED BY <2>1, <2>2, <2>4, <2>5
<1>4. N \in 0 .. N BY <1>1
<1> HIDE DEF G
<1>5. MergeGroups(s, c, now) \in G[N] BY <1>2, <1>3, MergeGroupsThrough
<1> QED BY <1>4, <1>5 DEF G

\* What a merge leaves is placed when what it takes is.
LEMMA MergePlaced ==
    ASSUME NEW I \in SUBSET Uuid, NEW s \in Content(I), NEW c \in Content(I), NEW now \in Time, NEW by \in Devices,
           Sound(s), KindsDiffer(s, c), Placed(c), Follows(s, c), c.bin = s.bin, s.bin \in DOMAIN c.groups
    PROVE  Placed(Merge(s, c, now, by).db)
<1> DEFINE b == WithSourceBin(s, MergeGroup(s, c, RootGroup), now, by)
           v == MergeGroups(s, b, now)
           w == v.db
           d == MergeDeletedObjects(s, w, now)
           r == Merge(s, c, now, by)
<1>0. RootGroup \in DOMAIN s.groups BY DEF Sound
<1>1. b \in Content(I) /\ SamePlaces(c, b) /\ b.entries = c.entries BY <1>0, MergeStart
<1>2. r = AndThen(v, LAMBDA x : Ok(MaintainAllHistories(MergeDeletedObjects(s, x, now)))) BY DEF Merge
<1> HIDE DEF b
<1>3. KindsDiffer(s, b) /\ Follows(s, b) /\ s.bin \in DOMAIN b.groups
  BY <1>1 DEF SamePlaces, KindsDiffer, Follows
<1>4. Placed(b) BY <1>1, SamePlacesPlaced
<1>5. v \in Agreeing(I, s, b, Len(Walk(s, RootGroup))) BY <1>1, <1>3, <1>4, MergeGroupsAgree
<1> HIDE DEF v
<1>6. v.ok /\ Placed(w) /\ w \in Content(I) BY <1>5 DEF Agreeing, Completing, Merging, Result
<1>7. r = Ok(MaintainAllHistories(d)) BY <1>2, <1>6 DEF AndThen
<1> HIDE DEF w, r
<1>8. Placed(d) BY <1>0, <1>6, MergeDeletedPlaced
<1>9. d \in Content(I) BY <1>6, MergeDeletedTyped
<1> HIDE DEF d
<1>10. SamePlaces(d, MaintainAllHistories(d)) BY <1>9, MaintainTyped
<1>11. Placed(MaintainAllHistories(d)) BY <1>8, <1>10, SamePlacesPlaced
<1>12. Placed(r.db) BY <1>7, <1>11 DEF Ok
<1> QED BY <1>12 DEF r

\* All copies are placed.
AllPlaced == \A d \in Devices : Placed(db[d])

\* In no copy is an entry newer than in another one and in another group, but
\* moved earlier.
EditsFollowMoves == \A a, b \in Devices : Follows(db[a], db[b])

\* A copy in which everything is met on the way down from the root group is a
\* tree.
LEMMA PlacedReached ==
    ASSUME Contents, AllPlaced, NothingUnreachable, NEW d \in Devices
    PROVE  Tree(db[d])
<1> DEFINE c == db[d]
<1>1. Known(unused) \in SUBSET Uuid /\ c \in Content(Known(unused)) BY UuidsAssumption DEF Contents, Known, Uuid
<1>2. Placed(c) /\ DOMAIN c.groups \subseteq Entered(c, RootGroup) BY DEF AllPlaced, NothingUnreachable
<1> HIDE DEF c
<1>3. ListedByParent(c) /\ RootGroup \in DOMAIN c.groups BY <1>2 DEF Placed
<1>4. Up(c) BY <1>1, <1>2, <1>3, ReachedUp
<1>5. Tree(c) BY <1>2, <1>4 DEF Tree
<1> QED BY <1>5 DEF c

\* What is not a merge is then a call that keeps the tree.
LEMMA PlacedCall ==
    ASSUME Contents, OneBin, AllPlaced, NothingUnreachable, NEW d \in Devices, NEW at \in Time, Step(d, at),
           ~\E from \in Devices : MergeFrom(from, d, at)
    PROVE  SteadyCall(d, at)
<1>1. Tree(db[d]) BY PlacedReached
<1>2. BinThere(db[d])
  <2>1. db[d].bin = BinGroup /\ BinGroup \in DOMAIN db[d].groups BY DEF OneBin
  <2> QED BY <2>1 DEF BinThere, BinGroup, RootGroup
<1> QED BY <1>1, <1>2, AddSteady, EditSteady, CopySteady, RelocateSteady, DiscardedSteady, DeleteSteady DEF Step

\* A step leaves all copies placed.
LEMMA PlacedStays ==
    ASSUME Contents, KindsApart, OneBin, AllPlaced, NothingUnreachable, EditsFollowMoves, Next
    PROVE  AllPlaced'
<1>1. PICK k \in Seconds, d \in Devices : clock + k \in Time /\ Step(d, clock + k) BY DEF Next
<1> DEFINE at == clock + k
<1>2. at \in Time /\ Step(d, at) BY <1>1
<1> HIDE DEF at
<1>3. DOMAIN db = Devices BY DEF Contents
<1>4. ASSUME NEW b, db' = [db EXCEPT ![d] = b], Placed(b) PROVE AllPlaced'
  <2>1. db'[d] = b /\ \A x \in Devices \ {d} : db'[x] = db[x] BY <1>3, <1>4
  <2> QED BY <1>4, <2>1 DEF AllPlaced
<1>5. CASE \E from \in Devices : MergeFrom(from, d, at)
  <2>1. PICK from \in Devices : MergeFrom(from, d, at) BY <1>5
  <2> DEFINE s == db[from] c == db[d] r == Merge(s, c, at, d)
  <2>2. db' = [db EXCEPT ![d] = r.db] BY <2>1 DEF MergeFrom
  <2>3. /\ Known(unused) \in SUBSET Uuid /\ s \in Content(Known(unused)) /\ c \in Content(Known(unused))
        /\ RootGroup \in DOMAIN s.groups /\ RootGroup \in DOMAIN c.groups /\ RootGroup \notin Named(s)
        /\ (DOMAIN c.groups \cup DOMAIN s.groups \cup {s.bin}) \cap (DOMAIN c.entries \cup DOMAIN s.entries) = {}
    BY TwoCopies
  <2>4. KindsDiffer(s, c) BY <2>3 DEF KindsDiffer
  <2>5. Tree(s) /\ Placed(c) /\ Follows(s, c) BY PlacedReached DEF AllPlaced, EditsFollowMoves
  <2>6. c.bin = s.bin /\ s.bin \in DOMAIN c.groups BY DEF OneBin
  <2> HIDE DEF s, c
  <2>7. Sound(s) BY <2>3, <2>5 DEF Tree, Placed, Sound
  <2>8. Placed(r.db) BY <1>2, <2>3, <2>4, <2>5, <2>6, <2>7, MergePlaced
  <2> HIDE DEF r
  <2> QED BY <1>4, <2>2, <2>8
<1>6. CASE ~\E from \in Devices : MergeFrom(from, d, at)
  <2>1. SteadyCall(d, at) BY <1>2, <1>6, PlacedCall
  <2>2. PICK op, n, r : Call(d, op, at, r, n) /\ Steady(db[d], r) BY <2>1 DEF SteadyCall
  <2>3. db' = [db EXCEPT ![d] = r.db] BY <2>2 DEF Call
  <2>4. Placed(r.db) BY <2>2 DEF Steady, Tree
  <2> QED BY <1>4, <2>3, <2>4
<1> QED BY <1>5, <1>6

\* All copies are placed all the time, whatever is merged.
LEMMA PlacedSound ==
    ASSUME InitialBin # Nil
    PROVE  Spec /\ []EditsFollowMoves /\ []NothingUnreachable => []AllPlaced
<1>1. Init => AllPlaced
  <2> SUFFICES ASSUME Init, NEW d \in Devices PROVE Placed(db[d]) BY DEF AllPlaced
  <2>1. db[d] = Original BY DEF Init
  <2> QED BY <2>1, OriginalTree DEF Tree
<1>2. Contents /\ KindsApart /\ OneBin /\ AllPlaced /\ NothingUnreachable /\ EditsFollowMoves /\ [Next]_vars
        => AllPlaced'
  <2> SUFFICES ASSUME Contents, KindsApart, OneBin, AllPlaced, NothingUnreachable, EditsFollowMoves, [Next]_vars
               PROVE  AllPlaced'
    OBVIOUS
  <2>1. CASE Next BY <2>1, PlacedStays
  <2>2. CASE UNCHANGED vars BY <2>2 DEF vars, AllPlaced
  <2> QED BY <2>1, <2>2
<1> QED BY <1>1, <1>2, CopiesSound, OneBinSound, PTL DEF Spec

\* Merges and calls of all devices leave each child in the list of its parent,
\* once, and in no other, when two things are ruled out that the code does not
\* keep from happening: an entry that is moved on one device and edited on
\* another, where it is in its old group; and two moves, one on each device,
\* that put two groups below each other.
THEOREM PlacesSurviveMerges ==
    ASSUME InitialBin # Nil
    PROVE  Spec /\ []EditsFollowMoves /\ []NothingUnreachable => []PlacesAgree
<1>1. AllPlaced => PlacesAgree BY DEF AllPlaced, Placed, PlacesAgree
<1> QED BY <1>1, PlacedSound, PTL

\* Nor does a call that fails then remove an entry or note a deletion, whatever
\* has been merged before.
THEOREM CallsStayWhole ==
    ASSUME InitialBin # Nil
    PROVE  Spec /\ []EditsFollowMoves /\ []NothingUnreachable => CallsWholeOrNothing
<1>1. Contents /\ OneBin /\ AllPlaced /\ NothingUnreachable /\ [Next]_vars => [WholeOrNothing]_vars
  <2> SUFFICES ASSUME Contents, OneBin, AllPlaced, NothingUnreachable, Next, last'.op # "merge", ~last'.ok
               PROVE  \A d \in Devices : db'[d].entries = db[d].entries /\ db'[d].deleted = db[d].deleted
    BY DEF WholeOrNothing
  <2>1. PICK k \in Seconds, x \in Devices : clock + k \in Time /\ Step(x, clock + k) BY DEF Next
  <2> DEFINE at == clock + k
  <2>2. at \in Time /\ Step(x, at) BY <2>1
  <2> HIDE DEF at
  <2>3. ~\E from \in Devices : MergeFrom(from, x, at) BY DEF MergeFrom
  <2>4. SteadyCall(x, at) BY <2>2, <2>3, PlacedCall
  <2>5. PICK op, n, r : Call(x, op, at, r, n) /\ Steady(db[x], r) BY <2>4 DEF SteadyCall
  <2>6. db' = [db EXCEPT ![x] = r.db] /\ last'.ok = r.ok BY <2>5 DEF Call
  <2>7. r.db.entries = db[x].entries /\ r.db.deleted = db[x].deleted BY <2>5, <2>6 DEF Steady
  <2>8. db'[x] = r.db /\ \A d \in Devices \ {x} : db'[d] = db[d] BY <2>6 DEF Contents
  <2> QED BY <2>7, <2>8
<1> QED BY <1>1, PlacedSound, CopiesSound, OneBinSound, PTL DEF Spec, CallsWholeOrNothing
=============================================================================
