------------------------------- MODULE Merger -------------------------------
(***************************************************************************)
(* Merging one copy of a database into another: db_merge/merger.rs. The    *)
(* source is read only, the target is changed step by step, and a step     *)
(* that fails leaves behind what the earlier ones did. The two databases   *)
(* have the same root group: they are copies of one database. What Meta    *)
(* holds (icons, custom data, settings) and the report are left out.       *)
(***************************************************************************)
EXTENDS Root

\* is the source newer
IsNewer(t, u) == t > u

\* update_group with the times and the properties of a newer source group;
\* the parent and the lists stay, the time of the last move does not.
TakeGroupFields(target, g, group) ==
    [target EXCEPT !.groups[g] =
        [@ EXCEPT !.mod = group.mod, !.by = group.by, !.moved = group.moved]]

MergeGroup(source, target, g) ==
    IF IsNewer(source.groups[g].mod, target.groups[g].mod)
    THEN TakeGroupFields(target, g, source.groups[g])
    ELSE target

\* set_recycle_bin_group_on_merge
WithSourceBin(source, target, now, by) ==
    IF source.bin = Nil \/ target.bin # Nil THEN target
    ELSE InsertGroup([target EXCEPT !.bin = source.bin], source.bin,
                     NewGroup(RootGroup, now, by)).db

-----------------------------------------------------------------------------
\* merge_histories: the versions of both entries and the older entry itself,
\* sorted by time; of equally old ones the first stays.
MergedHistory(to, from) ==
    LET all == to.history \o CreateHistories(from)
        first == {i \in DOMAIN all : \A j \in 1..(i - 1) : all[j].mod # all[i].mod}
    IN  Picked(all, first, LAMBDA i, j : all[i].mod < all[j].mod)

\* The newer entry replaces the older one and the older one is forgotten.
MergeEntry_NoHistory(source, target, e) ==
    LET s == source.entries[e] t == target.entries[e]
    IN  IF IsNewer(s.mod, t.mod) THEN [target EXCEPT !.entries[e] = s] ELSE target

\* Entries with the same last version are merged as well.
MergeEntry_SameIsOlder(source, target, e) ==
    LET s == source.entries[e]
        t == target.entries[e]
        found == \E i \in DOMAIN t.history : t.history[i].mod = s.mod
    IN  CASE IsNewer(s.mod, t.mod) ->
               [target EXCEPT !.entries[e] = [s EXCEPT !.history = MergedHistory(s, t)]]
          [] OTHER ->
               IF found THEN target
               ELSE [target EXCEPT !.entries[e].history = MergedHistory(t, s)]

\* merge_entry: the newer of the two stays and the older one becomes part of
\* its history. A newer source entry replaces the target's with all its
\* fields, its parent among them.
MergeEntry(source, target, e) ==
    LET s == source.entries[e]
        t == target.entries[e]
        found == \E i \in DOMAIN t.history : t.history[i].mod = s.mod
    IN  CASE s.mod = t.mod -> target
          [] IsNewer(s.mod, t.mod) ->
               [target EXCEPT !.entries[e] = [s EXCEPT !.history = MergedHistory(s, t)]]
          [] OTHER ->
               IF found THEN target
               ELSE [target EXCEPT !.entries[e].history = MergedHistory(t, s)]

-----------------------------------------------------------------------------
\* A group the target has deleted is not made again.
MergeChildGroup_StaysDeleted(source, target, g, now) ==
    LET s == source.groups[g] t == target.groups[g]
    IN  CASE ~HasGroup(source, g) -> Err(target)
          [] HasGroup(source, g) /\ ~HasGroup(target, g) ->
               IF g = source.bin \/ g \in DOMAIN target.deleted THEN Ok(target)
               ELSE InsertGroup(target, g, [s EXCEPT !.subs = <<>>, !.entries = <<>>])
          [] OTHER ->
               AndThen(IF IsNewer(s.moved, t.moved) /\ s.parent # t.parent
                       THEN MoveGroup(target, g, s.parent, now) ELSE Ok(target),
                       LAMBDA d : Ok(MergeGroup(source, d, g)))

\* merge_groups for one subgroup. A bin of the source that is not the
\* target's is not created there.
MergeChildGroup(source, target, g, now) ==
    LET s == source.groups[g] t == target.groups[g]
    IN  CASE ~HasGroup(source, g) -> Err(target)
          [] HasGroup(source, g) /\ ~HasGroup(target, g) ->
               IF g = source.bin THEN Ok(target)
               ELSE InsertGroup(target, g, [s EXCEPT !.subs = <<>>, !.entries = <<>>])
          [] OTHER ->
               AndThen(IF IsNewer(s.moved, t.moved) /\ s.parent # t.parent
                       THEN MoveGroup(target, g, s.parent, now) ELSE Ok(target),
                       LAMBDA d : Ok(MergeGroup(source, d, g)))

\* An entry the target has deleted is not brought back.
MergeChildEntry_StaysDeleted(source, target, e, now) ==
    LET s == source.entries[e] t == target.entries[e]
    IN  IF e \in DOMAIN target.deleted THEN Ok(target)
        ELSE IF ~HasEntry(target, e) THEN InsertEntry(target, e, s)
        ELSE AndThen(IF IsNewer(s.moved, t.moved) /\ s.parent # t.parent
                     THEN MoveEntry(target, e, s.parent, now) ELSE Ok(target),
                     LAMBDA d : Ok(MergeEntry(source, d, e)))

\* merge_entries for one entry
MergeChildEntry(source, target, e, now) ==
    LET s == source.entries[e] t == target.entries[e]
    IN  IF ~HasEntry(target, e) THEN InsertEntry(target, e, s)
        ELSE AndThen(IF IsNewer(s.moved, t.moved) /\ s.parent # t.parent
                     THEN MoveEntry(target, e, s.parent, now) ELSE Ok(target),
                     LAMBDA d : Ok(MergeEntry(source, d, e)))

\* merge_groups: the source is walked from its root in order. A listed entry
\* that all_entries does not have is passed over.
MergeGroups(source, target, now) ==
    LET groups == GroupsBelow(source, RootGroup)
        Step(d, id) == CASE id \in groups -> MergeChildGroup(source, d, id, now)
                         [] id \notin groups /\ HasEntry(source, id) -> MergeChildEntry(source, d, id, now)
                         [] OTHER -> Ok(d)
        walk == Walk(source, RootGroup)
    IN  ForEach(Ok(target), [i \in DOMAIN walk |-> walk[i][2]], Step)

-----------------------------------------------------------------------------
\* The deletions of both, each with its later time.
Deletions(source, target) ==
    [id \in DOMAIN source.deleted \cup DOMAIN target.deleted |->
        IF id \notin DOMAIN target.deleted THEN source.deleted[id]
        ELSE IF id \notin DOMAIN source.deleted \/ source.deleted[id] < target.deleted[id]
             THEN target.deleted[id] ELSE source.deleted[id]]

\* An entry edited after its deletion is deleted all the same.
DeletedEntries_AnyAge(source, target) ==
    {e \in DOMAIN target.entries :
        e \in DOMAIN Deletions(source, target) /\ ~HasEntry(source, e)}

\* The entries to remove: deleted after the last edit and not alive in the
\* source.
DeletedEntries(source, target) ==
    {e \in DOMAIN target.entries :
        /\ e \in DOMAIN Deletions(source, target)
        /\ target.entries[e].mod < Deletions(source, target)[e]
        /\ ~HasEntry(source, e)}

\* A group is removed with the entries it holds.
DeletedGroups_WithEntries(source, target) ==
    LET deletions == Deletions(source, target)
        due == {g \in DOMAIN target.groups :
                   /\ g \in DOMAIN deletions
                   /\ target.groups[g].mod <= deletions[g]
                   /\ ~HasGroup(source, g)}
        closed == {S \in SUBSET due :
                     \A g \in due : ToSet(target.groups[g].subs) \subseteq S => g \in S}
    IN  {g \in due : \A S \in closed : g \in S}

\* The groups to remove, subgroups before their parents: deleted, not edited
\* later, not alive in the source and empty by then.
DeletedGroups(source, target) ==
    LET deletions == Deletions(source, target)
        due == {g \in DOMAIN target.groups :
                   /\ g \in DOMAIN deletions
                   /\ target.groups[g].mod <= deletions[g]
                   /\ ~HasGroup(source, g)
                   /\ target.groups[g].entries = <<>>}
        closed == {S \in SUBSET due :
                     \A g \in due : ToSet(target.groups[g].subs) \subseteq S => g \in S}
    IN  {g \in due : \A S \in closed : g \in S}

\* Each is taken out of the list of its parent, if there is that parent.
WithoutEntries(target, gone) ==
    LET Listed(h, i) == LET e == target.groups[h].entries[i]
                        IN  e \notin gone \/ target.entries[e].parent # h
    IN  [target EXCEPT
           !.entries = [e \in DOMAIN target.entries \ gone |-> target.entries[e]],
           !.groups = [h \in DOMAIN target.groups |->
               LET ids == target.groups[h].entries
               IN  [target.groups[h] EXCEPT
                       !.entries = Picked(ids, {i \in DOMAIN ids : Listed(h, i)}, <)]]]

WithoutGroups(target, gone) ==
    LET Listed(h, i) == LET g == target.groups[h].subs[i]
                        IN  g \notin gone \/ target.groups[g].parent # h
    IN  [target EXCEPT
           !.groups = [h \in DOMAIN target.groups \ gone |->
               LET ids == target.groups[h].subs
               IN  [target.groups[h] EXCEPT
                       !.subs = Picked(ids, {i \in DOMAIN ids : Listed(h, i)}, <)]]]

\* What stays alive keeps its deleted object.
MergeDeletedObjects_KeepsAll(source, target, now) ==
    LET deletions == Deletions(source, target)
        entries == DeletedEntries(source, target)
        emptied == WithoutEntries(target, entries)
        groups == DeletedGroups(source, emptied)
    IN  [WithoutGroups(emptied, groups) EXCEPT
            !.deleted = [id \in DOMAIN deletions |->
                            IF id \in entries \cup groups THEN now ELSE deletions[id]]]

\* merge_deleted_objects: what is removed now gets the time of the merge,
\* what was not there keeps its time, what stays alive is no longer deleted.
MergeDeletedObjects(source, target, now) ==
    LET deletions == Deletions(source, target)
        entries == DeletedEntries(source, target)
        emptied == WithoutEntries(target, entries)
        groups == DeletedGroups(source, emptied)
        alive == DOMAIN target.groups \cup DOMAIN target.entries
        absent == DOMAIN deletions \ alive
    IN  [WithoutGroups(emptied, groups) EXCEPT
            !.deleted = [id \in absent \cup entries \cup groups |->
                            IF id \in absent THEN deletions[id] ELSE now]]

\* maintain_all_histories
MaintainAllHistories(db) ==
    [db EXCEPT !.entries = [e \in DOMAIN db.entries |->
        [db.entries[e] EXCEPT !.history = Trim(db.entries[e].history)]]]

Merge(source, target, now, by) ==
    LET root == WithSourceBin(source, MergeGroup(source, target, RootGroup), now, by)
    IN  AndThen(MergeGroups(source, root, now), LAMBDA d :
            Ok(MaintainAllHistories(MergeDeletedObjects(source, d, now))))
=============================================================================
