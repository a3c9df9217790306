-------------------------------- MODULE Root --------------------------------
(***************************************************************************)
(* The content of one open database, struct Root of db_content/root.rs: a  *)
(* map of groups and a map of entries. A group keeps the uuids of its      *)
(* children in two lists and every child keeps the uuid of its parent, so  *)
(* each place in the tree is written down twice. Every operation below     *)
(* takes the content and returns [ok, db]: the result of the Rust method   *)
(* and the content it leaves behind, which a method that fails half way    *)
(* has already changed.                                                    *)
(*                                                                         *)
(* Uuids are numbers handed out in order (Uuid::new_v4 never repeats one), *)
(* Nil is Uuid::default(). The text of a group or an entry is reduced to   *)
(* the time and the device of its last edit; names are in the order of the *)
(* uuids. deleted_objects is a map from uuid to its last deletion time:    *)
(* the reader of that list, Merger, keeps the last item of each uuid.      *)
(*                                                                         *)
(* X_Variant stands before X and is X with one plausible slip: no          *)
(* specification uses it.                                                  *)
(***************************************************************************)
EXTENDS Integers, SequencesExt

CONSTANTS MaxUuid,         \* uuids 3..MaxUuid are there to be handed out
          MaxTime,         \* last second of the clock
          Devices,         \* who edits a copy of the database
          HistoryMaxItems  \* Meta's HistoryMaxItems; negative: no limit

\* The uuids of the root group and of the bin are among them.
ASSUME UuidsAssumption == MaxUuid \in Nat /\ 2 <= MaxUuid /\ MaxTime \in Nat
ASSUME HistoryAssumption == HistoryMaxItems \in Int

Nil == 0
RootGroup == 1   \* the group every copy of the database has
BinGroup == 2    \* the recycle bin of a database that came with one

Uuid == 1..MaxUuid
Time == 0..MaxTime

\* One version of an entry.
Version == [mod : Time, by : Devices]

Group == [parent : {Nil} \cup Uuid, subs : Seq(Uuid), entries : Seq(Uuid),
          mod : Time, by : Devices, moved : Time]

Entry == [parent : Uuid, mod : Time, by : Devices, moved : Time,
          history : Seq(Version)]

-----------------------------------------------------------------------------
(* Sequences and maps.                                                     *)

\* The members of the finite set S, one Before the other.
InOrder(S, Before(_, _)) ==
    [n \in 1..Cardinality(S) |-> CHOOSE i \in S : Cardinality({j \in S : Before(j, i)}) = n - 1]

\* The items of seq at these places, in this order of the places.
Picked(seq, places, Before(_, _)) ==
    LET order == InOrder(places, Before) IN [n \in DOMAIN order |-> seq[order[n]]]

\* Vec::retain of all but id
Retained(ids, id) == Picked(ids, {i \in DOMAIN ids : ids[i] # id}, <)

\* HashMap::insert and HashMap::remove
Put(map, id, value) == [x \in DOMAIN map \cup {id} |-> IF x = id THEN value ELSE map[x]]
Drop(map, id) == [x \in DOMAIN map \ {id} |-> map[x]]

-----------------------------------------------------------------------------
Ok(db) == [ok |-> TRUE, db |-> db]
Err(db) == [ok |-> FALSE, db |-> db]

\* Rust's ? operator: the next step runs only if no step failed.
AndThen(r, Step(_)) == IF r.ok THEN Step(r.db) ELSE r

ForEach(r, ids, Step(_, _)) ==
    LET after[n \in 0..Len(ids)] ==
          IF n = 0 THEN r
          ELSE IF after[n - 1].ok THEN Step(after[n - 1].db, ids[n]) ELSE after[n - 1]
    IN  after[Len(ids)]

HasGroup(db, g) == g \in DOMAIN db.groups
HasEntry(db, e) == e \in DOMAIN db.entries

PutGroup(db, g, group) == [db EXCEPT !.groups = Put(@, g, group)]
PutEntry(db, e, entry) == [db EXCEPT !.entries = Put(@, e, entry)]

DropGroup(db, g) == [db EXCEPT !.groups = Drop(@, g)]
DropEntry(db, e) == [db EXCEPT !.entries = Drop(@, e)]

\* add_deleted_object_by_id
Bury(db, id, now) == [db EXCEPT !.deleted = Put(@, id, now)]

\* The pushes and retains on the lists of a parent: nothing happens when
\* all_groups has no such parent.
ListGroup(db, p, g) ==
    IF HasGroup(db, p) THEN [db EXCEPT !.groups[p].subs = Append(@, g)] ELSE db

UnlistGroup(db, p, g) ==
    IF HasGroup(db, p) THEN [db EXCEPT !.groups[p].subs = Retained(@, g)] ELSE db

ListEntry(db, p, e) ==
    IF HasGroup(db, p) THEN [db EXCEPT !.groups[p].entries = Append(@, e)] ELSE db

UnlistEntry(db, p, e) ==
    IF HasGroup(db, p) THEN [db EXCEPT !.groups[p].entries = Retained(@, e)] ELSE db

-----------------------------------------------------------------------------
(* Walking down the lists of children: group_visitor_action.               *)

\* What a walk from h meets, in order, each with the group that lists it: the
\* entries of h, then each of its subgroups followed by what is below it.
Visit(db, h, below) ==
    LET in(ids) == [i \in DOMAIN ids |-> <<h, ids[i]>>]
    IN  in(db.groups[h].entries)
          \o FlattenSeq([i \in DOMAIN db.groups[h].subs |->
               <<<<h, db.groups[h].subs[i]>>>> \o below[db.groups[h].subs[i]]])

Walk(db, g) ==
    LET walk[n \in 0..MaxUuid] == [h \in Uuid |->
          IF n = 0 \/ ~HasGroup(db, h) THEN <<>> ELSE Visit(db, h, walk[n - 1])]
    IN  IF g = Nil THEN <<>> ELSE walk[MaxUuid][g]

\* The groups a walk from g enters.
Entered(db, g) ==
    LET subs == [h \in DOMAIN db.groups |-> ToSet(db.groups[h].subs) \cap DOMAIN db.groups]
        reach[S \in SUBSET DOMAIN db.groups] ==
          LET next == S \cup UNION {subs[h] : h \in S}
          IN  IF next = S THEN S ELSE reach[next]
    IN  reach[{g} \cap DOMAIN db.groups]

\* A walk from g never returns when it comes to groups each of which has one of
\* them as a subgroup.
Endless(db, g) ==
    \E S \in SUBSET Entered(db, g) :
        S # {} /\ \A h \in S : ToSet(db.groups[h].subs) \cap S # {}

\* children_groups_uuids and children_entry_uuids: the lists of all groups on
\* the walk, whatever the maps say about the uuids in them.
GroupsBelow(db, g) == UNION {ToSet(db.groups[h].subs) : h \in Entered(db, g)}
EntriesBelow(db, g) == UNION {ToSet(db.groups[h].entries) : h \in Entered(db, g)}

\* A loop over the uuids of a walk that are in ids.
ForEachMet(r, walk, ids, Step(_, _)) ==
    ForEach(r, walk, LAMBDA db, item : IF item[2] \in ids THEN Step(db, item[2]) ELSE Ok(db))

ForEachEntry(r, db, g, Step(_, _)) == ForEachMet(r, Walk(db, g), EntriesBelow(db, g), Step)
ForEachGroup(r, db, g, Step(_, _)) == ForEachMet(r, Walk(db, g), GroupsBelow(db, g), Step)

-----------------------------------------------------------------------------
(* The operations a client calls.                                          *)

NewGroup(p, now, by) ==
    [parent |-> p, subs |-> <<>>, entries |-> <<>>, mod |-> now, by |-> by, moved |-> now]

NewEntry(p, now, by) ==
    [parent |-> p, mod |-> now, by |-> by, moved |-> now, history |-> <<>>]

InsertGroup(db, g, group) ==
    IF group.parent = Nil \/ ~HasGroup(db, group.parent) \/ HasGroup(db, g)
    THEN Err(db)
    ELSE Ok(PutGroup(ListGroup(db, group.parent, g), g, group))

InsertEntry(db, e, entry) ==
    IF HasEntry(db, e) \/ ~HasGroup(db, entry.parent)
    THEN Err(db)
    ELSE Ok(PutEntry(ListEntry(db, entry.parent, e), e, entry))

\* From the group form: the parent and the lists stay.
UpdateGroup(db, g, now, by) ==
    IF HasGroup(db, g) THEN [db EXCEPT !.groups[g].mod = now, !.groups[g].by = by] ELSE db

\* trim_histories by count: the oldest version goes first, of equally old
\* ones the first in the list.
Trim(history) ==
    LET Newer(i) == {j \in DOMAIN history : \/ history[i].mod < history[j].mod
                                            \/ (history[i].mod = history[j].mod /\ i < j)}
        Kept(i) == Cardinality(Newer(i)) < HistoryMaxItems
        kept == {i \in DOMAIN history : HistoryMaxItems < 0 \/ Kept(i)}
    IN  Picked(history, kept, <)

\* The version that is kept has the older ones inside it.
CreateHistories_Nested(entry) == Trim(Append(entry.history, entry))

\* create_histories: the entry as it is becomes its last version.
CreateHistories(entry) ==
    Trim(Append(entry.history, [mod |-> entry.mod, by |-> entry.by]))

\* update_entry, with the parent the form was opened with.
UpdateEntry(db, e, p, now, by) ==
    IF ~HasEntry(db, e) THEN Err(db)
    ELSE Ok([db EXCEPT !.entries[e] =
             [@ EXCEPT !.mod = now, !.by = by, !.parent = p,
                       !.history = CreateHistories(db.entries[e])]])

\* delete_history_entry_by_index and delete_history_entries: no time changes.
DeleteHistoryEntry(db, e, i) ==
    [db EXCEPT !.entries[e].history = Picked(@, DOMAIN @ \ {i}, <)]
DeleteHistoryEntries(db, e) == [db EXCEPT !.entries[e].history = <<>>]

\* The old parent keeps the moved group in its list.
MoveGroup_StaysListed(db, g, p, now) ==
    IF ~HasGroup(db, g) \/ ~HasGroup(db, p) \/ g = p \/ db.groups[g].parent = p
    THEN Err(db)
    ELSE Ok(ListGroup([db EXCEPT !.groups[g].parent = p, !.groups[g].moved = now], p, g))

MoveGroup(db, g, p, now) ==
    IF ~HasGroup(db, g) \/ ~HasGroup(db, p) \/ g = p \/ db.groups[g].parent = p
    THEN Err(db)
    ELSE LET moved == [db EXCEPT !.groups[g].parent = p, !.groups[g].moved = now]
         IN  Ok(UnlistGroup(ListGroup(moved, p, g), db.groups[g].parent, g))

MoveEntry(db, e, p, now) ==
    IF \/ ~HasEntry(db, e)
       \/ ~HasGroup(db, p)
       \/ ~HasGroup(db, db.entries[e].parent)
       \/ db.entries[e].parent = p
    THEN Err(db)
    ELSE LET moved == [db EXCEPT !.entries[e].parent = p, !.entries[e].moved = now]
         IN  Ok(UnlistEntry(ListEntry(moved, p, e), db.entries[e].parent, e))

\* recycle_bin_group: the bin is made, with the uuid that is given, when the
\* database has none.
WithBin(db, fresh, now, by) ==
    IF db.bin # Nil THEN db
    ELSE InsertGroup([db EXCEPT !.bin = fresh], fresh, NewGroup(RootGroup, now, by)).db

MoveGroupToRecycleBin(db, g, fresh, now, by) ==
    LET binned == WithBin(db, fresh, now, by)
    IN  IF HasGroup(binned, binned.bin)
        THEN MoveGroup(binned, g, binned.bin, now) ELSE Err(binned)

MoveEntryToRecycleBin(db, e, fresh, now, by) ==
    LET binned == WithBin(db, fresh, now, by)
    IN  IF HasGroup(binned, binned.bin)
        THEN MoveEntry(binned, e, binned.bin, now) ELSE Err(binned)

\* The entry is not asked to be in the recycle bin.
RemoveEntry_FromAnywhere(db, e, now) ==
    IF ~HasEntry(db, e) THEN Err(db)
    ELSE Ok(Bury(UnlistEntry(DropEntry(db, e), db.entries[e].parent, e), e, now))

\* remove_entry_permanently
RemoveEntry(db, e, now) ==
    IF ~HasEntry(db, e) \/ e \notin EntriesBelow(db, db.bin)
    THEN Err(db)
    ELSE Ok(Bury(UnlistEntry(DropEntry(db, e), db.entries[e].parent, e), e, now))

\* remove(..).ok_or(..)? on one of the two maps
TakeGroup(db, g) == IF HasGroup(db, g) THEN Ok(DropGroup(db, g)) ELSE Err(db)
TakeEntry(db, e) == IF HasEntry(db, e) THEN Ok(DropEntry(db, e)) ELSE Err(db)

\* The subgroups stay in the map.
RemoveGroup_SubgroupsStay(db, g, now) ==
    IF ~HasGroup(db, g) \/ g \notin GroupsBelow(db, db.bin)
    THEN Err(db)
    ELSE LET entries == ForEachEntry(Ok(db), db, g,
                            LAMBDA d, e : RemoveEntry(d, e, now))
             group == AndThen(entries, LAMBDA d : TakeGroup(d, g))
         IN  AndThen(group, LAMBDA d :
                 Ok(Bury(UnlistGroup(d, db.groups[g].parent, g), g, now)))

\* remove_group_permanently: the entries below g, then the groups below g,
\* which get no deleted object, then g.
RemoveGroup(db, g, now) ==
    IF ~HasGroup(db, g) \/ g \notin GroupsBelow(db, db.bin)
    THEN Err(db)
    ELSE LET entries == ForEachEntry(Ok(db), db, g,
                            LAMBDA d, e : RemoveEntry(d, e, now))
             subgroups == AndThen(entries, LAMBDA d :
                              ForEachGroup(Ok(d), d, g, TakeGroup))
             group == AndThen(subgroups, LAMBDA d : TakeGroup(d, g))
         IN  AndThen(group, LAMBDA d :
                 Ok(Bury(UnlistGroup(d, db.groups[g].parent, g), g, now)))

\* The bin keeps the lists of what it held.
EmptyTrash_ListsStay(db, now) ==
    IF ~HasGroup(db, db.bin) THEN Err(db)
    ELSE LET entries == ForEachEntry(Ok(db), db, db.bin, LAMBDA d, e :
                            AndThen(TakeEntry(d, e), LAMBDA c : Ok(Bury(c, e, now))))
         IN  AndThen(entries, LAMBDA d :
                 ForEachGroup(Ok(d), d, d.bin, LAMBDA c, h :
                     AndThen(TakeGroup(c, h), LAMBDA x : Ok(Bury(x, h, now)))))

EmptyTrash(db, now) ==
    IF ~HasGroup(db, db.bin) THEN Err(db)
    ELSE LET entries == ForEachEntry(Ok(db), db, db.bin, LAMBDA d, e :
                            AndThen(TakeEntry(d, e), LAMBDA c : Ok(Bury(c, e, now))))
             groups == AndThen(entries, LAMBDA d :
                           ForEachGroup(Ok(d), d, d.bin, LAMBDA c, h :
                               AndThen(TakeGroup(c, h), LAMBDA x : Ok(Bury(x, h, now)))))
         IN  AndThen(groups, LAMBDA d :
                 IF HasGroup(d, d.bin)
                 THEN Ok([d EXCEPT !.groups[d.bin].subs = <<>>, !.groups[d.bin].entries = <<>>])
                 ELSE Err(d))

\* The location time is the source's; a clone has its own uuid and times.
CloneEntry(db, e, p, fresh, keep, now, by) ==
    IF ~HasGroup(db, p) \/ ~HasEntry(db, e) THEN Err(db)
    ELSE LET clone == [db.entries[e] EXCEPT !.parent = p, !.mod = now, !.by = by,
                                            !.history = IF keep THEN @ ELSE <<>>]
         IN  Ok(PutEntry(ListEntry(db, p, fresh), fresh, clone))

\* What clone_group copies: g, then all that a walk from it meets.
Cloned(db, g) == <<<<db.groups[g].parent, g>>>> \o Walk(db, g)

\* The uuids handed out for a clone of g, in the order of the walk.
FreshFor(db, g) == IF HasGroup(db, g) THEN Len(Cloned(db, g)) ELSE 0

\* clone_group_recursive
CloneGroup(db, g, fresh, now, by) ==
    IF ~HasGroup(db, g) \/ db.groups[g].parent = Nil THEN Err(db)
    ELSE LET items == Cloned(db, g)
             CloneOf(h) == IF h = db.groups[g].parent THEN h
                           ELSE fresh - 1 + CHOOSE i \in DOMAIN items : items[i][2] = h
             Copy(d, i) ==
                 LET p == CloneOf(items[i][1]) id == items[i][2]
                 IN  CASE HasEntry(db, id) -> CloneEntry(d, id, p, fresh + i - 1, FALSE, now, by)
                       [] ~HasEntry(db, id) /\ HasGroup(db, id) ->
                            Ok(PutGroup(ListGroup(d, p, fresh + i - 1), fresh + i - 1,
                                 [db.groups[id] EXCEPT !.parent = p, !.mod = now, !.by = by,
                                                       !.subs = <<>>, !.entries = <<>>]))
                       [] OTHER -> Err(d)
         IN  ForEach(Ok(db), [i \in DOMAIN items |-> i], Copy)

\* The groups sort_sub_groups sorts: it does not go into the recycle bin. A list
\* that names a group the map does not have, which the calls of one device
\* never make, would stop it half way.
Sorted(db, g) ==
    Entered(IF HasGroup(db, db.bin) THEN [db EXCEPT !.groups[db.bin].subs = <<>>] ELSE db, g)
        \ {db.bin}

\* GroupSortCriteria: "AtoZ" or "ZtoA"; the sort is stable.
InName(subs, criteria) ==
    LET Before(a, b) == IF criteria = "AtoZ" THEN a < b ELSE b < a
    IN  Picked(subs, DOMAIN subs, LAMBDA i, j :
            Before(subs[i], subs[j]) \/ (subs[i] = subs[j] /\ i < j))

SortSubGroups(db, g, criteria) ==
    IF ~HasGroup(db, g) \/ \E h \in Sorted(db, g) : ~(ToSet(db.groups[h].subs) \subseteq DOMAIN db.groups)
    THEN Err(db)
    ELSE Ok([db EXCEPT !.groups = [h \in DOMAIN db.groups |->
             IF h \in Sorted(db, g)
             THEN [db.groups[h] EXCEPT !.subs = InName(db.groups[h].subs, criteria)]
             ELSE db.groups[h]]])

\* A child is in the list of its parent, once, and in no other list, and the
\* lists name nothing else.
ListedByParent(c) ==
    /\ \A h \in DOMAIN c.groups :
          /\ IsInjective(c.groups[h].subs)
          /\ ToSet(c.groups[h].subs) = {g \in DOMAIN c.groups : c.groups[g].parent = h}
          /\ IsInjective(c.groups[h].entries)
          /\ ToSet(c.groups[h].entries) = {e \in DOMAIN c.entries : c.entries[e].parent = h}
    /\ \A g \in DOMAIN c.groups : g = RootGroup \/ c.groups[g].parent \in DOMAIN c.groups
    /\ \A e \in DOMAIN c.entries : c.entries[e].parent \in DOMAIN c.groups
=============================================================================
