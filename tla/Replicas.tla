------------------------------ MODULE Replicas ------------------------------
(***************************************************************************)
(* Copies of one database, each edited on its own device and merged into   *)
(* one another. With a single device this is the life of the groups and    *)
(* entries of one open database: the operations of db_service.rs that call *)
(* Root. With two it is what merge_databases, merge_kdbx_with_disk_version *)
(* and merge_kdbx_with_reader do to the content.                           *)
(***************************************************************************)
EXTENDS Merger

CONSTANTS Calls,           \* what the user of a device asks for
          Seconds,         \* seconds that may pass before a call
          InitialBin,      \* Nil, or BinGroup in a database that came with a bin
          InitialGroups,   \* groups and entries all copies start with,
          InitialEntries   \*   in the root group

ASSUME StartAssumption == /\ InitialBin \in {Nil, BinGroup}
                          /\ InitialGroups \cup InitialEntries \subseteq 3..MaxUuid
                          /\ InitialGroups \cap InitialEntries = {}
                          /\ IsFiniteSet(Devices)
                          /\ Seconds \subseteq Nat

VARIABLES db,      \* the content of each copy
          unused,  \* the next uuid Uuid::new_v4 hands out
          clock,   \* util::now_utc, in seconds
          last     \* the call before: which, on which devices, and its result

vars == <<db, unused, clock, last>>

-----------------------------------------------------------------------------
\* A database with the groups and entries of the start in its root group.
Original ==
    LET subs == InOrder(InitialGroups \cup ({InitialBin} \ {Nil}), <)
        by == CHOOSE d \in Devices : TRUE
    IN  [groups  |-> Put([g \in ToSet(subs) |-> NewGroup(RootGroup, 0, by)], RootGroup,
                         [NewGroup(Nil, 0, by) EXCEPT
                             !.subs = subs, !.entries = InOrder(InitialEntries, <)]),
         entries |-> [e \in InitialEntries |-> NewEntry(RootGroup, 0, by)],
         bin     |-> InitialBin,
         deleted |-> [id \in {} |-> 0]]

Init ==
    /\ db = [d \in Devices |-> Original]
    /\ unused = 1 + Max(InitialGroups \cup InitialEntries \cup {RootGroup, BinGroup})
    /\ clock = 0
    /\ last = [op |-> "open", from |-> Nil, to |-> Nil, ok |-> TRUE]

\* A call on device d that leaves r behind and uses n new uuids. A call that
\* fails and changes nothing is left out.
Call(d, op, at, r, n) ==
    /\ op \in Calls[d]
    /\ unused + n <= MaxUuid + 1
    /\ r.ok \/ r.db # db[d]
    /\ db' = [db EXCEPT ![d] = r.db]
    /\ unused' = unused + n
    /\ clock' = at
    /\ last' = [op |-> op, from |-> d, to |-> d, ok |-> r.ok]

\* The moves a client offers: not of the root group or the recycle bin, and not
\* below the group that moves. Root itself only refuses the group as its own
\* parent.
MayHold(d, g, p) == g \notin {RootGroup, db[d].bin} /\ p \notin Entered(db[d], g)

\* A walk from g comes to an end; otherwise the process runs out of stack.
Ends(d, g) == ~Endless(db[d], g)

AddGroup(d, at) == \E p \in DOMAIN db[d].groups :
    Call(d, "insert_group", at, InsertGroup(db[d], unused, NewGroup(p, at, d)), 1)

AddEntry(d, at) == \E p \in DOMAIN db[d].groups :
    Call(d, "insert_entry", at, InsertEntry(db[d], unused, NewEntry(p, at, d)), 1)

EditGroup(d, at) == \E g \in DOMAIN db[d].groups :
    Call(d, "update_group", at, Ok(UpdateGroup(db[d], g, at, d)), 0)

EditEntry(d, at) == \E e \in DOMAIN db[d].entries :
    Call(d, "update_entry", at, UpdateEntry(db[d], e, db[d].entries[e].parent, at, d), 0)

ForgetVersions(d, at) == \E e \in DOMAIN db[d].entries :
    \/ \E i \in DOMAIN db[d].entries[e].history :
          Call(d, "delete_history_entry_by_index", at, Ok(DeleteHistoryEntry(db[d], e, i)), 0)
    \/ Call(d, "delete_history_entries", at, Ok(DeleteHistoryEntries(db[d], e)), 0)

CopyEntry(d, at) == \E e \in DOMAIN db[d].entries, p \in DOMAIN db[d].groups, keep \in BOOLEAN :
    Call(d, "clone_entry", at, CloneEntry(db[d], e, p, unused, keep, at, d), 1)

CopyGroup(d, at) == \E g \in DOMAIN db[d].groups :
    /\ Call(d, "clone_group", at, CloneGroup(db[d], g, unused, at, d), FreshFor(db[d], g))
    /\ Ends(d, g)

SortGroups(d, at) == \E g \in DOMAIN db[d].groups, criteria \in {"AtoZ", "ZtoA"} :
    /\ Call(d, "sort_sub_groups", at, SortSubGroups(db[d], g, criteria), 0)
    /\ Ends(d, g)

Relocate(d, at) ==
    \/ \E g, p \in DOMAIN db[d].groups :
          MayHold(d, g, p) /\ Call(d, "move_group", at, MoveGroup(db[d], g, p, at), 0)
    \/ \E e \in DOMAIN db[d].entries, p \in DOMAIN db[d].groups :
          Call(d, "move_entry", at, MoveEntry(db[d], e, p, at), 0)

\* The uuids a first use of the recycle bin takes.
ForBin(d) == IF db[d].bin = Nil THEN 1 ELSE 0

Discard(d, at) ==
    \/ \E g \in DOMAIN db[d].groups :
          /\ MayHold(d, g, IF db[d].bin = Nil THEN RootGroup ELSE db[d].bin)
          /\ Call(d, "move_group_to_recycle_bin", at,
                  MoveGroupToRecycleBin(db[d], g, unused, at, d), ForBin(d))
    \/ \E e \in DOMAIN db[d].entries :
          Call(d, "move_entry_to_recycle_bin", at,
               MoveEntryToRecycleBin(db[d], e, unused, at, d), ForBin(d))

Delete(d, at) ==
    /\ Ends(d, db[d].bin)
    /\ \/ \E g \in DOMAIN db[d].groups :
             Call(d, "remove_group_permanently", at, RemoveGroup(db[d], g, at), 0)
       \/ \E e \in DOMAIN db[d].entries :
             Call(d, "remove_entry_permanently", at, RemoveEntry(db[d], e, at), 0)
       \/ Call(d, "empty_trash", at, EmptyTrash(db[d], at), 0)

\* Device "to" merges the copy of device "from" into its own.
MergeFrom(from, to, at) ==
    LET r == Merge(db[from], db[to], at, to)
    IN  /\ from # to
        /\ "merge" \in Calls[to]
        /\ Ends(from, RootGroup)
        /\ db' = [db EXCEPT ![to] = r.db]
        /\ clock' = at
        /\ last' = [op |-> "merge", from |-> from, to |-> to, ok |-> r.ok]
        /\ UNCHANGED unused

Step(d, at) ==
    \/ AddGroup(d, at) \/ AddEntry(d, at) \/ EditGroup(d, at) \/ EditEntry(d, at)
    \/ ForgetVersions(d, at) \/ CopyEntry(d, at) \/ CopyGroup(d, at) \/ SortGroups(d, at)
    \/ Relocate(d, at) \/ Discard(d, at) \/ Delete(d, at)
    \/ \E from \in Devices : MergeFrom(from, d, at)

\* MaxTime bounds the clock.
Next == \E s \in Seconds, d \in Devices : clock + s \in Time /\ Step(d, clock + s)

Spec == Init /\ [][Next]_vars

-----------------------------------------------------------------------------
LastVersion(entry) == [mod |-> entry.mod, by |-> entry.by]

\* The uuids that are in use have been handed out, and what is kept of an
\* older version of an entry is that version alone.
TypeOK ==
    /\ \A d \in Devices :
          LET c == db[d]
          IN  /\ DOMAIN c.groups \cup DOMAIN c.entries \cup DOMAIN c.deleted \subseteq 1..(unused - 1)
              /\ c.bin \in {Nil} \cup Uuid
              /\ \A g \in DOMAIN c.groups : c.groups[g] \in Group
              /\ \A e \in DOMAIN c.entries : c.entries[e] \in Entry
    /\ unused \in Nat /\ clock \in Time

\* No group and no entry is in two places or in none: the two ways the code
\* writes down a place agree, whatever was moved, cloned, sorted or removed.
PlacesAgree == \A d \in Devices : ListedByParent(db[d])

\* All that the maps hold is met on the way down from the root group; what is
\* not is written to no file.
NothingUnreachable ==
    \A d \in Devices :
        /\ ~Endless(db[d], RootGroup)
        /\ DOMAIN db[d].groups \subseteq Entered(db[d], RootGroup)
        /\ DOMAIN db[d].entries \subseteq EntriesBelow(db[d], RootGroup)

\* What is alive is not among the deleted objects, also after a merge brought
\* it back.
LiveIsNotDeleted ==
    \A d \in Devices :
        DOMAIN db[d].deleted \cap (DOMAIN db[d].groups \cup DOMAIN db[d].entries) = {}

\* Outside of a merge an entry disappears only out of the recycle bin, and
\* leaves a deleted object.
LeavesThroughBin ==
    \A d \in Devices : last'.op # "merge" =>
        \A e \in DOMAIN db[d].entries \ DOMAIN db'[d].entries :
            e \in EntriesBelow(db[d], db[d].bin) /\ e \in DOMAIN db'[d].deleted

EntriesLeaveThroughBin == [][LeavesThroughBin]_vars

\* A call of the user that fails changes nothing but the recycle bin, which
\* it may have made.
WholeOrNothing ==
    last'.op # "merge" /\ ~last'.ok =>
        \A d \in Devices : db'[d].entries = db[d].entries /\ db'[d].deleted = db[d].deleted

CallsWholeOrNothing == [][WholeOrNothing]_vars

-----------------------------------------------------------------------------
Versions(entry) == {LastVersion(entry)} \cup ToSet(entry.history)

IsMerge == last'.op = "merge" /\ last'.ok

\* A merge loses no version the target has and not the last one of the
\* source: it stays or becomes part of the history. Of the source's history
\* this cannot be said: it is not looked at when the last versions are the same.
KeepsVersions ==
    IsMerge => LET s == db[last'.from] t == db[last'.to] merged == db'[last'.to]
               IN  \A e \in DOMAIN merged.entries :
                       /\ HasEntry(s, e) => LastVersion(s.entries[e]) \in Versions(merged.entries[e])
                       /\ HasEntry(t, e) => Versions(t.entries[e]) \subseteq Versions(merged.entries[e])

MergeKeepsVersions == [][KeepsVersions]_vars

\* A merge takes an entry away only if one side deleted it after its last
\* edit on the other, and takes nothing away that is alive in the source.
RemovesOnlyDeleted ==
    IsMerge => LET s == db[last'.from] t == db[last'.to] merged == db'[last'.to]
               IN  /\ EntriesBelow(s, RootGroup) \cap DOMAIN s.entries \subseteq DOMAIN merged.entries
                   /\ \A e \in DOMAIN t.entries \ DOMAIN merged.entries :
                          \E c \in {s, t} : e \in DOMAIN c.deleted /\ c.deleted[e] > t.entries[e].mod

MergeRemovesOnlyDeleted == [][RemovesOnlyDeleted]_vars

\* After a merge one way and one back, the two copies hold the same entries,
\* in the same versions, and the same groups.
SameAfterBothWays ==
    IsMerge /\ last.op = "merge" /\ last.ok /\ last.from = last'.to /\ last.to = last'.from =>
        LET a == db'[last.from] b == db'[last.to]
        IN  /\ DOMAIN a.groups = DOMAIN b.groups
            /\ DOMAIN a.entries = DOMAIN b.entries
            /\ \A e \in DOMAIN a.entries : /\ a.entries[e].mod = b.entries[e].mod
                                           /\ a.entries[e].by = b.entries[e].by

MergesConverge == [][SameAfterBothWays]_vars

\* Merging the same source again changes nothing but deletion times.
OnceIsEnough ==
    IsMerge /\ last.op = "merge" /\ last.ok /\ last.from = last'.from /\ last.to = last'.to =>
        LET before == db[last.to] after == db'[last.to]
        IN  /\ after.groups = before.groups
            /\ after.entries = before.entries
            /\ DOMAIN after.deleted = DOMAIN before.deleted

MergeAgainChangesNothing == [][OnceIsEnough]_vars

\* A merge of two copies of one database comes to its end.
MergeCompletes == last.op = "merge" => last.ok
=============================================================================
