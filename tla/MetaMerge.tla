----------------------------- MODULE MetaMerge -----------------------------
(* Custom icons and settings of a database, in copies of it that are edited *)
(* and merged: what Meta keeps, and the references of entries, of their     *)
(* older versions and of a group to the icons. A merge keeps icons with the *)
(* same bytes once and rewrites the references of what it takes over.       *)
(* src/src/db_content/meta.rs, custom_icons.rs and the icon calls of        *)
(* db_merge/merger.rs.                                                      *)
EXTENDS Naturals, Sequences, SequencesExt

CONSTANTS
    Devices,
    Entries,
    Bytes,        \* contents of icons
    Settings,     \* values of the name and the description
    Original,     \* the database that all copies are made from
    Calls,        \* the calls the client of each device makes
    MaxUuid, MaxTime, MaxEdits \* bounds

\* What no reference shows, and one to an icon that is not there
Standard == "standard"
Gone == "gone"

ASSUME BytesAssumption == {Standard, Gone} \cap Bytes = {}

\* No reference to an icon
Nil == 0

Icon == [uuid : Nat \ {Nil}, data : Bytes]
VersionType == [mod : Nat, icon : Nat]
EntryType == [mod : Nat, icon : Nat, history : Seq(VersionType)]

\* What holds the entries of a set
ContentType(E) ==
    [icons : Seq(Icon), settings : Settings, settings_changed : Nat,
     group : VersionType, entries : [E -> EntryType]]

\* A uuid names the same bytes wherever it stands.
Consistent(icons) == \A a, b \in icons : a.uuid = b.uuid => a.data = b.data

ASSUME OriginalAssumption ==
    /\ \E E \in SUBSET Entries : Original \in ContentType(E)
    /\ Original.settings_changed = 0 /\ Consistent(ToSet(Original.icons))

VARIABLES
    db,     \* the content of each device in memory
    file,   \* its file
    unused, \* the next uuid Uuid::new_v4 hands out
    clock,  \* util::now_utc
    edits   \* edits so far

vars == <<db, file, unused, clock, edits>>

Init ==
    /\ db = [d \in Devices |-> Original] /\ file = db
    /\ unused = 1 + Max({Nil} \cup {icon.uuid : icon \in ToSet(Original.icons)})
    /\ clock = 0 /\ edits = 0

UuidsOf(c) == {icon.uuid : icon \in ToSet(c.icons)}

-----------------------------------------------------------------------------
(* custom_icons.rs                                                          *)

\* Bytes that are there already are not stored again.
add_custom_icon(c, data, fresh) ==
    IF \E icon \in ToSet(c.icons) : icon.data = data THEN c
    ELSE [c EXCEPT !.icons = Append(@, [uuid |-> fresh, data |-> data])]

\* Root::clear_custom_icon_uuid
Cleared(version, uuid) == IF version.icon = uuid THEN [version EXCEPT !.icon = Nil] ELSE version

\* The icons that have another uuid
Retained(icons, uuid) ==
    LET Of[n \in 0 .. Len(icons)] == IF n = 0 THEN <<>>
                                     ELSE IF icons[n].uuid = uuid THEN Of[n - 1]
                                     ELSE Append(Of[n - 1], icons[n])
    IN  Of[Len(icons)]

\* Older versions keep their references.
remove_custom_icon(c, uuid) ==
    [c EXCEPT !.icons = Retained(@, uuid),
              !.entries = [e \in DOMAIN @ |-> Cleared(@[e], uuid)],
              !.group = Cleared(@, uuid)]

-----------------------------------------------------------------------------
(* Entries, the group and the settings                                      *)

Version(e) == [mod |-> e.mod, icon |-> e.icon]

\* Entry::update
update_entry(e, icon, now) ==
    [mod |-> now, icon |-> icon, history |-> Append(e.history, Version(e))]

\* Meta::update
update_settings(c, settings, now) ==
    [c EXCEPT !.settings = settings, !.settings_changed = now]

-----------------------------------------------------------------------------
(* merge_custom_icons                                                       *)

\* The map ends up with the last icon of those with the same bytes.
TargetByHash(icons) ==
    [data \in {icon.data : icon \in ToSet(icons)} |->
        icons[Max({i \in DOMAIN icons : icons[i].data = data})].uuid]

Set(f, x, y) == [z \in DOMAIN f \cup {x} |-> IF z = x THEN y ELSE f[z]]

\* (A) the same bytes are there, (B) another icon has the uuid, (C) a new icon
MergeIcon(merge, icon) ==
    IF icon.data \in DOMAIN merge.by_hash
    THEN IF merge.by_hash[icon.data] = icon.uuid THEN merge
         ELSE [merge EXCEPT !.remap = Set(@, icon.uuid, merge.by_hash[icon.data])]
    ELSE IF \E i \in DOMAIN merge.icons : merge.icons[i].uuid = icon.uuid THEN merge
    ELSE [merge EXCEPT !.icons = Append(@, icon),
                       !.by_hash = Set(@, icon.data, icon.uuid)]

\* One icon of the source after the other
MergeIcons(start, source) ==
    LET After[n \in 0 .. Len(source)] == IF n = 0 THEN start
                                         ELSE MergeIcon(After[n - 1], source[n])
    IN  After

merge_custom_icons(target, source) ==
    LET start == [icons |-> target, by_hash |-> TargetByHash(target), remap |-> <<>>]
    IN  IF target = source THEN start ELSE MergeIcons(start, source)[Len(source)]

-----------------------------------------------------------------------------
(* Merger: the references of what is taken from the source                  *)

Remapped(version, remap) ==
    IF version.icon \in DOMAIN remap THEN [version EXCEPT !.icon = remap[@]] ELSE version

\* The older versions are left out.
remap_entry_icons_current(e, remap) == Remapped(e, remap)

remap_entry_icons(e, remap) ==
    [Remapped(e, remap) EXCEPT !.history = [i \in DOMAIN @ |-> Remapped(@[i], remap)]]

\* Of versions with the same time the first one stays.
merge_histories(from, to) ==
    LET all == to.history \o from.history \o <<Version(from)>>
        first == {i \in DOMAIN all : \A j \in 1 .. (i - 1) : all[j].mod # all[i].mod}
    IN  [to EXCEPT !.history = [n \in 1 .. Cardinality(first) |->
            all[CHOOSE i \in first : Cardinality({j \in first : all[j].mod < all[i].mod}) = n - 1]]]

found_in_history(e, version) == \E i \in DOMAIN e.history : e.history[i].mod = version.mod

merge_entry(ours, theirs, remap) ==
    LET s == remap_entry_icons(theirs, remap)
    IN  CASE ours.mod = theirs.mod -> ours
          [] ours.mod < theirs.mod -> merge_histories(ours, s)
          [] OTHER -> IF found_in_history(ours, theirs) THEN ours ELSE merge_histories(s, ours)

merge_entries(target, source, remap) ==
    [e \in DOMAIN target \cup DOMAIN source |->
        IF e \notin DOMAIN source THEN target[e]
        ELSE IF e \notin DOMAIN target THEN remap_entry_icons(source[e], remap)
        ELSE merge_entry(target[e], source[e], remap)]

merge_group(target, source, remap) ==
    IF source.mod > target.mod THEN Remapped(source, remap) ELSE target

\* Meta::merge; the settings are taken as a whole.
Adopts(target, source) ==
    target.settings_changed < source.settings_changed /\ target.settings # source.settings

\* The time of the settings is that of the last merge, whatever it changed.
meta_merge_stamps(target, source, icons, now) ==
    LET from == IF Adopts(target, source) THEN source ELSE target
    IN  [target EXCEPT !.settings = from.settings, !.icons = icons, !.settings_changed = now]

meta_merge(target, source, icons, now) ==
    LET from == IF Adopts(target, source) THEN source ELSE target
        modified == Adopts(target, source) \/ icons # target.icons
    IN  [target EXCEPT !.settings = from.settings, !.icons = icons,
                       !.settings_changed = IF modified THEN now ELSE @]

Merge(target, source, now) ==
    LET merge == merge_custom_icons(target.icons, source.icons)
    IN  [meta_merge(target, source, merge.icons, now) EXCEPT
            !.group = merge_group(@, source.group, merge.remap),
            !.entries = merge_entries(@, source.entries, merge.remap)]

-----------------------------------------------------------------------------
(* The calls of the client of a device                                      *)

Edit(d, call, c) ==
    /\ call \in Calls[d] /\ edits < MaxEdits
    /\ c # db[d]
    /\ db' = [db EXCEPT ![d] = c]
    /\ edits' = edits + 1
    /\ UNCHANGED file

AddIcon(d) ==
    /\ unused <= MaxUuid /\ unused' = unused + 1
    /\ \E data \in Bytes : Edit(d, "add", add_custom_icon(db[d], data, unused))
    /\ UNCHANGED clock

RemoveIcon(d) ==
    /\ \E uuid \in UuidsOf(db[d]) : Edit(d, "remove", remove_custom_icon(db[d], uuid))
    /\ UNCHANGED <<unused, clock>>

\* set_entry_custom_icon, set_group_custom_icon: the times stay. The client names an
\* icon of the list, or none.
SetIcon(d) ==
    /\ \E icon \in UuidsOf(db[d]) \cup {Nil} :
         \/ \E e \in DOMAIN db[d].entries :
              Edit(d, "set", [db[d] EXCEPT !.entries[e].icon = icon])
         \/ Edit(d, "set", [db[d] EXCEPT !.group.icon = icon])
    /\ UNCHANGED <<unused, clock>>

\* The forms of an entry and of the group. The icon they name was in the list when they
\* were opened, and still is.
SaveForm(d) ==
    /\ \E now \in clock .. (clock + 1) :
         /\ now <= MaxTime /\ clock' = now
         /\ \E icon \in UuidsOf(db[d]) \cup {Nil} :
              \/ \E e \in DOMAIN db[d].entries :
                   Edit(d, "edit", [db[d] EXCEPT !.entries[e] = update_entry(@, icon, now)])
              \/ \E e \in Entries \ UNION {DOMAIN db[o].entries : o \in Devices} :
                   Edit(d, "edit", [db[d] EXCEPT !.entries =
                           Set(@, e, [mod |-> now, icon |-> icon, history |-> <<>>])])
              \/ Edit(d, "edit", [db[d] EXCEPT !.group = [mod |-> now, icon |-> icon]])
    /\ UNCHANGED unused

SaveSettings(d) ==
    /\ \E now \in clock .. (clock + 1), settings \in Settings :
         /\ now <= MaxTime /\ clock' = now
         /\ Edit(d, "settings", update_settings(db[d], settings, now))
    /\ UNCHANGED unused

Save(d) ==
    /\ "save" \in Calls[d]
    /\ file' = [file EXCEPT ![d] = db[d]] /\ file' # file
    /\ UNCHANGED <<db, unused, clock, edits>>

\* merge_databases, merge_kdbx_with_reader take what another device saved.
MergeFrom(d, o) ==
    /\ "merge" \in Calls[d]
    /\ \E now \in clock .. (clock + 1) :
         /\ now <= MaxTime /\ clock' = now
         /\ db' = [db EXCEPT ![d] = Merge(@, file[o], now)]
    /\ UNCHANGED <<file, unused, edits>>

Next == \E d \in Devices :
    \/ AddIcon(d) \/ RemoveIcon(d) \/ SetIcon(d) \/ SaveForm(d) \/ SaveSettings(d)
    \/ Save(d)
    \/ \E o \in Devices \ {d} : MergeFrom(d, o)

Spec == Init /\ [][Next]_vars

-----------------------------------------------------------------------------
(* What is seen                                                             *)

\* What a reference shows: the bytes, the standard icon, or nothing that is there
Shown(c, uuid) ==
    IF uuid = Nil THEN Standard
    ELSE IF uuid \notin UuidsOf(c) THEN Gone
    ELSE (CHOOSE icon \in ToSet(c.icons) : icon.uuid = uuid).data

Pictures(c, versions) == {<<v.mod, Shown(c, v.icon)>> : v \in versions}
Versions(c, e) == IF e \notin DOMAIN c.entries THEN {}
                  ELSE {c.entries[e]} \cup ToSet(c.entries[e].history)

\* The step is no edit and no save but a merge.
Merges(d, o) == d # o /\ UNCHANGED <<edits, file>> /\ MergeFrom(d, o)

\* A merge shows every version of an entry, and the group, with a picture that one of
\* the two showed it with; one whose icon was gone may find a picture again.
KeepsPictures(t, s, merged) ==
    LET Kept(before, after) ==
            \A p \in after : p \in before \/ <<p[1], Gone>> \in before
    IN  /\ Kept(Pictures(t, {t.group}) \cup Pictures(s, {s.group}), Pictures(merged, {merged.group}))
        /\ \A e \in Entries : Kept(Pictures(t, Versions(t, e)) \cup Pictures(s, Versions(s, e)),
                                   Pictures(merged, Versions(merged, e)))

MergeKeepsPictures ==
    [][\A d, o \in Devices : Merges(d, o) => KeepsPictures(db[d], file[o], db'[d])]_vars

\* To merge the same file once more, later, would change nothing: no icon comes a second
\* time, no version is added, and the settings do not become as new as that merge
\* (`modified' in Meta::merge).
MergeAgainChangesNothing ==
    [][\A d, o \in Devices : Merges(d, o) => Merge(db'[d], file[o], clock' + 1) = db'[d]]_vars
=============================================================================
