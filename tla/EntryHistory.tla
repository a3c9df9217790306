---------------------------- MODULE EntryHistory ----------------------------
(* The older versions of an entry. To keep the file small, a version does   *)
(* not store its type but an index into a list of types kept once in the    *)
(* entry's custom data; the index behind the end of the list stands for the *)
(* entry's present type.                                                    *)
EXTENDS EntryTypes, Integers, FiniteSetsExt

encoded_entry_types(cd, include_current) ==
  IF include_current /\ cd.data # None /\ ~Contains(cd.list, cd.data)
  THEN Append(cd.list, cd.data) ELSE cd.list

IndexToType(version, types) ==
  IF version.cd.index = None \/ version.cd.index \notin 0 .. Len(types) - 1 THEN version
  ELSE [version EXCEPT !.cd.data = types[version.cd.index + 1], !.cd.index = None]

(* One version, with the list it may extend, as a pair.                     *)
TypeToIndex(version, list, current) ==
  LET data == version.cd.data
      at(i) == [version EXCEPT !.cd.data = None, !.cd.index = i]
  IN CASE data = None -> <<version, list>>
       [] data # None /\ Contains(list, data) -> <<at(SelectInSeq(list, LAMBDA t : t = data) - 1), list>>
       [] data # None /\ ~Contains(list, data) /\ data = current -> <<at(Len(list)), list>>
       [] OTHER -> <<at(Len(list)), Append(list, data)>>

TypesToIndexes(versions, list, current) ==
  LET after[n \in 0 .. Len(versions)] ==
        IF n = 0 THEN << <<>>, list >>
        ELSE LET r == TypeToIndex(versions[n], after[n - 1][2], current)
             IN <<Append(after[n - 1][1], r[1]), r[2]>>
  IN after[Len(versions)]

-----------------------------------------------------------------------------
(* Limits: a negative one is no limit. A version weighs one and one more    *)
(* for every attachment.                                                    *)
keepass_size(version) == 1 + Len(version.bins)
SizeOf(versions) == FoldLeft(LAMBDA n, v : n + keepass_size(v), 0, versions)

RemoveOldest(versions) ==
  LET oldest == CHOOSE i \in DOMAIN versions :
        \A j \in DOMAIN versions : /\ versions[i].time <= versions[j].time
                                   /\ versions[i].time = versions[j].time => i <= j
  IN RemoveAt(versions, oldest)

TooMany(versions, limits) == limits.items >= 0 /\ Len(versions) > limits.items
TooLarge(versions, limits) == limits.size >= 0 /\ SizeOf(versions) > limits.size

(* Which of the limits is exceeded makes no difference to what is removed.  *)
trim_histories(versions, limits) ==
  LET Trimmed(vs) == IF TooMany(vs, limits) \/ TooLarge(vs, limits) THEN RemoveOldest(vs) ELSE vs
      left[n \in 0 .. Len(versions)] == IF n = 0 THEN versions ELSE Trimmed(left[n - 1])
  IN left[Len(versions)]

maintain_history(e, limits) == [e EXCEPT !.history = trim_histories(@, limits)]

-----------------------------------------------------------------------------
create_histories(e, limits) ==
  trim_histories(Append(e.history, [e EXCEPT !.cd.list = <<>>, !.history = <<>>, !.share = <<>>]), limits)

serialize_last_history_entry_entry_type_data(e) ==
  IF e.history = <<>> THEN e
  ELSE LET r == TypeToIndex(Last(e.history), e.cd.list, e.cd.data)
       IN [e EXCEPT !.history[Len(e.history)] = r[1], !.cd.list = r[2]]

adjust_history_entries_entry_type_indexes_ListOnly(e) ==
  [e EXCEPT !.cd.list = SelectSeq(@, LAMBDA t : t # e.cd.data)]

(* The present type does not stand in the list.                             *)
adjust_history_entries_entry_type_indexes(e) ==
  IF e.cd.data = None \/ ~Contains(e.cd.list, e.cd.data) THEN e
  ELSE LET typed == [i \in DOMAIN e.history |-> IndexToType(e.history[i], e.cd.list)]
           r == TypesToIndexes(typed, SelectSeq(e.cd.list, LAMBDA t : t # e.cd.data), e.cd.data)
       IN [e EXCEPT !.history = r[1], !.cd.list = r[2]]

(* Entry::update with what the form says of type and attachments.           *)
update(e, form, customs, limits, now) ==
  LET typed == [e EXCEPT !.history = create_histories(e, limits), !.time = now,
                         !.bins = form.bins, !.type = form.type,
                         !.cd = copy_to_custom_data(@, form.type, customs)]
  IN adjust_history_entries_entry_type_indexes(serialize_last_history_entry_entry_type_data(typed))

(* The type the user sees of a version.                                     *)
history_entry_by_index(e, i, customs) ==
  deserialize_to_entry_type(IndexToType(e.history[i], encoded_entry_types(e.cd, TRUE)).cd, customs)

delete_history_entry_by_index(e, i) ==
  LET gone == e.history[i].cd.index
      left == RemoveAt(e.history, i)
      unused == /\ gone # None /\ gone # Len(e.cd.list)
                /\ \A j \in DOMAIN left : left[j].cd.index # gone
      list == IF unused THEN RemoveAt(e.cd.list, gone + 1) ELSE e.cd.list
      shifted(v) == IF unused /\ v.cd.index # None /\ v.cd.index > gone
                    THEN [v EXCEPT !.cd.index = @ - 1] ELSE v
  IN [e EXCEPT !.history = [j \in DOMAIN left |-> shifted(left[j])],
               !.cd.list = IF left = <<>> THEN <<>> ELSE list]

delete_history_entries(e) == [e EXCEPT !.history = <<>>, !.cd.list = <<>>]

-----------------------------------------------------------------------------
(* Merging the versions of two copies of an entry.                          *)
replace_index_by_entry_types_data(e, versions) ==
  [i \in DOMAIN versions |-> IndexToType(versions[i], encoded_entry_types(e.cd, TRUE))]

set_merged_histories(e, versions) ==
  LET types == FoldLeft(LAMBDA acc, v : IF v.cd.data = None \/ Contains(acc, v.cd.data) THEN acc
                                        ELSE Append(acc, v.cd.data), <<>>, versions)
  IN adjust_history_entries_entry_type_indexes(
       [e EXCEPT !.cd.list = types, !.history = TypesToIndexes(versions, types, e.cd.data)[1]])

(* Sorted by time, and of two versions of the same time the first.          *)
SortedByTime(versions) ==
  LET first == {i \in DOMAIN versions : \A j \in 1 .. i - 1 : versions[j].time # versions[i].time}
      Rank(i) == Cardinality({j \in first : versions[j].time < versions[i].time})
  IN [k \in 1 .. Cardinality(first) |-> versions[CHOOSE i \in first : Rank(i) = k - 1]]

merge_histories(from, to, fromLimits) ==
  set_merged_histories(to,
    SortedByTime(replace_index_by_entry_types_data(to, to.history)
                 \o replace_index_by_entry_types_data(from, create_histories(from, fromLimits))))
=============================================================================
