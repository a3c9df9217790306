---------------------------- MODULE Placeholders ----------------------------
(* Placeholders in the fields of an entry (form_data/parsing.rs): what is   *)
(* shown for {Field}, {S:Field} and {REF:wanted@I:uuid}.                    *)
(*                                                                          *)
(* A value is a sequence of tokens; the placeholders are <<"field", name>>, *)
(* <<"own", name>> and <<"ref", wanted, searched, uuid>>. Names are equal   *)
(* when they are equal in upper case. The fields of an entry are parsed in  *)
(* the order of a hash map, hence in any order: db.order gives one for each *)
(* entry. db.fields are the fields of all entries.                          *)
EXTENDS Naturals, Sequences, SequencesExt, Functions

MAX_RECURSIVE_DEPTHS == 10

IsPlaceholder(t) == t[1] \in {"field", "own", "ref"}
place_holder_marker_found(v) == \E i \in DOMAIN v : IsPlaceholder(v[i])

\* Only the fields that have placeholders are collected
extract_place_holders_OnlyMarked(fields) ==
    LET marked == {f \in DOMAIN fields : place_holder_marker_found(fields[f].value)}
    IN  [f \in marked |-> fields[f].value]

\* The non-empty fields, when one of them has a placeholder
extract_place_holders(fields) ==
    IF \E f \in DOMAIN fields : place_holder_marker_found(fields[f].value)
    THEN LET filled == {f \in DOMAIN fields : fields[f].value # <<>>}
         IN  [f \in filled |-> fields[f].value]
    ELSE <<>>

----------------------------------------------------------------------------
(* A parser has the entry it works for, and its values resolved so far. The *)
(* depth counts the placeholders replaced in a row; a result has the depth  *)
(* of the last call.                                                        *)

RECURSIVE parse(_, _, _, _, _), ref_value(_, _, _, _, _), parse_main(_, _, _)

parse(db, id, values, input, depth) ==
    LET i == SelectInSeq(input, IsPlaceholder)
        left == SubSeq(input, 1, i - 1)
        right == SubSeq(input, i + 1, Len(input))
        After(replaced) ==
            LET r == parse(db, id, values, right, depth + 1)
            IN  [value |-> left \o replaced \o r.value, depth |-> r.depth]
    IN  IF depth > MAX_RECURSIVE_DEPTHS \/ i = 0 THEN [value |-> input, depth |-> depth]
        ELSE IF input[i][1] = "ref" THEN After(ref_value(db, id, values, input[i], depth))
        ELSE IF input[i][2] \in DOMAIN values
             THEN parse(db, id, values, left \o values[input[i][2]] \o right, depth + 1)
        ELSE After(<< <<"field", input[i][2]>> >>)

\* Other entries are found by their uuid only. Of the entry itself only the
\* URL is: it alone has a name that is its own upper case.
ref_value(db, id, values, ref, depth) ==
    LET wanted == ref[2]
        fields == db.fields[ref[4]]
        resolved == parse_main(db, ref[4], depth + 1)
    IN  IF ref[3] # "I" \/ ref[4] \notin DOMAIN db.fields THEN <<ref>>
        ELSE IF ref[4] = id
             THEN IF wanted = "URL" /\ wanted \in DOMAIN values THEN values[wanted] ELSE <<ref>>
        ELSE IF wanted \notin DOMAIN fields THEN <<ref>>
        ELSE IF ~place_holder_marker_found(fields[wanted].value) THEN fields[wanted].value
        ELSE IF depth + 1 > MAX_RECURSIVE_DEPTHS THEN <<ref>>
        ELSE resolved.values[wanted]

\* Resolves all fields of an entry; results that took too many steps are dropped
parse_main(db, id, depth) ==
    LET Resolve(acc, f) ==
            LET r == parse(db, id, acc.values, acc.values[f], depth)
            IN  IF r.value # acc.values[f] /\ r.depth < MAX_RECURSIVE_DEPTHS
                THEN [values |-> [acc.values EXCEPT ![f] = r.value],
                      modified |-> acc.modified \cup {f}]
                ELSE acc
        values == extract_place_holders(db.fields[id])
    IN  FoldLeft(Resolve, [values |-> values, modified |-> {}],
                 SelectSeq(db.order[id], LAMBDA f : f \in DOMAIN values))

----------------------------------------------------------------------------

\* The fields of an entry that have another value when shown
resolve_place_holders(db, id) ==
    LET r == parse_main(db, id, 1)
    IN  RestrictDomain(r.values, LAMBDA f : f \in r.modified)

place_holder_resolved_entry_fields(db, id) ==
    LET parsed == resolve_place_holders(db, id)
    IN  [f \in DOMAIN db.fields[id] |->
            IF f \in DOMAIN parsed THEN parsed[f] ELSE db.fields[id][f].value]
=============================================================================
