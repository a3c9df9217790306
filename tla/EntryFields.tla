----------------------------- MODULE EntryFields -----------------------------
(* The life of the fields of one entry: it comes from another program or is  *)
(* imported from a csv file, is edited in forms, gets and loses one-time      *)
(* passwords, and is shown with its placeholders resolved.                    *)
(*                                                                            *)
(* A form is a copy: calls that change the entry while it is open are undone  *)
(* by its update. The entry keeps the one-time passwords it parsed when its   *)
(* fields last changed.                                                       *)
EXTENDS CsvImport, Placeholders

CONSTANTS
    Foreign,     \* entries other programs wrote
    Tables,      \* csv files: headers, one record, and the mapping a user makes by hand
    Profiles,    \* the sequence of known exporters
    Edits,       \* pairs of a field and a value the user puts into a form
    MaxEdited,   \* bound on the fields edited in one form
    Settings,    \* what the user may enter for one-time passwords
    Others,      \* the fields of the other entries, which do not change
    Orders       \* sequences of names: orders in which fields may be resolved

Absent == [absent |-> TRUE]
Closed == [closed |-> TRUE]
E == "e"

VARIABLES
    entry,      \* fields and sections, or Absent
    parsed,     \* its one-time passwords: parsed_otp_values
    form,       \* the form that is open, with the fields it was opened with and the edited ones
    records,    \* the csv file that was read last: NON_HEADER_RECORDS
    settled     \* the settings last made that nothing has replaced since
vars == <<entry, parsed, form, records, settled>>

Init ==
    /\ entry \in Foreign \cup {Absent}
    /\ parsed = IF entry = Absent THEN <<>> ELSE parse_all_otp_fields(entry.fields)
    /\ form = Closed
    /\ records = None
    /\ settled = None

----------------------------------------------------------------------------
(* Import *)

\* What the mapping dialog sends: by hand, or as the detected profile suggests
MappingsOf(t) ==
    LET p == detect(Profiles, t.headers)
        Suggested(custom) ==
            LET pairs == mapping_for(p[1], t.headers)
            IN  [mapped_fields |-> pairs, unmapped_custom_field |-> custom, profile |-> p[1],
                 not_mapped_headers |-> Range(t.headers) \ (consumed_columns(p[1], t.headers)
                                            \cup {pair[2] : pair \in Range(pairs)})]
        ByHand == [mapped_fields |-> t.by_hand, unmapped_custom_field |-> TRUE,
                   profile |-> NoProfile,
                   not_mapped_headers |-> Range(t.headers) \ {pair[2] : pair \in Range(t.by_hand)}]
    IN  {ByHand} \cup (IF p = None THEN {} ELSE {Suggested(custom) : custom \in BOOLEAN})

read_from_path(t) ==
    /\ entry = Absent
    /\ records' = Some(t)
    /\ UNCHANGED <<entry, parsed, form, settled>>

clear_stored_records ==
    /\ records # None
    /\ records' = None
    /\ UNCHANGED <<entry, parsed, form, settled>>

\* The records are gone after the import, also when all of them were skipped
apply_imported_csv_data(m) ==
    LET items == to_imported_items(m, records[1].headers, <<records[1].record>>)
        Written(imported) == IF imported = <<>> THEN Absent ELSE EntryOf(imported[1])
    IN  /\ entry = Absent
        /\ records' = None
        /\ entry' = Written(items)
        /\ parsed' = IF entry' = Absent THEN <<>> ELSE parse_all_otp_fields(entry'.fields)
        /\ UNCHANGED <<form, settled>>

----------------------------------------------------------------------------
(* Forms *)

get_entry_form_data_by_id ==
    /\ entry # Absent /\ form = Closed
    /\ form' = [opened |-> entry.fields, edited |-> {}] @@ from_entry(entry, parsed)
    /\ UNCHANGED <<entry, parsed, records, settled>>

Edit(f, v) ==
    LET Set(kvd) == IF kvd.key = f THEN [kvd EXCEPT !.value = v] ELSE kvd
        SetIn(s) == [s EXCEPT !.kvds = [i \in DOMAIN s.kvds |-> Set(s.kvds[i])]]
    IN  /\ form # Closed /\ Cardinality(form.edited \cup {f}) <= MaxEdited
        /\ form' = [form EXCEPT
                      !.title = IF f = TITLE THEN v ELSE @,
                      !.sections = [i \in DOMAIN form.sections |-> SetIn(form.sections[i])],
                      !.edited = @ \cup {f}]
        /\ UNCHANGED <<entry, parsed, records, settled>>

OtpNames == SecretNames \cup {OTP, PERIOD, LENGTH, ALGORITHM}

update_entry_from_form_data ==
    /\ form # Closed
    /\ entry' = into_entry(form)
    /\ parsed' = parse_all_otp_fields(entry'.fields)
    /\ form' = Closed
    /\ settled' = IF form.opened = entry.fields /\ form.edited \cap OtpNames = {} THEN settled
                  ELSE None
    /\ UNCHANGED records

Discard ==
    /\ form # Closed
    /\ form' = Closed
    /\ UNCHANGED <<entry, parsed, records, settled>>

----------------------------------------------------------------------------
(* One-time passwords *)

\* Settings that cannot be used or written leave the entry as it is
set_entry_otp(s) ==
    LET fields == set_otp(entry.fields, s)
    IN  /\ entry # Absent /\ fields # None
        /\ entry' = [entry EXCEPT !.fields = fields[1]]
        /\ parsed' = parse_all_otp_fields(entry'.fields)
        /\ settled' = from_otp_settings(s)
        /\ UNCHANGED <<form, records>>

delete_entry_otp ==
    /\ entry # Absent
    /\ entry' = [entry EXCEPT !.fields = remove_otp(@)]
    /\ parsed' = parse_all_otp_fields(entry'.fields)
    /\ settled' = None
    /\ UNCHANGED <<form, records>>

Next ==
    \/ \E t \in Tables : read_from_path(t)
    \/ clear_stored_records
    \/ \E t \in Tables : records = Some(t) /\ \E m \in MappingsOf(t) : apply_imported_csv_data(m)
    \/ get_entry_form_data_by_id
    \/ \E e \in Edits : Edit(e[1], e[2])
    \/ update_entry_from_form_data
    \/ Discard
    \/ \E s \in Settings : set_entry_otp(s)
    \/ delete_entry_otp

Spec == Init /\ [][Next]_vars

----------------------------------------------------------------------------
(* Properties *)

\* What a record says in the columns that nothing else is read from reaches the
\* entry: each mapped cell its field, each one-time password a token, and a
\* column that becomes a custom field keeps its cell whatever the packed fields
\* and the columns of the kind are called. (CsvLookup::fields, ImportWriter)
MappedCellsKept ==
    [][\A m \in IF records = None THEN {} ELSE MappingsOf(records[1]) :
          LET headers == records[1].headers
              record == records[1].record
              Read(f) == Content(record, MappedIndex(m, headers, f))
              own == {h \in Range(headers) : IsCustom(m, h)}
          IN  apply_imported_csv_data(m) /\ entry' # Absent =>
                 /\ \A f \in {pair[1] : pair \in Range(m.mapped_fields)} \ (OTHER_FIELDS \cup {OTP}) :
                       Read(f) # <<>> => entry'.fields[f].value = Read(f)
                 /\ otp_normalise(Read(OTP)) # None => OTP \in DOMAIN parsed'
                 /\ \A h \in own :
                       LET c == Content(record, LastColumn(headers, LAMBDA x : x = h))
                       IN  c # <<>> => entry'.fields[h].value = c]_vars

\* An update writes what was edited and nothing else: each other field has the
\* value it had when the form was opened, in whatever section it was shown, and
\* fields that are new are empty. Placeholders stay as typed. A field stays
\* protected, but for the title and the notes: the form does not carry their
\* protection. (from_entry and into_entry)
FormKeepsFields ==
    [][form # Closed /\ form' = Closed /\ entry' # entry =>
          /\ \A f \in DOMAIN form.opened \ form.edited :
                /\ entry'.fields[f].value = form.opened[f].value
                /\ f \notin {TITLE, NOTES} => entry'.fields[f].protected = form.opened[f].protected
          /\ \A f \in DOMAIN entry'.fields \ (DOMAIN form.opened \cup form.edited) :
                entry'.fields[f].value = <<>>]_vars

\* The token of settings the user made is generated until the user changes or
\* removes them, whatever format the entry had and whatever else is edited
\* meanwhile. (Entry::set_otp, time_otp::write, from_entry)
TokenStays ==
    settled # None => \E f \in DOMAIN parsed : TokenOf(parsed[f]) = TokenOf(settled[1])

\* A value with all its placeholders replaced, None where one names nothing or
\* that does not end
RECURSIVE Whole(_, _, _, _)
Whole(fields, id, v, fuel) ==
    LET t == v[1]
        source == IF t[1] = "ref" THEN t[4] ELSE id
        known == source \in DOMAIN fields /\ t[2] \in DOMAIN fields[source]
                   /\ fields[source][t[2]].value # <<>>
        first == IF ~IsPlaceholder(t) THEN Some(<<t>>)
                 ELSE IF known THEN Whole(fields, source, fields[source][t[2]].value, fuel - 1)
                 ELSE None
        rest == Whole(fields, id, Tail(v), fuel)
    IN  IF v = <<>> THEN Some(<<>>)
        ELSE IF fuel = 0 \/ first = None \/ rest = None THEN None
        ELSE Some(first[1] \o rest[1])

\* Fields are shown with every placeholder replaced, also those in what replaced
\* it and in the entries it refers to, in whatever order a hash map yields them;
\* fields that refer to themselves, directly or not, do not disturb the others.
\* (EntryPlaceHolderParser)
PlaceholdersResolved ==
    entry # Absent =>
       LET fields == (E :> entry.fields) @@ Others
       IN  \A order \in Orders :
              LET shown == place_holder_resolved_entry_fields(
                              [fields |-> fields, order |-> [id \in DOMAIN fields |-> order]], E)
              IN  \A f \in DOMAIN entry.fields :
                     LET w == Whole(fields, E, entry.fields[f].value, 5)
                     IN  w # None => shown[f] = w[1]
=============================================================================
