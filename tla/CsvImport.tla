------------------------------ MODULE CsvImport ------------------------------
(* How the records of a csv file become entries (the modules of import/).   *)
(*                                                                           *)
(* A header row is a sequence of column names, a record a sequence of cells. *)
(* A cell is a value as in Otp, <<>> when it is blank; names are equal when  *)
(* they are equal without regard to case. Cells the import looks into hold   *)
(*   << <<"path", names>> >>     a group path, whatever separates the names  *)
(*   << <<"packed", pairs>> >>   several fields, pairs of a name and a value *)
(*   << <<"tags", set>> >>, << <<"flag", set or not>> >>, << <<"num", n>> >> *)
(* A mapping has the pairs <<field, column>> the user chose, the columns     *)
(* that become custom fields, and the profile of the exporter, if any.       *)
EXTENDS EntryForm

CONSTANT TypeSections   \* for each kind of item, the sections of its entry type

GROUP == "Group"
TAGS == "Tags"
OTHER_FIELDS == {GROUP, TAGS, "Modified Time", "Created Time"}
FAVORITES == "Favorites"
MAX_STANDARD_ICON_ID == 68

----------------------------------------------------------------------------
(* Profiles of exporters *)

matches(p, headers) == p.signature \subseteq Range(headers)

\* The profile with the most columns in its signature, the last of several
detect(profiles, headers) ==
    LET fit == {i \in DOMAIN profiles : matches(profiles[i], headers)}
        Size(i) == Cardinality(profiles[i].signature)
    IN  IF fit = {} THEN None
        ELSE Some(profiles[Max({i \in fit : \A j \in fit : Size(i) >= Size(j)})])

mapping_for(p, headers) == SelectSeq(p.mapping, LAMBDA pair : pair[2] \in Range(headers))

\* Columns that are not offered as custom fields
consumed_columns(p, headers) ==
    (Range(p.type_column) \cup Range(p.favourite_column) \cup Range(p.packed_fields_column)
       \cup Range(p.icon_column) \cup p.ignored_columns \cup {x[3] : x \in p.extra_fields})
      \cap Range(headers)

NoProfile ==
    [signature |-> {}, mapping |-> <<>>, folder_separator |-> FALSE, type_column |-> None,
     type_values |-> <<>>, favourite_column |-> None, packed_fields_column |-> None,
     strip_root_folder |-> FALSE, skip_folders |-> {}, icon_column |-> None,
     ignored_columns |-> {}, extra_fields |-> {}]

----------------------------------------------------------------------------
(* Where the columns go: the first pair of the mapping decides for a column, *)
(* the last column for a field. Other is about groups and tags.              *)

MappedField(m, column) ==
    LET i == SelectInSeq(m.mapped_fields, LAMBDA pair : pair[2] = column)
    IN  IF i = 0 THEN None ELSE Some(m.mapped_fields[i][1])

LastColumn(headers, Test(_)) ==
    LET columns == {i \in DOMAIN headers : Test(headers[i])}
    IN  IF columns = {} THEN None ELSE Some(Max(columns))

MappedIndex(m, headers, field) ==
    LastColumn(headers, LAMBDA h : MappedField(m, h) = Some(field))

IsCustom(m, h) ==
    m.unmapped_custom_field /\ MappedField(m, h) = None /\ h \in m.not_mapped_headers

\* A column named by the profile
column_index(headers, name) ==
    IF name = None \/ name[1] \notin Range(headers) THEN None
    ELSE Some(SelectInSeq(headers, LAMBDA h : h = name[1]))

\* Rows may be shorter than the header row
Cell(record, index) ==
    IF index = None \/ index[1] \notin DOMAIN record THEN None ELSE Some(record[index[1]])
Content(record, index) ==
    LET c == Cell(record, index) IN IF c = None THEN <<>> ELSE c[1]

----------------------------------------------------------------------------
(* One record *)

tags(m, headers, record) ==
    LET listed == Content(record, MappedIndex(m, headers, TAGS))
        flag == Content(record, column_index(headers, m.profile.favourite_column))
    IN  (IF listed = <<>> THEN {} ELSE listed[1][2])
          \cup (IF flag # <<>> /\ flag[1][2] THEN {FAVORITES} ELSE {})

kind(m, headers, record) ==
    LET v == Content(record, column_index(headers, m.profile.type_column))
    IN  IF v # <<>> /\ v[1] \in DOMAIN m.profile.type_values THEN m.profile.type_values[v[1]]
        ELSE "Login"

\* Without a separator the cell is one name. The source's root group is left out.
folder_path(m, headers, record) ==
    LET v == Content(record, MappedIndex(m, headers, GROUP))
        names == IF v = <<>> THEN <<>> ELSE v[1][2]
        path == IF m.profile.folder_separator THEN [i \in DOMAIN names |-> <<names[i]>>]
                ELSE IF v = <<>> THEN <<>> ELSE <<names>>
    IN  IF m.profile.strip_root_folder /\ path # <<>> THEN Tail(path) ELSE path

is_skipped(m, headers, record) ==
    LET path == folder_path(m, headers, record)
    IN  path # <<>> /\ path[1] \in {<<name>> : name \in m.profile.skip_folders}

icon_id(m, headers, record) ==
    LET v == Content(record, column_index(headers, m.profile.icon_column))
    IN  IF v # <<>> /\ v[1][1] = "num" /\ v[1][2] <= MAX_STANDARD_ICON_ID THEN Some(v[1][2])
        ELSE None

\* A secret or a url as the url of the field `otp'
otp_normalise(v) ==
    LET settings == [secret_or_url |-> v, period |-> None, digits |-> None,
                     hash_algorithm |-> None]
        Quoted(url) == [i \in DOMAIN url |-> <<url[i]>>]
    IN  IF v = <<>> THEN None ELSE Quoted(otp_url(settings))

Field(name, v, protected, custom) ==
    [name |-> name, value |-> v, protected |-> protected, custom |-> custom]
HasField(fields, name) == \E i \in DOMAIN fields : fields[i].name = name

\* Fields that only entries of the record's kind have
append_extra_fields(m, headers, record, fields) ==
    LET Extra(acc, x) ==
            LET v == Content(record, column_index(headers, Some(x[3])))
            IN  IF x[1] = kind(m, headers, record) /\ v # <<>> /\ ~HasField(acc, x[2])
                THEN Append(acc, Field(x[2], v, FALSE, FALSE)) ELSE acc
    IN  FoldLeft(Extra, fields, SetToSeq(m.profile.extra_fields))

\* A packed field is added whatever its name
append_packed_fields_All(m, headers, record, fields) ==
    LET v == Content(record, column_index(headers, m.profile.packed_fields_column))
        Unpack(acc, pair) == Append(acc, Field(pair[1], pair[2], FALSE, TRUE))
    IN  IF v = <<>> THEN fields ELSE FoldLeft(Unpack, fields, v[1][2])

\* A packed field is dropped where its name is taken
append_packed_fields(m, headers, record, fields) ==
    LET v == Content(record, column_index(headers, m.profile.packed_fields_column))
        Unpack(acc, pair) == IF HasField(acc, pair[1]) THEN acc
                             ELSE Append(acc, Field(pair[1], pair[2], FALSE, TRUE))
    IN  IF v = <<>> THEN fields ELSE FoldLeft(Unpack, fields, v[1][2])

\* Mapped columns first, then custom ones; an unusable one-time password is left out
ImportedFields(m, headers, record) ==
    LET standard == {pair[1] : pair \in Range(m.mapped_fields)} \ OTHER_FIELDS
        consumed == {column_index(headers, m.profile.favourite_column),
                     column_index(headers, m.profile.packed_fields_column)}
        custom == {h \in Range(headers) :
                     IsCustom(m, h) /\ LastColumn(headers, LAMBDA x : x = h) \notin consumed}
        Value(f, cell) == IF f = OTP /\ cell # None THEN otp_normalise(cell[1]) ELSE cell
        Named(f, value, own) ==
            [i \in DOMAIN value |-> Field(f, value[i], f = "Password" /\ ~own, own)]
        Imported(f, index, own) == Named(f, Value(f, Cell(record, index)), own)
        Standard(acc, f) == acc \o Imported(f, MappedIndex(m, headers, f), FALSE)
        Custom(acc, h) == acc \o Imported(h, LastColumn(headers, LAMBDA x : x = h), TRUE)
        mapped == FoldLeft(Custom, FoldLeft(Standard, <<>>, SetToSeq(standard)), SetToSeq(custom))
    IN  append_packed_fields(m, headers, record,
            append_extra_fields(m, headers, record, mapped))

to_imported_item(m, headers, record) ==
    [kind |-> kind(m, headers, record), folder_path |-> folder_path(m, headers, record),
     fields |-> ImportedFields(m, headers, record), tags |-> tags(m, headers, record),
     icon_id |-> icon_id(m, headers, record)]

to_imported_items(m, headers, records) ==
    LET kept == SelectSeq(records, LAMBDA r : ~is_skipped(m, headers, r))
    IN  [i \in DOMAIN kept |-> to_imported_item(m, headers, kept[i])]

----------------------------------------------------------------------------
(* The entry written for an item *)

requires_protection(sections, name) ==
    \E i \in DOMAIN sections : \E d \in Range(sections[i].defs) : d.name = name /\ d.protected

\* The item's own fields are declared, unless the type has custom fields
add_section(sections, item) ==
    LET own == SelectSeq(item.fields, LAMBDA f : f.custom)
        Def(f) == [name |-> f.name, protected |-> FALSE, otp |-> FALSE]
    IN  IF own = <<>> \/ \E i \in DOMAIN sections : sections[i].name = CUSTOM_FIELDS
        THEN sections
        ELSE Append(sections, [name |-> CUSTOM_FIELDS,
                               defs |-> [i \in DOMAIN own |-> Def(own[i])]])

\* Later fields replace earlier ones of the same name
EntryOf(item) ==
    LET blank == new_blank_entry(TypeSections[item.kind])
        sections == add_section(blank.sections, item)
        Insert(fields, f) ==
            (f.name :> [value |-> f.value,
                        protected |-> f.protected \/ requires_protection(sections, f.name)])
              @@ fields
    IN  [fields |-> FoldLeft(Insert, blank.fields, item.fields), sections |-> sections]
=============================================================================
