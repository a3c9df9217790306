------------------------------ MODULE EntryForm ------------------------------
(* Form data of an entry (form_data/entry.rs): what a form gets from an      *)
(* entry and the entry that is made of a form.                               *)
(*                                                                           *)
(* An entry has fields (see Otp) and the sections of its type, a sequence of *)
(* [name, defs], each definition a field's name, its protection and whether  *)
(* it is a one-time password. A form has the same sections filled with       *)
(* fields. Section names are distinct, which the client sees to; a definition *)
(* without a field and one with an empty field are the same to a form.       *)
EXTENDS Otp

TITLE == "Title"
NOTES == "Notes"
CUSTOM_FIELDS == "Custom Fields"
ADDITIONAL_ONE_TIME_PASSWORDS == "Additional One-Time Passwords"

\* A token is generated for one-time password fields that could be parsed
generate_otp(kvd, parsed) ==
    [kvd EXCEPT !.token = IF kvd.otp /\ kvd.key \in DOMAIN parsed
                          THEN Some(TokenOf(parsed[kvd.key])) ELSE None]

\* A form does not carry the protection of a field
KeyValueData_Unprotected(f, kv, otp) ==
    [key |-> f, value |-> kv.value, protected |-> FALSE, otp |-> otp, token |-> None]

KeyValueData(f, kv, otp) ==
    [key |-> f, value |-> kv.value, protected |-> kv.protected, otp |-> otp, token |-> None]
Blank == [value |-> <<>>, protected |-> FALSE]

\* The definitions of one section combined with the fields that are left
Combine(acc, section, parsed) ==
    LET Place(a, def) ==
            LET Kvd(kv) == generate_otp(KeyValueData(def.name, kv, def.otp), parsed)
                Placed(kv) == [a EXCEPT !.left = Without(@, {def.name}),
                                        !.done = @ \cup {def.name},
                                        !.kvds = Append(@, Kvd(kv))]
            IN  IF def.name \in DOMAIN a.left THEN Placed(a.left[def.name])
                ELSE IF def.name \in a.done THEN a
                ELSE Placed(Blank)
        r == FoldLeft(Place, [acc EXCEPT !.kvds = <<>>], section.defs)
    IN  [r EXCEPT !.sections = Append(acc.sections, [name |-> section.name, kvds |-> r.kvds])]

\* Fields that no section defines are custom fields
from_entry(entry, parsed) ==
    LET Or(f, default) == IF f \in DOMAIN entry.fields THEN entry.fields[f].value ELSE default
        Step(acc, section) == Combine(acc, section, parsed)
        r == FoldLeft(Step, [left |-> Without(entry.fields, {TITLE, NOTES}), done |-> {},
                             kvds |-> <<>>, sections |-> <<>>], entry.sections)
        names == SetToSeq(DOMAIN r.left)
        Custom(f) == generate_otp(KeyValueData(f, r.left[f], f \in DOMAIN parsed), parsed)
        custom == [i \in DOMAIN names |-> Custom(names[i])]
        i == SelectInSeq(r.sections, LAMBDA s : s.name = CUSTOM_FIELDS)
    IN  [title |-> Or(TITLE, << <<"text", "No Title">> >>),
         notes |-> Or(NOTES, <<>>),
         sections |->
            IF names = <<>> THEN r.sections
            ELSE IF i # 0 THEN [r.sections EXCEPT ![i].kvds = @ \o custom]
            ELSE Append(r.sections, [name |-> CUSTOM_FIELDS, kvds |-> custom])]

----------------------------------------------------------------------------

\* Only a section for further one-time passwords may be empty
into_entry(form) ==
    LET kvds == FlattenSeq([i \in DOMAIN form.sections |-> form.sections[i].kvds])
        Put(fields, kvd) ==
            (kvd.key :> [value |-> kvd.value, protected |-> kvd.protected]) @@ fields
        titled == TITLE :> [value |-> form.title, protected |-> FALSE]
                    @@ NOTES :> [value |-> form.notes, protected |-> FALSE]
        Def(kvd) == [name |-> kvd.key, protected |-> kvd.protected, otp |-> kvd.otp]
        Typed(s) == [name |-> s.name, defs |-> [i \in DOMAIN s.kvds |-> Def(s.kvds[i])]]
        kept == SelectSeq(form.sections,
                    LAMBDA s : s.name = ADDITIONAL_ONE_TIME_PASSWORDS \/ s.kvds # <<>>)
    IN  [fields |-> FoldLeft(Put, titled, kvds),
         sections |-> [i \in DOMAIN kept |-> Typed(kept[i])]]

\* A new entry has an empty field for each definition of its type
new_blank_entry(sections) ==
    LET defs == UNION {Range(sections[i].defs) : i \in DOMAIN sections}
        Empty(f) == [value |-> <<>>,
                     protected |-> \E d \in defs : d.name = f /\ d.protected]
    IN  [fields |-> [f \in {d.name : d \in defs} \cup {TITLE, NOTES} |-> Empty(f)],
         sections |-> sections]
=============================================================================
