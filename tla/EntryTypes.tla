----------------------------- MODULE EntryTypes -----------------------------
(* Entry types and how an entry stores its own: a type is an id and its     *)
(* sections of field definitions. Built-in types are known to the program,  *)
(* custom ones to the database, and an entry stores only the id of its type *)
(* or what it adds to it. A stored type is the record itself: serialising   *)
(* it, compressing it and encoding it in base64 can be undone.              *)
EXTENDS Naturals, Sequences, SequencesExt

CONSTANTS UUID_TO_ENTRY_TYPE_MAP, \* the sections of every built-in type
          LOGIN,                  \* the id of the default type
          None
ASSUME TypesAssumption == LOGIN \in DOMAIN UUID_TO_ENTRY_TYPE_MAP

standard_type_by_id(id) ==
  LET known == IF id \in DOMAIN UUID_TO_ENTRY_TYPE_MAP THEN id ELSE LOGIN
  IN [id |-> known, sections |-> UUID_TO_ENTRY_TYPE_MAP[known]]
default_type == standard_type_by_id(LOGIN)

changed(t, u) == t.sections # u.sections

Known(id, customs) == id \in DOMAIN customs \cup DOMAIN UUID_TO_ENTRY_TYPE_MAP
Predefined(id, customs) == IF id \in DOMAIN customs THEN customs[id] ELSE UUID_TO_ENTRY_TYPE_MAP[id]

Named(sections, name) == {i \in DOMAIN sections : sections[i].name = name}

(* modify_entry_type_before_encoding: what the type adds to its definition. *)
encode_entry_type(t, customs) ==
  LET predefined == Predefined(t.id, customs)
      own(s) == [s EXCEPT !.defs = SelectSeq(@, LAMBDA f :
                   \A i \in Named(predefined, s.name) : ~Contains(predefined[i].defs, f))]
  IN IF ~Known(t.id, customs) THEN default_type
     ELSE [t EXCEPT !.sections = SelectSeq([i \in DOMAIN @ |-> own(@[i])], LAMBDA s : s.defs # <<>>)]

(* modify_entry_type_after_decoding: the additions behind the definition    *)
(* the type has by now.                                                     *)
decode_entry_type(stored, customs) ==
  LET add(sections, s) ==
        IF Named(sections, s.name) = {} THEN Append(sections, s)
        ELSE [i \in DOMAIN sections |-> IF sections[i].name = s.name
                                        THEN [s EXCEPT !.defs = sections[i].defs \o @] ELSE sections[i]]
  IN IF stored = default_type \/ ~Known(stored.id, customs) THEN default_type
     ELSE [stored EXCEPT !.sections = FoldLeft(add, Predefined(stored.id, customs), @)]

(* The items of an entry's custom data that tell its type. An entry has one *)
(* of the first two or, when it is a plain login, none; `list' are the      *)
(* types its versions refer to, and `index' is such a reference.            *)
NoTypeData == [type |-> None, data |-> None, list |-> <<>>, index |-> None]

copy_to_custom_data(cd, t, customs) ==
  LET plain == [cd EXCEPT !.type = None, !.data = None]
      definition == IF t.id \in DOMAIN customs THEN [id |-> t.id, sections |-> customs[t.id]]
                    ELSE standard_type_by_id(t.id)
  IN IF changed(t, definition) THEN [plain EXCEPT !.data = encode_entry_type(t, customs)]
     ELSE IF t.id = LOGIN THEN plain ELSE [plain EXCEPT !.type = t.id]

deserialize_to_entry_type(cd, customs) ==
  CASE cd.type # None -> IF cd.type \in DOMAIN customs
                         THEN [id |-> cd.type, sections |-> customs[cd.type]]
                         ELSE standard_type_by_id(cd.type)
    [] cd.type = None /\ cd.data # None -> decode_entry_type(cd.data, customs)
    [] OTHER -> default_type
=============================================================================
