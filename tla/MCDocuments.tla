---------------------------- MODULE MCDocuments -----------------------------
(* Documents of other programs: one with every element the core knows; the  *)
(* same with an element it does not know in front of, or behind, the        *)
(* children of every element, or without the elements of a tag, or with the *)
(* UUID of a group at its end.                                              *)
EXTENDS Documents

MCUnknownTags == {"Foreign", "Part"}
T(tag, s) == Elem(tag, <<>>, Plain(s), <<>>)
E(tag, kids) == Elem(tag, <<>>, Empty, kids)
P(tag, s) == Elem(tag, << <<"Protected", "True">> >>, Plain(s), <<>>)
Texts(tags) == [i \in DOMAIN tags |-> T(tags[i], "t")]
Field(k, v) == E("String", <<T("Key", k), v>>)

TheTimes == E("Times", Texts(<<"CreationTime", "LastModificationTime", "LastAccessTime", "ExpiryTime",
                               "UsageCount", "LocationChanged">>) \o <<T("Expires", "True")>>)
Data == E("CustomData", <<E("Item", <<T("Key", "k"), T("Value", "v"), T("LastModificationTime", "t")>>)>>)
AutoType == E("AutoType", <<T("Enabled", "False"), T("DataTransferObfuscation", "1"), T("DefaultSequence", "s"),
                            E("Association", <<T("Window", "w"), T("KeystrokeSequence", "s")>>)>>)
Version == E("Entry", <<T("UUID", "e1"), T("IconID", "2"), TheTimes, Field("Title", T("Value", "old")),
                        Field("Password", P("Value", "p1"))>>)
TheEntryDoc ==
  E("Entry", Texts(<<"IconID", "CustomIconUUID", "ForegroundColor", "BackgroundColor", "OverrideURL", "Tags",
                     "PreviousParentGroup">>)
    \o <<T("UUID", "e1"), T("QualityCheck", "False"), TheTimes, Field("Password", P("Value", "p2")),
         Field("Title", T("Value", "title")), Field("Pin", P("Value", "p3")),
         E("Binary", <<T("Key", "file"), Elem("Value", << <<"Ref", "0">> >>, Empty, <<>>)>>),
         AutoType, Data, E("History", <<Version>>)>>)
Sub == E("Group", <<T("UUID", "g2"), T("Name", "n"), TheTimes,
                    E("Entry", <<T("UUID", "e2"), Field("Password", P("Value", "p4"))>>)>>)
TheGroup ==
  E("Group", <<T("UUID", "g1"), T("IsExpanded", "True"), T("EnableAutoType", "null"),
               T("EnableSearching", "False")>>
    \o Texts(<<"Name", "Notes", "Tags", "IconID", "CustomIconUUID", "DefaultAutoTypeSequence",
               "LastTopVisibleEntry", "PreviousParentGroup">>)
    \o <<TheTimes, Data, TheEntryDoc, Sub>>)
TheMeta ==
  E("Meta", <<T("Generator", "other"), T("RecycleBinEnabled", "True"), T("MasterKeyChangeForceOnce", "True")>>
    \o Texts(<<"DatabaseName", "DatabaseNameChanged", "DatabaseDescription", "DatabaseDescriptionChanged",
               "DefaultUserName", "DefaultUserNameChanged", "MaintenanceHistoryDays", "Color",
               "MasterKeyChanged", "MasterKeyChangeRec", "MasterKeyChangeForce", "RecycleBinUUID",
               "RecycleBinChanged", "EntryTemplatesGroup", "EntryTemplatesGroupChanged", "HistoryMaxItems",
               "HistoryMaxSize", "LastSelectedGroup", "LastTopVisibleGroup", "SettingsChanged">>)
    \o <<E("MemoryProtection", <<T("ProtectTitle", "True"), T("ProtectPassword", "False"), T("ProtectURL", "True"),
                                 T("ProtectUserName", "True"), T("ProtectNotes", "True")>>),
         E("CustomIcons", <<E("Icon", <<T("UUID", "i1"), T("Data", "d"), T("Name", "n"),
                                        T("LastModificationTime", "t")>>)>>), Data>>)
Base == E("KeePassFile",
          <<TheMeta, E("Root", <<TheGroup,
                                 E("DeletedObjects", <<E("DeletedObject", <<T("UUID", "o1"),
                                                                            T("DeletionTime", "t")>>)>>)>>)>>)

(* What a program this one does not know may add.                           *)
Unknowns == { P("Foreign", "secret"),
              E("Foreign", <<T("Part", "x"), Elem("Part", << <<"Protected", "true">> >>, Plain("s"), <<>>)>>),
              Elem("Foreign", << <<"Kind", "1">> >>, Empty, <<>>) }

RECURSIVE Everywhere(_, _, _, _)
Everywhere(e, front, back, without) ==
  IF e.kids = <<>> THEN e
  ELSE LET there == SelectSeq(e.kids, LAMBDA k : k.tag \notin without)
       IN [e EXCEPT !.kids = front \o [i \in DOMAIN there |-> Everywhere(there[i], front, back, without)] \o back]
Before(u) == Everywhere(Base, <<u>>, <<>>, {})
After(u) == Everywhere(Base, <<>>, <<u>>, {})
Without(tags) == Everywhere(Base, <<>>, <<>>, tags)

(* The elements an owner has beside its name and its children.              *)
Optional ==
  (UNION {DOMAIN Fields(t) : t \in {"Meta", "Group", "Entry", "Times"}} \ {"UUID"})
  \cup {"Times", "String", "Binary", "History", "CustomData", "AutoType", "MemoryProtection", "CustomIcons",
        "DeletedObjects"}
OnlyNames == Without(Optional)

(* The same with the UUID of the root group behind its entries.             *)
UuidLast ==
  LET g == TheGroup IN [Base EXCEPT !.kids[2].kids[1].kids = Append(RemoveAt(g.kids, 1), g.kids[1])]

(* The other program encrypts the protected values in document order.       *)
RECURSIVE Enciphered(_, _)
Enciphered(e, p) ==
  IF e.kids = <<>>
  THEN LET leaf == Secret(e) /\ e.text # Empty
       IN [elem |-> IF leaf THEN [e EXCEPT !.text = Encrypt(@.of, p)] ELSE e, pos |-> IF leaf THEN p + 1 ELSE p]
  ELSE FoldLeft(LAMBDA acc, k : LET r == Enciphered(k, acc.pos)
                                IN [elem |-> [acc.elem EXCEPT !.kids = Append(@, r.elem)], pos |-> r.pos],
                [elem |-> [e EXCEPT !.kids = <<>>], pos |-> p], e.kids)

MCForeign == {Enciphered(d, 1).elem :
                d \in {Base, UuidLast, OnlyNames} \cup {Before(u) : u \in Unknowns} \cup {After(u) : u \in Unknowns}
                      \cup {Without({t}) : t \in {"Times", "String", "History", "CustomData", "MemoryProtection"}}}
=============================================================================
