------------------------------ MODULE XmlParse ------------------------------
(* The XML inside a database file (src/xml_parse.rs): what the reader keeps *)
(* of a document that this or another program wrote, and what the writer    *)
(* puts back.                                                               *)
(*                                                                          *)
(* An element is [tag, attrs, text, kids]. A text is [pos, of]: pos = 0 for *)
(* plain text, otherwise `of' encrypted with the pos-th piece of the inner  *)
(* key stream, which all protected values share in the order they stand.    *)
(* In memory an owner or a child of it is a node: its fields (tag |-> value)*)
(* its known children (tag |-> sequence of nodes) and `kept', the unknown   *)
(* elements read below it, each with the path it stood at.                  *)
EXTENDS Naturals, Sequences, SequencesExt, FiniteSets

CONSTANT MaxXmlDepth    \* MAX_XML_DEPTH
ASSUME DepthAssumption == MaxXmlDepth \in Nat

Plain(s) == [pos |-> 0, of |-> s]
Empty == Plain("")
Elem(tag, attrs, text, kids) == [tag |-> tag, attrs |-> attrs, text |-> text, kids |-> kids]

(* A stream position: 0 when there is no cipher (the locked content). *)
Decrypt(text, p) == IF p = 0 THEN text.of ELSE IF text.pos = p THEN text.of ELSE "garbled"
Encrypt(s, p) == [pos |-> p, of |-> s]
Advance(p) == IF p = 0 THEN 0 ELSE p + 1

-----------------------------------------------------------------------------
(* The values of text elements. A value that cannot be read falls back.     *)
content_to_FlagIsBool(type, s) ==
  CASE type \in {"bool", "flag"} -> IF s \in {"True", "true"} THEN "True" ELSE "False"
    [] type = "int"  -> IF s = "junk" THEN "-1" ELSE s
    [] OTHER -> s
content_to(type, s) ==
  CASE type = "bool" -> IF s \in {"True", "true"} THEN "True" ELSE "False"
    [] type = "flag" -> IF s \in {"null", "Null"} THEN "null"
                        ELSE IF s \in {"True", "true"} THEN "True" ELSE "False"
    [] type = "int"  -> IF s = "junk" THEN "-1" ELSE s
    [] type = "date" -> IF s = "junk" THEN "epoch" ELSE s
    [] type = "uuid" -> IF s = "junk" THEN "nil" ELSE s
    [] OTHER -> s

(* The text elements each reader lists, with the type it gives them.        *)
MetaFields ==
  [t \in {"Generator", "DatabaseName", "DatabaseDescription", "DefaultUserName", "Color"} |-> "text"]
  @@ [t \in {"LastSelectedGroup", "LastTopVisibleGroup", "RecycleBinUUID", "EntryTemplatesGroup"} |-> "uuid"]
  @@ [t \in {"MasterKeyChangeRec", "MasterKeyChangeForce", "HistoryMaxItems", "HistoryMaxSize",
             "MaintenanceHistoryDays"} |-> "int"]
  @@ [t \in {"MasterKeyChangeForceOnce", "RecycleBinEnabled"} |-> "bool"]
  @@ [t \in {"RecycleBinChanged", "EntryTemplatesGroupChanged", "DatabaseNameChanged",
             "DatabaseDescriptionChanged", "DefaultUserNameChanged", "SettingsChanged",
             "MasterKeyChanged"} |-> "date"]
MemoryProtectionFields ==
  [t \in {"ProtectTitle", "ProtectUserName", "ProtectPassword", "ProtectURL", "ProtectNotes"} |-> "bool"]
IconFields == "UUID" :> "uuid" @@ "Data" :> "text" @@ "Name" :> "text" @@ "LastModificationTime" :> "date"
ItemFields == "Key" :> "text" @@ "Value" :> "text" @@ "LastModificationTime" :> "date"
DeletedObjectFields == "UUID" :> "uuid" @@ "DeletionTime" :> "date"
GroupFields ==
  [t \in {"Name", "Notes", "Tags", "DefaultAutoTypeSequence"} |-> "text"]
  @@ [t \in {"UUID", "LastTopVisibleEntry", "PreviousParentGroup", "CustomIconUUID"} |-> "uuid"]
  @@ [t \in {"EnableAutoType", "EnableSearching"} |-> "flag"]
  @@ "IconID" :> "int" @@ "IsExpanded" :> "bool"
EntryFields ==
  [t \in {"Tags", "ForegroundColor", "BackgroundColor", "OverrideURL"} |-> "text"]
  @@ [t \in {"UUID", "PreviousParentGroup", "CustomIconUUID"} |-> "uuid"]
  @@ "IconID" :> "int" @@ "QualityCheck" :> "bool"
StringFields == "Key" :> "text" @@ "Value" :> "protected"
BinaryFields == "Key" :> "text" @@ "Value" :> "ref"
AutoTypeFields == "Enabled" :> "bool" @@ "DefaultSequence" :> "text" @@ "DataTransferObfuscation" :> "int"
AssociationFields == "Window" :> "text" @@ "KeystrokeSequence" :> "text"
TimesFields ==
  [t \in {"ExpiryTime", "LastModificationTime", "CreationTime", "LastAccessTime", "LocationChanged"} |-> "date"]
  @@ "Expires" :> "bool" @@ "UsageCount" :> "int"

Fields(t) ==
  CASE t = "Meta" -> MetaFields            [] t = "MemoryProtection" -> MemoryProtectionFields
    [] t = "Icon" -> IconFields            [] t = "Item" -> ItemFields
    [] t = "DeletedObject" -> DeletedObjectFields
    [] t = "Group" -> GroupFields          [] t = "Entry" -> EntryFields
    [] t = "String" -> StringFields        [] t = "Binary" -> BinaryFields
    [] t = "AutoType" -> AutoTypeFields    [] t = "Association" -> AssociationFields
    [] t = "Times" -> TimesFields          [] OTHER -> <<>>

(* The child elements each reader descends into.                            *)
Blocks(t) ==
  CASE t = "KeePassFile" -> {"Meta", "Root"}
    [] t = "Meta" -> {"MemoryProtection", "CustomIcons", "CustomData"}
    [] t = "CustomIcons" -> {"Icon"}
    [] t = "CustomData" -> {"Item"}
    [] t = "Root" -> {"Group", "DeletedObjects"}
    [] t = "DeletedObjects" -> {"DeletedObject"}
    [] t = "Group" -> {"Times", "Group", "Entry", "CustomData"}
    [] t = "Entry" -> {"Times", "String", "Binary", "History", "CustomData", "AutoType"}
    [] t = "History" -> {"Entry"}
    [] t = "AutoType" -> {"Association"}
    [] OTHER -> {}

Owners == {"KeePassFile", "Meta", "Root", "Group", "Entry"}
KeyTag == [t \in {"String", "Binary", "Item"} |-> "Key"]
          @@ [t \in {"Icon", "DeletedObject"} |-> "UUID"]

(* Structs the readers start from: only the values a document may omit and  *)
(* that differ from an empty one are named.                                 *)
DefaultOf(t, f) ==
  CASE t = "Entry" /\ f = "QualityCheck" -> "True"
    [] t = "AutoType" /\ f = "Enabled" -> "True"
    [] t = "MemoryProtection" /\ f = "ProtectPassword" -> "True"
    [] t = "Meta" /\ f \in {"MasterKeyChangeRec", "MasterKeyChangeForce"} -> "-1"
    [] t \in {"Icon", "Item"} /\ f = "LastModificationTime" -> ""
    [] t = "Icon" /\ f = "Name" -> ""
    [] f = "CustomIconUUID" -> ""
    [] t = "Group" /\ f \in {"EnableAutoType", "EnableSearching"} -> "null"
    [] t = "Binary" /\ f = "Value" -> "-1"
    [] Fields(t)[f] = "bool" -> "False"
    [] Fields(t)[f] = "int" -> "0"
    [] Fields(t)[f] = "uuid" -> "nil"
    [] Fields(t)[f] = "date" -> "now"
    [] OTHER -> ""
New(t) == [tag |-> t, kept |-> <<>>, protected |-> FALSE, parent |-> "nil",
           fields |-> [f \in DOMAIN Fields(t) |-> DefaultOf(t, f)],
           blocks |-> [b \in Blocks(t) |-> <<>>]]

-----------------------------------------------------------------------------
(* The reader. A result carries the stream position `pos' and ok, FALSE     *)
(* after an error.                                                          *)
Attr(e, name) == IF e.attrs = <<>> \/ Last(e.attrs)[1] # name THEN "" ELSE Last(e.attrs)[2]
is_value_protected(e) == Attr(e, "Protected") = "True"
attachment_ref_index(e) == IF Attr(e, "Ref") = "" THEN "-1" ELSE Attr(e, "Ref")
is_protected_leaf_Exact(e) ==
  /\ e.kids = <<>>
  /\ \E i \in DOMAIN e.attrs : e.attrs[i] = <<"Protected", "True">>
is_protected_leaf(e) ==
  /\ e.kids = <<>>
  /\ \E i \in DOMAIN e.attrs : e.attrs[i][1] = "Protected" /\ e.attrs[i][2] \in {"True", "true"}

RECURSIVE read_unknown_element(_, _, _)
read_unknown_element(e, p, depth) ==
  IF e.kids = <<>>
  THEN LET leaf == is_protected_leaf(e) /\ e.text # Empty /\ p # 0
       IN [elem |-> IF leaf THEN [e EXCEPT !.text = Plain(Decrypt(@, p))] ELSE e,
           pos |-> IF leaf THEN Advance(p) ELSE p,
           ok |-> depth < MaxXmlDepth]
  ELSE FoldLeft(LAMBDA acc, k :
                  LET u == read_unknown_element(k, acc.pos, depth + 1)
                  IN [elem |-> [acc.elem EXCEPT !.kids = Append(@, u.elem)],
                      pos |-> u.pos, ok |-> acc.ok /\ u.ok],
                [elem |-> [e EXCEPT !.kids = <<>>], pos |-> p, ok |-> depth < MaxXmlDepth], e.kids)

(* A text element the reader lists. An element without content has no value.*)
ReadField(acc, k) ==
  LET type == Fields(acc.node.tag)[k.tag]
      secret == type = "protected" /\ is_value_protected(k)
      set(v) == [acc EXCEPT !.node.fields[k.tag] = v]
  IN CASE type = "ref" -> set(attachment_ref_index(k))
       [] k.text = Empty -> [acc EXCEPT !.node.protected = @ \/ secret]
       [] secret -> [acc EXCEPT !.node.fields[k.tag] = Decrypt(k.text, acc.pos),
                                !.node.protected = TRUE, !.pos = Advance(@)]
       [] OTHER -> set(content_to(type, k.text.of))

KeyOf(n, i) == IF n.tag = "Association" THEN ToString(i) ELSE n.fields[KeyTag[n.tag]]
Keyed(t) == t = "Association" \/ t \in DOMAIN KeyTag
(* Where the unknown elements of a finished child go in its parent.         *)
Prefixed(n, i) ==
  LET prefix == IF Keyed(n.tag) THEN <<n.tag, KeyOf(n, i)>> ELSE <<n.tag>>
  IN IF n.tag \in Owners THEN <<>>
     ELSE [j \in DOMAIN n.kept |-> [n.kept[j] EXCEPT !.path = prefix \o @]]

(* A finished child enters its parent: String and Item replace one with     *)
(* their key, History, AutoType and the root group the previous one.        *)
Replaces(t, b) == \/ b \in {"Meta", "Root", "History", "AutoType"}
                  \/ t = "Root" /\ b = "Group"
AddBlock(n, child) ==
  LET b == child.tag
      c == IF child.tag \in Owners THEN child ELSE [child EXCEPT !.kept = <<>>]
      placed == IF b \in {"Group", "Entry"} /\ n.tag = "Group"
                THEN [c EXCEPT !.parent = n.fields["UUID"]] ELSE c
      old == IF Replaces(n.tag, b) THEN <<>>
             ELSE IF b \in {"String", "Item"}
                  THEN SelectSeq(n.blocks[b], LAMBDA x : x.fields["Key"] # c.fields["Key"])
                  ELSE n.blocks[b]
  IN [n EXCEPT !.blocks[b] = Append(old, placed),
               !.kept = @ \o Prefixed(child, Len(n.blocks[b]))]

(* The end of a group: entries read before its UUID get their parent now.   *)
EndGroup_AsRead(n) == n
EndGroup(n) ==
  IF n.tag # "Group" THEN n
  ELSE [n EXCEPT !.blocks["Entry"] = [i \in DOMAIN @ |-> [@[i] EXCEPT !.parent = n.fields["UUID"]]]]

(* Times, MemoryProtection, CustomIcons, CustomData and DeletedObjects are  *)
(* read into the struct their owner has.                                    *)
Into(n, b) == IF b \in {"Times", "MemoryProtection", "CustomIcons", "CustomData", "DeletedObjects"}
                 /\ n.blocks[b] # <<>> THEN n.blocks[b][1] ELSE New(b)

(* read_tags!: a listed text element, a listed child, or an unknown element *)
(* which is kept where it stands. A listed child without content is skipped.*)
RECURSIVE ReadTags(_, _, _, _)
ReadTags(start, e, p, depth) ==
  LET child(acc, k) ==
        CASE k.tag \in DOMAIN Fields(e.tag) -> ReadField(acc, k)
          [] k.tag \in Blocks(e.tag) /\ k.kids = <<>> -> acc
          [] k.tag \in Blocks(e.tag) /\ k.kids # <<>> ->
               LET into == Into(acc.node, k.tag)
                   r == ReadTags(into, k, acc.pos, depth + 1)
                   n == IF into = New(k.tag) THEN acc.node
                        ELSE [acc.node EXCEPT !.blocks[k.tag] = <<>>]
               IN [node |-> AddBlock(n, r.node), pos |-> r.pos, ok |-> acc.ok /\ r.ok]
          [] OTHER ->
               LET u == read_unknown_element(k, acc.pos, depth + 1)
               IN [node |-> [acc.node EXCEPT !.kept = Append(@, [path |-> <<>>, elem |-> u.elem])],
                   pos |-> u.pos, ok |-> acc.ok /\ u.ok]
      r == FoldLeft(child, [node |-> start, pos |-> p, ok |-> depth < MaxXmlDepth], e.kids)
  IN [r EXCEPT !.node = EndGroup(@)]

(* The whole document, with the key stream at p (0: no cipher).             *)
parse(e, p) == ReadTags(New("KeePassFile"), e, p, 0)

-----------------------------------------------------------------------------
(* The writer: what it writes in each element, in its order. "*" stands for *)
(* the unknown elements kept for this place.                                *)
write_times == <<"LastModificationTime", "CreationTime", "LastAccessTime", "LocationChanged",
                 "ExpiryTime", "Expires", "UsageCount", "*">>
write_meta ==
  <<"Generator", "DatabaseName", "DatabaseNameChanged", "DatabaseDescription", "DatabaseDescriptionChanged",
    "DefaultUserName", "DefaultUserNameChanged", "MaintenanceHistoryDays", "Color", "MasterKeyChanged",
    "MasterKeyChangeRec", "MasterKeyChangeForce", "MasterKeyChangeForceOnce", "MemoryProtection", "CustomIcons",
    "RecycleBinEnabled", "RecycleBinUUID", "RecycleBinChanged", "EntryTemplatesGroup",
    "EntryTemplatesGroupChanged", "HistoryMaxItems", "HistoryMaxSize", "LastSelectedGroup",
    "LastTopVisibleGroup", "SettingsChanged", "CustomData", "*">>
write_memory_protection ==
  <<"ProtectTitle", "ProtectUserName", "ProtectPassword", "ProtectURL", "ProtectNotes", "*">>
write_custom_icons == <<"UUID", "Data", "Name", "LastModificationTime", "*">>
write_custom_data == <<"Key", "Value", "LastModificationTime", "*">>
write_deleted_objects == <<"UUID", "DeletionTime", "*">>
write_group ==
  <<"UUID", "Name", "Notes", "Tags", "IconID", "CustomIconUUID", "Times", "IsExpanded",
    "DefaultAutoTypeSequence", "EnableAutoType", "EnableSearching", "LastTopVisibleEntry", "CustomData",
    "PreviousParentGroup", "*", "Entry", "Group">>
write_entry_auto_type ==
  <<"Enabled", "DataTransferObfuscation", "DefaultSequence", "Association", "*">>
write_entry_data ==
  <<"UUID", "IconID", "CustomIconUUID", "ForegroundColor", "BackgroundColor", "OverrideURL", "Tags", "Times",
    "QualityCheck", "PreviousParentGroup", "String", "Binary", "AutoType", "CustomData", "*", "History">>
write_history == <<"Entry", "*">>
write_root == <<"Group", "DeletedObjects", "*">>

WriteOrder(t) ==
  CASE t = "KeePassFile" -> <<"Meta", "Root", "*">>
    [] t = "Meta" -> write_meta            [] t = "MemoryProtection" -> write_memory_protection
    [] t = "CustomIcons" -> <<"Icon", "*">> [] t = "Icon" -> write_custom_icons
    [] t = "CustomData" -> <<"Item", "*">>  [] t = "Item" -> write_custom_data
    [] t = "Root" -> write_root
    [] t = "DeletedObjects" -> <<"DeletedObject", "*">>
    [] t = "DeletedObject" -> write_deleted_objects
    [] t = "Group" -> write_group          [] t = "Times" -> write_times
    [] t = "Entry" -> write_entry_data     [] t = "AutoType" -> write_entry_auto_type
    [] t = "Association" -> <<"Window", "KeystrokeSequence", "*">>
    [] t = "History" -> write_history      [] OTHER -> <<"Key", "Value", "*">>

(* Elements that are written only when they say something.                  *)
Skipped(t, f, v) ==
  \/ t = "Meta" /\ f = "MasterKeyChangeForceOnce" /\ v = "False"
  \/ t = "Icon" /\ f \in {"Name", "LastModificationTime"} /\ v = ""
  \/ t = "Group" /\ f = "Tags" /\ v = ""
  \/ f = "CustomIconUUID" /\ v = ""
  \/ f = "PreviousParentGroup" /\ v = "nil"
  \/ t = "Entry" /\ f = "QualityCheck" /\ v = "True"

WriteField(n, f, p) ==
  LET v == n.fields[f]
      secret == Fields(n.tag)[f] = "protected" /\ n.protected
      attrs == IF secret THEN << <<"Protected", "True">> >>
               ELSE IF Fields(n.tag)[f] = "ref" THEN << <<"Ref", v>> >> ELSE <<>>
      text == CASE Fields(n.tag)[f] = "ref" -> Empty
                [] n.tag = "Meta" /\ f = "Generator" -> Plain("core")
                [] secret /\ v # "" -> Encrypt(v, p)
                [] OTHER -> Plain(v)
  IN [elem |-> Elem(f, attrs, text, <<>>), pos |-> IF secret /\ v # "" THEN Advance(p) ELSE p]

(* write_unknown_elements: back as read, protected leaves encrypted again.  *)
RECURSIVE WriteUnknown(_, _)
WriteUnknown(e, p) ==
  IF e.kids = <<>>
  THEN LET leaf == is_protected_leaf(e) /\ e.text # Empty /\ p # 0
       IN [elem |-> IF leaf THEN [e EXCEPT !.text = Encrypt(@.of, p)] ELSE e,
           pos |-> IF leaf THEN Advance(p) ELSE p]
  ELSE FoldLeft(LAMBDA acc, k : LET u == WriteUnknown(k, acc.pos)
                                IN [elem |-> [acc.elem EXCEPT !.kids = Append(@, u.elem)], pos |-> u.pos],
                [elem |-> [e EXCEPT !.kids = <<>>], pos |-> p], e.kids)

(* PendingUnknowns: the elements kept at, and below, a path.                *)
take(kept) == SelectSeq(kept, LAMBDA x : x.path = <<>>)
Below(kept, prefix) ==
  LET there == SelectSeq(kept, LAMBDA x : IsPrefix(prefix, x.path))
  IN [i \in DOMAIN there |-> [there[i] EXCEPT !.path = SubSeq(@, Len(prefix) + 1, Len(@))]]

(* Containers that are not written when empty, unless an unknown element    *)
(* has its place there.                                                     *)
OnlyIfFilled == {"CustomIcons", "CustomData", "DeletedObjects"}
HasBelow(n, b) == Below(n.kept, <<b>>) # <<>>
ChildrenToWrite(n, b) ==
  LET there == n.blocks[b]
      one == IF there = <<>> THEN <<New(b)>> ELSE there
      filled == b \in OnlyIfFilled
  IN CASE filled /\ one[1].blocks = New(b).blocks /\ ~HasBelow(n, b) -> <<>>
       [] filled \/ b \in {"Times", "MemoryProtection", "AutoType", "History", "Meta", "Root"} -> one
       [] OTHER -> there

RECURSIVE WriteNode(_, _, _)
WriteNode(n, p, inHistory) ==
  LET slot(acc, s) ==
        CASE s = "*" ->
               FoldLeft(LAMBDA a, x : LET u == WriteUnknown(x.elem, a.pos)
                                      IN [elem |-> [a.elem EXCEPT !.kids = Append(@, u.elem)], pos |-> u.pos],
                        acc, take(n.kept))
          [] s \in DOMAIN n.fields ->
               LET w == WriteField(n, s, acc.pos)
               IN IF Skipped(n.tag, s, n.fields[s]) THEN acc
                  ELSE [elem |-> [acc.elem EXCEPT !.kids = Append(@, w.elem)], pos |-> w.pos]
          [] s = "History" /\ inHistory -> acc
          [] OTHER ->
               LET kids == ChildrenToWrite(n, s)
                   handed(i) == IF s \in Owners THEN kids[i].kept
                                ELSE IF Keyed(s) THEN Below(n.kept, <<s, KeyOf(kids[i], i - 1)>>)
                                ELSE Below(n.kept, <<s>>)
               IN FoldLeft(LAMBDA a, i :
                             LET w == WriteNode([kids[i] EXCEPT !.kept = handed(i)], a.pos,
                                                s = "Entry" /\ n.tag = "History")
                             IN [elem |-> [a.elem EXCEPT !.kids = Append(@, w.elem)], pos |-> w.pos],
                           acc, [i \in 1..Len(kids) |-> i])
  IN FoldLeft(slot, [elem |-> Elem(n.tag, <<>>, Empty, <<>>), pos |-> p], WriteOrder(n.tag))

(* write_xml, with the key stream at p (0: no cipher).                      *)
write_xml(n, p) == WriteNode(n, p, FALSE).elem
=============================================================================
