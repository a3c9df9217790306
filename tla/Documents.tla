------------------------------ MODULE Documents -----------------------------
(* The content of one database over its file: another program wrote the     *)
(* document, the core opens it, edits it, locks and unlocks it, saves it.   *)
(* The file and the locked blob hold documents (XmlParse), the memory holds *)
(* what the reader made of them.                                            *)
EXTENDS XmlParse

CONSTANTS Foreign,      \* documents other programs wrote
          UnknownTags,  \* tags this program does not know
          MaxEdits      \* bound on the number of edits
ASSUME EditsAssumption == MaxEdits \in Nat

VARIABLES file,    \* the XML document in the database file
          mem,     \* the content in memory
          blob,    \* the XML document in the locked content
          stored,  \* what the document in the file says
          truth,   \* what the content in memory says
          edits
vars == <<file, mem, blob, stored, truth, edits>>

NoContent == [tag |-> "none"]

-----------------------------------------------------------------------------
(* What a document says, whoever reads it: the set of its texts, each with  *)
(* the place it stands at. Protected texts are decrypted in document order. *)
Step(e) ==
  LET named == SelectSeq(e.kids, LAMBDA k : k.tag \in {"Key", "UUID", "Window"})
  IN IF e.tag \in {"String", "Binary", "Item", "Icon", "DeletedObject", "Association", "Group", "Entry"}
        /\ named # <<>>
     THEN <<e.tag, named[1].text.of>> ELSE <<e.tag>>

(* Nothing is said by an element without content (unless its presence is    *)
(* what an unknown element says), by a default value, or by the name of the *)
(* program that wrote the document.                                         *)
Says(e) ==
  IF e.tag \in UnknownTags \/ e.attrs # <<>> THEN TRUE
  ELSE /\ e.text # Empty /\ e.tag # "Generator"
       /\ ~(e.tag = "QualityCheck" /\ e.text = Plain("True"))
       /\ ~(e.tag = "PreviousParentGroup" /\ e.text = Plain("nil"))
       /\ ~(e.tag = "MasterKeyChangeForceOnce" /\ e.text = Plain("False"))

Secret(e) == \E i \in DOMAIN e.attrs : e.attrs[i] \in {"Protected"} \X {"True", "true"}

RECURSIVE Gather(_, _, _)
Gather(e, path, p) ==
  LET here == path \o Step(e)
      protected == Secret(e) /\ e.text # Empty
      leaf == [path |-> here, attrs |-> e.attrs, text |-> IF protected THEN Decrypt(e.text, p) ELSE e.text.of]
  IN IF e.kids = <<>>
     THEN [said |-> IF Says(e) THEN {leaf} ELSE {}, pos |-> IF protected THEN p + 1 ELSE p]
     ELSE FoldLeft(LAMBDA acc, k : LET g == Gather(k, here, acc.pos)
                                   IN [said |-> acc.said \cup g.said, pos |-> g.pos],
                   [said |-> {}, pos |-> p], e.kids)
Said(doc) == Gather(doc, <<>>, 1).said

-----------------------------------------------------------------------------
Init == /\ file \in Foreign /\ stored = Said(file)
        /\ mem = NoContent /\ truth = {} /\ blob = NoContent /\ edits = 0

(* The maps keep no order: the strings of an entry and the items of custom  *)
(* data may stand in any.                                                   *)
RECURSIVE Rehashed(_)
Rehashed(n) ==
  [n EXCEPT !.blocks = [b \in DOMAIN @ |->
     LET kids == [i \in DOMAIN @[b] |-> Rehashed(@[b][i])]
     IN IF b \in {"String", "Item"} THEN Reverse(kids) ELSE kids]]

(* read_kdbx: the document of the file is read with the key stream of its   *)
(* inner header.                                                            *)
Open ==
  /\ mem = NoContent /\ blob = NoContent
  /\ LET r == parse(file, 1)
     IN r.ok /\ \E n \in {r.node, Rehashed(r.node)} : mem' = n
  /\ truth' = stored
  /\ UNCHANGED <<file, blob, stored, edits>>

Save ==
  /\ mem # NoContent
  /\ file' = write_xml(mem, 1) /\ stored' = truth
  /\ UNCHANGED <<mem, blob, truth, edits>>

Lock ==
  /\ mem # NoContent
  /\ blob' = write_xml(mem, 0) /\ mem' = NoContent
  /\ UNCHANGED <<file, stored, truth, edits>>

Unlock ==
  /\ blob # NoContent
  /\ LET r == parse(blob, 0)
     IN /\ r.ok
        /\ mem' = r.node
  /\ blob' = NoContent
  /\ UNCHANGED <<file, stored, truth, edits>>

Close ==
  /\ mem # NoContent \/ blob # NoContent
  /\ mem' = NoContent /\ blob' = NoContent /\ truth' = {}
  /\ UNCHANGED <<file, stored, edits>>

-----------------------------------------------------------------------------
(* Edits of the first entry of the root group, and new groups below the     *)
(* last group of the deepest level.                                         *)
RootGroup == mem.blocks["Root"][1].blocks["Group"][1]
HasEntry == RootGroup.blocks["Entry"] # <<>>
TheEntry == RootGroup.blocks["Entry"][1]
EntryPath == <<"KeePassFile", "Root", "Group", RootGroup.fields["UUID"], "Entry", TheEntry.fields["UUID"]>>
SetEntry(e) ==
  mem' = [mem EXCEPT !.blocks["Root"][1].blocks["Group"][1].blocks["Entry"][1] = e]
Under(path) == {l \in truth : IsPrefix(path, l.path)}

Edited == /\ mem # NoContent /\ edits < MaxEdits /\ edits' = edits + 1
          /\ UNCHANGED <<file, blob, stored>>

(* Entry::update: a copy of the entry, with what the core does not know of  *)
(* it, becomes a version, and a value changes.                              *)
UpdateEntry ==
  /\ Edited /\ HasEntry
  /\ LET e == TheEntry
         is == {i \in DOMAIN e.blocks["String"] : e.blocks["String"][i].protected
                                                  /\ e.blocks["String"][i].fields["Value"] # "new"}
         hist == IF e.blocks["History"] = <<>> THEN New("History") ELSE e.blocks["History"][1]
         copy == [e EXCEPT !.blocks["History"] = <<>>,
                           !.kept = SelectSeq(@, LAMBDA x : ~IsPrefix(<<"History">>, x.path))]
         own == Under(EntryPath) \ Under(EntryPath \o <<"History">>)
         copied == {[l EXCEPT !.path = EntryPath \o <<"History", "Entry", e.fields["UUID"]>>
                                       \o SubSeq(@, Len(EntryPath) + 1, Len(@))] : l \in own}
     IN \E i \in is :
          /\ SetEntry([e EXCEPT !.blocks["String"][i].fields["Value"] = "new",
                                !.blocks["History"] = <<[hist EXCEPT !.blocks["Entry"] = Append(@, copy)]>>])
          /\ LET valuePath == EntryPath \o <<"String", e.blocks["String"][i].fields["Key"], "Value">>
             IN truth' = {l \in truth : l.path # valuePath} \cup copied
                         \cup {[path |-> valuePath, attrs |-> << <<"Protected", "True">> >>, text |-> "new"]}

(* A field or a custom data item is removed; what was kept inside goes too. *)
RemoveField ==
  /\ Edited /\ HasEntry
  /\ \E i \in DOMAIN TheEntry.blocks["String"] :
       /\ SetEntry([TheEntry EXCEPT !.blocks["String"] = RemoveAt(@, i)])
       /\ truth' = truth \ Under(EntryPath \o <<"String", TheEntry.blocks["String"][i].fields["Key"]>>)

(* delete_history_entries *)
DeleteHistory ==
  /\ Edited /\ HasEntry /\ TheEntry.blocks["History"] # <<>>
  /\ SetEntry([TheEntry EXCEPT !.blocks["History"][1].blocks["Entry"] = <<>>])
  /\ truth' = truth \ Under(EntryPath \o <<"History", "Entry">>)

(* insert_group: a group below the last group of the deepest level.         *)
RECURSIVE WithGroup(_, _)
WithGroup(g, uuid) ==
  LET subs == g.blocks["Group"]
      new == [New("Group") EXCEPT !.fields["UUID"] = uuid, !.parent = g.fields["UUID"]]
  IN IF subs = <<>> THEN [g EXCEPT !.blocks["Group"] = <<new>>]
     ELSE [g EXCEPT !.blocks["Group"][Len(subs)] = WithGroup(@, uuid)]
InsertGroup ==
  /\ Edited
  /\ mem' = [mem EXCEPT !.blocks["Root"][1].blocks["Group"][1] = WithGroup(@, ToString(edits))]
  /\ UNCHANGED truth

Next == \/ Open \/ Save \/ Lock \/ Unlock \/ Close
        \/ UpdateEntry \/ RemoveField \/ DeleteHistory \/ InsertGroup

Spec == Init /\ [][Next]_vars

-----------------------------------------------------------------------------
(* Everything a document said when it was opened, and the user did not      *)
(* remove since, is said by the document that is saved: the fields this     *)
(* program knows, the elements it does not know at the place they stood,    *)
(* and every protected value at its place in the key stream.                *)
NothingLost == stored \subseteq Said(file)

(* What the core writes, to the file or to the locked content, it can read  *)
(* again, and it would write the same document again.                       *)
WrittenReadsBack ==
  /\ mem # NoContent => LET doc == write_xml(mem, 1)
                            saved == parse(doc, 1)
                        IN saved.ok /\ write_xml(saved.node, 1) = doc
  /\ blob # NoContent => parse(blob, 0).ok

(* Every entry knows the group it stands in, whatever the order of the      *)
(* elements of that group.                                                  *)
RECURSIVE EntriesPlaced(_)
EntriesPlaced(g) ==
  /\ \A i \in DOMAIN g.blocks["Entry"] : g.blocks["Entry"][i].parent = g.fields["UUID"]
  /\ \A i \in DOMAIN g.blocks["Group"] : EntriesPlaced(g.blocks["Group"][i])
EntriesKnowTheirGroup == mem # NoContent => EntriesPlaced(RootGroup)
=============================================================================
