------------------------------ MODULE Contents ------------------------------
(* What an open database holds besides its tree, over its file: one entry   *)
(* with its versions, its types and its attachments, the custom types of    *)
(* the database, and the bytes of all attachments. Two devices have a copy  *)
(* each. The content is read, edited, merged, locked and written.           *)
EXTENDS EntryHistory, Attachments

CONSTANTS Devices,
          Calls,      \* the calls the client of each device makes
          OriginalFile, \* the file both copies are made from
          Forms,      \* the types a form may give the entry on each device
          Documents,  \* what is attached on each device, as sequences of bytes
          CustomTypes,\* custom types that may be made, as a function from ids to sections
          Limits,     \* history limits
          MaxTime, MaxEdits

VARIABLES files,  \* the file of each device
          dbs,    \* its content in memory
          sets,   \* its attachments
          blobs,  \* its content while it is locked
          clock, edits
vars == <<files, dbs, sets, blobs, clock, edits>>

(* A file as the program writes it: every content once, and the references  *)
(* of an entry and its versions are to what the user had attached to them.  *)
VersionFields == {"type", "cd", "time", "history", "share", "bins", "was"}
InFile(binaries) ==
  [b \in [index_ref : 0 .. Len(binaries) - 1, data_hash : {NoHash}] |-> binaries[b.index_ref + 1]]

Attached(version, meaning) ==
  /\ DOMAIN version = VersionFields /\ version.time \in Nat
  /\ version.bins \in Seq(DOMAIN meaning)
  /\ version.was.docs = [i \in DOMAIN version.bins |-> meaning[version.bins[i]]]
AllAttached(versions, meaning) ==
  versions \in Seq(ToSet(versions)) /\ \A v \in ToSet(versions) : Attached(v, meaning)

Stored(file) ==
  /\ file.binaries \in Seq(ToSet(file.binaries)) /\ IsInjective(file.binaries)
  /\ DOMAIN file.db = {"customs", "type_map", "limits", "entry"}
  /\ Attached(file.db.entry, InFile(file.binaries))
  /\ AllAttached(file.db.entry.history, InFile(file.binaries))

ASSUME FileAssumption == Stored(OriginalFile)
ASSUME DocumentsAssumption == \A d \in Devices : \A doc \in Documents[d] : doc \in Seq(ToSet(doc))

-----------------------------------------------------------------------------
Closed == [at |-> "closed"]
Opened(d) == dbs[d] # Closed

(* The entry's own types and limits come from the share of the database it  *)
(* was read in: one that a merge brought keeps the share of its source.     *)
Own == <<>>
ShareOf(db) == [customs |-> db.customs, limits |-> db.limits]
Share(db) == IF db.entry.share = Own THEN ShareOf(db) ELSE Head(db.entry.share)

-----------------------------------------------------------------------------
(* read_xml_content, after_xml_reading: `set' is what the attachment set    *)
(* was before.                                                              *)
Read(file, before) ==
  LET set == read_binaries(before, file.binaries)
      e == set_attachment_hashes(file.db.entry, set.index_ref_hash)
      customs == file.db.type_map
  IN [set |-> set,
      db |-> [file.db EXCEPT !.customs = customs,
                             !.entry = [e EXCEPT !.share = Own,
                                                 !.type = deserialize_to_entry_type(e.cd, customs)]]]

(* What of a content its XML keeps: the positions of attachments, and the   *)
(* custom types as they were written last.                                  *)
InXml(db) == [db EXCEPT !.customs = <<>>,
                        !.entry = OnReferences([@ EXCEPT !.share = Own],
                                               LAMBDA b : [b EXCEPT !.data_hash = NoHash])]

(* write_compressed_encrypted_payload with before_xml_writing.              *)
copy_to_type_map(db) == IF db.customs = <<>> THEN db.type_map ELSE db.customs
Write(db, before) ==
  LET written == write_all_bytes(before, get_attachment_hashes(db.entry))
      after == [db EXCEPT !.type_map = copy_to_type_map(db),
                          !.entry = set_attachment_index_refs(@, written.set.hash_index_ref)]
  IN [db |-> after, set |-> written.set,
      file |-> [binaries |-> written.binaries, db |-> InXml(after)]]

-----------------------------------------------------------------------------
Init ==
  /\ files = [d \in Devices |-> OriginalFile]
  /\ dbs = [d \in Devices |-> Closed] /\ blobs = [d \in Devices |-> Closed]
  /\ sets = [d \in Devices |-> NoAttachments]
  /\ clock = OriginalFile.db.entry.time /\ edits = 0

Called(d, call) == call \in Calls[d]

Open(d) ==
  /\ ~Opened(d) /\ blobs[d] = Closed
  /\ LET r == Read(files[d], NoAttachments)
     IN dbs' = [dbs EXCEPT ![d] = r.db] /\ sets' = [sets EXCEPT ![d] = r.set]
  /\ UNCHANGED <<files, blobs, clock, edits>>

Close(d) ==
  /\ Opened(d)
  /\ dbs' = [dbs EXCEPT ![d] = Closed] /\ sets' = [sets EXCEPT ![d] = NoAttachments]
  /\ UNCHANGED <<files, blobs, clock, edits>>

Save(d) ==
  /\ Opened(d)
  /\ LET w == Write(dbs[d], sets[d])
     IN /\ dbs' = [dbs EXCEPT ![d] = w.db] /\ sets' = [sets EXCEPT ![d] = w.set]
        /\ files' = [files EXCEPT ![d] = w.file]
  /\ UNCHANGED <<blobs, clock, edits>>

(* reload_kdbx reads the file with a clone of the KdbxFile in memory.       *)
Reload(d) ==
  /\ Called(d, "reload") /\ Opened(d)
  /\ LET r == Read(files[d], sets[d])
     IN dbs' = [dbs EXCEPT ![d] = r.db] /\ sets' = [sets EXCEPT ![d] = r.set]
  /\ UNCHANGED <<files, blobs, clock, edits>>

-----------------------------------------------------------------------------
Edited(d, db) == dbs' = [dbs EXCEPT ![d] = db]
EditsLeft(d, call) == Called(d, call) /\ Opened(d) /\ edits < MaxEdits /\ edits' = edits + 1

Upload(d) ==
  /\ Called(d, "upload") /\ Opened(d)
  /\ \E data \in UNION {ToSet(doc) : doc \in Documents[d]} \ sets[d].attachments :
       sets' = [sets EXCEPT ![d] = insert(@, data)]
  /\ UNCHANGED <<files, dbs, blobs, clock, edits>>

(* The form names what the entry has attached by its hash, with the         *)
(* position it had, and what was uploaded by its hash alone.                *)
Reference(e, hash) ==
  LET known == {i \in DOMAIN e.bins : e.bins[i].data_hash = hash}
  IN IF known # {} THEN e.bins[Min(known)] ELSE [index_ref |-> 0, data_hash |-> hash]

(* `was' is what the form said, and whether the entry's share knew the type.*)
UpdateEntry(d) ==
  /\ EditsLeft(d, "update")
  /\ \E type \in Forms[d], doc \in Documents[d], now \in clock .. clock + 1 :
       LET e == dbs[d].entry
           share == Share(dbs[d])
           form == [type |-> type, bins |-> [i \in DOMAIN doc |-> Reference(e, doc[i])]]
           e2 == update(e, form, share.customs, share.limits, now)
           was == [type |-> type, docs |-> doc, known |-> Known(type.id, share.customs)]
       IN /\ now <= MaxTime /\ clock' = now
          /\ ToSet(doc) \subseteq sets[d].attachments
          /\ type.id \in DOMAIN UUID_TO_ENTRY_TYPE_MAP \cup DOMAIN dbs[d].customs
          /\ Edited(d, [dbs[d] EXCEPT !.entry = [e2 EXCEPT !.was = was]])
  /\ UNCHANGED <<files, sets, blobs>>

DeleteVersions(d) ==
  /\ EditsLeft(d, "delete_history")
  /\ LET e == dbs[d].entry
     IN \/ \E i \in DOMAIN e.history :
             Edited(d, [dbs[d] EXCEPT !.entry = delete_history_entry_by_index(e, i)])
        \/ e.history # <<>> /\ Edited(d, [dbs[d] EXCEPT !.entry = delete_history_entries(e)])
  /\ UNCHANGED <<files, sets, blobs, clock>>

(* Meta::update from the form of the settings, and maintain_all_histories.  *)
SetLimits(d) ==
  /\ EditsLeft(d, "set_limits")
  /\ \E l \in Limits \ {dbs[d].limits} :
       Edited(d, [dbs[d] EXCEPT !.limits = l, !.entry = maintain_history(@, l)])
  /\ UNCHANGED <<files, sets, blobs, clock>>

InsertCustomType(d) ==
  /\ EditsLeft(d, "insert_type")
  /\ \E id \in DOMAIN CustomTypes \ DOMAIN dbs[d].customs :
       Edited(d, [dbs[d] EXCEPT !.customs = (id :> CustomTypes[id]) @@ @])
  /\ UNCHANGED <<files, sets, blobs, clock>>

DeleteCustomType(d) ==
  /\ EditsLeft(d, "delete_type")
  /\ \E id \in DOMAIN dbs[d].customs :
       /\ ~(dbs[d].entry.type.id = id /\ id \in DOMAIN Share(dbs[d]).customs)
       /\ Edited(d, [dbs[d] EXCEPT !.customs = [i \in DOMAIN @ \ {id} |-> @[i]]])
  /\ UNCHANGED <<files, sets, blobs, clock>>

-----------------------------------------------------------------------------
Lock(d) ==
  /\ Called(d, "lock") /\ Opened(d)
  /\ blobs' = [blobs EXCEPT ![d] = [xml |-> InXml(dbs[d]), attachments |-> sets[d].attachments]]
  /\ dbs' = [dbs EXCEPT ![d] = Closed]
  /\ sets' = [sets EXCEPT ![d].attachments = {}]
  /\ UNCHANGED <<files, clock, edits>>

(* Relinked with the positions of the attachments when they were read.      *)
Unlock(d) ==
  /\ blobs[d] # Closed
  /\ sets' = [sets EXCEPT ![d].attachments = blobs[d].attachments]
  /\ dbs' = [dbs EXCEPT ![d] =
       Read([binaries |-> <<>>, db |-> blobs[d].xml], sets'[d]).db]
  /\ blobs' = [blobs EXCEPT ![d] = Closed]
  /\ UNCHANGED <<files, clock, edits>>

-----------------------------------------------------------------------------
(* Meta::merge_custom_data: the source's map of custom types replaces the   *)
(* target's, as it was written last, and not the types in use.              *)
merge_custom_data(target, source) ==
  [target EXCEPT !.type_map = IF source.type_map = <<>> THEN @ ELSE source.type_map]

merge_entry(target, source) ==
  LET ours == target.entry
      theirs == [source.entry EXCEPT !.share = IF @ = Own THEN <<ShareOf(source)>> ELSE @]
      known == \E i \in DOMAIN ours.history : ours.history[i].time = theirs.time
  IN IF ours.time < theirs.time
     THEN [target EXCEPT !.entry = merge_histories(ours, theirs, Share(target).limits)]
     ELSE IF ours.time = theirs.time \/ known THEN target
     ELSE [target EXCEPT !.entry = merge_histories(theirs, ours, Share(source).limits)]

Merge(target, source) ==
  LET merged == merge_entry(merge_custom_data(target, source), source)
  IN [merged EXCEPT !.entry = maintain_history(@, target.limits)]

MergeFrom(d, r) ==
  /\ sets' = [sets EXCEPT ![d] = insert_or_update_with_attachmentset(@, r.set)]
  /\ Edited(d, Merge(dbs[d], r.db))
  /\ UNCHANGED <<files, blobs, clock>>

(* merge_databases: the other database is opened for the merge.             *)
MergeDatabases(d) ==
  /\ EditsLeft(d, "merge")
  /\ \E s \in Devices \ {d} : MergeFrom(d, Read(files[s], NoAttachments))

(* merge_kdbx_with_disk_version, merge_kdbx_with_reader: the other version  *)
(* is read with a clone of the KdbxFile in memory.                          *)
MergeDisk(d) ==
  /\ \E s \in Devices :
       /\ EditsLeft(d, IF s = d THEN "merge_disk" ELSE "merge_reader")
       /\ MergeFrom(d, Read(files[s], sets[d]))

Next == \E d \in Devices :
          \/ Open(d) \/ Close(d) \/ Save(d) \/ Reload(d) \/ Lock(d) \/ Unlock(d)
          \/ Upload(d) \/ UpdateEntry(d) \/ DeleteVersions(d) \/ SetLimits(d)
          \/ InsertCustomType(d) \/ DeleteCustomType(d) \/ MergeDatabases(d) \/ MergeDisk(d)

Spec == Init /\ [][Next]_vars

-----------------------------------------------------------------------------
Everything(e) == <<e>> \o e.history

(* The user finds at every version what it had attached when it was the     *)
(* present one, and the bytes of it.                                        *)
AttachmentsKept ==
  \A d \in Devices : Opened(d) =>
    LET all == Everything(dbs[d].entry)
    IN \A i \in DOMAIN all :
         /\ [j \in DOMAIN all[i].bins |-> all[i].bins[j].data_hash] = all[i].was.docs
         /\ \A j \in DOMAIN all[i].bins : get_bytes_content(sets[d], all[i].bins[j].data_hash) # <<>>

(* The entry and every version of it are shown with the type they had when  *)
(* they were made, unless the entry's share did not know that type then, or *)
(* the database does not know it any more.                                  *)
TypesKept ==
  \A d \in Devices : Opened(d) =>
    LET e == dbs[d].entry
        customs == Share(dbs[d]).customs
        Kept(v) == v.was.known /\ Known(v.was.type.id, customs)
    IN /\ Kept(e) => e.type = e.was.type
       /\ \A i \in DOMAIN e.history :
            Kept(e.history[i]) => history_entry_by_index(e, i, customs) = e.history[i].was.type

=============================================================================
