------------------------------ MODULE DbStore ------------------------------
(***************************************************************************)
(* The store of open databases: db_service.rs and db_service/io.rs.        *)
(*                                                                         *)
(* A process-wide map db_key -> KdbxContext sits behind one mutex and the  *)
(* per-database encryption keys sit in a key store behind another.  A call *)
(* of the service takes the mutex once or several times; each time is one  *)
(* step here, so calls of different threads interleave between the steps.  *)
(* The content of a database is the set of edits it holds: content, locked *)
(* ciphertext, file and checksum can then be compared by inclusion.  Two   *)
(* writes of one content differ in their random seeds, and their checksums *)
(* too, in the code; they are the same file here.                          *)
(***************************************************************************)
EXTENDS FiniteSets

CONSTANTS
    Threads,      \* threads of the client that call the service
    Keys,         \* db keys: full file names, each also naming a file
    Edits,        \* edits that can ever be made: the bound on changes
    EncKeys,      \* session encryption keys: the bound on keys in use
    Calls,        \* the calls this client makes, by function name
    LockedCalls,  \* those it makes on a database that is locked too
    Targets,      \* new names it gives: "unused", "itself" or "open" ones
    Failures,     \* whether a write and a merge may fail, also halfway
    Absent,       \* None, a missing file, a missing map entry
    Torn          \* a file that exists and is no database (an empty one)

ASSUME AbsentAssumption ==
    /\ \A S \in SUBSET Edits : S # Absent /\ S # Torn
    /\ Absent \notin Keys
    /\ Absent \notin EncKeys
    /\ Torn # Absent
    /\ Failures \in BOOLEAN

VARIABLES
    store,     \* the main store: db key -> context, or Absent
    keystore,  \* the key store: db key -> session encryption key, or Absent
    disk,      \* file name -> content of the file, Torn or Absent
    call,      \* thread -> the call it is in and where
    used,      \* edits made so far, by this program or another one
    poisoned   \* a call panicked while it held the store's mutex

vars == <<store, keystore, disk, call, used, poisoned>>

Content == SUBSET Edits

\* locked_content_blob: the content, sealed under the session key of lock time
Blob == [data : Content, enc_key : EncKeys]

\* KdbxContext with the KdbxFile in it; enc_key is the session key that
\* composite_key is encrypted with, checksum the content last seen in the file
Context == [file_name    : Keys,
            content      : {Absent} \cup Content,
            blob         : {Absent} \cup Blob,
            locked       : BOOLEAN,
            save_pending : BOOLEAN,
            checksum     : {Absent} \cup Content,
            enc_key      : EncKeys]

\* None is neither a context nor a sealed content
ASSUME NoneAssumption == Absent \notin Context /\ Absent \notin Blob

Sections == {"idle", "mark", "insert", "create", "create_save", "merge",
             "merge_close", "save_as_write", "rename", "move", "restore",
             "close_all"}

Call == [pc      : Sections,
         key     : {Absent} \cup Keys,
         other   : {Absent} \cup Keys,
         data    : Content,
         enc_key : {Absent} \cup EncKeys,
         rest    : SUBSET Keys]

\* What a call between its sections is about
CallOK(c) ==
    /\ c.pc \notin {"idle", "close_all"} => c.key \in Keys
    /\ c.pc \in {"merge", "save_as_write", "rename", "move"} => c.other \in Keys
    /\ c.pc \in {"insert", "create"} => c.enc_key \in EncKeys

\* Type invariant
TypeOK ==
    /\ store \in [Keys -> {Absent} \cup Context]
    /\ keystore \in [Keys -> {Absent} \cup EncKeys]
    /\ disk \in [Keys -> {Absent, Torn} \cup Content]
    /\ call \in [Threads -> Call] /\ \A t \in Threads : CallOK(call[t])
    /\ used \in SUBSET Edits
    /\ poisoned \in BOOLEAN

-----------------------------------------------------------------------------
(* Contexts, keys and files *)

Open(k) == store[k] # Absent

Locked(k) == Open(k) /\ store[k].locked

Readable(f) == disk[f] \notin {Absent, Torn}

NewContext(f, data, sum, id) ==
    [file_name |-> f, content |-> data, blob |-> Absent, locked |-> FALSE,
     save_pending |-> FALSE, checksum |-> sum, enc_key |-> id]

\* The context after a change of its content
Changed(c, edits) == [c EXCEPT !.content = @ \cup edits]

\* decrypt_composite_key succeeds: the key is there and is the right one
HasKey(c) == keystore[c.file_name] = c.enc_key

\* write_db: refused without content; the keys are computed before any write
Writable(c) == c.content # Absent /\ HasKey(c)

\* Variant: only the presence of the file is checked
Unmodified_PresentOnly(c) == Readable(c.file_name)

\* verify_db_file_checksum
Unmodified(c) == Readable(c.file_name) /\ disk[c.file_name] = c.checksum

\* The context after its content went to its own file
Saved(c) == [c EXCEPT !.save_pending = FALSE, !.checksum = c.content]

\* The content of a context, in the clear or sealed
Held(c) == IF c.content # Absent THEN c.content
           ELSE IF c.blob # Absent THEN c.blob.data ELSE {}

EncKeysInUse ==
    {keystore[k] : k \in Keys}
      \cup {store[k].enc_key : k \in {j \in Keys : Open(j)}}
      \cup {store[k].blob.enc_key : k \in {j \in Keys : Open(j) /\ store[j].blob # Absent}}
      \cup {call[t].enc_key : t \in Threads}

FreshEncKeys == EncKeys \ EncKeysInUse

-----------------------------------------------------------------------------
(* Calls *)

Idle == [pc |-> "idle", key |-> Absent, other |-> Absent, data |-> {},
         enc_key |-> Absent, rest |-> {}]

Init ==
    /\ store = [k \in Keys |-> Absent]
    /\ keystore = [k \in Keys |-> Absent]
    /\ disk \in [Keys -> {{}, Absent}]
    /\ call = [t \in Threads |-> Idle]
    /\ used = {}
    /\ poisoned = FALSE

\* Thread t starts call op on database k
Begin(t, op, k) ==
    /\ ~poisoned
    /\ call[t] = Idle
    /\ op \in Calls
    /\ Locked(k) => op \in LockedCalls

\* Thread t takes the mutex again, at section p of its call
At(t, p) == ~poisoned /\ call[t].pc = p

Goto(t, p, k) == call' = [call EXCEPT ![t] = [Idle EXCEPT !.pc = p, !.key = k]]

Return(t) == call' = [call EXCEPT ![t] = Idle]

-----------------------------------------------------------------------------
(* Changing the content: main_content_mut_action! and its second section *)

\* First section: the closure changes the content, or it (or the lookup) fails
Edit(t, k) ==
    /\ Begin(t, "edit", k)
    /\ \/ /\ Open(k) /\ store[k].content # Absent
          /\ \E e \in Edits \ used :
                /\ store' = [store EXCEPT ![k] = Changed(store[k], {e})]
                /\ used' = used \cup {e}
       \/ UNCHANGED <<store, used>>
    /\ Goto(t, "mark", k)
    /\ UNCHANGED <<keystore, disk, poisoned>>

\* Variant: the new session key is not stored
SetCredentials_KeyNotStored(t, k) ==
    /\ Begin(t, "set_db_settings", k)
    /\ Open(k) /\ store[k].content # Absent
    /\ \E e \in Edits \ used, id \in FreshEncKeys :
          /\ store' = [store EXCEPT ![k] = [Changed(store[k], {e}) EXCEPT !.enc_key = id]]
          /\ used' = used \cup {e}
    /\ Goto(t, "mark", k)
    /\ UNCHANGED <<keystore, disk, poisoned>>

\* set_db_settings with new credentials: meta changes, a new session key
SetCredentials(t, k) ==
    /\ Begin(t, "set_db_settings", k)
    /\ Open(k) /\ store[k].content # Absent
    /\ \E e \in Edits \ used, id \in FreshEncKeys :
          /\ store' = [store EXCEPT ![k] = [Changed(store[k], {e}) EXCEPT !.enc_key = id]]
          /\ keystore' = [keystore EXCEPT ![k] = id]
          /\ used' = used \cup {e}
    /\ Goto(t, "mark", k)
    /\ UNCHANGED <<disk, poisoned>>

\* Variant: the second section has no effect
Mark_Nothing(t) ==
    /\ At(t, "mark")
    /\ Return(t)
    /\ UNCHANGED <<store, keystore, disk, used, poisoned>>

\* Second section: runs even when the first one failed
Mark(t) ==
    /\ At(t, "mark")
    /\ LET k == call[t].key IN
          store' = IF Open(k) THEN [store EXCEPT ![k].save_pending = TRUE] ELSE store
    /\ Return(t)
    /\ UNCHANGED <<keystore, disk, used, poisoned>>

-----------------------------------------------------------------------------
(* Opening and creating *)

\* read_db_from_reader: the file is read, then its new session key is stored
ReadFile(t, k, target) ==
    /\ Readable(k)
    /\ \E id \in FreshEncKeys :
          /\ keystore' = [keystore EXCEPT ![k] = id]
          /\ call' = [call EXCEPT ![t] =
                        [Idle EXCEPT !.pc = "insert", !.key = k, !.other = target,
                                     !.data = disk[k], !.enc_key = id]]
    /\ UNCHANGED <<store, disk, used, poisoned>>

Load(t, k) == Begin(t, "load_kdbx", k) /\ ReadFile(t, k, Absent)

\* The context replaces whatever the map held under the key
Insert(t) ==
    /\ At(t, "insert")
    /\ LET c == call[t] IN
          /\ store' = [store EXCEPT ![c.key] = NewContext(c.key, c.data, c.data, c.enc_key)]
          /\ call' = [call EXCEPT ![t] = IF c.other = Absent THEN Idle
                                         ELSE [c EXCEPT !.pc = "merge", !.data = {}]]
    /\ UNCHANGED <<keystore, disk, used, poisoned>>

\* create_kdbx: new_db.create stores the key, then insert, then the first save
Create(t, k) ==
    /\ Begin(t, "create_kdbx", k)
    /\ \E id \in FreshEncKeys :
          /\ keystore' = [keystore EXCEPT ![k] = id]
          /\ call' = [call EXCEPT ![t] = [Idle EXCEPT !.pc = "create", !.key = k, !.enc_key = id]]
    /\ UNCHANGED <<store, disk, used, poisoned>>

CreateInsert(t) ==
    /\ At(t, "create")
    /\ LET c == call[t] IN
          /\ store' = [store EXCEPT ![c.key] = NewContext(c.key, {}, Absent, c.enc_key)]
          /\ Goto(t, "create_save", c.key)
    /\ UNCHANGED <<keystore, disk, used, poisoned>>

-----------------------------------------------------------------------------
(* Saving *)

\* Variant: the file is opened with truncate, as the backup is
Write_Truncates(k, overwrite, backup) ==
    LET c == store[k]
        f == c.file_name
        refused == ~Writable(c) \/ ~(overwrite \/ Unmodified(c))
    IN /\ disk' = [disk EXCEPT ![f] = IF refused THEN Torn ELSE c.content]
       /\ store' = IF refused THEN store ELSE [store EXCEPT ![k] = Saved(c)]

\* A write of context c to file f breaks off: fs::copy has truncated the file, or
\* the write in place stands over the old content; or set_len, sync_all, fs::copy or
\* the reading of the checksum fails when all of the content is there.
BreaksOff(c, f) ==
    Writable(c) /\ \E left \in {Torn, c.content} : disk' = [disk EXCEPT ![f] = left]

\* write_kdbx_file_with_backup_file under the mutex, then save_pending = false.
\* Without a backup the file is created before it is verified and written.
\* An error leaves the flag and the checksum as they were, and the file too when
\* it or its backup could not be opened or the backup not be written.
Write(k, overwrite, backup) ==
    LET c == store[k]
        f == c.file_name
        refused == ~Writable(c) \/ ~(overwrite \/ Unmodified(c))
    IN \/ /\ ~refused
          /\ store' = [store EXCEPT ![k] = Saved(c)]
          /\ disk' = [disk EXCEPT ![f] = c.content]
       \/ /\ refused
          /\ disk' = IF ~backup /\ disk[f] = Absent THEN [disk EXCEPT ![f] = Torn] ELSE disk
          /\ UNCHANGED store
       \/ /\ Failures
          /\ UNCHANGED disk \/ (~refused /\ BreaksOff(c, f))
          /\ UNCHANGED store

Save(t, k, overwrite, backup) ==
    /\ Begin(t, IF overwrite THEN "save_overwrite" ELSE "save_kdbx", k)
    /\ Open(k)
    /\ Write(k, overwrite, backup)
    /\ UNCHANGED <<keystore, call, used, poisoned>>

\* save_all_modified_dbs_with_backups, one element of its list
SaveAll(t, k, backup) ==
    /\ Begin(t, "save_all", k)
    /\ Open(k) /\ ~store[k].locked /\ store[k].save_pending
    /\ Write(k, FALSE, backup)
    /\ UNCHANGED <<keystore, call, used, poisoned>>

\* The last section of create_kdbx: it fails when the database was closed
CreateSave(t) ==
    /\ At(t, "create_save")
    /\ LET k == call[t].key IN
       \/ Open(k) /\ Write(k, TRUE, FALSE)
       \/ ~Open(k) /\ UNCHANGED <<store, disk>>
    /\ Return(t)
    /\ UNCHANGED <<keystore, used, poisoned>>

\* save_to_db_file: the file is truncated before write_db can refuse
SaveToDbFile(t, k, f) ==
    /\ Begin(t, "save_to_db_file", k)
    /\ Open(k)
    /\ \/ disk' = [disk EXCEPT ![f] = IF Writable(store[k]) THEN store[k].content ELSE Torn]
       \/ Failures /\ (UNCHANGED disk \/ BreaksOff(store[k], f))
    /\ UNCHANGED <<store, keystore, call, used, poisoned>>

-----------------------------------------------------------------------------
(* Changing the db key *)

\* KeyStoreOperation::copy_key, then the call goes on at section p
CopyKey(t, k, n, p) ==
    /\ keystore' = IF keystore[k] = Absent THEN keystore
                   ELSE [keystore EXCEPT ![n] = keystore[k]]
    /\ call' = [call EXCEPT ![t] = [Idle EXCEPT !.pc = p, !.key = k, !.other = n]]
    /\ UNCHANGED <<store, disk, used, poisoned>>

\* What the new name n of database k is when the call starts
Target(k, n) == IF n = k THEN "itself" ELSE IF Open(n) THEN "open" ELSE "unused"

SaveAs(t, k, n) ==
    /\ Begin(t, "save_as_kdbx", k)
    /\ Target(k, n) \in Targets
    /\ CopyKey(t, k, n, "save_as_write")

Rename(t, k, n) ==
    /\ Begin(t, "rename_db_key", k)
    /\ Target(k, n) \in Targets
    /\ CopyKey(t, k, n, "rename")

Move(t) == call' = [call EXCEPT ![t].pc = "move"]

\* The file name changes before the write, and stays changed when it fails
SaveAsWrite(t) ==
    /\ At(t, "save_as_write")
    /\ LET k == call[t].key
           n == call[t].other
           c == [store[k] EXCEPT !.file_name = n]
       IN \/ ~Open(k) /\ Return(t) /\ UNCHANGED <<store, disk>>
          \/ /\ Open(k) /\ Writable(c)
             /\ store' = [store EXCEPT ![k] = Saved(c)]
             /\ disk' = [disk EXCEPT ![n] = c.content]
             /\ Move(t)
          \/ /\ Open(k) /\ ~Writable(c)
             /\ store' = [store EXCEPT ![k] = c]
             /\ disk' = IF disk[n] = Absent THEN [disk EXCEPT ![n] = Torn] ELSE disk
             /\ Return(t)
          \/ /\ Open(k) /\ Failures
             /\ store' = [store EXCEPT ![k] = c]
             /\ UNCHANGED disk \/ BreaksOff(c, n)
             /\ Return(t)
    /\ UNCHANGED <<keystore, used, poisoned>>

RenameFile(t) ==
    /\ At(t, "rename")
    /\ LET k == call[t].key IN
       \/ ~Open(k) /\ Return(t) /\ UNCHANGED store
       \/ /\ Open(k)
          /\ store' = [store EXCEPT ![k].file_name = call[t].other]
          /\ Move(t)
    /\ UNCHANGED <<keystore, disk, used, poisoned>>

\* The context moves to the new key if it is still there; the old key goes
MoveContext(t) ==
    /\ At(t, "move")
    /\ LET k == call[t].key
           n == call[t].other
       IN /\ store' = IF Open(k) THEN [[store EXCEPT ![k] = Absent] EXCEPT ![n] = store[k]]
                      ELSE store
          /\ keystore' = [keystore EXCEPT ![k] = Absent]
    /\ Return(t)
    /\ UNCHANGED <<disk, used, poisoned>>

-----------------------------------------------------------------------------
(* Closing *)

\* close_kdbx removes the context and then, still under the mutex, its key
Remove(k) ==
    /\ store' = [store EXCEPT ![k] = Absent]
    /\ keystore' = [keystore EXCEPT ![k] = Absent]

Close(t, k) ==
    /\ Begin(t, "close_kdbx", k)
    /\ Remove(k)
    /\ UNCHANGED <<disk, call, used, poisoned>>

\* close_all_databases lists the keys first and closes them one by one
CloseAll(t, k) ==
    /\ Begin(t, "close_all_databases", k)
    /\ Open(k)
    /\ call' = [call EXCEPT ![t] = [Idle EXCEPT !.pc = "close_all", !.rest = {j \in Keys : Open(j)}]]
    /\ UNCHANGED <<store, keystore, disk, used, poisoned>>

CloseNext(t) ==
    /\ At(t, "close_all")
    /\ \E k \in call[t].rest :
          /\ Remove(k)
          /\ call' = [call EXCEPT ![t] = IF call[t].rest = {k} THEN Idle
                                         ELSE [call[t] EXCEPT !.rest = @ \ {k}]]
    /\ UNCHANGED <<disk, used, poisoned>>

-----------------------------------------------------------------------------
(* Locking *)

\* Variant: a locked database is locked again
Lock_Again(t, k) ==
    /\ Begin(t, "lock_kdbx", k)
    /\ Open(k)
    /\ LET c == store[k] IN
       store' = [store EXCEPT ![k].content = Absent, ![k].locked = TRUE,
           ![k].blob = IF c.content = Absent THEN Absent
                       ELSE [data |-> c.content, enc_key |-> c.enc_key]]
    /\ UNCHANGED <<keystore, disk, call, used, poisoned>>

\* Variant: a missing session key is not noticed
Lock_NoKeyCheck(t, k) ==
    /\ Begin(t, "lock_kdbx", k)
    /\ Open(k) /\ ~store[k].locked /\ store[k].content # Absent
    /\ store' = [store EXCEPT ![k].content = Absent, ![k].locked = TRUE,
                    ![k].blob = [data |-> store[k].content, enc_key |-> keystore[k]]]
    /\ UNCHANGED <<keystore, disk, call, used, poisoned>>

\* lock_kdbx: lock_content takes the content out before anything can fail
Lock(t, k) ==
    /\ Begin(t, "lock_kdbx", k)
    /\ Open(k) /\ ~store[k].locked
    /\ LET c == store[k] IN
       store' = [store EXCEPT ![k] =
           IF c.content = Absent
           THEN [c EXCEPT !.blob = Absent, !.locked = TRUE]
           ELSE IF keystore[k] = Absent
           THEN [c EXCEPT !.content = Absent]
           ELSE [c EXCEPT !.content = Absent, !.locked = TRUE,
                          !.blob = [data |-> c.content, enc_key |-> keystore[k]]]]
    /\ UNCHANGED <<keystore, disk, call, used, poisoned>>

\* set_db_locked: the flag alone
SetLocked(t, k, locked) ==
    /\ Begin(t, "set_db_locked", k)
    /\ Open(k)
    /\ store' = [store EXCEPT ![k].locked = locked]
    /\ UNCHANGED <<keystore, disk, call, used, poisoned>>

\* Variant: the blob is read where it is and not taken out
RestoreLockedContent_BlobStays(k) ==
    LET c == store[k] IN
    store' = [store EXCEPT ![k].locked = FALSE,
                  ![k].content = IF c.blob = Absent THEN @ ELSE c.blob.data]

\* Variant: the context is rebuilt with default flags
RestoreLockedContent_FlagsReset(k) ==
    LET c == store[k] IN
    store' = [store EXCEPT ![k].locked = FALSE, ![k].save_pending = FALSE, ![k].blob = Absent,
                  ![k].content = IF c.blob = Absent THEN @ ELSE c.blob.data]

\* restore_locked_content: the blob is taken out before it is decrypted
RestoreLockedContent(k) ==
    LET c == store[k] IN
    store' = [store EXCEPT ![k] =
        IF c.blob = Absent THEN [c EXCEPT !.locked = FALSE]
        ELSE IF keystore[k] = c.blob.enc_key
        THEN [c EXCEPT !.content = c.blob.data, !.blob = Absent, !.locked = FALSE]
        ELSE [c EXCEPT !.blob = Absent]]

\* unlock_kdbx with the right credentials: compared first, restored later
UnlockCompare(t, k) ==
    /\ Begin(t, "unlock_kdbx", k)
    /\ Open(k) /\ HasKey(store[k])
    /\ Goto(t, "restore", k)
    /\ UNCHANGED <<store, keystore, disk, used, poisoned>>

UnlockRestore(t) ==
    /\ At(t, "restore")
    /\ LET k == call[t].key IN
       \/ Open(k) /\ RestoreLockedContent(k)
       \/ ~Open(k) /\ UNCHANGED store
    /\ Return(t)
    /\ UNCHANGED <<keystore, disk, used, poisoned>>

UnlockBiometric(t, k) ==
    /\ Begin(t, "unlock_kdbx_on_biometric_authentication", k)
    /\ Open(k)
    /\ RestoreLockedContent(k)
    /\ UNCHANGED <<keystore, disk, call, used, poisoned>>

-----------------------------------------------------------------------------
(* Taking in what another program wrote *)

\* db::reload decrypts the file at the db key with the stored composite key
Reloadable(k) == Open(k) /\ Readable(k) /\ HasKey(store[k])

\* Variant: a reloaded database counts as saved
Reload_Clears(t, k) ==
    /\ Begin(t, "reload_kdbx", k)
    /\ Reloadable(k)
    /\ store' = [store EXCEPT ![k].content = disk[k], ![k].checksum = disk[k],
                             ![k].save_pending = FALSE]
    /\ UNCHANGED <<keystore, disk, call, used, poisoned>>

\* reload_kdbx replaces the KdbxFile; flags and locked blob stay as they are
Reload(t, k) ==
    /\ Begin(t, "reload_kdbx", k)
    /\ Reloadable(k)
    /\ store' = [store EXCEPT ![k] = [store[k] EXCEPT !.content = disk[k], !.checksum = disk[k]]]
    /\ UNCHANGED <<keystore, disk, call, used, poisoned>>

\* Variant: the checksum is refreshed and the merged content dropped
MergeDisk_ChecksumOnly(t, k) ==
    /\ Begin(t, "merge_kdbx_with_disk_version", k)
    /\ Reloadable(k)
    /\ store' = [store EXCEPT ![k].checksum = disk[k], ![k].save_pending = TRUE]
    /\ UNCHANGED <<keystore, disk, call, used, poisoned>>

\* Merger::from_kdbx_file unwraps both contents: a panic when one is locked away
MergeDisk(t, k) ==
    /\ Begin(t, "merge_kdbx_with_disk_version", k)
    /\ Reloadable(k)
    /\ LET c == store[k] IN
       \/ /\ c.content # Absent
          /\ store' = [store EXCEPT ![k] = [Changed(c, disk[k]) EXCEPT
                                                  !.checksum = disk[k], !.save_pending = TRUE]]
          /\ UNCHANGED poisoned
       \/ /\ c.content # Absent /\ Failures
          /\ \E part \in SUBSET disk[k] : store' = [store EXCEPT ![k] = Changed(c, part)]
          /\ UNCHANGED poisoned
       \/ /\ c.content = Absent
          /\ poisoned' = TRUE
          /\ UNCHANGED store
    /\ UNCHANGED <<keystore, disk, call, used>>

\* merge_databases of source s into target k: opens the source if it is not open
Merge(t, k, s) ==
    /\ Begin(t, "merge_databases", k)
    /\ k # s /\ (Locked(s) => "merge_databases" \in LockedCalls)
    /\ \/ /\ Open(s)
          /\ call' = [call EXCEPT ![t] = [Idle EXCEPT !.pc = "merge", !.key = s, !.other = k]]
          /\ UNCHANGED <<store, keystore, disk, used, poisoned>>
       \/ ~Open(s) /\ ReadFile(t, s, k)

\* source_loaded: the source is closed again only when this merge opened it
AfterMerge(c) == IF c.enc_key = Absent THEN Idle ELSE [c EXCEPT !.pc = "merge_close"]

\* The merge proper.  An error returns at once: nothing is undone, and a source
\* opened for the merge stays open.  save_pending is not touched.
MergeApply(t) ==
    /\ At(t, "merge")
    /\ LET s == call[t].key
           k == call[t].other
           sealed == store[s].content = Absent \/ store[k].content = Absent
       IN \/ ~(Open(s) /\ Open(k)) /\ Return(t) /\ UNCHANGED <<store, poisoned>>
          \/ /\ Open(s) /\ Open(k) /\ ~sealed
             /\ store' = [store EXCEPT ![k] = Changed(store[k], store[s].content)]
             /\ call' = [call EXCEPT ![t] = AfterMerge(@)]
             /\ UNCHANGED poisoned
          \/ /\ Open(s) /\ Open(k) /\ ~sealed /\ Failures
             /\ \E part \in SUBSET store[s].content :
                   store' = [store EXCEPT ![k] = Changed(store[k], part)]
             /\ Return(t)
             /\ UNCHANGED poisoned
          \/ /\ Open(s) /\ Open(k) /\ sealed
             /\ poisoned' = TRUE
             /\ Return(t)
             /\ UNCHANGED store
    /\ UNCHANGED <<keystore, disk, used>>

\* The source that the merge opened is closed
MergeClose(t) ==
    /\ At(t, "merge_close")
    /\ Remove(call[t].key)
    /\ Return(t)
    /\ UNCHANGED <<disk, used, poisoned>>

\* Another program opens the file, makes an edit and writes it back
ExternalEdit(f) ==
    /\ Readable(f)
    /\ \E e \in Edits \ used :
          /\ disk' = [disk EXCEPT ![f] = @ \cup {e}]
          /\ used' = used \cup {e}
    /\ UNCHANGED <<store, keystore, call, poisoned>>

-----------------------------------------------------------------------------
Start(t, k) ==
    \/ Edit(t, k) \/ SetCredentials(t, k)
    \/ Load(t, k) \/ Create(t, k)
    \/ \E overwrite, backup \in BOOLEAN : Save(t, k, overwrite, backup)
    \/ \E backup \in BOOLEAN : SaveAll(t, k, backup)
    \/ \E n \in Keys : SaveToDbFile(t, k, n) \/ SaveAs(t, k, n) \/ Rename(t, k, n)
    \/ Close(t, k) \/ CloseAll(t, k)
    \/ Lock(t, k) \/ UnlockCompare(t, k) \/ UnlockBiometric(t, k)
    \/ \E locked \in BOOLEAN : SetLocked(t, k, locked)
    \/ Reload(t, k) \/ MergeDisk(t, k)
    \/ \E s \in Keys : Merge(t, k, s)

Continue(t) ==
    \/ Mark(t) \/ Insert(t) \/ CreateInsert(t) \/ CreateSave(t)
    \/ SaveAsWrite(t) \/ RenameFile(t) \/ MoveContext(t)
    \/ CloseNext(t) \/ UnlockRestore(t)
    \/ MergeApply(t) \/ MergeClose(t)

Next ==
    \/ \E t \in Threads : (\E k \in Keys : Start(t, k)) \/ Continue(t)
    \/ \E f \in Keys : ExternalEdit(f)

Spec == Init /\ [][Next]_vars

-----------------------------------------------------------------------------
(* Properties *)

AtRest == \A t \in Threads : call[t] = Idle

\* While a database is locked its content is there as ciphertext only, and
\* the ciphertext is gone once it is unlocked (KdbxContext.locked_content_blob).
LockedIsCiphertext ==
    \A k \in Keys : Open(k) /\ store[k].blob # Absent
                        => store[k].locked /\ store[k].content = Absent

\* The checksum of a context vouches for no edit that the context does not hold.
\* A context whose sealed content could not be decrypted again holds nothing, and
\* is refused by write_db.
SeenIsHeld ==
    \A k \in Keys :
        LET c == store[k] IN
        Open(k) /\ c.checksum # Absent /\ (c.content # Absent \/ c.blob # Absent)
            => c.checksum \subseteq Held(c)

\* Locking and unlocking keep the content: an open database always has it
\* somewhere in memory (lock_kdbx, restore_locked_content).
ContentHeld ==
    \A k \in Keys : Open(k) => store[k].content # Absent \/ store[k].blob # Absent

\* An edit that is not in the file yet is announced by save_pending, or the
\* thread that made it is about to do so: save-all skips nothing that changed.
UnsavedIsPending ==
    \A k \in Keys :
        LET c == store[k] IN
        Open(k) /\ ~(Held(c) \subseteq IF c.checksum = Absent THEN {} ELSE c.checksum)
            => c.save_pending \/ \E t \in Threads : call[t].pc = "mark" /\ call[t].key = k

\* Between calls the session key of every open database is in the key store:
\* without it the database can neither be saved nor locked nor unlocked.
KeyAvailable ==
    AtRest => \A k \in Keys : Open(k) => HasKey(store[k])

\* A save without overwrite keeps every edit that is in the file, whoever made
\* it: "file is not changed outside our app" (write_kdbx_file).  When the write
\* breaks off, the edits of the torn file are still in the open database.
SaveKeepsEdits ==
    \A t \in Threads, k \in Keys, backup \in BOOLEAN :
        Save(t, k, FALSE, backup) \/ SaveAll(t, k, backup)
            => \A f \in Keys : Readable(f) =>
                  disk[f] \subseteq IF Readable(f)' THEN disk'[f] ELSE Held(store'[k])

NoSilentOverwrite == [][SaveKeepsEdits]_vars

\* A file that was a database becomes unreadable only under a write that breaks
\* off half way, and what was to be written to it is still open, in the clear and
\* with its session key, so that it can be saved again.  A call that is refused
\* tears no file: write_db is "the single choke point for every save path".
TornHasSource ==
    \A f \in Keys :
        Readable(f) /\ ~Readable(f)'
            => \E k \in Keys :
                  (Open(k) /\ store[k].file_name = f /\ Writable(store[k]))'

FilesStayReadable == [][TornHasSource]_vars

\* save_pending of a context is cleared only by the step that brings all its
\* content to the file.
ClearedWhenWritten ==
    [][\A k \in Keys :
          Open(k) /\ Open(k)' /\ store'[k].enc_key = store[k].enc_key
            /\ store[k].save_pending /\ ~store'[k].save_pending
            => disk'[store'[k].file_name] = Held(store[k])]_vars

-----------------------------------------------------------------------------
(* The abstract specification *)

\* The context that is saved to file f
Named(f) == {k \in Keys : Open(k) /\ store[k].file_name = f}

OfContext(f, Value(_)) ==
    IF Named(f) = {} THEN Absent ELSE Value(store[CHOOSE k \in Named(f) : TRUE])

Checksum(c) == c.checksum

Docs == [f \in Keys |-> OfContext(f, Held)]
Seen == [f \in Keys |-> OfContext(f, Checksum)]

Editor == INSTANCE Sessions WITH Names <- Keys, doc <- Docs, seen <- Seen, file <- disk

\* For a client that keeps to the conventions the store behaves as an editor of
\* documents without locks, keys and several steps: locking, unlocking and the
\* steps between the sections of a call change no document.
BehavesAsEditor == Editor!Spec
=============================================================================
