# kdbx-rust-core: verification project

kdbx-rust-core is the library behind a KeePass-compatible password manager. It
opens, edits, locks, merges and saves `.kdbx` databases for a desktop and a
mobile client. This directory holds TLA+ modules of its stateful core, the TLC
configurations that check them on small instances, and theorems about them that
TLAPS checks for every size. `PROJECT.json` lists the runs, the properties, the
source lines that every definition stands for, the hazards and the theorems.

Paths below are relative to the repository. All modules are read from the source
in `src/`; the client programs that call the library are not in the repository
and appear only as choices of which calls are made.

## 1. The system

| Component | Source | State | Operations | Hard behaviour |
|---|---|---|---|---|
| Store of open databases | `db_service.rs`, `db_service/io.rs` | a process-wide map `db_key -> KdbxContext` behind one mutex; per context the `KdbxFile`, `locked`, `locked_content_blob`, `save_pending`, the checksum of the file | open, create, edit, save, save all, save as, export, rename, close, lock, unlock, reload, merge | a call takes the mutex several times; other threads and other programs act in between; steps fail half way |
| Session keys | `db/key_secure.rs`, `db/mod.rs` | a second map `db_key -> key`, from which the composite key of a context is decrypted | store, copy, delete, look up | the two maps change in different steps |
| Files and their checksums | `db/mod.rs`, `db/kdbx_file.rs` | the file, a backup, the checksum last seen | read, verify, write through a backup | other programs write the file; a file is truncated before the write can be refused |
| Group tree and entries | `db_content/root.rs`, `group.rs`, `entry.rs`, `keepass.rs` | maps of groups and entries, lists of children, parent uuids, the recycle bin, deleted objects, histories | insert, edit, move, discard, delete, clone, sort, empty the bin | each place in the tree is written down twice; loops stop at the first error |
| Merge | `db_merge/merger.rs` | none of its own: it changes the target | merge of groups, entries, histories, deleted objects, Meta | times decide; copies meet in any order; a failure leaves the target half merged |
| Meta, custom data, icons | `db_content/meta.rs`, `custom_data.rs`, `custom_icons.rs` | settings, custom icons, entry types | merge, add, delete, remap | references to an icon that a merge keeps once |
| Attachments | `db/mod.rs` (`AttachmentSet`), `db_service/attachment.rs` | contents by hash, index <-> hash tables | upload, relink after reading, renumber before writing | entries refer by position, equal contents are kept once |
| Entry types and histories | `entry.rs`, `entry_type.rs`, `standard_entry_types.rs` | a list of encoded types per entry, an index into it per version | update, delete a version, merge, limit | indexes shift |
| File format | `db/reader_writer.rs`, `db/kdbx_file.rs` | cursor, header fields, block stream | read, write | a crash at any byte, two saves in one file, headers of other programs |
| XML | `xml_parse.rs`, `unknown_element.rs` | element stack, key stream | read, write | order of elements, unknown elements, one key stream for all protected values |
| Credentials | `db/file_key.rs`, `db/mod.rs`, `db/kdbx_file.rs` | password, key file and hardware hashes | set, change, compare | which of them are set after a change |
| Timers and polling | `async_service.rs` | timer and polling tables, a channel, tasks on a runtime | start, stop, tick, shut down | late ticks, a full channel, reused ids, a stop and a restart within a second |
| OTP | `otp.rs`, `time_otp.rs` | settings, in the url of a field or in several fields | set, remove, parse, token at a time | two formats in one entry, defaults that are not written |
| Forms | `form_data/entry.rs`, `form_data/parsing.rs` | none: a form is a copy of an entry | entry to form and back, place-holders | calls made while a form is open; cycles of place-holders |
| CSV import | `import/` | the records read last | read, map columns, import | columns and packed fields with the names of fields |
| Search, generator, autofill, browser extension, SSH agent | `searcher.rs`, `password_generator.rs`, `db_service/` | little | queries | mostly pure |
| Cryptography, utilities | `crypto/`, `util.rs`, `error.rs`, `constants.rs` | none | pure | outside of what a model of states can say |

How they interact: the client calls a function of `db_service`; it takes the
mutex of the store, finds the context and runs a closure on the `KeepassFile`
in it (`main_content_mut_action!`), then takes the mutex again to set
`save_pending`. Saving goes through `db::write_kdbx_file`, which compares the
file with the checksum in the context, computes the keys with the session key
of the key store and writes to a backup file that it then copies. Locking
encrypts the content with the session key and drops it; unlocking compares the
credentials and decrypts. A merge takes two `KdbxFile`s of the store, or one of
the store and one read from a file, and lets `Merger` change the first. Reading
a file goes through the block stream, the inner header with the attachments and
the XML reader; saving goes back the same way, with fresh seeds. A form is built
from an entry and becomes an entry again, which sends the old one to the history.
Polling tasks ask the store for the token of an entry once a second and send it
to the user interface over one channel.

What makes the parts correct:

- store: a locked database has no clear content in memory; a database that is
  open is never without content; nothing unsaved is forgotten; a save never
  silently drops what another program wrote; every open database keeps the key
  it needs; no call ruins a file or the mutex;
- tree: list and parent agree, all is reachable, entries leave only through the
  recycle bin and leave a deleted object, a call that fails changes nothing;
- merge: it completes, keeps every version, deletes only what was deleted, makes
  two copies equal after both directions, and does nothing when repeated;
- file: whatever stops a save, a complete database is on the disk, and what is
  read is what was written by one save; nothing of another program's file is lost;
- entry: each version keeps its type and its attachments; a form writes what was
  edited and nothing else; the one-time password keeps its settings;
- tasks: a shown token is the current one; what is cancelled ends; what is not
  keeps ticking.

## 2. The modules

| Module | What it is |
|---|---|
| `DbStore` | store, session keys and files as a state machine: one step for each time a call holds the mutex, any number of threads |
| `Sessions` | the abstract specification: an editor of documents that live in files others may edit, one step per operation, no locks or keys |
| `DbStoreProofs` | theorems about `DbStore` for all clients and for one desktop client, and that it implements `Sessions` |
| `Root` | the content of one database and its operations, as functions from content to result and content |
| `Merger` | the merge of one content into another, on top of `Root` |
| `RootProofs` | lemmas about `Root`: what walks meet, what each operation leaves behind, and that a tree stays a tree |
| `Replicas` | copies of a database, edited on devices and merged into each other: `Root` and `Merger` as a state machine |
| `ReplicasProofs` | theorems about `Replicas`: the tree, the recycle bin, deletions and what a merge keeps |
| `AsyncService` | timers, polling tasks and their channel as a state machine, with fairness |
| `AsyncServiceProofs` | theorems about `AsyncService`: its types, the tokens shown |
| `KdbxStream` | the file as a sequence of cells: header, hashes, blocks; reader and writer |
| `KdbxStreamProofs` | theorems about reader and writer: what is written reads back, and what reads back was written |
| `Saves` | one save taken apart, cell by cell, on top of `KdbxStream`, with crashes, losses of power and other programs |
| `SavesProofs` | theorems about `Saves`, on top of `KdbxStreamProofs` |
| `XmlParse` | the reader and the writer of the XML document of a database |
| `Documents` | a document of another program opened, edited, locked, unlocked and saved, on top of `XmlParse` |
| `EntryTypes`, `EntryHistory`, `Attachments` | the types of an entry, of its versions, and the attachment set, as functions |
| `Contents` | two devices, each with a file and a content in memory: the three above as a state machine |
| `ContentsProofs` | theorem about `Contents`: what is attached stays |
| `MetaMerge` | two devices, the icons, the settings and the references of entries, versions and a group to icons, merged in both directions |
| `MetaMergeProofs` | theorems about `MetaMerge`: the pictures a merge keeps, and that a second merge changes nothing |
| `Otp`, `Placeholders`, `EntryForm`, `CsvImport` | one-time passwords, place-holders, forms and csv records, as functions |
| `EntryFields` | the life of one entry's fields: the four above as a state machine |
| `MCDbStore`, `MCReplicas`, `MCSaves`, `MCDocuments`, `MCContents`, `MCMetaMerge`, `MCEntryFields` | the instances for TLC: which calls are made, on which data; `AsyncService` needs none |

### DbStore and the code

`store`, `keystore` and `disk` are the main store, the key store and the files.
`call[t]` says which call thread `t` is in and where it stands between two
sections that hold the mutex; `used` and `poisoned` count the edits made and
record a panic under the mutex. The content of a database is the set of edits
it holds, so that memory, ciphertext, file and checksum can be compared: data is
lost when a set gets smaller. `EncKeys` stands for session keys; a blob carries
the key it was sealed with and opens under no other.

| Action | Code |
|---|---|
| `Edit`, `Mark` | `main_content_mut_action!`: the change, then, under a second lock, `save_pending` |
| `SetCredentials` | `set_db_settings` with changed credentials, a new session key |
| `Load`, `Insert` | `load_kdbx`, `read_kdbx`: the key first, the context later |
| `Create`, `CreateInsert`, `CreateSave` | `create_kdbx` |
| `Save`, `SaveAll`, `SaveToDbFile` | `save_kdbx_with_backup`, `save_all_modified_dbs_with_backups`, `save_to_db_file` |
| `SaveAs`, `SaveAsWrite`, `MoveContext` | `save_as_kdbx`: copy the key, rename, write, move the context |
| `Rename`, `RenameFile` | `rename_db_key` |
| `Close`, `CloseAll`, `CloseNext` | `close_kdbx`, `close_all_databases` |
| `Lock`, `SetLocked`, `UnlockCompare`, `UnlockRestore`, `UnlockBiometric` | `lock_kdbx`, `set_db_locked`, `unlock_kdbx`, `unlock_kdbx_on_biometric_authentication` |
| `Reload`, `MergeDisk` | `reload_kdbx`, `merge_kdbx_with_disk_version` |
| `Merge`, `MergeApply`, `MergeClose` | `merge_databases` with a source that is open or is opened for the merge |
| `ExternalEdit` | another program: it adds an edit to a file |

`Calls` and `LockedCalls` are the calls a client makes, on any database and on a
locked one; `Targets` says which new names it gives; `Failures` lets a file fail
to open or to be written and a merge stop half way. A write that breaks off
(`BreaksOff`) leaves the file torn, since `fs::copy` truncates it first and a write in
place goes over the old content, or leaves it with all of the new content when only
the last steps failed; `save_pending` and the checksum are the old ones in both cases.

### Root, Merger, Replicas and the code

A content is a record of the two maps, the bin and the deleted objects. A group
keeps its lists, its parent and its times; an entry keeps its parent, its times
and its history. The rest of a group or entry is reduced to the time and device
of its last edit. An operation returns `[ok, db]`: whether the Rust method
returned `Ok`, and the content it leaves behind. The content of an `Err` is the
partly changed one where the code returns from the middle of a loop. Walks are
those of `group_visitor_action`: recursive functions of the depth (`Walk`, `Entered`), and a loop
that may return from its middle is one of the number of rounds (`ForEach`). One action of `Replicas` is one function of
`db_service.rs`; `MergeFrom` is `Merger::merge` for two copies of one database.

### AsyncService and the code

`ttls` and `timers` are the two tables (`entry_ttls`, `periodic_timers`), `sender`
the stored sender; `task` has a slot for each task that is alive and the place
between two sections at which it stands. `phase` and `epoch` are the clock as a
token sees it, `shown` what the user sees. A polling task that is behind has
`owed` ticks, which tokio's interval delivers at once.

| Action | Code |
|---|---|
| `InitEntryChannels`, `Receive` | `init_entry_channels`; the listener of the client |
| `StartPolling`, `BeginPolling`, `StopPolling` | `start_polling_entry_otp_fields` (the check and the insertion are two sections), `stop_polling_entry_otp_fields` and `..._all_entries_...` |
| `StartPeriodicTimer`, `SetTimeout`, `CancelTimer` | the functions of these names |
| `Shutdown`, `ShutdownPolling`, `StopSend`, `StopRemove` | `shutdown_async_services`, `send_stop_service_message` |
| `PollStart`, `PollSend`, `PollTick`, `PollReply` | `poll_token_generation`: `form_first_reply`, the sends, the tick with its check, `form_reply` |
| `TimerStart`, `TimerWake`, `TimeoutRemove`, `TimerSend` | `run_periodic_timer`, `run_specified_timeout`, `send_timer_reply` |
| `Second`, `ToggleReadable` | the clock; the database of the entries is locked, unlocked, closed or opened |

### Saves and the code

A cell is a piece of bytes that is written whole: the signature, the fields of
the header, a hash, the size of a block, a part of its data. `files` holds the
cells of the database file and of its backup, `synced` says which of them would
survive a loss of power, `op` is the save in progress. Two variables that no code reads
say which edits of other programs a save may lose: `window` holds those that came after
the file was verified for the save in progress or the last one, `adopted` those of them whose
checksum the open database then took for that of its own save.

| Action | Code |
|---|---|
| `Open`, `Edit` | `read_db_from_reader`; any edit |
| `BeginBackup`, `Write`, `EndBackup`, `Copy`, `EndCopy` | `write_kdbx_file_with_backup_file`: write the backup, sync it, verify the checksum, `fs::copy`, new checksum |
| `BeginInPlace`, `EndInPlace` | `write_kdbx_file`: verify, write over the old content, cut, sync |
| `BeginWriter`, `EndWriter`, `calculate_and_set_db_file_checksum` | `save_kdbx_to_writer` and the call after it, on mobile systems |
| `WriteFails`, `Crash`, `PowerLoss`, `WriteBack`, `ForeignEdit` | a write that fails; the process or the power stops; the system writes a file back; another program saves |

### Documents and the code

An XML element is a tag with attributes, a text and children. `XmlParse.parse` is
the reader with its element stack, its tables of known tags and what it keeps of
the others, `write_xml` the writer. A protected text is encrypted with the next
piece of the key stream, so that a reader that skips one garbles the next. The
truth about a document is `Said`, which reads it without the code's tables.
`Open`, `Save`, `Lock`, `Unlock`, `Close` are the store's operations on it, and
`UpdateEntry`, `RemoveField`, `DeleteHistory`, `InsertGroup` four that change each
kind of thing a document says.

### Contents and the code

`Open`, `Close`, `Save`, `Reload`, `Lock` and `Unlock` are the store's operations,
with `Read` (`read_xml_content`, `after_xml_reading`) and `Write`
(`before_xml_writing`, `write_all_bytes`). `Upload` is `upload_entry_attachment`,
`UpdateEntry` `Entry::update`, `DeleteVersions` the two deletions of history
entries, `SetLimits` `Meta::update` with `maintain_all_histories`, `InsertCustomType`
and `DeleteCustomType` those of the custom types, `MergeDatabases` and `MergeDisk`
the three merges (`merge_databases`, `merge_kdbx_with_disk_version`,
`merge_kdbx_with_reader`). Each version carries in `was` what the form said when it was
the present one, and whether the custom types that the entry shares had the type then;
no code reads that.

### MetaMerge and the code

`AddIcon`, `RemoveIcon` and `SetIcon` are the calls of `db_service/custom_icon.rs`,
`SaveForm` the forms of an entry or a group, `SaveSettings` `set_db_settings`,
`MergeFrom` the part of `Merger::merge` that touches icons and settings: `Meta::merge`,
then the group, the entries and the histories with every reference rewritten. The
bytes of an icon are compared where the code compares their hashes. `settings` stands
for the fields that `Meta::merge` takes over together. A new uuid is larger than all before.

### EntryFields and the code

A value is a sequence of tokens: a text, a place-holder, an `otpauth` url, an
encoded secret, a number. One action is one function of `db_service.rs` or
`import/`: `read_from_path`, `clear_stored_records`, `apply_imported_csv_data`,
`get_entry_form_data_by_id`, `update_entry_from_form_data`, `set_entry_otp`,
`delete_entry_otp`; `Edit` and `Discard` are the user's. A form may stay open while
one-time passwords are set or removed.

### Slips

In all modules an operator `X_Variant` stands before `X` and is `X` with one
plausible slip, such as a forgotten list or a dropped check. No specification
uses it. `PROJECT.json` pairs each with the property that the model violates
when it takes the place of `X`, which shows that the property depends on that
piece of code.

## 3. The runs

| Run | Instance | Shows |
|---|---|---|
| `OneClient` | 1 thread, 2 databases, 2 edits, 3 session keys; another program edits | `LockedIsCiphertext`, `ContentHeld`, `KeyAvailable`, and that the store implements `Sessions` (`BehavesAsEditor`) |
| `TwoClients` | 2 threads, 1 database, 3 edits, 2 session keys | `TypeOK`, `UnsavedIsPending`, `NoSilentOverwrite` in every interleaving of the sections of two calls |
| `AnyOrder` | 1 thread, 2 databases, renames to unused, open and own names, reloads, merges and the bare flag on locked databases too, files that do not open, writes that break off, merges that fail | `FilesStayReadable`, `ClearedWhenWritten` |
| `OneDevice` | 1 device, root with 1 group and 1 entry, up to 3 new uuids of 7, no bin at the start | `PlacesAgree`, `EntriesLeaveThroughBin`, `CallsWholeOrNothing` |
| `TwoDevices` | 2 devices, common bin, 1 group, 1 entry, 1 new uuid, 5 calls | `TypeOK`, `LiveIsNotDeleted`, `NothingUnreachable`, `MergeCompletes`, `MergeKeepsVersions`, `MergeRemovesOnlyDeleted`, `MergesConverge`, `MergeAgainChangesNothing` |
| `Polling` | 1 client, 1 entry, 1 timer id, handed out by the library or named by the client, 2 tasks, channel of 1 message, tokens of 2 seconds | `TypeOK`, `TokenIsCurrent`, and with fairness `CancelledTasksEnd`, `TimersTick` |
| `Saving` | 3 saves, 2 edits, blocks of 2 cells, the backup's disk may be full; compression off in the other program's file and on in its later saves | `Recoverable`, `NeverTorn`, `HeaderKept`, `ForeignEditsKept` |
| `Documents` | 14 documents: every element the core knows, the same with unknown elements (protected ones too) before or after the children of each, without some tags, with names only, with the `UUID` of a group at its end; 1 edit | `NothingLost`, `WrittenReadsBack`, `EntriesKnowTheirGroup` |
| `Versions` | 2 devices, an entry with 2 versions of different types, 2 attachments, a custom type, limits on the number and the size of versions, 4 edits | `AttachmentsKept`, `TypesKept` |
| `EntryFields` | 3 entries of KeePass and KeePassXC, one with a protected title, notes and own field, 3 csv files, 3 exporters, settings with and without a url, place-holders in a cycle and through a second entry, 2 orders of the fields | `TokenStays`, `PlaceholdersResolved`, `FormKeepsFields`, `MappedCellsKept` |
| `Icons` | 2 devices, an entry with an icon, a second entry, 2 contents of icons, 2 new icons, settings, 3 edits; one device adds and removes icons, the other uses them | `MergeKeepsPictures`, `MergeAgainChangesNothing` |
| `Reloaded` | `Versions` with one device that uploads, saves and reloads | a disagreement, section 5 |

Bounds and why they are enough:

- `Keys`: two names are needed by every call that has two (save as, rename,
  merge, close all); no call touches a third. With two threads one name is used,
  since the sections of calls on different names meet only in save as, rename
  and merge. `Edits`: two edits tell apart "mine" and "theirs", three let a third
  one arrive in between. `EncKeys`: one for each open database and one to change
  to; a step that would need one more is not taken. The bound on edits is in
  the guards of `Edit` and `ExternalEdit`.
- `AnyOrder` has no save as: with it the state space does not fit the time a run
  should take. That a save as under any name leaves a torn file only with its content open is the
  theorem `NoFileTorn`.
- `MaxUuid` bounds the uuids handed out. Three new uuids give a bin, a group and
  something in it, or a group in a group; the state space of `OneDevice` is
  exhausted (10 steps deep) and not cut off by time, since its clock stands
  still: order does not depend on times without a merge. `MaxTime` bounds
  `TwoDevices`: one second passes with every call, so it ends after five. Five
  are enough to edit on one side, discard and delete on the other, and merge
  both ways, or to repeat a merge.
- `TwoDevices` has no limit on the number of versions (`NoLimit`): those that a limit
  removes are lost on purpose. `Versions` has limits that are reached.
- `AsyncService`: `Tasks` = 2 is a poller and a timer, or a timer and the stop
  message, or two tasks of one id; a call waits for a free slot. `Capacity` = 1
  makes every second send wait. `MaxLag` = 1: a task is at most one tick behind.
  `Epochs` = 2 tells the current period from another one; a token older than
  one period cannot be shown under a countdown that is at most one tick late.
  The one id of `Polling` is handed out by the counter and again after a shutdown has
  reset it, and the client may name it too, so that it is reused at any time. `MaxChannels` = 1: the receiver goes when the service
  stops, and a client starts things only while there is a channel (`HasSlot`).
- `Saves`: `MaxSaves` counts the save that made the file which is opened first; two more are
  one that succeeds or is stopped and one of the other program or a retry. The second edit makes the content smaller, so that a
  shorter file is written over a longer one. `ChecksumCells` = 5 covers the header
  and the first cells of the blocks, but not all of the longer files. To drop an edit whose
  checksum was adopted takes one save more than that: with `MaxSaves` = 4 and one edit (777 276 states in one
  instance, more than a run should take) TLC finds no other loss, and finds that one when `adopted` is
  left out of `ForeignEditsKept`. The theorem `NobodyOverwritten` has no bound.
- `Documents`: a document is edited once; a second edit meets the same code.
- `Contents`: four edits are an upload that is attached, a second version and a deletion or a
  merge; or a custom type, an edit on the other device, a merge, and the type given to the entry that was merged; `MaxTime` = 3 lets the two devices edit within one
  second. With one more form here and one more document there the properties hold as well (2 098 839
  states, more than a run should take).
- `MetaMerge`: three edits remove an icon, add its bytes again under another uuid and
  use the old one in the other copy, or add the same bytes on both sides and use
  them; two seconds let either copy be the newer one. Two devices never hold
  different bytes under one uuid, so case (B) of `merge_custom_icons` does not arise.
- `EntryFields`: a form changes one field (`MaxEdited`), a user may open another.
- The runs of `DbStore` use symmetry in the sets of model values, and only for
  properties without liveness. No other run uses any: uuids and times are
  ordered, and `Polling` checks liveness.
- Deadlock is checked in all runs but five that really stop: `AnyOrder` when keys or
  the poisoned mutex leave no call that returns `Ok`, `OneDevice` and `TwoDevices` when
  uuids or seconds are used up, `Saving` when the last save was stopped and the database
  file cannot be read, and `Icons` when the edits and seconds are used up.

Fairness. Only `Polling` checks liveness, under `AsyncService!FairSpec`. Tokio's
scheduler runs every task that is ready (`WF` of `Run(t)`), time passes and wakes
sleepers (`WF` of `Second`), a call that holds no mutex goes on (`WF` of `BeginPolling`,
`ShutdownPolling`), and the client's listener is a loop over `recv` (`WF` of
`Receive`). A send that waits for room is enabled and disabled again as
others fill the channel; tokio's bounded channel hands its places out in the order of
the senders, so a waiting send gets one: `SF` of `Send(t)`. Nothing is assumed of
clients, who need not call anything, nor of the database, which may stay locked.
The functions of the other modules return when they are called, and nothing in
them waits for another one but for the mutex: they need no fairness.

What the client is assumed to do, since the library does not check it:

- `OneClient` and `TwoClients` keep to the conventions of a desktop user
  interface: it does not reload, merge, export or rename a locked database, and
  it does not give a database the name of another open one. What happens without
  them is in `AnyOrder` and in section 5.
- `MayHold` in `Replicas`: the root group and the recycle bin are not moved, and a group is
  not moved below itself. `Root::move_group` only refuses the group as its own parent;
  such a move makes a cycle that nothing reaches.
- A form that updates an entry carries the parent the entry has now.
- In `TwoDevices` only one device moves groups, and no two edits happen in the
  same second.
- `Polling`: an entry is not polled again within the second in which its polling
  was stopped (`Restarts`); otherwise the old task sees itself in the table again
  and two tasks count one countdown down. Two clients at once can do the same, since
  the check for a running poller and its start are two sections. Both are the
  hypothesis `OneAtATime` of the proof of `TokenIsCurrent`, which is then true for any
  lag, capacity and number of tasks.
- `Saving`: the system has written a copy back before the next save begins
  (`CopyReachesDisk`), and the database file's own disk is not full. `fs::copy` syncs nothing: a
  save that is repeated at once truncates the backup while the copy is only in the
  system's cache, and a loss of power then takes both files. Likewise, when the copy
  itself fails and the user tries again. After a save whose backup file cannot be
  read, the database file is the only readable copy, and a save in place or through
  a writer goes over it: `PastBackup` says that from then on nothing
  is promised, which `MaxSaves` = 3 never shows but 4 does.
- `Saving`: the checksum covers the header (`ChecksumCells` at least 2). The code takes the
  first 1000 bytes, which in a file that it wrote itself begin with the signature
  and the fields up to the seed. With a checksum of the signature only
  `ForeignEditsKept` is violated.
- `Versions`: only the device with the one attachment that the file came with reads
  its own file again, and only it is locked: what else a second read does is `Reloaded`.
- `Icons`: a form names an icon of the list as it is when the form is saved.
- `EntryFields`: settings whose period is not the default and whose algorithm is
  not SHA1, so that no TimeOtp field is left out; what else happens is in section 5.

## 4. What is proved

Every safety property that a run checks of `DbStore`, `AsyncService`, `Saves` and `MetaMerge` is a
theorem for all values of the constants, and so is the refinement of `Sessions`. Of `Replicas` all
are too, three of them (`PlacesAgree`, `CallsWholeOrNothing`, `NothingUnreachable`) for copies that nothing is merged
into, and the first two also for copies that are. The
column "if" has the hypotheses beyond the `ASSUME`s of the module; "any client"
makes any calls, on any number of threads.

| Theorem | Module | If | Says |
|---|---|---|---|
| `TypeCorrect` | `DbStoreProofs` | any client | `Spec => []TypeOK` |
| `LockedStaysCiphertext` | `DbStoreProofs` | `LockDiscipline` | `LockedIsCiphertext` |
| `NoEditLost` | `DbStoreProofs` | `LockDiscipline` | `NoSilentOverwrite` |
| `NoFileTorn` | `DbStoreProofs` | no `save_to_db_file` | `FilesStayReadable` |
| `KeysNeverShared` | `DbStoreProofs` | any client | no two contexts or calls hold one session key (`OwnKeys`) |
| `FlagClearedByWrite` | `DbStoreProofs` | any client | `ClearedWhenWritten` |
| `UnsavedAnnounced` | `DbStoreProofs` | `Announcing` | `UnsavedIsPending` |
| `ContentNeverLost` | `DbStoreProofs` | `DesktopClient` | `ContentHeld` |
| `KeyNeverLost` | `DbStoreProofs` | `DesktopClient` | `KeyAvailable` |
| `DesktopIsEditor` | `DbStoreProofs` | `DesktopClient` | `BehavesAsEditor`: `DbStore` implements `Sessions` |
| `AsyncTypeCorrect` | `AsyncServiceProofs` | any client | `Spec => []TypeOK` |
| `ShownTokenCurrent` | `AsyncServiceProofs` | `OneAtATime` | `TokenIsCurrent` |
| `SavesReadBack` | `KdbxStreamProofs` | | a written file reads back, whatever stands behind it |
| `OnlyWholeSavesRead` | `KdbxStreamProofs` | | any mixture of cells of saves and zeros reads as one whole save or not at all |
| `WholeSaveOrNone` | `SavesProofs` | | `NeverTorn` |
| `FieldsKept` | `SavesProofs` | | `HeaderKept` |
| `NobodyOverwritten` | `SavesProofs` | `ChecksumCells >= 2` | `ForeignEditsKept` |
| `BackupRecovers` | `SavesProofs` | `CopyReachesDisk`, `"main" \notin Failing` | `Recoverable` |
| `SavesInvariant` | `SavesProofs` | | the inductive invariant of these four |
| `PicturesKept` | `MetaMergeProofs` | | `MergeKeepsPictures` |
| `MergeSettles` | `MetaMergeProofs` | | `MergeAgainChangesNothing` |
| `TypesKept` | `ReplicasProofs` | any devices | `TypeOK` |
| `EntriesGoThroughBin` | `ReplicasProofs` | any devices | `EntriesLeaveThroughBin` |
| `MergesRemoveOnlyDeleted` | `ReplicasProofs` | any devices | `MergeRemovesOnlyDeleted` |
| `DeletedIsNotLive` | `ReplicasProofs` | `[]MergeCompletes` | `LiveIsNotDeleted` |
| `MergesKeepVersions` | `ReplicasProofs` | `HistoryMaxItems < 0`, `0 \notin Seconds`, `[]NothingUnreachable` | `MergeKeepsVersions` |
| `SecondMergeIsIdle` | `ReplicasProofs` | `HistoryMaxItems < 0` | `MergeAgainChangesNothing` |
| `CopiesConverge` | `ReplicasProofs` | `InitialBin # Nil`, `0 \notin Seconds`, `[]NothingUnreachable` | `MergesConverge` |
| `PlacesStayInStep` | `ReplicasProofs` | `NoMerges` | `PlacesAgree` |
| `AllIsReachable` | `ReplicasProofs` | `NoMerges` | `NothingUnreachable` |
| `CallsAreWhole` | `ReplicasProofs` | `NoMerges` | `CallsWholeOrNothing` |
| `MergesComplete` | `ReplicasProofs` | `InitialBin # Nil`, `[]PlacesAgree`, `[]NothingUnreachable` | `MergeCompletes` |
| `PlacesSurviveMerges` | `ReplicasProofs` | `InitialBin # Nil`, `[]EditsFollowMoves`, `[]NothingUnreachable` | `PlacesAgree` |
| `CallsStayWhole` | `ReplicasProofs` | the same | `CallsWholeOrNothing` |
| `AttachmentsStay` | `ContentsProofs` | `FreshReadsOnly` | `AttachmentsKept` |

The assumptions on the constants are conditions on names and sizes: `AbsentAssumption` and
`NoneAssumption` (nothing, a torn file, names, keys, contents, contexts and ciphertexts are
different things), `BytesAssumption` and `OriginalAssumption` of `MetaMerge` (the database that the copies
are made from has the shape that the code reads, is not newer than the clock, and has no uuid for two
different icons), `ConstantsAssumption` of `AsyncService`, `StreamAssumption` (a
block has a size), `SavesAssumption` (every content has at least one cell, and
the header of the file that is opened first has a seed that no later save draws),
`UuidsAssumption`, `HistoryAssumption` and `StartAssumption` of `Replicas` (the root group and the bin
have uuids, seconds and limits are numbers, and what the copies start with has
uuids of its own), `FileAssumption` and `DocumentsAssumption` of `Contents` (the file both copies are made from
has every content once, its references mean what the user attached, and contents are sequences of bytes).

The hypotheses are about clients and systems, and each is needed: section 3 and 5 have
what happens otherwise. `LockDiscipline`: the client does not call `set_db_locked` and does
not reload a locked database. `Announcing`: also no merge of two databases, which does
not set the flag, no save as or rename, after which another thread marks a key that
is gone, and no merge that stops half way. `DesktopClient`: one thread and the conventions of
section 3, which are those of the run `OneClient`. `OneAtATime`: one client, who leaves a
second between the end and the start of the polling of an entry.

`NoMerges`: no device calls `merge`. A merge can leave an entry in the list of one group and
with the parent of another (section 5), and from then on the copy is not a tree. `PlacesSurviveMerges` names
what has to be ruled out when devices merge:

- an entry that is moved here and edited there, in its old group, before or after the move (which is no edit): `merge_entry`
  takes the parent of the newer version, and since the move here is the later one nothing is moved in the lists.
  `EditsFollowMoves` says that of any two copies of an entry in different groups the one with the later edit has the later
  move as well. It is a condition on what users do: between two merges nobody moves an entry that another one edits;
- two moves of groups, A below B here and B below A there: neither device sees a cycle, the merge makes one.
  `NothingUnreachable` says that there is none;
- a bin for each device (`InitialBin # Nil`: the database has its bin before it is copied).

Under these three `PlacesAgree` holds, hence by `MergesComplete` every merge completes, and by `DeletedIsNotLive` the
deleted objects are right as well. `NothingUnreachable` is a property of the run `TwoDevices`.
`[]MergeCompletes`: a merge that stops half way, as one does when both devices have made
a bin of their own (section 5), leaves deleted objects of what it has brought back. The three hypotheses of `MergesKeepVersions` are needed too: a limit removes
versions; two edits in one second on two devices are one version for a merge, which keeps
one of them; and what the walk from the root group of the source does not meet is not merged.
The run `TwoDevices` has all three, the last as a property. `SecondMergeIsIdle` uses the first:
with a limit each merge brings a version back and cuts one off. On the instance with limits from 0 to 2
the outcome is the same again, but that is not proved.

`CopiesConverge` has no condition on the limit, since it speaks of last versions only, and one on the
bin: devices that make a bin each never get the other one's, as a merge does not make the source's bin where
the target has one. The other two are needed as above: of two last versions made in one second each side keeps its own, and what
no walk meets stays where it is.

`FreshReadsOnly`: nothing is read with the attachment set of an earlier reading, as `reload_kdbx`, an unlock and the two
merges with another version of the file do. They take the positions of the one for those of the other, and
attachments get each other's bytes (`Reloaded`, section 5). Uploads, edits, limits,
saves and merges of open databases are all there.

### The store

`LockedIsCiphertext` alone is not preserved by a step: that an unlock leaves no
ciphertext beside clear content depends on what the context held before, and that a
save overwrites nothing unknown depends on what its checksum vouches for. The
inductive invariant is `TypeOK /\ AllSound`, where `AllSound` says of every open context on
its own that it satisfies the bodies of `LockedIsCiphertext` and `SeenIsHeld` (the checksum of a
context vouches for no edit that the context does not hold); `SoundParts` shows
the equivalence. One lemma per group of actions (`EditSound`, `LockSound`, `MergeSound`, ...)
shows that what an action puts into the store is sound if what it found was;
`PutSound` says that this is enough. `NoEditLost` follows since a save without overwrite
requires `disk[f] = checksum`, `SeenIsHeld` gives `checksum \subseteq` content, and content is
what is written; where the write breaks off the content is still in memory. `NoFileTorn` needs only
the types: `write_db` refuses before anything is truncated, except in an export, so that a file is torn
by a write that breaks off and by nothing else (`WriteHasSource`). What it was writing is then content of
an open context that could be encrypted, and an error leaves the context as it was (`BrokenHasSource`).

`ClearedWhenWritten` speaks of a context before and after a step, although the key of a
context can change in between. `KeysNeverShared` makes the session key the identity
of a database: it belongs to one context or to the one call that is about to insert
one. `UnsavedIsPending` needs besides that no call is in a section in which it would change
contents that nobody marks (`AllReached`); `AllCovered` says of each open context that
its content is in its checksum, that the flag is set, or that a thread is at `mark` for it.

For the desktop client the inductive invariant is `DesktopInv`, the conjunction of `TypeOK`, `AllFit` (of
each open context: content or ciphertext is there and the ciphertext is sealed with the
session key of the context; that key is in the key store; its file reads back and has
the name of the key; each but for the section of a call in which it is not yet so) and `GoesOn`
(what a call that is between two sections may rely on, such as that the target of a
save as is still closed).

`DesktopIsEditor` maps `DbStore` to `Sessions` action by action, one lemma each. The section in
which a call does its work is the step of the editor: `Edit`, `SetCredentials` and `MergeApply` change a
document, `Insert` opens one, `SaveAsWrite` saves it under the other name, `Close`, `CloseNext` and
`MergeClose` close one. The other sections (`Mark`, the first ones of a load, a creation, a merge, a save as,
and `MoveContext`) and lock and unlock change no document, since what a context holds, in the
clear or as ciphertext, is the same before and after: this is where `Sealed` is needed, and
`NoneAssumption`, without which a context might be mistaken for none. `DocOf` and the lemmas
after it say which document a changed context gives.

### Polling

`TypeOK` of `AsyncService` is inductive as it stands, and it says more than types: a
countdown stays in `0 .. Period` although two tasks may count it down (the test for zero in
`form_reply`), the channel never exceeds its capacity, and a task has at each place the
fields that its next step uses. `Parts` splits it by groups of variables, `Unchanged` says
of each group that what leaves it alone keeps it, and there is one lemma per kind
of task.

`TokenIsCurrent` speaks of the moment when all messages have arrived. The inductive
invariant `TokenInv` adds what holds before: an entry has one polling task at most (`Alone`), nobody
knows a channel that does not exist yet (`ChannelsKnown`), and of each task `Counted`, the main
part: while the countdown exceeds the ticks that the task is behind, it ends no later than
the period does, and the last token of the entry, be it held by the task, in
the channel or on the screen, is that of the current period. `MaxLag` is not used: the lag is
in `Counted` itself.

### Files

`read` and `write` go block by block, by recursive functions over all numbers.
`AllNumbers` gives induction over the numbers from `WFMin`, which needs no
operator as a parameter; `RoundsExist` and `WriteRoundsExist` show with it that the functions
are what their definitions say, and the lemmas that follow what a round reads or
writes. `SavesReadBack` is an induction over the blocks. For
`OnlyWholeSavesRead` the cells of a file are any cells that any of a set of saves
(`AreSaves`, each with its own seed) can have written, or zeros, in any order. The header names
the seed, the seed the key, and a block is accepted only with the hash made with that
key from its number and its data; so the blocks that a reader accepts are those of the
save whose header is there, each at its place, and the empty block that ends them
exists only behind the last one. `HeaderReadsBack` says that the header is read as it was
written, field by field.

The invariant `SavesInv` of `Saves` says that there are saves, each with a seed that
no later save draws, such that every cell in a file and in the save that is in progress
is one of theirs or zero (`SavesOK`); this survives a stop at any cell, a
loss of power that leaves zeros, and a save written over another one. The saves are
not in the state: they are a witness, to which `Begin` and `ForeignEdit` add one. `NeverTorn` and
`HeaderKept` follow from `OnlyWholeSavesRead`. The saves of the witness hold all that went through the
backup since; `EndCopy`, which leaves the same save in both files, takes that save as the only one.
`Recoverable` needs also `RecInv`: one of the two files reads back and would survive a loss of
power, namely the database file while the backup is written, and the backup while the
database file is written.

`ForeignEditsKept` needs the part `Covered` of `SavesOK`: what the save with the header in the
checksum of the open database wrote is `Known`, that is in memory or adopted. Two
files with one header have one save (`SameHeader`), so at the verification the same is
true of the database file (`VerifiedCovers`). While the save is at the file all in it is `Seen`: known, or
in the `window` that the beginning of the save has emptied. This stays so while the first cells are
replaced by those of the save in progress (`SavedCovers`), and when another program writes the file whole.
A save through a writer ends with the checksum of a file in which all is `Seen`, and adopts the window: so
that all is `Known` again. A save with overwrite promises nothing of the file until the writer's
checksum is taken, and then the same.

### Icons

Both properties of `MetaMerge` speak of one step, but hold only of contents that the devices can
come to. The inductive invariant `Inv` adds to the types that no content is newer than the clock
(`NotAhead`) and that on all devices and in all files together a uuid names the same bytes, those of new
icons being greater than all (`UuidsApart`). Without it case (B) of `merge_custom_icons` would arise, in
which the icon of the target stays and the references of the source show another picture.

`MergingOne` follows one icon of the source through the cases (A) to (C): what `Merging` says of
the index by bytes, of the remap and of the icons taken so far holds of one icon more, and
`IconsMerged` says it of all by induction (`AllNumbers`, as for files). `RemappedPicture` draws from
it that a rewritten reference shows the picture of the source, `KeptPicture` that a reference of the target
shows what it did. `HistoriesMerged` says which versions there are after a merge: those of
the two sides, one of each time; it rests on `Ranks`, which says that the elements of a finite set with
different weights have the ranks from the first to the last, each once (a sort neither loses nor repeats).
`EntriesMerged` puts both together. For `MergeSettles`, the second merge finds every version of
the source by its time, all its bytes in the index (`IconsMergedAgain`), and settings that are
the same or not newer.

### Tree and merge

Walks and loops are recursive functions, so what they compute is proved by induction over
their values (`WFMin`). `Entered(c, g)` is the smallest set with `g` that holds the listed subgroups of
its members (`EnteredLeast`); a walk that ends (`~Endless`) is well founded, so what holds of a group when
it holds of its subgroups holds of all (`FromTheLeaves`). `RowItems`, `RowComplete` and `RowOnce` go through the
depths of `Walk`, and `WalkMeets` puts them together: a walk meets nothing but what is listed on the way
down, a group before its members, all of it if it ends, and nothing twice if nothing is listed
twice. Uuids bound the depth, since no more groups are entered than there are uuids.

The inductive invariant of all copies is `Contents /\ KindsApart` (`CopiesSound`): each copy is a content whose
uuids have been handed out, with a root group that no list names, and no uuid is a group or bin
on one device and an entry on the same or another one. Without the second part a merge could bring
an entry where the target has a group. One lemma per operation says what it keeps: `Kept` (nothing goes,
and only new uuids come) or `Purged` (only entries of the bin go, and become deleted objects), both
within `Own`. The loops of `remove_group_permanently`, `empty_trash` and `clone_group` have an outcome for each round
(`LoopOutcome`). `MergeParts` takes a merge apart as the code does. `Merging` says of the loop over the source's walk what
the target has after each step, namely all that has been met (`Arrived`), and nothing lost (`Grown`). `MergeDone`
adds that what is deleted at the end was deleted later than it was edited, on one of the sides.

Of a copy that nothing is merged into the invariant is `TreesKept`: it is a `Tree`, has the bin that it names,
and its uuids are older than those that are still to come. `Tree` adds to `ListedByParent` that any set of groups
without the root group has a member whose parent is not in the set (`Up`): a way up that ends, said
without a path or a number. `TreeWalks` concludes that every walk ends and that the one from the root
group enters everything, whence `AllIsReachable`. Five changes leave a tree a tree (`GoneTree`, `GroupAddedTree`,
`EntryAddedTree`, `GroupMovedTree`, `EntryMovedTree`), and each operation is shown to be a sequence of them. In `GroupMovedTree` the new
place is not below the group: this is where `MayHold` is needed. That in a tree no step of a loop
fails is what `CallsAreWhole` rests on.

For versions the invariant is `Dated`: on all devices together there is one version of each time, and none is
newer than the clock. An edit adds one with the time of now (`OneNewer`), a merge adds none.
`MergedAll` says that `merge_histories` of two entries with one version of each time loses nothing, `Gathering` that
after each step of the merge's loop the target has all its versions still and the last one of
each entry met. `MergeHeld` follows them through deletions and limits to the end.

That a second merge changes nothing rests on `FixedAfter`: after a merge that completed, and until the next call,
the target is `Fixed` with respect to the source. `Settled` says of what the walk through the source meets what
`merge_groups` compares: times, places, and the version that has to be in the history. A step settles what it is for
(`StepSettles`) and touches nothing else (`OnlyWithin`), so that at the end all is settled (`Settling`), and
`merge_deleted_objects` leaves nothing to remove (`NothingDue`), since the times of the deletions it notes
count no more than those of the source. `FixedMerge` is the other half: what is settled a merge leaves as it is.

That a merge back makes the copies the same rests on `MetAfter`, of the same span of time: the target has all that is met in
the source, its entries in versions that are not older (`HasMet`, from `MergeBrings`). So the copy that is merged back has
all the other one needs; a merge makes nothing up, and the last version it leaves was the last one on one of
the sides (`Brought`). If it was the older side's, the two are of one time, hence one version (`Dated`). `OneBin` says that all
copies have the bin they started with: no deletion and no merge takes it away. `BothWays` puts it together.

A merge fails only where the group is missing that something is in. The walk through the source meets a group
before its members (`MetInOrder`), a member is in the list of its parent, and the steps put what they meet into
the target: so `NextHasPlace`, and the loop stays in `Completing`, which says besides that in the target all parents are there
(`ParentsThere`), since a move looks up the old one too. A way up that ends the source has because a walk from the
root group that ends meets everything (`ReachedUp`).

For the places after a merge the loop stays in `Agreeing`: the target is `Placed`, which is `PlacesAgree` of one copy and
says nothing of ways up, and the entries that are still to come are not newer without having been moved later (`Follows`).
Both are kept entry by entry: `MergeChildEntryPlaced` moves the entry in the lists whenever `merge_entry` changes its parent.
`merge_deleted_objects` removes what it removes from the lists as well (`MergeDeletedPlaced`); to see that
of groups, the lemmas on removals from a tree were restated for copies that are only `Placed`. `PlacedSound` is the invariant: a call
needs a tree, which a placed copy is if everything in it is met (`PlacedReached`).

### Attachments

An entry names an attachment by its hash and its position. Which of the two counts depends on where the entry is: in a
file (`InFile`) the bytes are those at the position, in memory (`InMemory`) those of the hash. `Attached` says that a
version means what the user attached to it, and the inductive invariant `ContentsInv` is that on each
device the file is `Stored`, whose contents are each there once, and that of an open database the entry and its versions are `Kept`.

Reading goes from the first meaning to the second. `BinariesRead` says that the set has the bytes of every
position, under their own hash; that is where each content has to be there only once. Writing goes
back: `HashesMet` says which hashes the walk through entry and versions meets, `BinariesWritten` and `WrittenOnce` that each
is written once, at the position that is kept for it, and no position is used twice. `ReadKept` and
`WriteKept` put these together. The loops of both are recursive functions, so their lemmas (`ReadingSteps`,
`WritingSteps`) are by induction over numbers, and so are those of the loops that give versions their types and
trim them (`TypingSteps`, `TrimmingSteps`): neither touches an attachment. `SortedAttached` rests on `Ranks`, as the merges above do.
An update takes its references from the entry by hash (`ReferencesTo`, `UpdatedAttached`), and a merge brings
the source's hashes together with their bytes (`MoreKnown`, `MergeKept`).

### What is only model-checked

- Liveness under fairness and `ENABLED`: `CancelledTasksEnd` and `TimersTick` of `AsyncService`.
- `NothingUnreachable` of copies that are merged into. It is true of the instance and not of every
  one: two moves of groups that cross give a cycle (section 5).
- `Documents` with `XmlParse`, `EntryFields` with `Placeholders`: they reach `RECURSIVE` operators, in whose modules
  TLAPS has no arithmetic, and speak of the data of documents and fields of every depth.
- `TypesKept` of `Contents`, and its `AttachmentsKept` with locks.

## 5. Where the code disagrees with what it says

One run finds a disagreement; `PROJECT.json` quotes the line.

- `Reloaded`: `db::reload` reads a file into a clone of the database in memory, with its
  attachments, and numbers the file's binaries behind those. Open, attach a
  content, save, reload: both attachments of the entry now have the bytes of one,
  and the next save makes that permanent. The two merges that read with
  `reload` resolve the references of the other version in the same way.

Seen while modelling, without a run of its own. Store:

- `reload_kdbx` on a locked database brings the content into memory in the clear
  while `locked` and the old ciphertext stay; the next unlock puts the old content
  over the new checksum. (`LockedIsCiphertext` with reload in `LockedCalls`.)
- lock, clear the bare flag, lock again: the only copy of the content is replaced by
  `None`. (`ContentHeld` with `set_db_locked` in `Calls`.)
- a merge with a locked database unwraps a missing content while the mutex is held: the
  call panics, and every later one too (`poisoned`).
- `merge_databases` changes the target and does not set `save_pending`; save all skips
  it. (`UnsavedIsPending` with `merge_databases` and two names.)
- a write that breaks off leaves the file torn, or with the new content under the old flag and checksum.
  In the second case a later save without overwrite takes the own file for one that another program
  changed and is refused; and a database that was saved before by `save_kdbx` with nothing pending does not
  say that its file is gone: save all skips it.
- an edit that another program makes between the write of a mobile save and the call that takes the checksum
  of the file (`db_service/io.rs:471`) is never read, and the next save that verifies the file drops it.
  (`ForeignEditsKept` without `adopted` and with `MaxSaves` = 4.)
- a save-as that fails leaves the context under the old key with the new file name; an
  export of a locked database truncates its target before it is refused; save-as or
  rename to a database's own name deletes the session key it needs; a rename to a name
  without a file, then a save in place, creates an empty file and is refused; with two
  threads a close between the two steps of a load leaves an open database
  without a session key, and a merge may close a source that another thread opened.

Icons and settings:

- `Meta::merge` stamps `settings_changed` with the time of the merge also when it only took
  over an icon or custom data. A device with old settings merges an icon; its settings
  now look newer than those a user changed on the other device before, and the next
  merge there brings the old ones back, although "only adopt source's values if source's
  settings were updated more recently than target's" (`meta.rs:316`).
- a form that was opened before its icon was removed puts the reference back, and older
  versions keep theirs to an icon that is gone; `set_entry_custom_icon` and
  `set_group_custom_icon` take any uuid and leave the times, so that a merge does not
  see the change; the limits of histories are not merged.

Tree and merge:

- if both copies made their recycle bin after the copy was taken, the merge does not
  create the source's bin and fails on what is in it, half way. (`MergeCompletes`
  with `InitialBin = 0`.)
- an entry moved on the target and edited on the source gets the source's parent
  while the lists stay. (`PlacesAgree` in `TwoDevices`.)
- two groups of which each is moved below the other on another device are below each other after a merge;
  the walk from the root group no longer meets them, and the next save leaves them out. (`NothingUnreachable` in `TwoDevices` with two groups and `move_group` in `Calls`.)
- `remove_group_permanently` leaves no deleted objects for subgroups, so a merge brings
  them back.

Files and XML:

- a failed verification has already overwritten the backup file; the mobile checksum
  is a separate call after the write; the hmac of the end block is not checked; unknown
  data of the main header and of the key derivation parameters are not written back.
- the writer writes trees deeper than the 32 levels that the reader accepts;
  child groups read before the `UUID` of their group keep a nil parent;
  `is_value_protected` looks at the last attribute only and for exactly `True`; a protected value
  that cannot be decoded is silently emptied; foreign attributes on known elements, duplicate
  keys and a history inside a history are dropped; `report_unwritten` only logs.

Versions and attachments:

- locking loses custom types inserted since the last save; lock and unlock after an
  upload or a save that renumbers relink with the positions of the first read;
  `write_all_bytes` counts a position also for bytes that are missing.
- a merge replaces the stored map of custom types but not the types in use; a custom
  type may be deleted while only versions use it; deleting the last one leaves the old map
  in the file; a custom type that later gets a field an entry has already is decoded with it twice.
- a merged entry keeps the `meta_share` of its source until the next opening, hence the limits and the
  custom types of that one. A form offers the target's custom types all the same; given one the source does not know, the
  entry is stored as a login. Make a custom type here, edit the entry there, save there and merge
  here, give the entry the custom type, save and open: it is a login again. `TypesKept` leaves
  this case out by `was.known`; without that part `Versions` violates it.

Fields:

- the first save of a form makes definitions of an entry's TimeOtp fields. Setting the
  period to its default removes its field; the next form shows an empty one for the
  definition, saves it, and the empty text is an error where an absent field is the
  default: no token is generated any more. (`TokenStays` with `Settings <- DefaultPeriod`
  and `Edits <- TitleEdit`.)
- an entry with an `otp` url and TimeOtp fields: `set_otp` writes the latter only, and
  lists show the stale url; `remove_otp` and a form that is then saved leave
  empty TimeOtp fields; an issuer with a colon gives a url that cannot be read.
- `into_entry` writes the title and the notes with `protected` false (`form_data/entry.rs:458`), whatever they
  were: in a database whose title or notes another program protects, the first form that is saved
  writes them unprotected. `FormKeepsFields` asks for the protection of all other fields.
- a form that is saved late undoes calls made meanwhile; a blank field of a new
  definition is not protected, also when a secret is put there later; a missing title
  becomes "No Title".
- `{S:name}` of an unknown field loses its prefix; a reference to the own entry works for the
  URL only; a place-holder left in a referenced field is taken for one of the referring
  entry; ten place-holders in a row stay unresolved, and cycles cost k^10 steps.
- Firefox's profile maps one column to title and URL, and the URL is lost; an unmapped
  custom column with the name of a mapped field replaces it; a blank mapped cell
  blocks an extra field; records stay in memory when an import fails; a second csv file
  that is read before the import is imported with the first one's mapping.

Tasks:

- a stop and a restart within a second leave two pollers; an old timeout of a reused id
  fires early and deletes the new timer; a poller whose receiver is gone panics
  (`send().await.unwrap()`); `shutdown_runtime` never succeeds in taking the runtime down.

The passing runs leave these cases out through `Targets`, `Calls`, `Failures`, `Threads`,
`Foreign`, `Settings` and the assumptions of section 3.

## 6. What is not modelled

- `DbStore`: mobile creation, read-only copies; a save is one step there and taken
  apart in `Saves`, whose model has one database and no lock. The two are not composed.
- `Root` and `Merger`: the merge of Meta except for limits and custom types
  (`Contents`), icons and settings (`MetaMerge`); the merge of different databases, the report.
- Credentials: which hashes a change of password or key file sets; key files.
- `Saves` ends where cells end: the bytes of a hash, of a cipher or of compressed data
  are the data they come from. `KdbxStream` takes the key from the header alone.
- `XmlParse`: the text level of XML (entities, encodings) is the quick-xml library; the XML
  of key files.
- `EntryFields`: the tree of groups that an import makes, the parsing of csv text, the
  summaries and categories of forms.
- Search, the password generator, autofill, the browser extension and the SSH agent: they
  change no database. Cryptography and utilities: pure functions.

## 7. Plan

What is done is marked.

1. `DbStore`, `Sessions`, `DbStoreProofs`: done.
2. `Root`, `Merger`, `Replicas`: done without Meta.
3. `AsyncService`, `AsyncServiceProofs`: done, with liveness.
4. `Saves` over `KdbxStream`: done. Left: an abstract atomic file that it implements
   up to a crash, joined to `DbStore`.
5. `Contents` (attachments, types of versions, limits): done.
6. `Documents` over `XmlParse`: done.
7. `EntryFields` (one-time passwords, place-holders, forms, csv records): done. Left: the groups of an import.
8. `MetaMerge` (settings and icons, the remap of references): done. Left: the custom data of plugins.
9. `Credentials`: which hashes a change sets and what unlock compares. Not begun.
10. Theorems about `DbStore` (all its properties and the refinement), `AsyncService` (all but
    liveness), `KdbxStream`, `Saves` and `MetaMerge` (all properties), `Replicas` (but for what section 4 names):
    done. `Contents`: `AttachmentsKept` done; left is `TypesKept`.
11. Search, password generation, autofill rules against reference definitions.
