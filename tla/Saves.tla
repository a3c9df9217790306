-------------------------------- MODULE Saves -------------------------------
(* Saving one database to its file, cell by cell, with crashes between any  *)
(* two cells (write_kdbx_file_with_backup_file and write_kdbx_file in       *)
(* src/db/mod.rs, save_kdbx_to_writer in src/db_service/io.rs), while other *)
(* programs edit the file. The calls hold the store's mutex: only the three *)
(* calls of a mobile save can have something between them.                  *)
EXTENDS KdbxStream

CONSTANTS MaxSaves,          \* bound on saves, ours and those of others
          MaxEdits,          \* bound on edits
          Failing,           \* files a write may fail on (disk full)
          CopyReachesDisk,   \* the system writes a copy back before the next save
          ForeignHeaders     \* headers of the program that made the file
ASSUME SavesAssumption ==
  /\ MaxSaves \in Nat /\ MaxEdits \in Nat
  /\ Failing \subseteq {"main", "backup"} /\ CopyReachesDisk \in BOOLEAN
  /\ \A content \in SUBSET (0..MaxEdits) : SizeOf(content) \in Nat \ {0}
  /\ \A h \in ForeignHeaders : IsMainHeader(h) /\ h.master_seed \notin 1..MaxSaves

VARIABLES files,    \* the cells of the database file and of the backup file
          synced,   \* the files whose content would survive a loss of power
          mem,      \* edits, header and checksum of the open database
          op,       \* the save in progress
          fresh,    \* saves so far, the source of new seeds
          made,     \* edits so far
          window,   \* edits of other programs since the file was verified for this save
          adopted,  \* such edits whose checksum was taken for that of the save
          backed    \* content of the last save that went through the backup; {}: none did,
                    \* or a later save went past a backup that cannot be read
vars == <<files, synced, mem, op, fresh, made, window, adopted, backed>>

Files == {"main", "backup"}
Closed == [open |-> FALSE]
Idle == [at |-> "idle"]

(* What a reader finds in a file.                                           *)
Stored(f) == LET r == read(f) IN IF r.ok THEN r.data[1].of ELSE {}

Init ==
  /\ \E h \in ForeignHeaders : files = [main |-> write(h, {0}), backup |-> <<>>]
  /\ synced = Files /\ mem = Closed /\ op = Idle
  /\ fresh = 1 /\ made = 0 /\ window = {} /\ adopted = {} /\ backed = {}

Open ==
  /\ mem = Closed /\ op = Idle
  /\ LET r == read(files["main"])
     IN r.ok /\ mem' = [open |-> TRUE, edits |-> r.data[1].of, header |-> r.header,
                        checksum |-> Checksum(files["main"])]
  /\ adopted' = {}
  /\ UNCHANGED <<files, synced, op, fresh, made, window, backed>>

Edit ==
  /\ mem.open /\ op.at \in {"idle", "written"} /\ made < MaxEdits
  /\ made' = made + 1 /\ mem' = [mem EXCEPT !.edits = @ \cup {made + 1}]
  /\ UNCHANGED <<files, synced, op, fresh, window, adopted, backed>>

-----------------------------------------------------------------------------
(* A save begins with new keys; the cells it will write are fixed then.     *)
Begin(path, file, overwrite) ==
  /\ mem.open /\ op = Idle /\ fresh < MaxSaves
  /\ CopyReachesDisk => synced = Files
  /\ LET h == reset_random_values(mem.header, fresh)
     IN /\ mem' = [mem EXCEPT !.header = h]
        /\ op' = [at |-> "write", path |-> path, file |-> file, pos |-> 0, overwrite |-> overwrite,
                  cells |-> write(h, mem.edits)]
  /\ fresh' = fresh + 1 /\ window' = {}

verify_db_file_checksum_Readable(overwrite) == mem.open /\ read(files["main"]).ok
verify_db_file_checksum(overwrite) == mem.open /\ (overwrite \/ Checksum(files["main"]) = mem.checksum)

(* write_kdbx_file_with_backup_file: the backup file is truncated first.    *)
BeginBackup ==
  /\ \E overwrite \in BOOLEAN : Begin("backup", "backup", overwrite)
  /\ files' = [files EXCEPT !["backup"] = <<>>] /\ synced' = synced \ {"backup"}
  /\ UNCHANGED <<made, adopted, backed>>

(* Nothing but the backup file protects a save that goes past it.           *)
PastBackup == backed' = IF read(files["backup"]).ok THEN backed ELSE {}

(* write_kdbx_file: in place, over the old content.                         *)
BeginInPlace ==
  /\ \E overwrite \in BOOLEAN : verify_db_file_checksum(overwrite) /\ Begin("in place", "main", overwrite)
  /\ PastBackup
  /\ UNCHANGED <<files, synced, made, adopted>>

(* The mobile calls: verification, then a writer the caller has truncated   *)
(* or not.                                                                  *)
BeginWriter ==
  /\ \E overwrite \in BOOLEAN : verify_db_file_checksum(overwrite) /\ Begin("writer", "main", overwrite)
  /\ \/ files' = [files EXCEPT !["main"] = <<>>] /\ synced' = synced \ {"main"}
     \/ UNCHANGED <<files, synced>>
  /\ PastBackup
  /\ UNCHANGED <<made, adopted>>

(* One more cell, over what stands there or behind the end.                 *)
Put(f, pos, cell) == IF pos <= Len(f) THEN [f EXCEPT ![pos] = cell] ELSE Append(f, cell)
Write ==
  /\ op.at = "write" /\ op.pos < Len(op.cells)
  /\ op' = [op EXCEPT !.pos = @ + 1]
  /\ files' = [files EXCEPT ![op.file] = Put(@, op.pos + 1, op.cells[op.pos + 1])]
  /\ synced' = synced \ {op.file}
  /\ UNCHANGED <<mem, fresh, made, window, adopted, backed>>

WriteFails ==
  /\ \/ op.at = "write" /\ op.pos < Len(op.cells) /\ op.file \in Failing
     \/ op.at = "copy" /\ "main" \in Failing
  /\ op' = Idle
  /\ UNCHANGED <<files, synced, mem, fresh, made, window, adopted, backed>>

Written(path) == op.at = "write" /\ op.path = path /\ op.pos = Len(op.cells)

(* sync_all, then the file is verified, unless it may be overwritten.       *)
EndBackup_NoSync ==
  /\ Written("backup")
  /\ op' = IF verify_db_file_checksum(op.overwrite) THEN [op EXCEPT !.at = "copy", !.pos = 0] ELSE Idle
  /\ UNCHANGED <<files, synced, mem, fresh, made, window, adopted, backed>>
EndBackup ==
  /\ Written("backup")
  /\ synced' = synced \cup {"backup"}
  /\ op' = IF verify_db_file_checksum(op.overwrite) THEN [op EXCEPT !.at = "copy", !.pos = 0] ELSE Idle
  /\ UNCHANGED <<files, mem, fresh, made, window, adopted, backed>>

(* fs::copy truncates the database file, copies the backup and syncs nothing*)
Copy ==
  /\ op.at = "copy" /\ op.pos <= Len(files["backup"])
  /\ op' = [op EXCEPT !.pos = @ + 1]
  /\ files' = [files EXCEPT !["main"] = SubSeq(files["backup"], 1, op.pos)]
  /\ synced' = synced \ {"main"}
  /\ UNCHANGED <<mem, fresh, made, window, adopted, backed>>

EndCopy ==
  /\ op.at = "copy" /\ op.pos = Len(files["backup"]) + 1
  /\ op' = Idle /\ mem' = [mem EXCEPT !.checksum = Checksum(files["backup"])]
  /\ backed' = mem.edits
  /\ UNCHANGED <<files, synced, fresh, made, window, adopted>>

(* set_len, sync_all and the checksum of what was written.                  *)
EndInPlace ==
  /\ Written("in place")
  /\ LET cut == SubSeq(files["main"], 1, Len(op.cells))
     IN files' = [files EXCEPT !["main"] = cut] /\ mem' = [mem EXCEPT !.checksum = Checksum(cut)]
  /\ synced' = synced \cup {"main"} /\ op' = Idle
  /\ UNCHANGED <<fresh, made, window, adopted, backed>>

(* A writer is neither cut nor synced by the core.                          *)
EndWriter ==
  /\ Written("writer") /\ op' = [op EXCEPT !.at = "written"]
  /\ UNCHANGED <<files, synced, mem, fresh, made, window, adopted, backed>>
(* The checksum of whatever the file holds by now.                          *)
calculate_and_set_db_file_checksum ==
  /\ op.at = "written"
  /\ op' = Idle /\ mem' = [mem EXCEPT !.checksum = Checksum(files["main"])]
  /\ adopted' = adopted \cup window
  /\ UNCHANGED <<files, synced, fresh, made, window, backed>>

-----------------------------------------------------------------------------
(* The environment.                                                         *)
MainIsWritten == \/ op.at = "copy" /\ op.pos > 0
                 \/ op.at = "write" /\ op.file = "main" /\ (op.pos > 0 \/ op.path = "writer")

(* The save in progress has looked at the file, or need not look any more.  *)
IsVerified == op.at \in {"copy", "written"} \/ (op.at = "write" /\ op.file = "main")

(* Another program reads the file, adds something and writes it whole, with *)
(* compression on.                                                          *)
ForeignEdit ==
  /\ ~MainIsWritten /\ fresh < MaxSaves /\ made < MaxEdits
  /\ LET r == read(files["main"])
     IN r.ok /\ files' = [files EXCEPT !["main"] =
                            write([reset_random_values(r.header, fresh) EXCEPT !.compression_flag = 1],
                                  r.data[1].of \cup {made + 1})]
  /\ made' = made + 1 /\ fresh' = fresh + 1 /\ synced' = synced \cup {"main"}
  /\ window' = IF IsVerified THEN window \cup {made + 1} ELSE window
  /\ UNCHANGED <<mem, op, adopted, backed>>

WriteBack == /\ synced' = Files /\ synced # Files /\ op = Idle
             /\ UNCHANGED <<files, mem, op, fresh, made, window, adopted, backed>>

Crash == /\ mem.open /\ mem' = Closed /\ op' = Idle
         /\ UNCHANGED <<files, synced, fresh, made, window, adopted, backed>>

(* Of an unsynced file some first cells are there, the rest holds zeros.    *)
Remains(f) == {SubSeq(f, 1, n) \o [i \in 1..(Len(f) - n) |-> Zero] : n \in 0..Len(f)}
PowerLoss ==
  /\ synced # Files /\ mem' = Closed /\ op' = Idle
  /\ \E torn \in [Files \ synced -> UNION {Remains(files[x]) : x \in Files \ synced}] :
       /\ \A x \in DOMAIN torn : torn[x] \in Remains(files[x])
       /\ files' = [x \in Files |-> IF x \in synced THEN files[x] ELSE torn[x]]
  /\ synced' = Files
  /\ UNCHANGED <<fresh, made, window, adopted, backed>>

Next == \/ Open \/ Edit \/ BeginBackup \/ BeginInPlace \/ BeginWriter \/ Write \/ WriteFails
        \/ EndBackup \/ Copy \/ EndCopy \/ EndInPlace \/ EndWriter \/ calculate_and_set_db_file_checksum
        \/ ForeignEdit \/ WriteBack \/ Crash \/ PowerLoss

Spec == Init /\ [][Next]_vars

-----------------------------------------------------------------------------
(* Whatever stops the program, the database file or the backup file reads   *)
(* back, with everything of the last save that went through the backup,     *)
(* until a save in place or to a writer begins over the only good copy.     *)
Recoverable == backed # {} => \E x \in Files : read(files[x]).ok /\ backed \subseteq Stored(files[x])

(* Reading a file gives an error or a content that was written whole: never *)
(* parts of two saves, never the first part of one.                         *)
NeverTorn == \A x \in Files :
  LET r == read(files[x]) IN r.ok => r.data = Payload(r.header, r.data[1].of)

(* No step of a save that must not overwrite loses what another program put *)
(* into the file: it is still in a file, or in memory. Lost may be only what*)
(* came between the verification of that save and its last write, and what  *)
(* came between the write of an earlier save through a writer and the call  *)
(* that took the checksum of the file for that of the save.                 *)
MustNotOverwrite == \/ op.at # "idle" /\ ~op.overwrite
                    \/ op'.at # "idle" /\ ~op'.overwrite
ForeignEditsKept ==
  [][mem'.open /\ mem.open /\ MustNotOverwrite =>
       Stored(files["main"]) \subseteq
         Stored(files'["main"]) \cup Stored(files'["backup"]) \cup mem'.edits
           \cup window' \cup adopted']_vars

(* The comment and the custom data in the header of the file are kept.      *)
HeaderKept == \A x \in Files : LET r == read(files[x]) IN
  r.ok => \E h \in ForeignHeaders : /\ r.header.comment = h.comment
                                    /\ r.header.public_custom_data = h.public_custom_data
                                    /\ r.header.kdf_algorithm.memory = h.kdf_algorithm.memory
=============================================================================
