--------------------------- MODULE DbStoreProofs ---------------------------
(* Theorems about DbStore, for every value of its constants. *)
EXTENDS DbStore, TLAPS

-----------------------------------------------------------------------------
(* Types *)

Stores == [Keys -> {Absent} \cup Context]
KeyStores == [Keys -> {Absent} \cup EncKeys]
Disks == [Keys -> {Absent, Torn} \cup Content]
CallsOK(f) == f \in [Threads -> Call] /\ \A t \in Threads : CallOK(f[t])

Typed ==
    /\ store \in Stores
    /\ keystore \in KeyStores
    /\ disk \in Disks
    /\ CallsOK(call)
    /\ used \in SUBSET Edits
    /\ poisoned \in BOOLEAN

\* The types one by one.
LEMMA TypeOKParts == (TypeOK <=> Typed) /\ (TypeOK' <=> Typed')
BY DEF TypeOK, Typed, Stores, KeyStores, Disks, CallsOK

\* An open context has the type of a context.
LEMMA OpenIsContext ==
    ASSUME store \in Stores, NEW k \in Keys, Open(k)
    PROVE  store[k] \in Context
BY DEF Stores, Open

\* Putting a context, or none, under a key keeps the type of the store.
LEMMA PutContext ==
    ASSUME store \in Stores, NEW k \in Keys, NEW c \in {Absent} \cup Context
    PROVE  [store EXCEPT ![k] = c] \in Stores
BY DEF Stores

\* Putting a call record in the place of a thread keeps the type of the calls.
LEMMA PutCall ==
    ASSUME CallsOK(call), NEW t \in Threads, NEW c \in Call, CallOK(c)
    PROVE  CallsOK([call EXCEPT ![t] = c])
BY DEF CallsOK

\* A thread may return from its call, or go to a section that needs only a key.
LEMMA GotoType ==
    ASSUME CallsOK(call), NEW t \in Threads
    PROVE  /\ Return(t) => CallsOK(call')
           /\ \A p \in {"mark", "create_save", "restore"}, k \in Keys :
                 Goto(t, p, k) => CallsOK(call')
<1>1. Idle \in Call /\ CallOK(Idle)
  BY DEF Idle, Call, CallOK, Sections, Content
<1>2. ASSUME NEW p \in {"mark", "create_save", "restore"}, NEW k \in Keys
      PROVE  [Idle EXCEPT !.pc = p, !.key = k] \in Call
             /\ CallOK([Idle EXCEPT !.pc = p, !.key = k])
  BY DEF Idle, Call, CallOK, Sections, Content
<1>3. QED BY <1>1, <1>2, PutCall DEF Return, Goto

\* A write that breaks off leaves Torn or the content in its file.
LEMMA BreaksOffType ==
    ASSUME disk \in Disks, NEW c \in Context, NEW f \in Keys, BreaksOff(c, f)
    PROVE  disk' \in Disks
<1>1. c.content \in Content BY DEF BreaksOff, Writable, Context
<1>2. PICK left \in {Torn, c.content} : disk' = [disk EXCEPT ![f] = left] BY DEF BreaksOff
<1>3. QED BY <1>1, <1>2 DEF Disks

\* Write keeps the types of the contexts and of the files.
LEMMA WriteType ==
    ASSUME store \in Stores, disk \in Disks,
           NEW k \in Keys, Open(k), NEW overwrite \in BOOLEAN, NEW backup \in BOOLEAN,
           Write(k, overwrite, backup)
    PROVE  store' \in Stores /\ disk' \in Disks
<1>1. store[k] \in Context BY OpenIsContext
<1>2. CASE store' = [store EXCEPT ![k] = Saved(store[k])]
           /\ disk' = [disk EXCEPT ![store[k].file_name] = store[k].content]
           /\ Writable(store[k])
  <2>1. Saved(store[k]) \in Context BY <1>1 DEF Saved, Context
  <2>2. store' \in Stores BY <1>2, <2>1, PutContext
  <2>3. QED BY <1>1, <1>2, <2>2 DEF Context, Writable, Disks
<1>3. CASE UNCHANGED store
           /\ (UNCHANGED disk \/ disk' = [disk EXCEPT ![store[k].file_name] = Torn])
  BY <1>1, <1>3 DEF Disks, Context
<1>4. CASE UNCHANGED store /\ BreaksOff(store[k], store[k].file_name)
  BY <1>1, <1>4, BreaksOffType DEF Context
<1>5. QED BY <1>2, <1>3, <1>4 DEF Write

\* The restored context has the type of a context.
LEMMA RestoreType ==
    ASSUME store \in Stores, NEW k \in Keys, Open(k), RestoreLockedContent(k)
    PROVE  store' \in Stores
<1> DEFINE c == store[k]
<1>1. c \in Context BY OpenIsContext
<1>2. /\ [c EXCEPT !.locked = FALSE] \in Context
      /\ [c EXCEPT !.blob = Absent] \in Context
  BY <1>1 DEF Context
<1>3. CASE c.blob # Absent
  <2>1. [c EXCEPT !.content = c.blob.data, !.blob = Absent, !.locked = FALSE] \in Context
    BY <1>1, <1>3 DEF Context, Blob
  <2>2. QED BY <1>2, <1>3, <2>1, PutContext DEF RestoreLockedContent
<1>4. CASE c.blob = Absent
  BY <1>2, <1>4, PutContext DEF RestoreLockedContent
<1>5. QED BY <1>3, <1>4

-----------------------------------------------------------------------------
(* Type correctness, action by action *)

LEMMA EditType ==
    ASSUME TypeOK, NEW t \in Threads, NEW k \in Keys,
           Edit(t, k) \/ SetCredentials(t, k) \/ Mark(t)
    PROVE  TypeOK'
<1> USE TypeOKParts DEF Typed
<1>1. CASE Edit(t, k)
  <2>1. CallsOK(call') BY <1>1, GotoType DEF Edit
  <2>2. ASSUME NEW e \in Edits, Open(k), store[k].content # Absent
        PROVE  [store EXCEPT ![k] = Changed(store[k], {e})] \in Stores
    <3>1. Changed(store[k], {e}) \in Context
      BY <2>2, OpenIsContext DEF Changed, Context, Content
    <3>2. QED BY <3>1, PutContext
  <2>3. QED BY <1>1, <2>1, <2>2 DEF Edit
<1>2. CASE SetCredentials(t, k)
  <2>1. CallsOK(call') BY <1>2, GotoType DEF SetCredentials
  <2>2. PICK e \in Edits, id \in EncKeys :
           /\ store' = [store EXCEPT ![k] = [Changed(store[k], {e}) EXCEPT !.enc_key = id]]
           /\ keystore' = [keystore EXCEPT ![k] = id]
           /\ used' = used \cup {e}
    BY <1>2 DEF SetCredentials, FreshEncKeys
  <2>3. [Changed(store[k], {e}) EXCEPT !.enc_key = id] \in Context
    BY <1>2, OpenIsContext DEF SetCredentials, Changed, Context, Content
  <2>4. store' \in Stores BY <2>2, <2>3, PutContext
  <2>5. keystore' \in KeyStores BY <2>2 DEF KeyStores
  <2>6. QED BY <1>2, <2>1, <2>2, <2>4, <2>5 DEF SetCredentials
<1>3. CASE Mark(t)
  <2>1. CallsOK(call') BY <1>3, GotoType DEF Mark
  <2> DEFINE j == call[t].key
  <2>2. j \in Keys BY <1>3 DEF Mark, At, CallsOK, CallOK
  <2>3. CASE Open(j)
    <3>1. [store[j] EXCEPT !.save_pending = TRUE] \in Context
      BY <2>2, <2>3, OpenIsContext DEF Context
    <3>2. store' = [store EXCEPT ![j] = [store[j] EXCEPT !.save_pending = TRUE]]
      BY <1>3, <2>3 DEF Mark
    <3>3. store' \in Stores BY <2>2, <3>1, <3>2, PutContext
    <3>4. QED BY <1>3, <2>1, <3>3 DEF Mark
  <2>4. CASE ~Open(j) BY <1>3, <2>1, <2>4 DEF Mark
  <2>5. QED BY <2>3, <2>4
<1>4. QED BY <1>1, <1>2, <1>3

LEMMA OpenType ==
    ASSUME TypeOK, NEW t \in Threads, NEW k \in Keys,
           \/ \E target \in {Absent} \cup Keys : ReadFile(t, k, target)
           \/ Insert(t) \/ Create(t, k) \/ CreateInsert(t)
    PROVE  TypeOK'
<1> USE TypeOKParts DEF Typed
<1>1. ASSUME NEW target \in {Absent} \cup Keys, ReadFile(t, k, target)
      PROVE  TypeOK'
  <2>1. PICK id \in EncKeys :
           /\ keystore' = [keystore EXCEPT ![k] = id]
           /\ call' = [call EXCEPT ![t] =
                         [Idle EXCEPT !.pc = "insert", !.key = k, !.other = target,
                                      !.data = disk[k], !.enc_key = id]]
    BY <1>1 DEF ReadFile, FreshEncKeys
  <2>2. disk[k] \in Content BY <1>1 DEF ReadFile, Readable, Disks
  <2> DEFINE c == [Idle EXCEPT !.pc = "insert", !.key = k, !.other = target,
                               !.data = disk[k], !.enc_key = id]
  <2>3. c \in Call /\ CallOK(c) BY <2>2 DEF Idle, Call, CallOK, Sections
  <2>4. CallsOK(call') BY <2>1, <2>3, PutCall
  <2>5. keystore' \in KeyStores BY <2>1 DEF KeyStores
  <2>6. QED BY <1>1, <2>4, <2>5 DEF ReadFile
<1>2. CASE Insert(t)
  <2> DEFINE c == call[t]
  <2>1. c \in Call /\ c.key \in Keys /\ c.enc_key \in EncKeys
    BY <1>2 DEF Insert, At, CallsOK, CallOK
  <2>2. NewContext(c.key, c.data, c.data, c.enc_key) \in Context
    BY <2>1 DEF NewContext, Context, Call
  <2>3. store' \in Stores BY <1>2, <2>1, <2>2, PutContext DEF Insert
  <2>4. Idle \in Call /\ CallOK(Idle) BY DEF Idle, Call, CallOK, Sections, Content
  <2>5. c.other # Absent => [c EXCEPT !.pc = "merge", !.data = {}] \in Call
                            /\ CallOK([c EXCEPT !.pc = "merge", !.data = {}])
    BY <2>1 DEF Call, CallOK, Sections, Content
  <2>6. CallsOK(call') BY <1>2, <2>4, <2>5, PutCall DEF Insert
  <2>7. QED BY <1>2, <2>3, <2>6 DEF Insert
<1>3. CASE Create(t, k)
  <2>1. PICK id \in EncKeys :
           /\ keystore' = [keystore EXCEPT ![k] = id]
           /\ call' = [call EXCEPT ![t] = [Idle EXCEPT !.pc = "create", !.key = k, !.enc_key = id]]
    BY <1>3 DEF Create, FreshEncKeys
  <2> DEFINE c == [Idle EXCEPT !.pc = "create", !.key = k, !.enc_key = id]
  <2>2. c \in Call /\ CallOK(c) BY DEF Idle, Call, CallOK, Sections, Content
  <2>3. CallsOK(call') BY <2>1, <2>2, PutCall
  <2>4. keystore' \in KeyStores BY <2>1 DEF KeyStores
  <2>5. QED BY <1>3, <2>3, <2>4 DEF Create
<1>4. CASE CreateInsert(t)
  <2> DEFINE c == call[t]
  <2>1. c \in Call /\ c.key \in Keys /\ c.enc_key \in EncKeys
    BY <1>4 DEF CreateInsert, At, CallsOK, CallOK
  <2>2. NewContext(c.key, {}, Absent, c.enc_key) \in Context
    BY <2>1 DEF NewContext, Context, Content
  <2>3. store' \in Stores BY <1>4, <2>1, <2>2, PutContext DEF CreateInsert
  <2>4. CallsOK(call') BY <1>4, <2>1, GotoType DEF CreateInsert
  <2>5. QED BY <1>4, <2>3, <2>4 DEF CreateInsert
<1>5. QED BY <1>1, <1>2, <1>3, <1>4

LEMMA SaveType ==
    ASSUME TypeOK, NEW t \in Threads, NEW k \in Keys, NEW n \in Keys,
           NEW overwrite \in BOOLEAN, NEW backup \in BOOLEAN,
           \/ Save(t, k, overwrite, backup) \/ SaveAll(t, k, backup)
           \/ CreateSave(t) \/ SaveToDbFile(t, k, n)
    PROVE  TypeOK'
<1> USE TypeOKParts DEF Typed
<1>1. CASE Save(t, k, overwrite, backup)
  <2>1. store' \in Stores /\ disk' \in Disks BY <1>1, WriteType DEF Save
  <2>2. QED BY <1>1, <2>1 DEF Save
<1>2. CASE SaveAll(t, k, backup)
  <2>1. store' \in Stores /\ disk' \in Disks BY <1>2, WriteType DEF SaveAll
  <2>2. QED BY <1>2, <2>1 DEF SaveAll
<1>3. CASE CreateSave(t)
  <2> DEFINE j == call[t].key
  <2>1. j \in Keys BY <1>3 DEF CreateSave, At, CallsOK, CallOK
  <2>2. store' \in Stores /\ disk' \in Disks BY <1>3, <2>1, WriteType DEF CreateSave
  <2>3. CallsOK(call') BY <1>3, GotoType DEF CreateSave
  <2>4. QED BY <1>3, <2>2, <2>3 DEF CreateSave
<1>4. CASE SaveToDbFile(t, k, n)
  <2>1. store[k] \in Context BY <1>4, OpenIsContext DEF SaveToDbFile
  <2>2. disk' \in Disks
    BY <1>4, <2>1, BreaksOffType DEF SaveToDbFile, Writable, Context, Disks
  <2>3. QED BY <1>4, <2>2 DEF SaveToDbFile
<1>5. QED BY <1>1, <1>2, <1>3, <1>4

LEMMA RekeyType ==
    ASSUME TypeOK, NEW t \in Threads, NEW k \in Keys, NEW n \in Keys,
           \/ SaveAs(t, k, n) \/ Rename(t, k, n)
           \/ SaveAsWrite(t) \/ RenameFile(t) \/ MoveContext(t)
    PROVE  TypeOK'
<1> USE TypeOKParts DEF Typed
<1>1. ASSUME NEW p \in {"save_as_write", "rename"}, CopyKey(t, k, n, p)
      PROVE  TypeOK'
  <2> DEFINE c == [Idle EXCEPT !.pc = p, !.key = k, !.other = n]
  <2>1. c \in Call /\ CallOK(c) BY DEF Idle, Call, CallOK, Sections, Content
  <2>2. CallsOK(call') BY <1>1, <2>1, PutCall DEF CopyKey
  <2>3. keystore' \in KeyStores BY <1>1 DEF CopyKey, KeyStores
  <2>4. QED BY <1>1, <2>2, <2>3 DEF CopyKey
<1> DEFINE j == call[t].key
           f == call[t].other
<1>2. ASSUME At(t, "save_as_write") \/ At(t, "rename") \/ At(t, "move")
      PROVE  j \in Keys /\ f \in Keys
  BY <1>2 DEF At, CallsOK, CallOK
<1>3. ASSUME At(t, "save_as_write") \/ At(t, "rename"), Return(t) \/ Move(t)
      PROVE  CallsOK(call')
  <2>1. CASE Return(t) BY <2>1, GotoType
  <2>2. CASE Move(t)
    <3> DEFINE c == [call[t] EXCEPT !.pc = "move"]
    <3>1. c \in Call /\ CallOK(c) BY <1>2, <1>3 DEF CallsOK, CallOK, Call, Sections
    <3>2. call' = [call EXCEPT ![t] = c] BY <2>2 DEF Move
    <3>3. QED BY <3>1, <3>2, PutCall
  <2>3. QED BY <1>3, <2>1, <2>2
<1>4. CASE SaveAsWrite(t)
  <2> DEFINE c == [store[j] EXCEPT !.file_name = f]
  <2>1. j \in Keys /\ f \in Keys BY <1>2, <1>4 DEF SaveAsWrite
  <2>2. CallsOK(call') BY <1>3, <1>4 DEF SaveAsWrite
  <2>3. Open(j) => c \in Context BY <2>1, OpenIsContext DEF Context
  <2>4. Open(j) /\ Writable(c) => Saved(c) \in Context /\ c.content \in Content
    BY <2>3 DEF Saved, Writable, Context
  <2>5. store' \in Stores BY <1>4, <2>1, <2>3, <2>4, PutContext DEF SaveAsWrite
  <2>6. disk' \in Disks
    BY <1>4, <2>1, <2>3, <2>4, BreaksOffType DEF SaveAsWrite, Disks
  <2>7. QED BY <1>4, <2>2, <2>5, <2>6 DEF SaveAsWrite
<1>5. CASE RenameFile(t)
  <2> DEFINE c == [store[j] EXCEPT !.file_name = f]
  <2>1. j \in Keys /\ f \in Keys BY <1>2, <1>5 DEF RenameFile
  <2>2. CallsOK(call') BY <1>3, <1>5 DEF RenameFile
  <2>3. Open(j) => c \in Context BY <2>1, OpenIsContext DEF Context
  <2>4. [store EXCEPT ![j].file_name = f] = [store EXCEPT ![j] = c] OBVIOUS
  <2>5. store' \in Stores BY <1>5, <2>1, <2>3, <2>4, PutContext DEF RenameFile
  <2>6. QED BY <1>5, <2>2, <2>5 DEF RenameFile
<1>6. CASE MoveContext(t)
  <2>1. j \in Keys /\ f \in Keys BY <1>2, <1>6 DEF MoveContext
  <2>2. store' \in Stores BY <1>6, <2>1 DEF MoveContext, Stores
  <2>3. keystore' \in KeyStores BY <1>6 DEF MoveContext, KeyStores
  <2>4. CallsOK(call') BY <1>6, GotoType DEF MoveContext
  <2>5. QED BY <1>6, <2>2, <2>3, <2>4 DEF MoveContext
<1>7. QED BY <1>1, <1>4, <1>5, <1>6 DEF SaveAs, Rename

LEMMA CloseType ==
    ASSUME TypeOK, NEW t \in Threads, NEW k \in Keys,
           Close(t, k) \/ CloseAll(t, k) \/ CloseNext(t)
    PROVE  TypeOK'
<1> USE TypeOKParts DEF Typed
<1>1. ASSUME NEW j, Remove(j)
      PROVE  store' \in Stores /\ keystore' \in KeyStores
  BY <1>1 DEF Remove, Stores, KeyStores
<1>2. CASE Close(t, k)
  BY <1>1, <1>2 DEF Close
<1>3. CASE CloseAll(t, k)
  <2> DEFINE c == [Idle EXCEPT !.pc = "close_all", !.rest = {j \in Keys : Open(j)}]
  <2>1. c \in Call /\ CallOK(c) BY DEF Idle, Call, CallOK, Sections, Content
  <2>2. CallsOK(call') BY <1>3, <2>1, PutCall DEF CloseAll
  <2>3. QED BY <1>3, <2>2 DEF CloseAll
<1>4. CASE CloseNext(t)
  <2>1. PICK j \in call[t].rest :
           /\ Remove(j)
           /\ call' = [call EXCEPT ![t] = IF call[t].rest = {j} THEN Idle
                                          ELSE [call[t] EXCEPT !.rest = @ \ {j}]]
    BY <1>4 DEF CloseNext
  <2> DEFINE c == IF call[t].rest = {j} THEN Idle
                  ELSE [call[t] EXCEPT !.rest = @ \ {j}]
  <2>2. [call[t] EXCEPT !.rest = @ \ {j}] \in Call
        /\ CallOK([call[t] EXCEPT !.rest = @ \ {j}])
    BY <1>4 DEF CloseNext, At, CallsOK, CallOK, Call
  <2>3. Idle \in Call /\ CallOK(Idle) BY DEF Idle, Call, CallOK, Sections, Content
  <2>4. call' = [call EXCEPT ![t] = c] BY <2>1
  <2>5. c \in Call /\ CallOK(c) BY <2>2, <2>3
  <2>6. CallsOK(call') BY <2>4, <2>5, PutCall
  <2>7. QED BY <1>1, <1>4, <2>1, <2>6 DEF CloseNext
<1>5. QED BY <1>2, <1>3, <1>4

LEMMA LockType ==
    ASSUME TypeOK, NEW t \in Threads, NEW k \in Keys, NEW locked \in BOOLEAN,
           \/ Lock(t, k) \/ SetLocked(t, k, locked)
           \/ UnlockCompare(t, k) \/ UnlockRestore(t) \/ UnlockBiometric(t, k)
    PROVE  TypeOK'
<1> USE TypeOKParts DEF Typed
<1>1. CASE Lock(t, k)
  <2> DEFINE c == store[k]
  <2>1. c \in Context BY <1>1, OpenIsContext DEF Lock
  <2>2. [c EXCEPT !.blob = Absent, !.locked = TRUE] \in Context
        /\ [c EXCEPT !.content = Absent] \in Context
    BY <2>1 DEF Context
  <2>3. ASSUME c.content # Absent, keystore[k] # Absent
        PROVE  [c EXCEPT !.content = Absent, !.locked = TRUE,
                         !.blob = [data |-> c.content, enc_key |-> keystore[k]]] \in Context
    BY <2>1, <2>3 DEF Context, Blob, KeyStores
  <2>4. store' \in Stores BY <1>1, <2>2, <2>3, PutContext DEF Lock
  <2>5. QED BY <1>1, <2>4 DEF Lock
<1>2. CASE SetLocked(t, k, locked)
  <2> DEFINE c == [store[k] EXCEPT !.locked = locked]
  <2>1. c \in Context BY <1>2, OpenIsContext DEF SetLocked, Context
  <2>2. store' = [store EXCEPT ![k] = c] BY <1>2 DEF SetLocked
  <2>3. QED BY <1>2, <2>1, <2>2, PutContext DEF SetLocked
<1>3. CASE UnlockCompare(t, k)
  BY <1>3, GotoType DEF UnlockCompare
<1>4. CASE UnlockRestore(t)
  <2>1. call[t].key \in Keys BY <1>4 DEF UnlockRestore, At, CallsOK, CallOK
  <2>2. store' \in Stores BY <1>4, <2>1, RestoreType DEF UnlockRestore
  <2>3. QED BY <1>4, <2>2, GotoType DEF UnlockRestore
<1>5. CASE UnlockBiometric(t, k)
  BY <1>5, RestoreType DEF UnlockBiometric
<1>6. QED BY <1>1, <1>2, <1>3, <1>4, <1>5

LEMMA MergeType ==
    ASSUME TypeOK, NEW t \in Threads, NEW k \in Keys, NEW s \in Keys,
           \/ Reload(t, k) \/ MergeDisk(t, k) \/ Merge(t, k, s)
           \/ MergeApply(t) \/ MergeClose(t)
    PROVE  TypeOK'
<1> USE TypeOKParts DEF Typed
<1>1. CASE Reload(t, k)
  <2> DEFINE c == [store[k] EXCEPT !.content = disk[k], !.checksum = disk[k]]
  <2>1. c \in Context
    BY <1>1, OpenIsContext DEF Reload, Reloadable, Readable, Disks, Context
  <2>2. store' = [store EXCEPT ![k] = c] BY <1>1 DEF Reload
  <2>3. QED BY <1>1, <2>1, <2>2, PutContext DEF Reload
<1>2. CASE MergeDisk(t, k)
  <2> DEFINE c == [Changed(store[k], disk[k]) EXCEPT !.checksum = disk[k],
                                                     !.save_pending = TRUE]
  <2>1. store[k] \in Context /\ disk[k] \in Content
    BY <1>2, OpenIsContext DEF MergeDisk, Reloadable, Readable, Disks
  <2>2. ASSUME store[k].content # Absent, NEW d \in SUBSET disk[k]
        PROVE  c \in Context /\ Changed(store[k], d) \in Context
    BY <2>1, <2>2 DEF Changed, Context, Content
  <2>3. store' \in Stores BY <1>2, <2>2, PutContext DEF MergeDisk
  <2>4. poisoned' \in BOOLEAN BY <1>2 DEF MergeDisk
  <2>5. QED BY <1>2, <2>3, <2>4 DEF MergeDisk
<1>3. CASE Merge(t, k, s)
  <2>1. CASE ReadFile(t, s, k) BY <2>1, OpenType
  <2>2. CASE /\ call' = [call EXCEPT ![t] = [Idle EXCEPT !.pc = "merge", !.key = s, !.other = k]]
             /\ UNCHANGED <<store, keystore, disk, used, poisoned>>
    <3> DEFINE c == [Idle EXCEPT !.pc = "merge", !.key = s, !.other = k]
    <3>1. c \in Call /\ CallOK(c) BY DEF Idle, Call, CallOK, Sections, Content
    <3>2. CallsOK(call') BY <2>2, <3>1, PutCall
    <3>3. QED BY <2>2, <3>2
  <2>3. QED BY <1>3, <2>1, <2>2 DEF Merge
<1>4. CASE MergeApply(t)
  <2> DEFINE i == call[t].key
             j == call[t].other
  <2>1. i \in Keys /\ j \in Keys BY <1>4 DEF MergeApply, At, CallsOK, CallOK
  <2>2. ASSUME NEW d \in SUBSET store[i].content, Open(i), Open(j),
               store[i].content # Absent, store[j].content # Absent,
               store' = [store EXCEPT ![j] = Changed(store[j], d)]
        PROVE  store' \in Stores
    <3>1. store[i].content \in Content BY <2>1, <2>2, OpenIsContext DEF Context
    <3>2. Changed(store[j], d) \in Context
      BY <2>1, <2>2, <3>1, OpenIsContext DEF Changed, Context, Content
    <3>3. QED BY <2>1, <2>2, <3>2, PutContext
  <2>3. store' \in Stores BY <1>4, <2>2 DEF MergeApply
  <2>4. AfterMerge(call[t]) \in Call /\ CallOK(AfterMerge(call[t]))
    BY <1>4 DEF MergeApply, At, AfterMerge, Idle, CallsOK, CallOK, Call, Sections, Content
  <2>5. CallsOK(call') BY <1>4, <2>4, PutCall, GotoType DEF MergeApply
  <2>6. poisoned' \in BOOLEAN BY <1>4 DEF MergeApply
  <2>7. QED BY <1>4, <2>3, <2>5, <2>6 DEF MergeApply
<1>5. CASE MergeClose(t)
  <2>1. store' \in Stores /\ keystore' \in KeyStores
    BY <1>5 DEF MergeClose, Remove, Stores, KeyStores
  <2>2. QED BY <1>5, <2>1, GotoType DEF MergeClose
<1>6. QED BY <1>1, <1>2, <1>3, <1>4, <1>5

LEMMA ExternalType ==
    ASSUME TypeOK, NEW f \in Keys, ExternalEdit(f)
    PROVE  TypeOK'
<1> USE TypeOKParts DEF Typed
<1>1. PICK e \in Edits : disk' = [disk EXCEPT ![f] = @ \cup {e}] /\ used' = used \cup {e}
  BY DEF ExternalEdit
<1>2. disk' \in Disks BY <1>1 DEF ExternalEdit, Readable, Disks, Content
<1>3. QED BY <1>1, <1>2 DEF ExternalEdit

-----------------------------------------------------------------------------
(* Steps of the specification *)

LEMMA InitType == Init => TypeOK
<1>1. Idle \in Call /\ CallOK(Idle) BY DEF Idle, Call, CallOK, Sections, Content
<1>2. QED BY <1>1 DEF Init, TypeOK, Content

\* Every step keeps the types.
LEMMA TypeStep ==
    ASSUME TypeOK, [Next]_vars
    PROVE  TypeOK'
<1>1. ASSUME NEW t \in Threads, NEW k \in Keys, Start(t, k)
      PROVE  TypeOK'
  <2>1. CASE Load(t, k) BY <2>1, OpenType DEF Load
  <2>2. CASE Create(t, k) BY <2>2, OpenType
  <2>3. QED
    BY <1>1, <2>1, <2>2, EditType, SaveType, RekeyType, CloseType, LockType, MergeType
    DEF Start
<1>2. ASSUME NEW t \in Threads, Continue(t)
      PROVE  TypeOK'
  <2>1. PICK k \in Keys : TRUE
    BY <1>2 DEF Continue, Mark, Insert, CreateInsert, CreateSave, SaveAsWrite, RenameFile,
                MoveContext, CloseNext, UnlockRestore, MergeApply, MergeClose, At, TypeOK,
                CallOK, Call
  <2>2. QED
    BY <1>2, <2>1, EditType, OpenType, SaveType, RekeyType, CloseType, LockType, MergeType
    DEF Continue
<1>3. ASSUME NEW f \in Keys, ExternalEdit(f)
      PROVE  TypeOK'
  BY <1>3, ExternalType
<1>4. CASE UNCHANGED vars BY <1>4 DEF vars, TypeOK
<1>5. QED BY <1>1, <1>2, <1>3, <1>4 DEF Next

\* Every reachable state has the declared types: contexts are complete, every
\* file is a database, empty or missing, and every call that is between two of
\* its sections knows the database that it is about.
THEOREM TypeCorrect == Spec => []TypeOK
BY InitType, TypeStep, PTL DEF Spec

-----------------------------------------------------------------------------
(* Locked databases and lost edits *)

\* The flag of a database is not set by itself and no locked database is
\* reloaded: what the user interface makes sure of, and the code does not.
LockDiscipline ==
    /\ "set_db_locked" \notin Calls
    /\ "reload_kdbx" \notin LockedCalls

\* What holds of every context in the store
Sound(c) ==
    /\ c.blob # Absent => c.locked /\ c.content = Absent
    /\ c.checksum # Absent /\ (c.content # Absent \/ c.blob # Absent)
          => c.checksum \subseteq Held(c)

AllSound == \A k \in Keys : Open(k) => Sound(store[k])

LEMMA SoundParts == AllSound <=> LockedIsCiphertext /\ SeenIsHeld
BY DEF AllSound, Sound, LockedIsCiphertext, SeenIsHeld

\* Putting a sound context, or none, under a key keeps the others sound.
LEMMA PutSound ==
    ASSUME store \in Stores, AllSound, NEW k \in Keys, NEW c, c # Absent => Sound(c),
           store' = [store EXCEPT ![k] = c]
    PROVE  AllSound'
BY DEF AllSound, Open, Stores

\* Nothing is opened, closed or changed: the contexts stay sound.
LEMMA SameStoreSound ==
    ASSUME AllSound, UNCHANGED store
    PROVE  AllSound'
BY DEF AllSound, Open

\* A content is never the missing one.
LEMMA ContentPresent == \A S \in Content : S # Absent
BY AbsentAssumption DEF Content

\* A sound context with content is sound after the content has grown.
LEMMA ChangedSound ==
    ASSUME NEW c \in Context, Sound(c), c.content # Absent, NEW d \in Content
    PROVE  Sound(Changed(c, d))
<1>1. c.content \in Content /\ c.blob = Absent BY DEF Context, Sound
<1>2. c.content \cup d \in Content BY <1>1 DEF Content
<1>3. c.content \cup d # Absent BY <1>2, ContentPresent
<1>4. Changed(c, d).content = c.content \cup d /\ Changed(c, d).blob = c.blob
      /\ Changed(c, d).checksum = c.checksum
  BY DEF Changed, Context
<1>5. Held(Changed(c, d)) = c.content \cup d BY <1>3, <1>4 DEF Held
<1>6. c.checksum # Absent => c.checksum \subseteq c.content BY <1>1 DEF Sound, Held
<1>7. QED BY <1>1, <1>4, <1>5, <1>6 DEF Sound

\* A context that was written is sound.
LEMMA SavedSound ==
    ASSUME NEW c \in Context, Sound(c), c.content # Absent
    PROVE  Sound(Saved(c))
BY DEF Saved, Sound, Held, Context

\* Write keeps the contexts sound.
LEMMA WriteSound ==
    ASSUME store \in Stores, AllSound, NEW k \in Keys, Open(k),
           NEW overwrite \in BOOLEAN, NEW backup \in BOOLEAN, Write(k, overwrite, backup)
    PROVE  AllSound'
<1>1. CASE UNCHANGED store BY <1>1, SameStoreSound
<1>2. CASE store' = [store EXCEPT ![k] = Saved(store[k])] /\ Writable(store[k])
  <2>1. Sound(Saved(store[k])) BY <1>2, OpenIsContext, SavedSound DEF Writable, AllSound
  <2>2. QED BY <1>2, <2>1, PutSound
<1>3. QED BY <1>1, <1>2 DEF Write

\* Restoring the locked content of a sound context keeps it sound.
LEMMA RestoreSound ==
    ASSUME store \in Stores, AllSound, NEW k \in Keys, Open(k), RestoreLockedContent(k)
    PROVE  AllSound'
<1> DEFINE c == store[k]
<1>1. c \in Context /\ Sound(c) BY OpenIsContext DEF AllSound
<1>2. CASE c.blob = Absent
  <2>1. Sound([c EXCEPT !.locked = FALSE]) BY <1>1, <1>2 DEF Sound, Held, Context
  <2>2. store' = [store EXCEPT ![k] = [c EXCEPT !.locked = FALSE]]
    BY <1>2 DEF RestoreLockedContent
  <2>3. QED BY <2>1, <2>2, PutSound
<1>3. CASE c.blob # Absent /\ keystore[k] = c.blob.enc_key
  <2> DEFINE d == [c EXCEPT !.content = c.blob.data, !.blob = Absent, !.locked = FALSE]
  <2>1. c.blob.data # Absent BY <1>1, <1>3, ContentPresent DEF Context, Blob
  <2>2. Sound(d) BY <1>1, <1>3, <2>1 DEF Sound, Held, Context
  <2>3. store' = [store EXCEPT ![k] = d] BY <1>3 DEF RestoreLockedContent
  <2>4. QED BY <2>2, <2>3, PutSound
<1>4. CASE c.blob # Absent /\ keystore[k] # c.blob.enc_key
  <2>1. Sound([c EXCEPT !.blob = Absent]) BY <1>1, <1>4 DEF Sound, Held, Context
  <2>2. store' = [store EXCEPT ![k] = [c EXCEPT !.blob = Absent]]
    BY <1>4 DEF RestoreLockedContent
  <2>3. QED BY <2>1, <2>2, PutSound
<1>5. QED BY <1>2, <1>3, <1>4

\* Locking a sound context keeps it sound.
LEMMA LockSound ==
    ASSUME store \in Stores, AllSound, NEW t \in Threads, NEW k \in Keys, Lock(t, k)
    PROVE  AllSound'
<1> DEFINE c == store[k]
<1>1. c \in Context /\ Sound(c) BY OpenIsContext DEF AllSound, Lock
<1>2. CASE c.content = Absent
  <2>1. Sound([c EXCEPT !.blob = Absent, !.locked = TRUE])
    BY <1>1, <1>2 DEF Sound, Held, Context
  <2>2. store' = [store EXCEPT ![k] = [c EXCEPT !.blob = Absent, !.locked = TRUE]]
    BY <1>2 DEF Lock
  <2>3. QED BY <2>1, <2>2, PutSound
<1>3. CASE c.content # Absent /\ keystore[k] = Absent
  <2>1. Sound([c EXCEPT !.content = Absent]) BY <1>1, <1>3 DEF Sound, Held, Context
  <2>2. store' = [store EXCEPT ![k] = [c EXCEPT !.content = Absent]] BY <1>3 DEF Lock
  <2>3. QED BY <2>1, <2>2, PutSound
<1>4. CASE c.content # Absent /\ keystore[k] # Absent
  <2> DEFINE d == [c EXCEPT !.content = Absent, !.locked = TRUE,
                            !.blob = [data |-> c.content, enc_key |-> keystore[k]]]
  <2>1. Sound(d) BY <1>1, <1>4 DEF Sound, Held, Context
  <2>2. store' = [store EXCEPT ![k] = d] BY <1>4 DEF Lock
  <2>3. QED BY <2>1, <2>2, PutSound
<1>5. QED BY <1>2, <1>3, <1>4

\* Reloading and merging keep the contexts sound: a locked database is neither
\* reloaded nor, without a panic, merged.
LEMMA MergeSound ==
    ASSUME LockDiscipline, TypeOK, AllSound, NEW t \in Threads, NEW k \in Keys,
           Reload(t, k) \/ MergeDisk(t, k) \/ MergeApply(t)
    PROVE  AllSound'
<1> USE TypeOKParts DEF Typed
<1>1. CASE Reload(t, k)
  <2> DEFINE c == [store[k] EXCEPT !.content = disk[k], !.checksum = disk[k]]
  <2>1. store[k] \in Context /\ Sound(store[k]) /\ ~store[k].locked
    BY <1>1, OpenIsContext DEF Reload, Reloadable, Begin, Locked, LockDiscipline, AllSound
  <2>2. disk[k] # Absent BY <1>1 DEF Reload, Reloadable, Readable
  <2>3. Sound(c) BY <2>1, <2>2 DEF Sound, Held, Context
  <2>4. QED BY <1>1, <2>3, PutSound DEF Reload
<1>2. CASE MergeDisk(t, k) /\ store[k].content # Absent
  <2> DEFINE b == Changed(store[k], disk[k])
             c == [b EXCEPT !.checksum = disk[k], !.save_pending = TRUE]
  <2>1. store[k] \in Context /\ Sound(store[k]) /\ disk[k] \in Content
    BY <1>2, OpenIsContext DEF MergeDisk, Reloadable, Readable, Disks, AllSound
  <2>2. Sound(b) BY <1>2, <2>1, ChangedSound
  <2>3. b \in Context /\ disk[k] \subseteq b.content /\ b.content # Absent
    BY <1>2, <2>1, ContentPresent DEF Changed, Context, Content
  <2>4. b.blob = Absent BY <2>2, <2>3 DEF Sound
  <2>5. Sound(c) BY <2>3, <2>4 DEF Sound, Held, Context
  <2>6. ASSUME NEW part \in SUBSET disk[k], store' = [store EXCEPT ![k] = Changed(store[k], part)]
        PROVE  AllSound'
    <3>1. part \in Content BY <2>1 DEF Content
    <3>2. Sound(Changed(store[k], part)) BY <1>2, <2>1, <3>1, ChangedSound
    <3>3. QED BY <2>6, <3>2, PutSound
  <2>7. QED BY <1>2, <2>5, <2>6, PutSound DEF MergeDisk
<1>3. CASE MergeDisk(t, k) /\ store[k].content = Absent
  BY <1>3, SameStoreSound DEF MergeDisk
<1>4. CASE MergeApply(t)
  <2> DEFINE i == call[t].key
             j == call[t].other
  <2>1. i \in Keys /\ j \in Keys BY <1>4 DEF MergeApply, At, CallsOK, CallOK
  <2>2. ASSUME NEW d \in SUBSET store[i].content, Open(i), Open(j),
               store[i].content # Absent, store[j].content # Absent,
               store' = [store EXCEPT ![j] = Changed(store[j], d)]
        PROVE  AllSound'
    <3>1. d \in Content BY <2>1, <2>2, OpenIsContext DEF Context, Content
    <3>2. Sound(Changed(store[j], d))
      BY <2>1, <2>2, <3>1, OpenIsContext, ChangedSound DEF AllSound
    <3>3. QED BY <2>1, <2>2, <3>2, PutSound
  <2>3. QED BY <1>4, <2>2, SameStoreSound DEF MergeApply
<1>5. QED BY <1>1, <1>2, <1>3, <1>4

\* Changing the name under which a context is saved and stored keeps it sound.
LEMMA RekeySound ==
    ASSUME TypeOK, AllSound, NEW t \in Threads,
           SaveAsWrite(t) \/ RenameFile(t) \/ MoveContext(t)
    PROVE  AllSound'
<1> USE TypeOKParts DEF Typed
<1> DEFINE j == call[t].key
           f == call[t].other
           c == [store[j] EXCEPT !.file_name = f]
<1>1. j \in Keys /\ f \in Keys
  BY DEF SaveAsWrite, RenameFile, MoveContext, At, CallsOK, CallOK
<1>2. ASSUME Open(j)
      PROVE  c \in Context /\ Sound(c)
  BY <1>1, <1>2, OpenIsContext DEF AllSound, Sound, Held, Context
<1>3. CASE UNCHANGED store BY <1>3, SameStoreSound
<1>4. CASE Open(j) /\ store' = [store EXCEPT ![j] = c]
  BY <1>1, <1>2, <1>4, PutSound
<1>5. CASE Open(j) /\ Writable(c) /\ store' = [store EXCEPT ![j] = Saved(c)]
  <2>1. Sound(Saved(c)) BY <1>2, <1>5, SavedSound DEF Writable
  <2>2. QED BY <1>1, <1>5, <2>1, PutSound
<1>6. CASE MoveContext(t)
  BY <1>1, <1>6 DEF MoveContext, AllSound, Open, Stores
<1>7. CASE RenameFile(t)
  <2>1. Open(j) => [store EXCEPT ![j].file_name = f] = [store EXCEPT ![j] = c]
    OBVIOUS
  <2>2. QED BY <1>3, <1>4, <1>7, <2>1 DEF RenameFile
<1>8. QED BY <1>3, <1>4, <1>5, <1>6, <1>7 DEF SaveAsWrite

LEMMA EditSound ==
    ASSUME TypeOK, AllSound, NEW t \in Threads, NEW k \in Keys,
           Edit(t, k) \/ SetCredentials(t, k) \/ Mark(t)
    PROVE  AllSound'
<1> USE TypeOKParts DEF Typed
<1>1. ASSUME NEW e \in Edits, Open(k), store[k].content # Absent
      PROVE  /\ Changed(store[k], {e}) \in Context
             /\ Sound(Changed(store[k], {e}))
  <2>1. {e} \in Content BY DEF Content
  <2>2. store[k] \in Context /\ Sound(store[k]) BY <1>1, OpenIsContext DEF AllSound
  <2>3. Changed(store[k], {e}) \in Context BY <1>1, <2>2 DEF Changed, Context, Content
  <2>4. QED BY <1>1, <2>1, <2>2, <2>3, ChangedSound
<1>2. CASE Edit(t, k)
  BY <1>1, <1>2, SameStoreSound, PutSound DEF Edit
<1>3. CASE SetCredentials(t, k)
  <2>1. PICK e \in Edits, id \in EncKeys :
           store' = [store EXCEPT ![k] = [Changed(store[k], {e}) EXCEPT !.enc_key = id]]
    BY <1>3 DEF SetCredentials, FreshEncKeys
  <2>2. Sound([Changed(store[k], {e}) EXCEPT !.enc_key = id])
    BY <1>1, <1>3 DEF SetCredentials, Sound, Held, Context
  <2>3. QED BY <2>1, <2>2, PutSound
<1>4. CASE Mark(t)
  <2> DEFINE j == call[t].key
             c == [store[j] EXCEPT !.save_pending = TRUE]
  <2>1. j \in Keys BY <1>4 DEF Mark, At, CallsOK, CallOK
  <2>2. CASE Open(j)
    <3>1. Sound(c) BY <2>1, <2>2, OpenIsContext DEF AllSound, Sound, Held, Context
    <3>2. store' = [store EXCEPT ![j] = c] BY <1>4, <2>2 DEF Mark
    <3>3. QED BY <2>1, <3>1, <3>2, PutSound
  <2>3. CASE ~Open(j) BY <1>4, <2>3, SameStoreSound DEF Mark
  <2>4. QED BY <2>2, <2>3
<1>5. QED BY <1>2, <1>3, <1>4

LEMMA InsertSound ==
    ASSUME TypeOK, AllSound, NEW t \in Threads, Insert(t) \/ CreateInsert(t)
    PROVE  AllSound'
<1> USE TypeOKParts DEF Typed
<1> DEFINE c == call[t]
<1>1. c \in Call /\ c.key \in Keys
  BY DEF Insert, CreateInsert, At, CallsOK, CallOK
<1>2. ASSUME NEW d \in Content, NEW sum \in {Absent, d}
      PROVE  Sound(NewContext(c.key, d, sum, c.enc_key))
  BY <1>2, ContentPresent DEF Sound, NewContext, Held
<1>3. CASE Insert(t)
  <2>1. c.data \in Content BY <1>1 DEF Call
  <2>2. Sound(NewContext(c.key, c.data, c.data, c.enc_key)) BY <1>2, <2>1
  <2>3. QED BY <1>1, <1>3, <2>2, PutSound DEF Insert
<1>4. CASE CreateInsert(t)
  <2>1. Sound(NewContext(c.key, {}, Absent, c.enc_key)) BY <1>2 DEF Content
  <2>2. QED BY <1>1, <1>4, <2>1, PutSound DEF CreateInsert
<1>5. QED BY <1>3, <1>4

\* Removing a context leaves the others as they are.
LEMMA RemoveSound ==
    ASSUME store \in Stores, AllSound, NEW k, Remove(k)
    PROVE  AllSound'
BY DEF Remove, AllSound, Open, Stores

\* Every step keeps all contexts sound.
LEMMA SoundStep ==
    ASSUME LockDiscipline, TypeOK, AllSound, [Next]_vars
    PROVE  AllSound'
<1>1. store \in Stores BY TypeOKParts DEF Typed
<1>2. ASSUME NEW t \in Threads, NEW k \in Keys, Start(t, k)
      PROVE  AllSound'
  <2>1. CASE Edit(t, k) \/ SetCredentials(t, k) BY <2>1, EditSound
  <2>2. CASE Load(t, k) \/ Create(t, k)
    BY <2>2, SameStoreSound DEF Load, ReadFile, Create
  <2>3. CASE \E overwrite, backup \in BOOLEAN : Save(t, k, overwrite, backup)
    BY <1>1, <2>3, WriteSound DEF Save
  <2>4. CASE \E backup \in BOOLEAN : SaveAll(t, k, backup)
    BY <1>1, <2>4, WriteSound DEF SaveAll
  <2>5. CASE \E n \in Keys : SaveToDbFile(t, k, n) \/ SaveAs(t, k, n) \/ Rename(t, k, n)
    BY <2>5, SameStoreSound DEF SaveToDbFile, SaveAs, Rename, CopyKey
  <2>6. CASE Close(t, k) \/ CloseAll(t, k)
    BY <1>1, <2>6, RemoveSound, SameStoreSound DEF Close, CloseAll
  <2>7. CASE Lock(t, k) BY <1>1, <2>7, LockSound
  <2>8. CASE UnlockCompare(t, k) \/ UnlockBiometric(t, k)
    BY <1>1, <2>8, RestoreSound, SameStoreSound DEF UnlockCompare, UnlockBiometric
  <2>9. ~\E locked \in BOOLEAN : SetLocked(t, k, locked)
    BY DEF SetLocked, Begin, LockDiscipline
  <2>10. CASE Reload(t, k) \/ MergeDisk(t, k) BY <2>10, MergeSound
  <2>11. CASE \E s \in Keys : Merge(t, k, s)
    BY <2>11, SameStoreSound DEF Merge, ReadFile
  <2>12. QED
    BY <1>2, <2>1, <2>2, <2>3, <2>4, <2>5, <2>6, <2>7, <2>8, <2>9, <2>10, <2>11 DEF Start
<1>3. ASSUME NEW t \in Threads, Continue(t)
      PROVE  AllSound'
  <2>1. PICK k \in Keys : TRUE
    BY <1>3, TypeOKParts DEF Typed, CallsOK, CallOK, Call, Continue, Mark, Insert,
       CreateInsert, CreateSave, SaveAsWrite, RenameFile, MoveContext, CloseNext,
       UnlockRestore, MergeApply, MergeClose, At
  <2>2. CASE Mark(t) BY <2>1, <2>2, EditSound
  <2>3. CASE Insert(t) \/ CreateInsert(t) BY <2>3, InsertSound
  <2>4. CASE CreateSave(t)
    <3>1. call[t].key \in Keys BY <2>4 DEF CreateSave, At, TypeOK, CallOK
    <3>2. QED BY <1>1, <2>4, <3>1, WriteSound, SameStoreSound DEF CreateSave
  <2>5. CASE SaveAsWrite(t) \/ RenameFile(t) \/ MoveContext(t) BY <2>5, RekeySound
  <2>6. CASE CloseNext(t) \/ MergeClose(t)
    BY <1>1, <2>6, RemoveSound DEF CloseNext, MergeClose
  <2>7. CASE UnlockRestore(t)
    <3>1. call[t].key \in Keys BY <2>7 DEF UnlockRestore, At, TypeOK, CallOK
    <3>2. QED BY <1>1, <2>7, <3>1, RestoreSound, SameStoreSound DEF UnlockRestore
  <2>8. CASE MergeApply(t) BY <2>1, <2>8, MergeSound
  <2>9. QED BY <1>3, <2>2, <2>3, <2>4, <2>5, <2>6, <2>7, <2>8 DEF Continue
<1>4. CASE \E f \in Keys : ExternalEdit(f)
  BY <1>4, SameStoreSound DEF ExternalEdit
<1>5. CASE UNCHANGED vars BY <1>5, SameStoreSound DEF vars
<1>6. QED BY <1>2, <1>3, <1>4, <1>5 DEF Next

LEMMA AlwaysSound ==
    ASSUME LockDiscipline
    PROVE  Spec => [](TypeOK /\ AllSound)
<1>1. Init => TypeOK /\ AllSound
  BY InitType DEF Init, AllSound, Open
<1>2. TypeOK /\ AllSound /\ [Next]_vars => (TypeOK /\ AllSound)'
  BY TypeStep, SoundStep
<1>3. QED BY <1>1, <1>2, PTL DEF Spec

\* While a database is locked nothing but its ciphertext is in memory, whatever
\* the threads do and in which order, if no client sets the flag by itself or
\* reloads a locked database.
THEOREM LockedStaysCiphertext ==
    ASSUME LockDiscipline
    PROVE  Spec => []LockedIsCiphertext
<1>1. TypeOK /\ AllSound => LockedIsCiphertext BY SoundParts
<1>2. QED BY <1>1, AlwaysSound, PTL

\* Under the same discipline no save without overwrite loses an edit that another
\* program has put in the file, whatever was locked, unlocked, renamed or merged
\* since the file was read; what a write that breaks off tears is still in memory.
THEOREM NoEditLost ==
    ASSUME LockDiscipline
    PROVE  Spec => NoSilentOverwrite
<1>1. ASSUME TypeOK, AllSound, NEW t \in Threads, NEW k \in Keys, NEW backup \in BOOLEAN,
             Save(t, k, FALSE, backup) \/ SaveAll(t, k, backup)
      PROVE  \A f \in Keys : Readable(f) =>
                disk[f] \subseteq IF Readable(f)' THEN disk'[f] ELSE Held(store'[k])
  <2> DEFINE c == store[k]
             g == c.file_name
  <2>1. Open(k) /\ Write(k, FALSE, backup) BY <1>1 DEF Save, SaveAll
  <2>2. c \in Context /\ Sound(c) /\ disk \in Disks
    BY <1>1, <2>1, TypeOKParts, OpenIsContext DEF Typed, AllSound
  <2>3. CASE UNCHANGED disk BY <2>3 DEF Readable
  <2>4. CASE disk[g] = Absent /\ disk' = [disk EXCEPT ![g] = Torn]
    BY <2>2, <2>4 DEF Readable, Disks
  <2>5. ASSUME Writable(c), Unmodified(c)
        PROVE  /\ c.content # Absent /\ c.content # Torn
               /\ disk[g] \subseteq c.content /\ Held(c) = c.content
    <3>1. c.content \in Content /\ c.blob = Absent
      BY <2>2, <2>5 DEF Writable, Context, Sound
    <3>2. c.content # Absent /\ c.content # Torn BY <3>1, AbsentAssumption DEF Content
    <3>3. disk[g] \subseteq c.content
      BY <2>2, <2>5, <3>1, <3>2 DEF Unmodified, Readable, Sound, Held
    <3>4. QED BY <3>2, <3>3 DEF Held
  <2>6. CASE Writable(c) /\ Unmodified(c) /\ disk' = [disk EXCEPT ![g] = c.content]
    BY <2>2, <2>5, <2>6 DEF Readable, Disks, Context
  <2>7. CASE /\ Writable(c) /\ Unmodified(c) /\ UNCHANGED store
             /\ disk' = [disk EXCEPT ![g] = Torn]
    BY <2>2, <2>5, <2>7 DEF Readable, Disks, Context
  <2>8. QED BY <2>1, <2>3, <2>4, <2>6, <2>7 DEF Write, BreaksOff
<1>2. TypeOK /\ AllSound => SaveKeepsEdits BY <1>1 DEF SaveKeepsEdits
<1>3. QED BY <1>2, AlwaysSound, PTL DEF NoSilentOverwrite

-----------------------------------------------------------------------------
(* Files *)

\* No file that was a database is left unreadable.
KeepsReadable == \A f \in Keys : Readable(f) => Readable(f)'

LEMMA KeptHasSource == KeepsReadable => TornHasSource
BY DEF KeepsReadable, TornHasSource

\* What context c, that stays under its key k, was to put into its file f is there
\* after the write has broken off.
LEMMA BrokenHasSource ==
    ASSUME TypeOK, NEW k \in Keys, NEW c \in Context, NEW f \in Keys, c.file_name = f,
           store' = [store EXCEPT ![k] = c], UNCHANGED keystore, BreaksOff(c, f)
    PROVE  TornHasSource
<1>1. store \in Stores /\ disk \in Disks BY TypeOKParts DEF Typed
<1>2. store'[k] = c BY <1>1 DEF Stores
<1>3. c # Absent BY NoneAssumption
<1>4. (Open(k) /\ store[k].file_name = f /\ Writable(store[k]))'
  BY <1>2, <1>3 DEF Open, Writable, HasKey, BreaksOff
<1>5. \A g \in Keys : g # f => disk'[g] = disk[g] BY <1>1 DEF BreaksOff, Disks
<1>6. \A g \in Keys : Readable(g) /\ ~Readable(g)' => g = f BY <1>5 DEF Readable
<1>7. QED BY <1>4, <1>6 DEF TornHasSource

\* A write that comes to its end, or is refused, leaves no file unreadable; one that
\* breaks off leaves its context as it was.
LEMMA WriteHasSource ==
    ASSUME TypeOK, NEW k \in Keys, Open(k), NEW overwrite \in BOOLEAN,
           NEW backup \in BOOLEAN, Write(k, overwrite, backup), UNCHANGED keystore
    PROVE  TornHasSource
<1> DEFINE c == store[k]
<1>1. c \in Context /\ disk \in Disks BY TypeOKParts, OpenIsContext DEF Typed
<1>2. CASE UNCHANGED disk BY <1>2, KeptHasSource DEF KeepsReadable, Readable
<1>3. CASE disk[c.file_name] = Absent /\ disk' = [disk EXCEPT ![c.file_name] = Torn]
  BY <1>1, <1>3, KeptHasSource DEF KeepsReadable, Readable, Disks
<1>4. CASE Writable(c) /\ disk' = [disk EXCEPT ![c.file_name] = c.content]
  <2>1. c.content \in Content BY <1>1, <1>4 DEF Writable, Context
  <2>2. QED BY <1>1, <1>4, <2>1, KeptHasSource, AbsentAssumption
            DEF KeepsReadable, Readable, Disks, Content
<1>5. CASE UNCHANGED store /\ BreaksOff(c, c.file_name)
  <2>1. store' = [store EXCEPT ![k] = c] BY <1>5, TypeOKParts DEF Typed, Stores
  <2>2. QED BY <1>1, <1>5, <2>1, BrokenHasSource DEF Context
<1>6. QED BY <1>2, <1>3, <1>4, <1>5 DEF Write

\* Without exports a file that was a database is left unreadable only by a write that
\* breaks off, while all that it was to write is in an open database that can be
\* saved: every way to write a file checks that there is content, and that it can be
\* encrypted, before the file is touched.
THEOREM NoFileTorn ==
    ASSUME "save_to_db_file" \notin Calls
    PROVE  Spec => FilesStayReadable
<1>1. ASSUME TypeOK, NEW t \in Threads, NEW k \in Keys, Start(t, k)
      PROVE  TornHasSource
  <2>1. CASE \E overwrite, backup \in BOOLEAN : Save(t, k, overwrite, backup)
    BY <1>1, <2>1, WriteHasSource DEF Save
  <2>2. CASE \E backup \in BOOLEAN : SaveAll(t, k, backup)
    BY <1>1, <2>2, WriteHasSource DEF SaveAll
  <2>3. ~\E n \in Keys : SaveToDbFile(t, k, n) BY DEF SaveToDbFile, Begin
  <2>4. CASE UNCHANGED disk BY <2>4, KeptHasSource DEF KeepsReadable, Readable
  <2>5. QED
    BY <1>1, <2>1, <2>2, <2>3, <2>4
    DEF Start, Edit, SetCredentials, Load, ReadFile, Create, SaveAs, Rename, CopyKey, Close,
        CloseAll, Lock, UnlockCompare, UnlockBiometric, SetLocked, Reload, MergeDisk, Merge
<1>2. ASSUME TypeOK, NEW t \in Threads, Continue(t)
      PROVE  TornHasSource
  <2> DEFINE j == call[t].key
             f == call[t].other
             c == [store[j] EXCEPT !.file_name = f]
  <2>1. CASE UNCHANGED disk BY <2>1, KeptHasSource DEF KeepsReadable, Readable
  <2>2. CASE CreateSave(t)
    <3>1. j \in Keys BY <1>2, <2>2 DEF CreateSave, At, TypeOK, CallOK
    <3>2. QED BY <1>2, <2>1, <2>2, <3>1, WriteHasSource DEF CreateSave
  <2>3. CASE SaveAsWrite(t)
    <3>1. j \in Keys /\ f \in Keys /\ disk \in Disks
      BY <1>2, <2>3, TypeOKParts DEF Typed, SaveAsWrite, At, CallsOK, CallOK
    <3>2. Open(j) => c \in Context /\ c.file_name = f
      BY <1>2, <3>1, TypeOKParts, OpenIsContext DEF Typed, Context
    <3>3. CASE Open(j) /\ Writable(c) /\ disk' = [disk EXCEPT ![f] = c.content]
      <4>1. c.content \in Content BY <3>2, <3>3 DEF Writable, Context
      <4>2. QED BY <3>1, <3>3, <4>1, KeptHasSource, AbsentAssumption
                DEF KeepsReadable, Readable, Disks, Content
    <3>4. CASE disk[f] = Absent /\ disk' = [disk EXCEPT ![f] = Torn]
      BY <3>1, <3>4, KeptHasSource DEF KeepsReadable, Readable, Disks
    <3>5. CASE Open(j) /\ store' = [store EXCEPT ![j] = c] /\ BreaksOff(c, f)
      BY <1>2, <2>3, <3>1, <3>2, <3>5, BrokenHasSource DEF SaveAsWrite
    <3>6. QED BY <2>1, <2>3, <3>3, <3>4, <3>5 DEF SaveAsWrite
  <2>4. QED
    BY <1>2, <2>1, <2>2, <2>3
    DEF Continue, Mark, Insert, CreateInsert, RenameFile, MoveContext, CloseNext,
        UnlockRestore, MergeApply, MergeClose
<1>3. ASSUME TypeOK, NEW f \in Keys, ExternalEdit(f)
      PROVE  TornHasSource
  <2>1. PICK e \in Edits : disk' = [disk EXCEPT ![f] = @ \cup {e}] BY <1>3 DEF ExternalEdit
  <2>2. disk \in Disks /\ disk[f] \in Content
    BY <1>3, TypeOKParts DEF Typed, ExternalEdit, Readable, Disks
  <2>3. disk[f] \cup {e} \in Content BY <2>2 DEF Content
  <2>4. QED BY <2>1, <2>2, <2>3, KeptHasSource, AbsentAssumption
            DEF KeepsReadable, Readable, Disks, Content
<1>4. TypeOK /\ [Next]_vars => [TornHasSource]_vars
  BY <1>1, <1>2, <1>3 DEF Next
<1>5. QED BY <1>4, TypeCorrect, PTL DEF Spec, FilesStayReadable

-----------------------------------------------------------------------------
(* Every context has a session key of its own *)

\* Between its two sections the call holds a session key that no context has yet
Holds(t) == call[t].pc \in {"insert", "create"}

OwnKeys ==
    /\ \A j, k \in Keys :
          Open(j) /\ Open(k) /\ store[j].enc_key = store[k].enc_key => j = k
    /\ \A t \in Threads, k \in Keys :
          Holds(t) /\ Open(k) => call[t].enc_key # store[k].enc_key
    /\ \A t, u \in Threads :
          Holds(t) /\ Holds(u) /\ call[t].enc_key = call[u].enc_key => t = u

\* What the step does to a context that stays: its flag is not cleared unless the
\* context is written
Announced(c, d) ==
    c.save_pending => d.save_pending \/ disk'[d.file_name] = Held(c)

\* The step opens nothing and gives no context another session key
ContextsKept ==
    \A k \in Keys : Open(k)' => /\ Open(k)
                                /\ store'[k].enc_key = store[k].enc_key
                                /\ Announced(store[k], store'[k])

\* The step lets no call hold a new session key
CallsKept ==
    \A t \in Threads : Holds(t)' => Holds(t) /\ call'[t].enc_key = call[t].enc_key

LEMMA SameStoreKept == UNCHANGED store => ContextsKept
BY DEF ContextsKept, Announced, Open

LEMMA SameCallsKept == UNCHANGED call => CallsKept
BY DEF CallsKept, Holds

\* One context is replaced by one with the same session key.
LEMMA PutKept ==
    ASSUME store \in Stores, NEW k \in Keys, Open(k), NEW c,
           c.enc_key = store[k].enc_key, Announced(store[k], c),
           store' = [store EXCEPT ![k] = c]
    PROVE  ContextsKept
BY DEF Stores, ContextsKept, Announced, Open

\* A thread goes to a section where it holds no new session key.
LEMMA GoKept ==
    ASSUME CallsOK(call), NEW t \in Threads, NEW c, c.pc \notin {"insert", "create"},
           call' = [call EXCEPT ![t] = c]
    PROVE  CallsKept
BY DEF CallsOK, CallsKept, Holds

LEMMA GotoKept ==
    ASSUME CallsOK(call), NEW t \in Threads
    PROVE  /\ Return(t) => CallsKept
           /\ \A p \in {"mark", "create_save", "restore"}, k \in Keys : Goto(t, p, k) => CallsKept
<1>1. Idle.pc \notin {"insert", "create"} BY DEF Idle
<1>2. ASSUME NEW p \in {"mark", "create_save", "restore"}, NEW k \in Keys
      PROVE  [Idle EXCEPT !.pc = p, !.key = k].pc \notin {"insert", "create"}
  BY DEF Idle
<1>3. QED BY <1>1, <1>2, GoKept DEF Return, Goto

LEMMA WriteKept ==
    ASSUME TypeOK, NEW k \in Keys, Open(k), NEW overwrite \in BOOLEAN,
           NEW backup \in BOOLEAN, Write(k, overwrite, backup)
    PROVE  ContextsKept
<1> DEFINE c == store[k]
<1>1. store \in Stores /\ disk \in Disks /\ c \in Context
  BY TypeOKParts, OpenIsContext DEF Typed
<1>2. CASE /\ Writable(c)
           /\ store' = [store EXCEPT ![k] = Saved(c)]
           /\ disk' = [disk EXCEPT ![c.file_name] = c.content]
  <2>1. Saved(c).enc_key = c.enc_key /\ Saved(c).file_name = c.file_name
    BY <1>1 DEF Saved, Context
  <2>2. disk'[c.file_name] = Held(c)
    BY <1>1, <1>2 DEF Context, Disks, Held, Writable
  <2>3. QED BY <1>1, <1>2, <2>1, <2>2, PutKept DEF Announced
<1>3. CASE UNCHANGED store BY <1>3, SameStoreKept
<1>4. QED BY <1>2, <1>3 DEF Write

LEMMA RestoreKept ==
    ASSUME store \in Stores, NEW k \in Keys, Open(k), RestoreLockedContent(k)
    PROVE  ContextsKept
<1> DEFINE c == store[k]
<1>1. PICK d :
         /\ store' = [store EXCEPT ![k] = d]
         /\ \/ d = [c EXCEPT !.locked = FALSE]
            \/ d = [c EXCEPT !.content = c.blob.data, !.blob = Absent, !.locked = FALSE]
            \/ d = [c EXCEPT !.blob = Absent]
  BY DEF RestoreLockedContent
<1>2. d.enc_key = c.enc_key /\ d.save_pending = c.save_pending
  BY <1>1, OpenIsContext DEF Context
<1>3. QED BY <1>1, <1>2, PutKept DEF Announced

-----------------------------------------------------------------------------
(* Steps that open nothing *)

LEMMA EditKept ==
    ASSUME TypeOK, NEW t \in Threads, NEW k \in Keys, Edit(t, k) \/ Mark(t)
    PROVE  ContextsKept /\ CallsKept
<1> USE TypeOKParts DEF Typed
<1>1. CallsKept BY GotoKept DEF Edit, Mark
<1>2. CASE Edit(t, k) /\ store' # store
  <2>1. PICK e \in Edits : Open(k) /\ store' = [store EXCEPT ![k] = Changed(store[k], {e})]
    BY <1>2 DEF Edit
  <2>2. /\ Changed(store[k], {e}).enc_key = store[k].enc_key
        /\ Changed(store[k], {e}).save_pending = store[k].save_pending
    BY <2>1, OpenIsContext DEF Changed, Context
  <2>3. QED BY <1>1, <2>1, <2>2, PutKept DEF Announced
<1>3. CASE Mark(t) /\ Open(call[t].key)
  <2> DEFINE j == call[t].key
             c == [store[j] EXCEPT !.save_pending = TRUE]
  <2>1. j \in Keys BY <1>3 DEF Mark, At, CallsOK, CallOK
  <2>2. c.enc_key = store[j].enc_key /\ c.save_pending
    BY <1>3, <2>1, OpenIsContext DEF Context
  <2>3. store' = [store EXCEPT ![j] = c] BY <1>3 DEF Mark
  <2>4. QED BY <1>1, <1>3, <2>1, <2>2, <2>3, PutKept DEF Announced
<1>4. CASE UNCHANGED store BY <1>1, <1>4, SameStoreKept
<1>5. QED BY <1>2, <1>3, <1>4 DEF Mark

LEMMA SaveKept ==
    ASSUME TypeOK, NEW t \in Threads, NEW k \in Keys, NEW n \in Keys,
           NEW overwrite \in BOOLEAN, NEW backup \in BOOLEAN,
           \/ Save(t, k, overwrite, backup) \/ SaveAll(t, k, backup)
           \/ CreateSave(t) \/ SaveToDbFile(t, k, n)
    PROVE  ContextsKept /\ CallsKept
<1> USE TypeOKParts DEF Typed
<1>1. CASE CreateSave(t)
  <2>1. call[t].key \in Keys BY <1>1 DEF CreateSave, At, CallsOK, CallOK
  <2>2. ContextsKept BY <1>1, <2>1, WriteKept, SameStoreKept DEF CreateSave
  <2>3. QED BY <1>1, <2>2, GotoKept DEF CreateSave
<1>2. CASE Save(t, k, overwrite, backup)
  BY <1>2, WriteKept, SameCallsKept DEF Save
<1>3. CASE SaveAll(t, k, backup)
  BY <1>3, WriteKept, SameCallsKept DEF SaveAll
<1>4. CASE SaveToDbFile(t, k, n)
  BY <1>4, SameStoreKept, SameCallsKept DEF SaveToDbFile
<1>5. QED BY <1>1, <1>2, <1>3, <1>4

LEMMA RenameKept ==
    ASSUME TypeOK, NEW t \in Threads, NEW k \in Keys, NEW n \in Keys,
           SaveAs(t, k, n) \/ Rename(t, k, n) \/ SaveAsWrite(t) \/ RenameFile(t)
    PROVE  ContextsKept /\ CallsKept
<1> USE TypeOKParts DEF Typed
<1> DEFINE j == call[t].key
           f == call[t].other
           c == [store[j] EXCEPT !.file_name = f]
<1>1. CASE SaveAs(t, k, n) \/ Rename(t, k, n)
  <2>1. ASSUME NEW p \in {"save_as_write", "rename"}, CopyKey(t, k, n, p)
        PROVE  CallsKept /\ UNCHANGED store
    <3>1. [Idle EXCEPT !.pc = p, !.key = k, !.other = n].pc \notin {"insert", "create"}
      BY DEF Idle
    <3>2. QED BY <2>1, <3>1, GoKept DEF CopyKey
  <2>2. QED BY <1>1, <2>1, SameStoreKept DEF SaveAs, Rename
<1>2. CASE SaveAsWrite(t) \/ RenameFile(t)
  <2>1. j \in Keys /\ f \in Keys /\ call[t] \in Call
    BY <1>2 DEF SaveAsWrite, RenameFile, At, CallsOK, CallOK
  <2>2. [call[t] EXCEPT !.pc = "move"].pc \notin {"insert", "create"} BY <2>1 DEF Call
  <2>3. Move(t) => CallsKept
    <3>1. Move(t) => call' = [call EXCEPT ![t] = [call[t] EXCEPT !.pc = "move"]] BY DEF Move
    <3>2. QED BY <2>2, <3>1, GoKept
  <2>4. CallsKept BY <1>2, <2>3, GotoKept DEF SaveAsWrite, RenameFile
  <2>5. CASE UNCHANGED store BY <2>4, <2>5, SameStoreKept
  <2>6. ASSUME Open(j)
        PROVE  /\ c \in Context /\ c.file_name = f /\ c.enc_key = store[j].enc_key
               /\ c.save_pending = store[j].save_pending
               /\ c.content = store[j].content /\ Held(c) = Held(store[j])
    BY <2>1, <2>6, OpenIsContext DEF Context, Held
  <2>7. CASE Open(j) /\ store' = [store EXCEPT ![j] = c]
    BY <2>1, <2>4, <2>6, <2>7, PutKept DEF Announced
  <2>8. CASE /\ Open(j) /\ Writable(c)
             /\ store' = [store EXCEPT ![j] = Saved(c)]
             /\ disk' = [disk EXCEPT ![f] = c.content]
    <3>1. Saved(c).enc_key = store[j].enc_key /\ Saved(c).file_name = f
      BY <2>6, <2>8 DEF Saved, Context
    <3>2. disk'[f] = Held(store[j]) BY <2>1, <2>6, <2>8 DEF Disks, Held, Writable
    <3>3. QED BY <2>1, <2>4, <2>8, <3>1, <3>2, PutKept DEF Announced
  <2>9. RenameFile(t) /\ Open(j) => store' = [store EXCEPT ![j] = c] BY DEF RenameFile
  <2>10. QED BY <1>2, <2>5, <2>7, <2>8, <2>9 DEF SaveAsWrite, RenameFile
<1>3. QED BY <1>1, <1>2

LEMMA CloseKept ==
    ASSUME TypeOK, NEW t \in Threads, NEW k \in Keys,
           Close(t, k) \/ CloseAll(t, k) \/ CloseNext(t) \/ MergeClose(t)
    PROVE  ContextsKept /\ CallsKept
<1> USE TypeOKParts DEF Typed
<1>1. ASSUME NEW j, Remove(j)
      PROVE  ContextsKept
  BY <1>1 DEF Remove, Stores, ContextsKept, Announced, Open
<1>2. CASE Close(t, k) BY <1>1, <1>2, SameCallsKept DEF Close
<1>3. CASE CloseAll(t, k)
  <2> DEFINE c == [Idle EXCEPT !.pc = "close_all", !.rest = {j \in Keys : Open(j)}]
  <2>1. c.pc \notin {"insert", "create"} BY DEF Idle
  <2>2. call' = [call EXCEPT ![t] = c] BY <1>3 DEF CloseAll
  <2>3. QED BY <1>3, <2>1, <2>2, GoKept, SameStoreKept DEF CloseAll
<1>4. CASE CloseNext(t)
  <2>1. PICK j \in call[t].rest : Remove(j) /\
           call' = [call EXCEPT ![t] = IF call[t].rest = {j} THEN Idle
                                       ELSE [call[t] EXCEPT !.rest = @ \ {j}]]
    BY <1>4 DEF CloseNext
  <2>2. Idle.pc \notin {"insert", "create"}
        /\ [call[t] EXCEPT !.rest = @ \ {j}].pc \notin {"insert", "create"}
    BY <1>4 DEF Idle, CloseNext, At, CallsOK, Call
  <2>3. CallsKept BY <2>1, <2>2, GoKept
  <2>4. QED BY <1>1, <2>1, <2>3
<1>5. CASE MergeClose(t) BY <1>1, <1>5, GotoKept DEF MergeClose
<1>6. QED BY <1>2, <1>3, <1>4, <1>5

LEMMA LockKept ==
    ASSUME TypeOK, NEW t \in Threads, NEW k \in Keys, NEW locked \in BOOLEAN,
           \/ Lock(t, k) \/ SetLocked(t, k, locked)
           \/ UnlockCompare(t, k) \/ UnlockRestore(t) \/ UnlockBiometric(t, k)
    PROVE  ContextsKept /\ CallsKept
<1> USE TypeOKParts DEF Typed
<1> DEFINE c == store[k]
<1>1. CASE Lock(t, k)
  <2>1. PICK d :
           /\ store' = [store EXCEPT ![k] = d]
           /\ \/ d = [c EXCEPT !.blob = Absent, !.locked = TRUE]
              \/ d = [c EXCEPT !.content = Absent]
              \/ d = [c EXCEPT !.content = Absent, !.locked = TRUE,
                               !.blob = [data |-> c.content, enc_key |-> keystore[k]]]
    BY <1>1 DEF Lock
  <2>2. Open(k) /\ d.enc_key = c.enc_key /\ d.save_pending = c.save_pending
    BY <1>1, <2>1, OpenIsContext DEF Lock, Context
  <2>3. QED BY <1>1, <2>1, <2>2, PutKept, SameCallsKept DEF Lock, Announced
<1>2. CASE SetLocked(t, k, locked)
  <2> DEFINE d == [c EXCEPT !.locked = locked]
  <2>1. Open(k) /\ d.enc_key = c.enc_key /\ d.save_pending = c.save_pending
    BY <1>2, OpenIsContext DEF SetLocked, Context
  <2>2. store' = [store EXCEPT ![k] = d] BY <1>2 DEF SetLocked
  <2>3. QED BY <1>2, <2>1, <2>2, PutKept, SameCallsKept DEF SetLocked, Announced
<1>3. CASE UnlockCompare(t, k)
  BY <1>3, GotoKept, SameStoreKept DEF UnlockCompare
<1>4. CASE UnlockRestore(t)
  <2>1. call[t].key \in Keys BY <1>4 DEF UnlockRestore, At, CallsOK, CallOK
  <2>2. ContextsKept BY <1>4, <2>1, RestoreKept, SameStoreKept DEF UnlockRestore
  <2>3. QED BY <1>4, <2>2, GotoKept DEF UnlockRestore
<1>5. CASE UnlockBiometric(t, k)
  BY <1>5, RestoreKept, SameCallsKept DEF UnlockBiometric
<1>6. QED BY <1>1, <1>2, <1>3, <1>4, <1>5

LEMMA TakeInKept ==
    ASSUME TypeOK, NEW t \in Threads, NEW k \in Keys,
           Reload(t, k) \/ MergeDisk(t, k) \/ MergeApply(t)
    PROVE  ContextsKept /\ CallsKept
<1> USE TypeOKParts DEF Typed
<1>1. ASSUME NEW j \in Keys, Open(j), NEW d,
             store' = [store EXCEPT ![j] = Changed(store[j], d)]
      PROVE  ContextsKept
  <2>1. /\ Changed(store[j], d).enc_key = store[j].enc_key
        /\ Changed(store[j], d).save_pending = store[j].save_pending
    BY <1>1, OpenIsContext DEF Changed, Context
  <2>2. QED BY <1>1, <2>1, PutKept DEF Announced
<1>2. CASE Reload(t, k)
  <2> DEFINE c == [store[k] EXCEPT !.content = disk[k], !.checksum = disk[k]]
  <2>1. Open(k) /\ c.enc_key = store[k].enc_key /\ c.save_pending = store[k].save_pending
    BY <1>2, OpenIsContext DEF Reload, Reloadable, Context
  <2>2. QED BY <1>2, <2>1, PutKept, SameCallsKept DEF Reload, Announced
<1>3. CASE MergeDisk(t, k)
  <2> DEFINE c == [Changed(store[k], disk[k]) EXCEPT !.checksum = disk[k],
                                                     !.save_pending = TRUE]
  <2>1. Open(k) /\ UNCHANGED call BY <1>3 DEF MergeDisk, Reloadable
  <2>2. c.enc_key = store[k].enc_key /\ c.save_pending
    BY <2>1, OpenIsContext DEF Changed, Context
  <2>3. store' = [store EXCEPT ![k] = c] => ContextsKept
    BY <2>1, <2>2, PutKept DEF Announced
  <2>4. ContextsKept BY <1>1, <1>3, <2>1, <2>3, SameStoreKept DEF MergeDisk
  <2>5. QED BY <2>1, <2>4, SameCallsKept
<1>4. CASE MergeApply(t)
  <2>1. call[t] \in Call /\ call[t].pc = "merge" /\ call[t].other \in Keys
    BY <1>4 DEF MergeApply, At, CallsOK, CallOK
  <2>2. AfterMerge(call[t]).pc \notin {"insert", "create"}
    BY <2>1 DEF AfterMerge, Idle, Call
  <2>3. CallsKept BY <1>4, <2>2, GoKept, GotoKept DEF MergeApply
  <2>4. ContextsKept BY <1>1, <1>4, <2>1, SameStoreKept DEF MergeApply
  <2>5. QED BY <2>3, <2>4
<1>5. QED BY <1>2, <1>3, <1>4

LEMMA KeptOwnKeys ==
    ASSUME OwnKeys, ContextsKept, CallsKept
    PROVE  OwnKeys'
BY DEF OwnKeys, ContextsKept, CallsKept

-----------------------------------------------------------------------------
(* Steps that bring in a new session key, or a context under another key *)

\* No two contexts are confused: a context that stays open under the same session
\* key keeps its flag or is written.
FlagsKept ==
    \A k \in Keys :
        Open(k) /\ Open(k)' /\ store'[k].enc_key = store[k].enc_key
          => Announced(store[k], store'[k])

LEMMA KeptFlags == ContextsKept => FlagsKept
BY DEF ContextsKept, FlagsKept

\* The new key that a file is read or created under is nobody else's.
LEMMA FreshOwnKeys ==
    ASSUME CallsOK(call), OwnKeys, NEW t \in Threads, NEW c, c.enc_key \in FreshEncKeys,
           UNCHANGED store, call' = [call EXCEPT ![t] = c]
    PROVE  OwnKeys' /\ FlagsKept
<1>1. \A k \in Keys : Open(k) => c.enc_key # store[k].enc_key
  BY DEF FreshEncKeys, EncKeysInUse
<1>2. \A u \in Threads : c.enc_key # call[u].enc_key
  BY DEF FreshEncKeys, EncKeysInUse
<1>3. \A u \in Threads : call'[u] = IF u = t THEN c ELSE call[u]
  BY DEF CallsOK
<1>4. OwnKeys' BY <1>1, <1>2, <1>3 DEF OwnKeys, Holds, Open
<1>5. QED BY <1>4, SameStoreKept, KeptFlags

LEMMA ReadOwnKeys ==
    ASSUME TypeOK, OwnKeys, NEW t \in Threads, NEW k \in Keys,
           (\E target : ReadFile(t, k, target)) \/ Create(t, k)
    PROVE  OwnKeys' /\ FlagsKept
<1> USE TypeOKParts DEF Typed
<1>1. PICK c :
         /\ c.enc_key \in FreshEncKeys
         /\ call' = [call EXCEPT ![t] = c]
         /\ UNCHANGED store
  <2>1. CASE Create(t, k)
    <3>1. PICK id \in FreshEncKeys :
             call' = [call EXCEPT ![t] = [Idle EXCEPT !.pc = "create", !.key = k, !.enc_key = id]]
      BY <2>1 DEF Create
    <3>2. [Idle EXCEPT !.pc = "create", !.key = k, !.enc_key = id].enc_key = id BY DEF Idle
    <3>3. QED BY <2>1, <3>1, <3>2 DEF Create
  <2>2. ASSUME NEW target, ReadFile(t, k, target)
        PROVE  \E c : /\ c.enc_key \in FreshEncKeys
                      /\ call' = [call EXCEPT ![t] = c]
                      /\ UNCHANGED store
    <3>1. PICK id \in FreshEncKeys :
             call' = [call EXCEPT ![t] =
                        [Idle EXCEPT !.pc = "insert", !.key = k, !.other = target,
                                     !.data = disk[k], !.enc_key = id]]
      BY <2>2 DEF ReadFile
    <3> DEFINE c == [Idle EXCEPT !.pc = "insert", !.key = k, !.other = target,
                                 !.data = disk[k], !.enc_key = id]
    <3>2. c.enc_key = id BY DEF Idle
    <3>3. QED BY <2>2, <3>1, <3>2 DEF ReadFile
  <2>3. QED BY <2>1, <2>2
<1>2. QED BY <1>1, FreshOwnKeys

\* The context that is put in the store has the key that its call held.
LEMMA InsertOwnKeys ==
    ASSUME TypeOK, OwnKeys, NEW t \in Threads, Insert(t) \/ CreateInsert(t)
    PROVE  OwnKeys' /\ FlagsKept
<1> USE TypeOKParts DEF Typed
<1> DEFINE j == call[t].key
<1>1. call[t] \in Call /\ j \in Keys /\ Holds(t)
  BY DEF Insert, CreateInsert, At, CallsOK, CallOK, Holds
<1>2. PICK d, sum : store' = [store EXCEPT ![j] = NewContext(j, d, sum, call[t].enc_key)]
  BY DEF Insert, CreateInsert
<1>3. store'[j].enc_key = call[t].enc_key BY <1>1, <1>2 DEF NewContext, Stores
<1>4. \A k \in Keys \ {j} : store'[k] = store[k] BY <1>1, <1>2 DEF Stores
<1>5. ~Holds(t)' /\ \A u \in Threads \ {t} : call'[u] = call[u]
  <2>1. PICK c : c.pc \notin {"insert", "create"} /\ call' = [call EXCEPT ![t] = c]
    <3>1. Idle.pc \notin {"insert", "create"}
          /\ [Idle EXCEPT !.pc = "create_save", !.key = j].pc \notin {"insert", "create"}
      BY DEF Idle
    <3>2. [call[t] EXCEPT !.pc = "merge", !.data = {}].pc \notin {"insert", "create"}
      BY <1>1 DEF Call
    <3>3. QED BY <3>1, <3>2 DEF Insert, CreateInsert, Goto
  <2>2. QED BY <2>1 DEF CallsOK, Holds
<1>6. OwnKeys' BY <1>1, <1>3, <1>4, <1>5 DEF OwnKeys, Open, Holds
<1>7. FlagsKept BY <1>1, <1>3, <1>4 DEF FlagsKept, OwnKeys, Open, Announced
<1>8. QED BY <1>6, <1>7

\* New credentials: the context gets a session key that nobody else has.
LEMMA CredentialsOwnKeys ==
    ASSUME TypeOK, OwnKeys, NEW t \in Threads, NEW k \in Keys, SetCredentials(t, k)
    PROVE  OwnKeys' /\ FlagsKept
<1> USE TypeOKParts DEF Typed
<1>1. PICK e \in Edits, id \in FreshEncKeys :
         store' = [store EXCEPT ![k] = [Changed(store[k], {e}) EXCEPT !.enc_key = id]]
  BY DEF SetCredentials
<1> DEFINE c == [Changed(store[k], {e}) EXCEPT !.enc_key = id]
<1>2. Open(k) /\ c.enc_key = id /\ c.save_pending = store[k].save_pending
  BY OpenIsContext DEF SetCredentials, Changed, Context
<1>3. CallsKept BY GotoKept DEF SetCredentials
<1>4. store'[k] = c /\ \A j \in Keys \ {k} : store'[j] = store[j] BY <1>1 DEF Stores
<1>5. \A j \in Keys : Open(j) => id # store[j].enc_key
  BY DEF FreshEncKeys, EncKeysInUse
<1>6. \A u \in Threads : id # call[u].enc_key BY DEF FreshEncKeys, EncKeysInUse
<1>7. OwnKeys'
  <2>1. \A j \in Keys : Open(j)' =>
           Open(j) /\ store'[j].enc_key = IF j = k THEN id ELSE store[j].enc_key
    BY <1>2, <1>4 DEF Open
  <2> HIDE DEF c
  <2>2. QED BY <1>3, <1>5, <1>6, <2>1 DEF OwnKeys, CallsKept
<1>8. FlagsKept BY <1>2, <1>4 DEF FlagsKept, Announced, Open
<1>9. QED BY <1>7, <1>8

\* A context that moves to another key takes its session key with it.
LEMMA MoveOwnKeys ==
    ASSUME TypeOK, OwnKeys, NEW t \in Threads, MoveContext(t)
    PROVE  OwnKeys' /\ FlagsKept
<1> USE TypeOKParts DEF Typed
<1> DEFINE j == call[t].key
           n == call[t].other
<1>1. j \in Keys /\ n \in Keys BY DEF MoveContext, At, CallsOK, CallOK
<1>2. CallsKept BY GotoKept DEF MoveContext
<1>3. CASE ~Open(j) \/ j = n
  <2>1. UNCHANGED store BY <1>1, <1>3 DEF MoveContext, Stores
  <2>2. QED BY <1>2, <2>1, SameStoreKept, KeptOwnKeys, KeptFlags
<1>4. CASE Open(j) /\ j # n
  <2>1. /\ store'[j] = Absent
        /\ store'[n] = store[j]
        /\ \A k \in Keys \ {j, n} : store'[k] = store[k]
    BY <1>1, <1>4 DEF MoveContext, Stores
  <2>2. OwnKeys' BY <1>1, <1>2, <1>4, <2>1 DEF OwnKeys, Open, CallsKept
  <2>3. FlagsKept BY <1>1, <1>4, <2>1 DEF FlagsKept, OwnKeys, Announced, Open
  <2>4. QED BY <2>2, <2>3
<1>5. QED BY <1>3, <1>4

\* Every step keeps the session keys apart and clears no flag without a write.
LEMMA KeysStep ==
    ASSUME TypeOK, OwnKeys, [Next]_vars
    PROVE  OwnKeys' /\ FlagsKept
<1>1. ContextsKept /\ CallsKept => OwnKeys' /\ FlagsKept BY KeptOwnKeys, KeptFlags
<1>2. ASSUME NEW t \in Threads, NEW k \in Keys, Start(t, k)
      PROVE  OwnKeys' /\ FlagsKept
  <2>1. CASE SetCredentials(t, k) BY <2>1, CredentialsOwnKeys
  <2>2. CASE Load(t, k) \/ Create(t, k) BY <2>2, ReadOwnKeys DEF Load
  <2>3. ASSUME NEW s \in Keys, Merge(t, k, s)
        PROVE  OwnKeys' /\ FlagsKept
    <3>1. CASE ReadFile(t, s, k) BY <3>1, ReadOwnKeys
    <3>2. CASE UNCHANGED store /\ call' = [call EXCEPT ![t] =
                                    [Idle EXCEPT !.pc = "merge", !.key = s, !.other = k]]
      <4>1. [Idle EXCEPT !.pc = "merge", !.key = s, !.other = k].pc
              \notin {"insert", "create"}
        BY DEF Idle
      <4>2. QED BY <1>1, <3>2, <4>1, GoKept, SameStoreKept, TypeOKParts DEF Typed
    <3>3. QED BY <2>3, <3>1, <3>2 DEF Merge
  <2>4. QED
    BY <1>1, <1>2, <2>1, <2>2, <2>3, EditKept, SaveKept, RenameKept, CloseKept, LockKept,
       TakeInKept
    DEF Start
<1>3. ASSUME NEW t \in Threads, Continue(t)
      PROVE  OwnKeys' /\ FlagsKept
  <2>1. PICK k \in Keys : TRUE
    BY <1>3 DEF Continue, Mark, Insert, CreateInsert, CreateSave, SaveAsWrite, RenameFile,
                MoveContext, CloseNext, UnlockRestore, MergeApply, MergeClose, At, TypeOK,
                CallOK, Call
  <2>2. QED
    BY <1>1, <1>3, <2>1, InsertOwnKeys, MoveOwnKeys, EditKept, SaveKept, RenameKept, CloseKept,
       LockKept, TakeInKept
    DEF Continue
<1>4. CASE \E f \in Keys : ExternalEdit(f)
  BY <1>1, <1>4, SameStoreKept, SameCallsKept DEF ExternalEdit
<1>5. CASE UNCHANGED vars BY <1>1, <1>5, SameStoreKept, SameCallsKept DEF vars
<1>6. QED BY <1>2, <1>3, <1>4, <1>5 DEF Next

LEMMA InitOwnKeys == Init => OwnKeys
BY DEF Init, OwnKeys, Open, Holds, Idle

\* Each context has a session key of its own, and so has each call that is about to
\* put one in the store, in every order of calls and threads.
THEOREM KeysNeverShared == Spec => []OwnKeys
BY InitType, InitOwnKeys, TypeStep, KeysStep, PTL DEF Spec

\* The flag of unsaved changes is cleared only by the step that writes all the content
\* of the database to its file, whatever the threads do and in which order, with locked
\* databases, renamed ones, failures and names that are in use.
THEOREM FlagClearedByWrite == Spec => ClearedWhenWritten
<1>1. TypeOK /\ OwnKeys /\ [Next]_vars =>
        [\A k \in Keys :
            Open(k) /\ Open(k)' /\ store'[k].enc_key = store[k].enc_key
              /\ store[k].save_pending /\ ~store'[k].save_pending
              => disk'[store'[k].file_name] = Held(store[k])]_vars
  BY KeysStep DEF FlagsKept, Announced
<1>2. QED BY <1>1, TypeCorrect, KeysNeverShared, PTL DEF Spec, ClearedWhenWritten

-----------------------------------------------------------------------------
(* Every unsaved edit is announced *)

\* The calls that leave changes unannounced: a merge of two databases does not set the
\* flag, a merge that fails halfway does not either, and a database that gets another
\* key escapes the thread that is about to mark it.
Announcing ==
    /\ LockDiscipline
    /\ Failures = FALSE
    /\ "merge_databases" \notin Calls
    /\ "save_as_kdbx" \notin Calls
    /\ "rename_db_key" \notin Calls

\* What holds of a context when nobody is about to mark it
Covered(c) ==
    c.save_pending \/ Held(c) \subseteq IF c.checksum = Absent THEN {} ELSE c.checksum

Marked(k) == \E t \in Threads : call[t].pc = "mark" /\ call[t].key = k

AllCovered == \A k \in Keys : Open(k) => Covered(store[k]) \/ Marked(k)

\* The sections that these clients never come to
Reached(c) ==
    /\ c.pc \notin {"merge", "merge_close", "save_as_write", "rename", "move"}
    /\ c.pc = "insert" => c.other = Absent

AllReached == \A t \in Threads : Reached(call[t])

MarksKept == \A t \in Threads : call[t].pc = "mark" => call'[t] = call[t]

\* The step leaves every context covered, or marked, or no worse than it was
CoverKept ==
    \A k \in Keys :
        Open(k)' => \/ Covered(store'[k])
                    \/ Marked(k)'
                    \/ Open(k) /\ (Covered(store[k]) => Covered(store'[k]))

LEMMA CoverParts == AllCovered <=> UnsavedIsPending
BY DEF AllCovered, Covered, Marked, UnsavedIsPending

LEMMA KeptCovered ==
    ASSUME AllCovered, CoverKept, MarksKept
    PROVE  AllCovered'
BY DEF AllCovered, CoverKept, MarksKept, Marked

LEMMA SameStoreCovered == UNCHANGED store => CoverKept
BY DEF CoverKept, Open

LEMMA PutCovered ==
    ASSUME store \in Stores, NEW k \in Keys, NEW c,
           Covered(c) \/ Marked(k)' \/ (Open(k) /\ (Covered(store[k]) => Covered(c))),
           store' = [store EXCEPT ![k] = c]
    PROVE  CoverKept
BY DEF CoverKept, Open, Stores

\* A thread that is not about to mark a database goes on.
LEMMA GoMarks ==
    ASSUME CallsOK(call), NEW t \in Threads, call[t].pc # "mark", NEW c,
           call' = [call EXCEPT ![t] = c]
    PROVE  /\ MarksKept
           /\ AllReached /\ Reached(c) => AllReached'
BY DEF CallsOK, MarksKept, AllReached

LEMMA SameCallsMarks ==
    UNCHANGED call => MarksKept /\ (AllReached => AllReached')
BY DEF MarksKept, AllReached

LEMMA GotoMarks ==
    ASSUME CallsOK(call), AllReached, NEW t \in Threads, call[t].pc # "mark",
           Return(t) \/ \E p \in {"mark", "create_save", "restore"}, k \in Keys : Goto(t, p, k)
    PROVE  MarksKept /\ AllReached'
<1>1. Reached(Idle) BY DEF Idle, Reached
<1>2. \A p \in {"mark", "create_save", "restore"}, k \in Keys :
         Reached([Idle EXCEPT !.pc = p, !.key = k])
  BY DEF Idle, Reached
<1>3. QED BY <1>1, <1>2, GoMarks DEF Return, Goto

\* A thread that begins a call is not about to mark a database.
LEMMA BeginUnmarked ==
    ASSUME NEW t \in Threads, NEW op, NEW k, Begin(t, op, k)
    PROVE  call[t].pc # "mark"
BY DEF Begin, Idle

\* A context whose content went to its file has no unsaved edit.
LEMMA WriteCovered ==
    ASSUME TypeOK, NEW k \in Keys, Open(k), NEW overwrite \in BOOLEAN,
           NEW backup \in BOOLEAN, Write(k, overwrite, backup)
    PROVE  CoverKept
<1> DEFINE c == store[k]
<1>1. store \in Stores /\ c \in Context BY TypeOKParts, OpenIsContext DEF Typed
<1>2. CASE Writable(c) /\ store' = [store EXCEPT ![k] = Saved(c)]
  <2>1. Saved(c).checksum = c.content /\ Held(Saved(c)) = c.content /\ c.content # Absent
    BY <1>1, <1>2 DEF Saved, Context, Held, Writable
  <2>2. Covered(Saved(c)) BY <2>1 DEF Covered
  <2>3. QED BY <1>1, <1>2, <2>2, PutCovered
<1>3. CASE UNCHANGED store BY <1>3, SameStoreCovered
<1>4. QED BY <1>2, <1>3 DEF Write

\* Restoring brings back what was sealed: nothing is unsaved that was not before.
LEMMA RestoreCovered ==
    ASSUME store \in Stores, AllSound, NEW k \in Keys, Open(k), RestoreLockedContent(k)
    PROVE  CoverKept
<1> DEFINE c == store[k]
<1>1. c \in Context /\ Sound(c) BY OpenIsContext DEF AllSound
<1>2. PICK d :
         /\ store' = [store EXCEPT ![k] = d]
         /\ \/ d = [c EXCEPT !.locked = FALSE]
            \/ c.blob # Absent
               /\ d = [c EXCEPT !.content = c.blob.data, !.blob = Absent, !.locked = FALSE]
            \/ c.blob # Absent /\ d = [c EXCEPT !.blob = Absent]
  BY DEF RestoreLockedContent
<1>3. CASE d = [c EXCEPT !.locked = FALSE]
  <2>1. Covered(c) => Covered(d) BY <1>1, <1>3 DEF Covered, Held, Context
  <2>2. QED BY <1>2, <2>1, PutCovered
<1>4. CASE c.blob # Absent
           /\ d = [c EXCEPT !.content = c.blob.data, !.blob = Absent, !.locked = FALSE]
  <2>1. c.content = Absent /\ c.blob.data # Absent
    BY <1>1, <1>4, ContentPresent DEF Sound, Context, Blob
  <2>2. Held(d) = Held(c) BY <1>1, <1>4, <2>1 DEF Held, Context
  <2>3. d.checksum = c.checksum /\ d.save_pending = c.save_pending BY <1>1, <1>4 DEF Context
  <2>4. Covered(c) => Covered(d) BY <2>2, <2>3 DEF Covered
  <2>5. QED BY <1>2, <2>4, PutCovered
<1>5. CASE c.blob # Absent /\ d = [c EXCEPT !.blob = Absent]
  <2>1. Held(d) = {} BY <1>1, <1>5 DEF Held, Context, Sound
  <2>2. Covered(d) BY <2>1 DEF Covered
  <2>3. QED BY <1>2, <2>2, PutCovered
<1>6. QED BY <1>2, <1>3, <1>4, <1>5

LEMMA LockCovered ==
    ASSUME TypeOK, AllSound, NEW t \in Threads, NEW k \in Keys, Lock(t, k)
    PROVE  CoverKept
<1> USE TypeOKParts DEF Typed
<1> DEFINE c == store[k]
<1>1. c \in Context /\ Sound(c) BY OpenIsContext DEF AllSound, Lock
<1>2. CASE c.content = Absent \/ keystore[k] = Absent
  <2>1. PICK d :
           /\ store' = [store EXCEPT ![k] = d]
           /\ \/ c.content = Absent /\ d = [c EXCEPT !.blob = Absent, !.locked = TRUE]
              \/ c.content # Absent /\ d = [c EXCEPT !.content = Absent]
    BY <1>2 DEF Lock
  <2>2. Held(d) = {} BY <1>1, <2>1 DEF Held, Sound, Context
  <2>3. Covered(d) BY <2>2 DEF Covered
  <2>4. QED BY <2>1, <2>3, PutCovered
<1>3. CASE c.content # Absent /\ keystore[k] # Absent
  <2> DEFINE d == [c EXCEPT !.content = Absent, !.locked = TRUE,
                            !.blob = [data |-> c.content, enc_key |-> keystore[k]]]
  <2>1. store' = [store EXCEPT ![k] = d] BY <1>3 DEF Lock
  <2>2. d.blob # Absent => Held(d) = c.content BY <1>1, <1>3 DEF Held, Context
  <2>3. d.blob = Absent => Held(d) = {} BY <1>1, <1>3 DEF Held, Context
  <2>4. Held(c) = c.content BY <1>3 DEF Held
  <2>5. d.checksum = c.checksum /\ d.save_pending = c.save_pending BY <1>1 DEF Context
  <2>6. Covered(c) => Covered(d) BY <2>2, <2>3, <2>4, <2>5 DEF Covered
  <2>7. Open(k) BY DEF Lock
  <2> HIDE DEF d
  <2>8. QED BY <2>1, <2>6, <2>7, PutCovered
<1>4. QED BY <1>2, <1>3

\* A context that is put in the store as it was read, or created empty, is saved.
LEMMA InsertCovered ==
    ASSUME TypeOK, AllReached, NEW t \in Threads, Insert(t) \/ CreateInsert(t)
    PROVE  CoverKept /\ MarksKept /\ AllReached'
<1> USE TypeOKParts DEF Typed
<1> DEFINE c == call[t]
<1>1. c \in Call /\ c.key \in Keys /\ c.pc # "mark" /\ Reached(c)
  BY DEF Insert, CreateInsert, At, CallsOK, CallOK, AllReached
<1>2. CASE Insert(t)
  <2> DEFINE d == NewContext(c.key, c.data, c.data, c.enc_key)
  <2>1. c.data # Absent BY <1>1, ContentPresent DEF Call
  <2>2. Held(d) = c.data /\ d.checksum = c.data BY <2>1 DEF NewContext, Held
  <2>3. Covered(d) BY <2>1, <2>2 DEF Covered
  <2>4. CoverKept BY <1>1, <1>2, <2>3, PutCovered DEF Insert
  <2>5. Return(t) BY <1>1, <1>2 DEF Insert, At, Reached, Return
  <2>6. QED BY <1>1, <2>4, <2>5, GotoMarks
<1>3. CASE CreateInsert(t)
  <2> DEFINE d == NewContext(c.key, {}, Absent, c.enc_key)
  <2>1. {} # Absent BY ContentPresent DEF Content
  <2>2. Held(d) = {} BY <2>1 DEF NewContext, Held
  <2>3. Covered(d) BY <2>2 DEF Covered
  <2>4. CoverKept BY <1>1, <1>3, <2>3, PutCovered DEF CreateInsert
  <2>5. QED BY <1>1, <1>3, <2>4, GotoMarks DEF CreateInsert
<1>4. QED BY <1>2, <1>3

\* An edit leaves the context to the thread that is about to mark it.
LEMMA EditCovered ==
    ASSUME TypeOK, AllReached, NEW t \in Threads, NEW k \in Keys,
           Edit(t, k) \/ SetCredentials(t, k)
    PROVE  CoverKept /\ MarksKept /\ AllReached'
<1> USE TypeOKParts DEF Typed
<1>1. Goto(t, "mark", k) /\ call[t].pc # "mark"
  BY BeginUnmarked DEF Edit, SetCredentials
<1>2. Marked(k)' BY <1>1 DEF Goto, Marked, Idle, CallsOK
<1>3. CoverKept
  BY <1>2, PutCovered, SameStoreCovered DEF Edit, SetCredentials
<1>4. QED BY <1>1, <1>3, GotoMarks

LEMMA MarkCovered ==
    ASSUME TypeOK, AllCovered, AllReached, NEW t \in Threads, Mark(t)
    PROVE  AllCovered' /\ AllReached'
<1> USE TypeOKParts DEF Typed
<1> DEFINE j == call[t].key
<1>1. j \in Keys BY DEF Mark, At, CallsOK, CallOK
<1>2. Open(j) => store' = [store EXCEPT ![j] = [store[j] EXCEPT !.save_pending = TRUE]]
  BY DEF Mark
<1>3. Open(j) => [store[j] EXCEPT !.save_pending = TRUE].save_pending
  BY <1>1, OpenIsContext DEF Context
<1>4. Open(j) => Covered(store'[j])
  BY <1>1, <1>2, <1>3 DEF Covered, Stores
<1>5. \A k \in Keys \ {j} : store'[k] = store[k] BY <1>1, <1>2 DEF Mark, Stores
<1>6. \A u \in Threads \ {t} : call'[u] = call[u] BY DEF Mark, Return, CallsOK
<1>7. \A k \in Keys \ {j} : Marked(k) => Marked(k)' BY <1>6 DEF Marked
<1>8. store'[j] # Absent => Open(j) BY <1>1 DEF Mark, Open, Stores
<1>9. AllCovered' BY <1>1, <1>4, <1>5, <1>7, <1>8 DEF AllCovered, Open
<1>10. AllReached'
  <2>1. Reached(Idle) BY DEF Idle, Reached
  <2>2. call' = [call EXCEPT ![t] = Idle] BY DEF Mark, Return
  <2>3. QED BY <2>1, <2>2 DEF AllReached, CallsOK
<1>11. QED BY <1>9, <1>10

\* What is reloaded is saved, and what is merged from the file is announced.
LEMMA TakeInCovered ==
    ASSUME Announcing, TypeOK, NEW t \in Threads, NEW k \in Keys,
           Reload(t, k) \/ MergeDisk(t, k)
    PROVE  CoverKept
<1> USE TypeOKParts DEF Typed
<1>1. CASE Reload(t, k)
  <2> DEFINE c == [store[k] EXCEPT !.content = disk[k], !.checksum = disk[k]]
  <2>1. disk[k] # Absent /\ store[k] \in Context
    BY <1>1, OpenIsContext DEF Reload, Reloadable, Readable
  <2>2. Held(c) = disk[k] /\ c.checksum = disk[k] BY <2>1 DEF Held, Context
  <2>3. Covered(c) BY <2>1, <2>2 DEF Covered
  <2>4. QED BY <1>1, <2>3, PutCovered DEF Reload
<1>2. CASE MergeDisk(t, k)
  <2> DEFINE c == [Changed(store[k], disk[k]) EXCEPT !.checksum = disk[k],
                                                     !.save_pending = TRUE]
  <2>1. c.save_pending
    BY <1>2, OpenIsContext DEF MergeDisk, Reloadable, Changed, Context
  <2>2. Covered(c) BY <2>1 DEF Covered
  <2>3. store' = [store EXCEPT ![k] = c] \/ UNCHANGED store
    BY <1>2 DEF MergeDisk, Announcing
  <2>4. QED BY <2>2, <2>3, PutCovered, SameStoreCovered
<1>3. QED BY <1>1, <1>2

\* Calls that begin, and touch no context or take it out of the store.
LEMMA OtherCovered ==
    ASSUME Announcing, TypeOK, AllReached, NEW t \in Threads, NEW k \in Keys,
           \/ Load(t, k) \/ Create(t, k) \/ Close(t, k) \/ CloseAll(t, k) \/ CloseNext(t)
    PROVE  CoverKept /\ MarksKept /\ AllReached'
<1> USE TypeOKParts DEF Typed
<1>1. ASSUME NEW j, Remove(j)
      PROVE  CoverKept
  BY <1>1 DEF Remove, Stores, CoverKept, Open
<1>2. CASE Load(t, k)
  <2>1. PICK id \in EncKeys : call' = [call EXCEPT ![t] =
           [Idle EXCEPT !.pc = "insert", !.key = k, !.other = Absent, !.data = disk[k],
                        !.enc_key = id]]
    BY <1>2 DEF Load, ReadFile, FreshEncKeys
  <2>2. Reached([Idle EXCEPT !.pc = "insert", !.key = k, !.other = Absent, !.data = disk[k],
                             !.enc_key = id])
    BY DEF Idle, Reached
  <2>3. QED BY <1>2, <2>1, <2>2, GoMarks, BeginUnmarked, SameStoreCovered DEF Load, ReadFile
<1>3. CASE Create(t, k)
  <2>1. PICK id \in EncKeys : call' = [call EXCEPT ![t] =
           [Idle EXCEPT !.pc = "create", !.key = k, !.enc_key = id]]
    BY <1>3 DEF Create, FreshEncKeys
  <2>2. Reached([Idle EXCEPT !.pc = "create", !.key = k, !.enc_key = id])
    BY DEF Idle, Reached
  <2>3. QED BY <1>3, <2>1, <2>2, GoMarks, BeginUnmarked, SameStoreCovered DEF Create
<1>4. CASE Close(t, k) BY <1>1, <1>4, SameCallsMarks DEF Close
<1>5. CASE CloseAll(t, k)
  <2> DEFINE c == [Idle EXCEPT !.pc = "close_all", !.rest = {j \in Keys : Open(j)}]
  <2>1. Reached(c) BY DEF Idle, Reached
  <2>2. QED BY <1>5, <2>1, GoMarks, BeginUnmarked, SameStoreCovered DEF CloseAll
<1>6. CASE CloseNext(t)
  <2>1. PICK j : Remove(j) /\
           call' = [call EXCEPT ![t] = IF call[t].rest = {j} THEN Idle
                                       ELSE [call[t] EXCEPT !.rest = @ \ {j}]]
    BY <1>6 DEF CloseNext
  <2>2. call[t].pc = "close_all" BY <1>6 DEF CloseNext, At
  <2>3. Reached(Idle) BY DEF Idle, Reached
  <2>4. Reached([call[t] EXCEPT !.rest = @ \ {j}]) BY <2>2 DEF Reached, CallsOK, Call
  <2>5. MarksKept /\ AllReached' BY <2>1, <2>2, <2>3, <2>4, GoMarks
  <2>6. QED BY <1>1, <2>1, <2>5
<1>7. QED BY <1>2, <1>3, <1>4, <1>5, <1>6

\* Every step leaves every unsaved edit announced.
LEMMA CoveredStep ==
    ASSUME Announcing, TypeOK, AllSound, AllCovered, AllReached, [Next]_vars
    PROVE  AllCovered' /\ AllReached'
<1> USE TypeOKParts DEF Typed
<1>1. SUFFICES ASSUME ~\E t \in Threads : Mark(t)
               PROVE  CoverKept /\ MarksKept /\ AllReached'
  BY KeptCovered, MarkCovered
<1>2. ASSUME NEW t \in Threads, NEW k \in Keys, Start(t, k)
      PROVE  CoverKept /\ MarksKept /\ AllReached'
  <2>1. CASE Edit(t, k) \/ SetCredentials(t, k) BY <2>1, EditCovered
  <2>2. CASE Load(t, k) \/ Create(t, k) \/ Close(t, k) \/ CloseAll(t, k)
    BY <2>2, OtherCovered
  <2>3. CASE \E overwrite, backup \in BOOLEAN : Save(t, k, overwrite, backup)
    BY <2>3, WriteCovered, SameCallsMarks DEF Save
  <2>4. CASE \E backup \in BOOLEAN : SaveAll(t, k, backup)
    BY <2>4, WriteCovered, SameCallsMarks DEF SaveAll
  <2>5. CASE \E n \in Keys : SaveToDbFile(t, k, n)
    BY <2>5, SameStoreCovered, SameCallsMarks DEF SaveToDbFile
  <2>6. CASE Lock(t, k) BY <2>6, LockCovered, SameCallsMarks DEF Lock
  <2>7. CASE UnlockCompare(t, k)
    BY <2>7, BeginUnmarked, GotoMarks, SameStoreCovered DEF UnlockCompare
  <2>8. CASE UnlockBiometric(t, k)
    BY <2>8, RestoreCovered, SameCallsMarks DEF UnlockBiometric
  <2>9. CASE Reload(t, k) \/ MergeDisk(t, k)
    BY <2>9, TakeInCovered, SameCallsMarks DEF Reload, MergeDisk
  <2>10. /\ ~\E n \in Keys : SaveAs(t, k, n) \/ Rename(t, k, n)
         /\ ~\E s \in Keys : Merge(t, k, s)
         /\ ~\E locked \in BOOLEAN : SetLocked(t, k, locked)
    BY DEF Announcing, LockDiscipline, SaveAs, Rename, Merge, SetLocked, Begin
  <2>11. QED
    BY <1>2, <2>1, <2>2, <2>3, <2>4, <2>5, <2>6, <2>7, <2>8, <2>9, <2>10 DEF Start
<1>3. ASSUME NEW t \in Threads, Continue(t)
      PROVE  CoverKept /\ MarksKept /\ AllReached'
  <2>1. Reached(call[t]) BY DEF AllReached
  <2>2. PICK k \in Keys : TRUE
    BY <1>3 DEF Continue, Mark, Insert, CreateInsert, CreateSave, SaveAsWrite, RenameFile,
                MoveContext, CloseNext, UnlockRestore, MergeApply, MergeClose, At, CallsOK,
                CallOK, Call
  <2>3. CASE Insert(t) \/ CreateInsert(t) BY <2>3, InsertCovered
  <2>4. CASE CloseNext(t) BY <2>2, <2>4, OtherCovered
  <2>5. CASE CreateSave(t)
    <3>1. call[t].key \in Keys /\ call[t].pc # "mark"
      BY <2>5 DEF CreateSave, At, CallsOK, CallOK
    <3>2. QED BY <2>5, <3>1, WriteCovered, SameStoreCovered, GotoMarks DEF CreateSave
  <2>6. CASE UnlockRestore(t)
    <3>1. call[t].key \in Keys /\ call[t].pc # "mark"
      BY <2>6 DEF UnlockRestore, At, CallsOK, CallOK
    <3>2. QED BY <2>6, <3>1, RestoreCovered, SameStoreCovered, GotoMarks DEF UnlockRestore
  <2>7. ~(SaveAsWrite(t) \/ RenameFile(t) \/ MoveContext(t) \/ MergeApply(t) \/ MergeClose(t))
    BY <2>1 DEF Reached, SaveAsWrite, RenameFile, MoveContext, MergeApply, MergeClose, At
  <2>8. QED BY <1>1, <1>3, <2>3, <2>4, <2>5, <2>6, <2>7 DEF Continue
<1>4. CASE \E f \in Keys : ExternalEdit(f)
  BY <1>4, SameStoreCovered, SameCallsMarks DEF ExternalEdit
<1>5. CASE UNCHANGED vars BY <1>5, SameStoreCovered, SameCallsMarks DEF vars
<1>6. QED BY <1>2, <1>3, <1>4, <1>5 DEF Next

\* For clients that keep to the lock discipline and neither merge, rename nor save
\* databases under other names, an edit that is not in the file is announced by
\* save_pending or about to be, with any number of threads in any order.
THEOREM UnsavedAnnounced ==
    ASSUME Announcing
    PROVE  Spec => []UnsavedIsPending
<1>1. Init => AllCovered /\ AllReached
  BY DEF Init, AllCovered, AllReached, Open, Reached, Idle
<1>2. TypeOK /\ AllSound /\ AllCovered /\ AllReached /\ [Next]_vars
        => (AllCovered /\ AllReached)'
  BY CoveredStep
<1>3. AllCovered => UnsavedIsPending BY CoverParts
<1>4. LockDiscipline BY DEF Announcing
<1>5. QED BY <1>1, <1>2, <1>3, <1>4, AlwaysSound, PTL DEF Spec

-----------------------------------------------------------------------------
(* What DbStore promises a client of one thread that keeps to the conventions *)
(* of the desktop's user interface, for every number of databases, edits and  *)
(* session keys: it behaves as the editor of documents of Sessions.           *)

\* The conventions: one call at a time; a locked database is not changed, copied,
\* reloaded or merged; a database is saved under names that are not in use; the flag
\* is not set by itself, and no name is changed without a save. No file fails to open.
DesktopClient ==
    /\ \E t : Threads = {t}
    /\ Calls \cap {"set_db_locked", "rename_db_key"} = {}
    /\ LockedCalls \cap {"set_db_settings", "save_to_db_file", "save_as_kdbx", "reload_kdbx",
                         "merge_kdbx_with_disk_version", "merge_databases"} = {}
    /\ Targets = {"unused"}
    /\ Failures = FALSE

-----------------------------------------------------------------------------
(* The inductive invariant *)

\* The call of the client's thread
Now == call[CHOOSE t \in Threads : TRUE]

In(sections, k) == Now.pc \in sections /\ Now.key = k

\* The content is in the clear, or sealed under the session key of the context
Sealed(c) ==
    /\ c.locked <=> (c.content = Absent)
    /\ (c.blob = Absent) <=> (c.content # Absent)
    /\ c.blob # Absent => c.blob.enc_key = c.enc_key

\* The file of the context at key k: only a save under another name is ahead of the key
FileOf(k) == IF In({"move"}, k) THEN Now.other ELSE k

\* What holds of the open context at key k
Fits(k) ==
    /\ Sealed(store[k])
    /\ store[k].file_name = FileOf(k)
    /\ HasKey(store[k]) \/ In({"insert", "create"}, k)
    /\ Readable(store[k].file_name) \/ In({"create_save"}, k)

AllFit == \A k \in Keys : Open(k) => Fits(k)

\* What a call knows when it takes the mutex again
OpeningGoesOn ==
    /\ Now.pc \in {"insert", "create"} => keystore[Now.key] = Now.enc_key
    /\ Now.pc = "insert" =>
          /\ Readable(Now.key) /\ Now.data \subseteq disk[Now.key]
          /\ Now.other # Now.key /\ (Now.other # Absent => ~Locked(Now.other))
    /\ Now.pc = "create_save" => Open(Now.key) /\ ~Locked(Now.key)

MergeGoesOn ==
    /\ Now.pc = "merge" =>
          /\ Now.key # Now.other /\ ~Locked(Now.key) /\ ~Locked(Now.other)
          /\ Now.enc_key # Absent =>
                Open(Now.key) /\ store[Now.key].enc_key = Now.enc_key
    /\ Now.pc = "merge_close" =>
          Open(Now.key) /\ store[Now.key].enc_key = Now.enc_key

SaveAsGoesOn ==
    /\ Now.pc # "rename"
    /\ Now.pc \in {"save_as_write", "move"} =>
          Now.other # Now.key /\ ~Open(Now.other) /\ ~Locked(Now.key)
    /\ Now.pc = "save_as_write" =>
          (Open(Now.key) => keystore[Now.other] = keystore[Now.key])
    /\ Now.pc = "move" => Open(Now.key)

GoesOn == OpeningGoesOn /\ MergeGoesOn /\ SaveAsGoesOn

DesktopInv == TypeOK /\ AllFit /\ GoesOn

-----------------------------------------------------------------------------
(* Lemmas on the client's thread and on single contexts *)

LEMMA OnlyThread ==
    ASSUME DesktopClient, NEW t \in Threads
    PROVE  Threads = {t} /\ Now = call[t] /\ Now' = call'[t]
BY DEF DesktopClient, Now

LEMMA NowIsCall ==
    ASSUME DesktopClient, TypeOK
    PROVE  Now \in Call /\ CallOK(Now)
<1>1. PICK t \in Threads : TRUE BY DEF DesktopClient
<1>2. QED BY <1>1, OnlyThread DEF TypeOK

\* The thread's next call record is the one that the step puts there.
LEMMA NextCall ==
    ASSUME DesktopClient, CallsOK(call), NEW t \in Threads, NEW c,
           call' = [call EXCEPT ![t] = c]
    PROVE  Now' = c
BY OnlyThread DEF CallsOK

LEMMA SameCall ==
    ASSUME DesktopClient, UNCHANGED call
    PROVE  Now' = Now
BY OnlyThread DEF DesktopClient

\* A thread between two calls owes nothing.
LEMMA IdleGoesOn ==
    /\ Now = Idle => GoesOn
    /\ Now' = Idle => GoesOn'
BY DEF Idle, GoesOn, OpeningGoesOn, MergeGoesOn, SaveAsGoesOn

\* Nor does one that is about to set a flag, to restore or to close.
LEMMA PlainGoesOn ==
    ASSUME Now'.pc \in {"idle", "mark", "restore", "close_all"}
    PROVE  GoesOn'
BY DEF GoesOn, OpeningGoesOn, MergeGoesOn, SaveAsGoesOn

\* The contexts that the step leaves alone still fit.
LEMMA OthersFit ==
    ASSUME TypeOK, AllFit, NEW S \in SUBSET Keys,
           Now.pc # "move" \/ Now.key \in S,
           Now.pc \in {"insert", "create", "create_save"} => Now.key \in S,
           Now'.pc # "move" \/ Now'.key \in S,
           \A j \in Keys \ S : store'[j] = store[j] /\ keystore'[j] = keystore[j],
           \A f \in Keys : Readable(f) => Readable(f)'
    PROVE  \A j \in Keys \ S : Open(j)' => Fits(j)'
BY DEF AllFit, Fits, Open, HasKey, FileOf, In

LEMMA FitTogether ==
    ASSUME NEW S, \A j \in Keys \ S : Open(j)' => Fits(j)', \A k \in S : Open(k)' => Fits(k)'
    PROVE  AllFit'
BY DEF AllFit

\* The sections at which every context lies under its own name with its own key.
Settled(c) == c.pc \notin {"move", "insert", "create", "create_save"}

LEMMA FitFacts ==
    ASSUME DesktopInv, Settled(Now), NEW k \in Keys, Open(k)
    PROVE  /\ store[k] \in Context /\ Sealed(store[k])
           /\ store[k].file_name = k
           /\ keystore[k] = store[k].enc_key
           /\ Readable(k)
           /\ store[k].content # Absent => store[k].content \in Content
<1>1. store[k] \in Context BY OpenIsContext, TypeOKParts DEF DesktopInv, Typed
<1>2. QED BY <1>1 DEF DesktopInv, AllFit, Fits, FileOf, In, HasKey, Settled, Context

\* One context is put in the store, or replaced.
LEMMA PutFit ==
    ASSUME DesktopInv, NEW k \in Keys, NEW c,
           Settled(Now) \/ (Now.pc # "move" /\ Now.key = k), Settled(Now'),
           store' = [store EXCEPT ![k] = c],
           \A j \in Keys \ {k} : keystore'[j] = keystore[j],
           KeepsReadable, Readable(k)',
           Sealed(c), c.file_name = k, keystore'[k] = c.enc_key
    PROVE  AllFit'
<1>1. store'[k] = c /\ \A j \in Keys \ {k} : store'[j] = store[j]
  BY DEF DesktopInv, TypeOK
<1>2. \A j \in Keys \ {k} : Open(j)' => Fits(j)'
  BY <1>1, OthersFit DEF DesktopInv, Settled, KeepsReadable
<1>3. Fits(k)' BY <1>1 DEF Fits, HasKey, FileOf, In, Settled
<1>4. QED BY <1>2, <1>3, FitTogether

\* No context is put in the store and no session key is replaced.
LEMMA SameFit ==
    ASSUME DesktopInv, Settled(Now), Settled(Now'), UNCHANGED <<store, keystore>>, KeepsReadable
    PROVE  AllFit'
<1>1. \A j \in Keys \ {} : Open(j)' => Fits(j)'
  BY OthersFit DEF DesktopInv, Settled, KeepsReadable
<1>2. QED BY <1>1, FitTogether

\* One context, if it is there, is taken out of the store with its session key.
LEMMA RemoveFit ==
    ASSUME DesktopInv, Settled(Now), Settled(Now'), NEW k \in Keys, Remove(k), UNCHANGED disk
    PROVE  AllFit' /\ ~Open(k)' /\ \A j \in Keys \ {k} : store'[j] = store[j]
<1>1. /\ store'[k] = Absent
      /\ \A j \in Keys \ {k} : store'[j] = store[j] /\ keystore'[j] = keystore[j]
  BY DEF DesktopInv, TypeOK, Remove
<1>2. \A j \in Keys \ {k} : Open(j)' => Fits(j)'
  BY <1>1, OthersFit DEF DesktopInv, Settled, Readable
<1>3. QED BY <1>1, <1>2, FitTogether DEF Open

LEMMA SameFiles == UNCHANGED disk => KeepsReadable
BY DEF KeepsReadable, Readable

\* A content is put in a file: files that were readable are, and so is this one.
LEMMA PutFile ==
    ASSUME TypeOK, NEW f \in Keys, NEW d \in Content, disk' = [disk EXCEPT ![f] = d]
    PROVE  KeepsReadable /\ Readable(f)'
<1>1. d # Absent /\ d # Torn BY AbsentAssumption DEF Content
<1>2. QED BY <1>1 DEF TypeOK, KeepsReadable, Readable

\* A call begins: the thread was between two calls.
LEMMA BeginIdle ==
    ASSUME DesktopClient, NEW t \in Threads, NEW op, NEW k, Begin(t, op, k)
    PROVE  Now = Idle /\ op \in Calls /\ (op \notin LockedCalls => ~Locked(k))
BY OnlyThread DEF Begin

\* A call goes on: the thread is where it was left.
LEMMA AtNow ==
    ASSUME DesktopClient, TypeOK, NEW t \in Threads, NEW p, At(t, p)
    PROVE  Now.pc = p /\ Now = call[t] /\ Now \in Call /\ CallOK(Now)
BY OnlyThread, NowIsCall DEF At

\* Where a call goes when it is over or goes to a section that needs only a key.
LEMMA Goes ==
    ASSUME DesktopClient, TypeOK, NEW t \in Threads
    PROVE  /\ Return(t) => Now' = Idle
           /\ \A p \in Sections, k \in Keys :
                 Goto(t, p, k) => Now'.pc = p /\ Now'.key = k
<1>1. CallsOK(call) BY TypeOKParts DEF Typed
<1>2. ASSUME NEW p \in Sections, NEW k \in Keys, Goto(t, p, k)
      PROVE  Now'.pc = p /\ Now'.key = k
  <2>1. Now' = [Idle EXCEPT !.pc = p, !.key = k] BY <1>1, <1>2, NextCall DEF Goto
  <2>2. QED BY <2>1 DEF Idle
<1>3. Return(t) => Now' = Idle BY <1>1, NextCall DEF Return
<1>4. QED BY <1>2, <1>3

LEMMA IdleSettled == Settled(Idle) /\ Idle.pc = "idle"
BY DEF Settled, Idle

-----------------------------------------------------------------------------
(* Changes *)

\* A context in the clear that gets more content stays sealed or not as it was.
LEMMA ChangedSealed ==
    ASSUME NEW c \in Context, Sealed(c), c.content # Absent, NEW d \in Content
    PROVE  /\ Changed(c, d) \in Context /\ Sealed(Changed(c, d))
           /\ Changed(c, d).content = c.content \cup d /\ Changed(c, d).content # Absent
           /\ Changed(c, d).file_name = c.file_name /\ Changed(c, d).enc_key = c.enc_key
           /\ Changed(c, d).checksum = c.checksum /\ Changed(c, d).blob = Absent
           /\ Changed(c, d).locked = FALSE
<1>1. c.content \in Content /\ c.content \cup d \in Content BY DEF Context, Content
<1>2. c.content \cup d # Absent BY <1>1, ContentPresent
<1>3. QED BY <1>1, <1>2 DEF Changed, Context, Sealed

LEMMA EditInv ==
    ASSUME DesktopClient, DesktopInv, NEW t \in Threads, NEW k \in Keys,
           Edit(t, k) \/ SetCredentials(t, k)
    PROVE  AllFit' /\ GoesOn'
<1>1. Now = Idle BY BeginIdle DEF Edit, SetCredentials
<1>2. Now'.pc = "mark" BY Goes DEF Edit, SetCredentials, DesktopInv, Sections
<1>3. Settled(Now) /\ Settled(Now') BY <1>1, <1>2, IdleSettled DEF Settled
<1>4. KeepsReadable BY SameFiles DEF Edit, SetCredentials
<1>5. CASE Edit(t, k) /\ UNCHANGED store
  BY <1>2, <1>3, <1>4, <1>5, SameFit, PlainGoesOn DEF Edit
<1>6. ASSUME Open(k), store[k].content # Absent, NEW e \in Edits
      PROVE  /\ Changed(store[k], {e}) \in Context /\ Sealed(Changed(store[k], {e}))
             /\ Changed(store[k], {e}).file_name = k
             /\ Changed(store[k], {e}).enc_key = keystore[k]
             /\ Changed(store[k], {e}).blob = Absent /\ Readable(k)
  <2>1. {e} \in Content BY DEF Content
  <2>2. /\ store[k] \in Context /\ Sealed(store[k]) /\ store[k].file_name = k
        /\ keystore[k] = store[k].enc_key /\ Readable(k)
    BY <1>3, <1>6, FitFacts
  <2>3. QED BY <1>6, <2>1, <2>2, ChangedSealed
<1>7. CASE Edit(t, k) /\ ~UNCHANGED store
  <2>1. PICK e \in Edits : Open(k) /\ store[k].content # Absent
                           /\ store' = [store EXCEPT ![k] = Changed(store[k], {e})]
    BY <1>7 DEF Edit
  <2>2. AllFit' BY <1>3, <1>4, <1>6, <1>7, <2>1, PutFit DEF Edit, KeepsReadable
  <2>3. QED BY <1>2, <2>2, PlainGoesOn
<1>8. CASE SetCredentials(t, k)
  <2>1. PICK e \in Edits, id \in FreshEncKeys :
           /\ store' = [store EXCEPT ![k] = [Changed(store[k], {e}) EXCEPT !.enc_key = id]]
           /\ keystore' = [keystore EXCEPT ![k] = id]
    BY <1>8 DEF SetCredentials
  <2> DEFINE b == Changed(store[k], {e})
             c == [b EXCEPT !.enc_key = id]
  <2>2. b \in Context /\ Sealed(b) /\ b.file_name = k /\ b.blob = Absent /\ Readable(k)
    BY <1>6, <1>8 DEF SetCredentials
  <2> HIDE DEF b
  <2>3. Sealed(c) /\ c.file_name = k /\ c.enc_key = id BY <2>2 DEF Sealed, Context
  <2>4. keystore'[k] = id /\ \A j \in Keys \ {k} : keystore'[j] = keystore[j]
    BY <2>1 DEF DesktopInv, TypeOK
  <2>5. Readable(k)' BY <1>4, <2>2 DEF KeepsReadable
  <2>6. store' = [store EXCEPT ![k] = c] BY <2>1 DEF b
  <2> HIDE DEF c
  <2>7. AllFit' BY <1>3, <1>4, <2>3, <2>4, <2>5, <2>6, PutFit
  <2>8. QED BY <1>2, <2>7, PlainGoesOn
<1>9. QED BY <1>5, <1>7, <1>8

LEMMA MarkInv ==
    ASSUME DesktopClient, DesktopInv, NEW t \in Threads, Mark(t)
    PROVE  AllFit' /\ GoesOn'
<1>1. Now.pc = "mark" /\ Now = call[t] /\ CallOK(Now)
  BY AtNow DEF Mark, DesktopInv
<1>2. Now' = Idle BY Goes DEF Mark, DesktopInv
<1>3. Settled(Now) /\ Settled(Now') BY <1>1, <1>2, IdleSettled DEF Settled
<1>4. KeepsReadable BY SameFiles DEF Mark
<1>5. CASE UNCHANGED store
  BY <1>2, <1>3, <1>4, <1>5, SameFit, IdleGoesOn DEF Mark
<1>6. CASE ~UNCHANGED store
  <2>1. PICK k \in Keys : /\ Open(k)
                          /\ store' = [store EXCEPT ![k] = [store[k] EXCEPT !.save_pending = TRUE]]
    BY <1>1, <1>6 DEF Mark, CallOK
  <2> DEFINE c == [store[k] EXCEPT !.save_pending = TRUE]
  <2>2. store[k] \in Context /\ Sealed(store[k]) /\ store[k].file_name = k
        /\ keystore[k] = store[k].enc_key /\ Readable(k)
    BY <1>3, <2>1, FitFacts
  <2>3. Sealed(c) /\ c.file_name = k /\ c.enc_key = keystore[k]
    BY <2>2 DEF Sealed, Context
  <2>4. AllFit' BY <1>3, <1>4, <2>1, <2>2, <2>3, PutFit DEF Mark, KeepsReadable
  <2>5. QED BY <1>2, <2>4, IdleGoesOn
<1>7. QED BY <1>5, <1>6

-----------------------------------------------------------------------------
(* Opening and creating *)

LEMMA ReadInv ==
    ASSUME DesktopClient, DesktopInv, NEW t \in Threads, NEW k \in Keys,
           NEW target \in {Absent} \cup Keys, Now = Idle, ReadFile(t, k, target),
           target # k, target # Absent => ~Locked(target)
    PROVE  AllFit' /\ GoesOn'
<1>1. PICK id \in FreshEncKeys :
         /\ keystore' = [keystore EXCEPT ![k] = id]
         /\ call' = [call EXCEPT ![t] =
                       [Idle EXCEPT !.pc = "insert", !.key = k, !.other = target,
                                    !.data = disk[k], !.enc_key = id]]
  BY DEF ReadFile
<1>2. Now' = [Idle EXCEPT !.pc = "insert", !.key = k, !.other = target,
                          !.data = disk[k], !.enc_key = id]
  BY <1>1, NextCall, TypeOKParts DEF DesktopInv, Typed
<1>3. /\ Now'.pc = "insert" /\ Now'.key = k /\ Now'.other = target
      /\ Now'.data = disk[k] /\ Now'.enc_key = id
  BY <1>2 DEF Idle
<1>4. Settled(Now) BY IdleSettled
<1>5. keystore'[k] = id /\ \A j \in Keys \ {k} : keystore'[j] = keystore[j]
  BY <1>1 DEF DesktopInv, TypeOK
<1>6. KeepsReadable /\ UNCHANGED <<store, disk>> BY SameFiles DEF ReadFile
<1>7. \A j \in Keys \ {k} : Open(j)' => Fits(j)'
  BY <1>3, <1>4, <1>5, <1>6, OthersFit DEF DesktopInv, Settled, KeepsReadable
<1>8. Open(k)' => Fits(k)'
  <2>1. Open(k) => Sealed(store[k]) /\ store[k].file_name = k /\ Readable(k)
    BY <1>4, FitFacts
  <2>2. QED BY <1>3, <1>6, <2>1 DEF Fits, Open, FileOf, In, Readable
<1>9. GoesOn'
  BY <1>3, <1>5, <1>6 DEF GoesOn, OpeningGoesOn, MergeGoesOn, SaveAsGoesOn, ReadFile, Readable,
                          Locked, Open
<1>10. QED BY <1>7, <1>8, <1>9, FitTogether

LEMMA LoadInv ==
    ASSUME DesktopClient, DesktopInv, NEW t \in Threads, NEW k \in Keys, Load(t, k)
    PROVE  AllFit' /\ GoesOn'
BY BeginIdle, ReadInv, AbsentAssumption DEF Load

LEMMA CreateInv ==
    ASSUME DesktopClient, DesktopInv, NEW t \in Threads, NEW k \in Keys, Create(t, k)
    PROVE  AllFit' /\ GoesOn'
<1>1. PICK id \in FreshEncKeys :
         /\ keystore' = [keystore EXCEPT ![k] = id]
         /\ call' = [call EXCEPT ![t] = [Idle EXCEPT !.pc = "create", !.key = k, !.enc_key = id]]
  BY DEF Create
<1>2. Now' = [Idle EXCEPT !.pc = "create", !.key = k, !.enc_key = id]
  BY <1>1, NextCall, TypeOKParts DEF DesktopInv, Typed
<1>3. Now'.pc = "create" /\ Now'.key = k /\ Now'.enc_key = id BY <1>2 DEF Idle
<1>4. Settled(Now) BY BeginIdle, IdleSettled DEF Create
<1>5. keystore'[k] = id /\ \A j \in Keys \ {k} : keystore'[j] = keystore[j]
  BY <1>1 DEF DesktopInv, TypeOK
<1>6. KeepsReadable /\ UNCHANGED <<store, disk>> BY SameFiles DEF Create
<1>7. \A j \in Keys \ {k} : Open(j)' => Fits(j)'
  BY <1>3, <1>4, <1>5, <1>6, OthersFit DEF DesktopInv, Settled, KeepsReadable
<1>8. Open(k)' => Fits(k)'
  <2>1. Open(k) => Sealed(store[k]) /\ store[k].file_name = k /\ Readable(k)
    BY <1>4, FitFacts
  <2>2. QED BY <1>3, <1>6, <2>1 DEF Fits, Open, FileOf, In, Readable
<1>9. GoesOn' BY <1>3, <1>5 DEF GoesOn, OpeningGoesOn, MergeGoesOn, SaveAsGoesOn
<1>10. QED BY <1>7, <1>8, <1>9, FitTogether

\* A new context has its content in the clear.
LEMMA NewContextFacts ==
    ASSUME NEW k, NEW d \in Content, NEW sum, NEW id
    PROVE  LET c == NewContext(k, d, sum, id) IN
           /\ Sealed(c) /\ c.file_name = k /\ c.enc_key = id /\ ~c.locked
           /\ Held(c) = d /\ c.checksum = sum
BY ContentPresent DEF NewContext, Sealed, Held

LEMMA InsertInv ==
    ASSUME DesktopClient, DesktopInv, NEW t \in Threads, Insert(t)
    PROVE  AllFit' /\ GoesOn'
<1> DEFINE k == Now.key
           c == NewContext(k, Now.data, Now.data, Now.enc_key)
<1>1. Now = call[t] /\ Now.pc = "insert" /\ Now \in Call /\ k \in Keys
  BY AtNow DEF Insert, DesktopInv, CallOK
<1>2. /\ keystore[k] = Now.enc_key /\ Readable(k)
      /\ Now.other # k /\ (Now.other # Absent => ~Locked(Now.other))
  BY <1>1 DEF DesktopInv, GoesOn, OpeningGoesOn
<1>3. store' = [store EXCEPT ![k] = c] /\ UNCHANGED <<keystore, disk>>
  BY <1>1 DEF Insert
<1>4. Sealed(c) /\ c.file_name = k /\ c.enc_key = Now.enc_key /\ ~c.locked /\ c # Absent
  <2>1. Now.data \in Content BY <1>1 DEF Call
  <2>2. Now.enc_key \in EncKeys BY <1>1, AtNow DEF Insert, DesktopInv, CallOK
  <2>3. c \in Context BY <1>1, <2>1, <2>2 DEF NewContext, Context
  <2>4. c # Absent BY <2>3, NoneAssumption
  <2> HIDE DEF c
  <2>5. QED BY <2>1, <2>4, NewContextFacts DEF c
<1>5. Now' = IF Now.other = Absent THEN Idle ELSE [Now EXCEPT !.pc = "merge", !.data = {}]
  BY <1>1, NextCall, TypeOKParts DEF Insert, DesktopInv, Typed
<1>6. Now.other # Absent =>
         /\ Now'.pc = "merge" /\ Now'.key = k /\ Now'.other = Now.other
         /\ Now'.enc_key = Now.enc_key
  BY <1>1, <1>5 DEF Call
<1>7. Settled(Now') BY <1>5, <1>6, IdleSettled DEF Settled
<1>8. AllFit'
  BY <1>1, <1>2, <1>3, <1>4, <1>7, PutFit, SameFiles DEF Readable
<1>9. CASE Now.other = Absent BY <1>5, <1>8, <1>9, IdleGoesOn
<1>10. CASE Now.other # Absent
  <2>1. store'[k] = c /\ \A j \in Keys \ {k} : store'[j] = store[j]
    BY <1>1, <1>3 DEF DesktopInv, TypeOK
  <2>2. Now.other \in Keys BY <1>1, <1>10 DEF Call
  <2>3. ~(store'[Now.other] # Absent /\ store'[Now.other].locked)
      BY <1>2, <1>10, <2>1, <2>2 DEF Locked, Open
  <2>4. QED
    BY <1>2, <1>4, <1>6, <1>8, <1>10, <2>1, <2>3
    DEF GoesOn, OpeningGoesOn, MergeGoesOn, SaveAsGoesOn, Locked, Open
<1>11. QED BY <1>9, <1>10

LEMMA CreateInsertInv ==
    ASSUME DesktopClient, DesktopInv, NEW t \in Threads, CreateInsert(t)
    PROVE  AllFit' /\ GoesOn'
<1> DEFINE k == Now.key
           c == NewContext(k, {}, Absent, Now.enc_key)
<1>1. Now = call[t] /\ Now.pc = "create" /\ k \in Keys /\ Now.enc_key \in EncKeys
  BY AtNow DEF CreateInsert, DesktopInv, CallOK
<1>2. keystore[k] = Now.enc_key BY <1>1 DEF DesktopInv, GoesOn, OpeningGoesOn
<1>3. store' = [store EXCEPT ![k] = c] /\ UNCHANGED <<keystore, disk>>
  BY <1>1 DEF CreateInsert
<1>4. Sealed(c) /\ c.file_name = k /\ c.enc_key = Now.enc_key /\ ~c.locked /\ c # Absent
  <2>1. c \in Context BY <1>1 DEF NewContext, Context, Content
  <2>2. c # Absent BY <2>1, NoneAssumption
  <2>3. {} \in Content BY DEF Content
  <2> HIDE DEF c
  <2>4. QED BY <2>2, <2>3, NewContextFacts DEF c
<1>5. Now'.pc = "create_save" /\ Now'.key = k
  BY <1>1, Goes DEF CreateInsert, DesktopInv, Sections
<1>6. store'[k] = c /\ \A j \in Keys \ {k} : store'[j] = store[j]
  BY <1>1, <1>3 DEF DesktopInv, TypeOK
<1>7. \A j \in Keys \ {k} : Open(j)' => Fits(j)'
  BY <1>1, <1>3, <1>5, <1>6, OthersFit, SameFiles DEF DesktopInv, KeepsReadable
<1>8. \A j \in {k} : Open(j)' => Fits(j)'
  BY <1>2, <1>3, <1>4, <1>5, <1>6 DEF Fits, HasKey, FileOf, In
<1>9. GoesOn'
  BY <1>4, <1>5, <1>6 DEF GoesOn, OpeningGoesOn, MergeGoesOn, SaveAsGoesOn, Locked, Open
<1>10. AllFit'
  <2>1. \A j \in Keys : Open(j)' => Fits(j)' BY <1>7, <1>8
  <2>2. QED BY <2>1 DEF AllFit
<1>11. QED BY <1>9, <1>10

-----------------------------------------------------------------------------
(* Saving *)

\* Without failures a save writes all the content, or is refused and does nothing:
\* no file is created in vain.
LEMMA WriteOutcome ==
    ASSUME DesktopClient, TypeOK, NEW k \in Keys, Open(k), NEW overwrite \in BOOLEAN,
           NEW backup \in BOOLEAN, Write(k, overwrite, backup),
           store[k].file_name = k, HasKey(store[k]),
           Readable(k) \/ (overwrite /\ store[k].content # Absent)
    PROVE  \/ /\ store[k].content # Absent
              /\ overwrite \/ Unmodified(store[k])
              /\ store' = [store EXCEPT ![k] = Saved(store[k])]
              /\ disk' = [disk EXCEPT ![k] = store[k].content]
           \/ ~(overwrite /\ store[k].content # Absent) /\ UNCHANGED <<store, disk>>
BY DEF DesktopClient, Write, Writable, Readable

LEMMA SavedFacts ==
    ASSUME NEW c \in Context
    PROVE  /\ Saved(c).content = c.content /\ Saved(c).blob = c.blob
           /\ Saved(c).locked = c.locked /\ Saved(c).enc_key = c.enc_key
           /\ Saved(c).file_name = c.file_name /\ Saved(c).checksum = c.content
           /\ (Sealed(c) => Sealed(Saved(c)))
BY DEF Saved, Context, Sealed

\* A save keeps every context in its place.
LEMMA WriteFit ==
    ASSUME DesktopClient, DesktopInv, NEW k \in Keys, Open(k), NEW overwrite \in BOOLEAN,
           NEW backup \in BOOLEAN, Write(k, overwrite, backup), UNCHANGED keystore,
           Settled(Now) \/ (overwrite /\ store[k].content # Absent /\ In({"create_save"}, k)),
           Settled(Now')
    PROVE  AllFit'
<1> DEFINE c == store[k]
<1>1. c \in Context BY OpenIsContext, TypeOKParts DEF DesktopInv, Typed
<1>2. Fits(k) BY DEF DesktopInv, AllFit
<1>3. c.file_name = k /\ HasKey(c) /\ Sealed(c) BY <1>2 DEF Fits, FileOf, In, Settled
<1>4. Readable(k) \/ (overwrite /\ c.content # Absent /\ Now.pc = "create_save")
  BY <1>2, <1>3 DEF Fits, In, Settled
<1>5. CASE /\ c.content # Absent
           /\ store' = [store EXCEPT ![k] = Saved(c)]
           /\ disk' = [disk EXCEPT ![k] = c.content]
  <2>1. c.content \in Content BY <1>1, <1>5 DEF Context
  <2>2. KeepsReadable /\ Readable(k)' BY <1>5, <2>1, PutFile DEF DesktopInv
  <2>3. /\ Sealed(Saved(c)) /\ Saved(c).file_name = k /\ Saved(c).enc_key = keystore'[k]
    BY <1>1, <1>3, SavedFacts DEF HasKey
  <2>4. Settled(Now) \/ (Now.pc # "move" /\ Now.key = k) BY DEF In
  <2> HIDE DEF c
  <2>5. QED BY <1>5, <2>2, <2>3, <2>4, PutFit
<1>6. CASE ~(overwrite /\ c.content # Absent) /\ UNCHANGED <<store, disk>>
  BY <1>6, SameFit, SameFiles
<1>7. QED BY <1>3, <1>4, <1>5, <1>6, WriteOutcome DEF DesktopInv

LEMMA SaveInv ==
    ASSUME DesktopClient, DesktopInv, NEW t \in Threads, NEW k \in Keys,
           NEW overwrite \in BOOLEAN, NEW backup \in BOOLEAN,
           Save(t, k, overwrite, backup) \/ SaveAll(t, k, backup)
    PROVE  AllFit' /\ GoesOn'
<1>1. Now = Idle BY BeginIdle DEF Save, SaveAll
<1>2. Now' = Idle BY <1>1, SameCall DEF Save, SaveAll
<1>3. Open(k) /\ UNCHANGED keystore /\ \E o \in BOOLEAN : Write(k, o, backup)
  BY DEF Save, SaveAll
<1>4. AllFit' BY <1>1, <1>2, <1>3, IdleSettled, WriteFit
<1>5. QED BY <1>2, <1>4, IdleGoesOn

\* The first save of a database that was created just now is not refused.
LEMMA CreateSaveFacts ==
    ASSUME DesktopClient, DesktopInv, NEW t \in Threads, CreateSave(t)
    PROVE  LET k == Now.key IN
           /\ k \in Keys /\ Open(k) /\ store[k].content # Absent /\ In({"create_save"}, k)
           /\ Write(k, TRUE, FALSE) /\ Now' = Idle
<1>1. Now = call[t] /\ Now.pc = "create_save" /\ Now.key \in Keys
  BY AtNow DEF CreateSave, DesktopInv, CallOK
<1>2. Open(Now.key) /\ ~Locked(Now.key) BY <1>1 DEF DesktopInv, GoesOn, OpeningGoesOn
<1>3. Sealed(store[Now.key]) BY <1>1, <1>2 DEF DesktopInv, AllFit, Fits
<1>4. store[Now.key].content # Absent BY <1>2, <1>3 DEF Locked, Sealed
<1>5. Now' = Idle BY Goes DEF CreateSave, DesktopInv
<1>6. QED BY <1>1, <1>2, <1>4, <1>5 DEF CreateSave, In

LEMMA CreateSaveInv ==
    ASSUME DesktopClient, DesktopInv, NEW t \in Threads, CreateSave(t)
    PROVE  AllFit' /\ GoesOn'
<1>1. UNCHANGED keystore BY DEF CreateSave
<1>2. AllFit' BY <1>1, CreateSaveFacts, WriteFit, IdleSettled
<1>3. QED BY <1>2, CreateSaveFacts, IdleGoesOn

\* An export of an unlocked database puts its content in the file.
LEMMA ExportFacts ==
    ASSUME DesktopClient, DesktopInv, NEW t \in Threads, NEW k \in Keys, NEW f \in Keys,
           SaveToDbFile(t, k, f)
    PROVE  /\ Open(k) /\ store[k].content \in Content
           /\ disk' = [disk EXCEPT ![f] = store[k].content]
           /\ Now = Idle /\ Now' = Idle
<1>1. Now = Idle /\ Open(k) /\ ~store[k].locked
  BY BeginIdle DEF SaveToDbFile, DesktopClient, Locked
<1>2. Now' = Idle BY <1>1, SameCall DEF SaveToDbFile
<1>3. /\ store[k] \in Context /\ Sealed(store[k]) /\ store[k].file_name = k
      /\ keystore[k] = store[k].enc_key
  BY <1>1, IdleSettled, FitFacts
<1>4. store[k].content \in Content BY <1>1, <1>3 DEF Sealed, Context
<1>5. Writable(store[k]) BY <1>1, <1>3 DEF Writable, HasKey, Sealed
<1>6. QED BY <1>1, <1>2, <1>4, <1>5 DEF SaveToDbFile, DesktopClient

LEMMA ExportInv ==
    ASSUME DesktopClient, DesktopInv, NEW t \in Threads, NEW k \in Keys, NEW f \in Keys,
           SaveToDbFile(t, k, f)
    PROVE  AllFit' /\ GoesOn'
<1>1. KeepsReadable BY ExportFacts, PutFile DEF DesktopInv
<1>2. AllFit' BY <1>1, ExportFacts, IdleSettled, SameFit DEF SaveToDbFile
<1>3. QED BY <1>2, ExportFacts, IdleGoesOn

-----------------------------------------------------------------------------
(* Saving under another name *)

LEMMA SaveAsInv ==
    ASSUME DesktopClient, DesktopInv, NEW t \in Threads, NEW k \in Keys, NEW n \in Keys,
           SaveAs(t, k, n)
    PROVE  AllFit' /\ GoesOn'
<1>1. Now = Idle /\ ~Locked(k) BY BeginIdle DEF SaveAs, DesktopClient
<1>2. n # k /\ ~Open(n) BY DEF SaveAs, DesktopClient, Target
<1>3. Now' = [Idle EXCEPT !.pc = "save_as_write", !.key = k, !.other = n]
  BY NextCall, TypeOKParts DEF SaveAs, CopyKey, DesktopInv, Typed
<1>4. Now'.pc = "save_as_write" /\ Now'.key = k /\ Now'.other = n BY <1>3 DEF Idle
<1>5. KeepsReadable /\ UNCHANGED store BY SameFiles DEF SaveAs, CopyKey
<1>6. /\ \A j \in Keys \ {n} : keystore'[j] = keystore[j]
      /\ keystore[k] # Absent => keystore'[n] = keystore[k]
  BY DEF SaveAs, CopyKey, DesktopInv, TypeOK
<1>7. \A j \in Keys \ {n} : Open(j)' => Fits(j)'
  BY <1>1, <1>4, <1>5, <1>6, IdleSettled, OthersFit DEF DesktopInv, Settled, KeepsReadable
<1>8. ~(store'[n] # Absent) BY <1>2, <1>5 DEF Open
<1>9. AllFit'
  <2>1. \A j \in Keys : Open(j)' => Fits(j)' BY <1>7, <1>8 DEF Open
  <2>2. QED BY <2>1 DEF AllFit
<1>10. Open(k) => keystore'[n] = keystore'[k]
  <2>1. Open(k) => store[k] \in Context /\ keystore[k] = store[k].enc_key
    BY <1>1, IdleSettled, FitFacts
  <2>2. Open(k) => keystore[k] # Absent BY <2>1, AbsentAssumption DEF Context
  <2>3. QED BY <1>2, <1>6, <2>2
<1>11. GoesOn'
  BY <1>1, <1>2, <1>4, <1>5, <1>10
  DEF GoesOn, OpeningGoesOn, MergeGoesOn, SaveAsGoesOn, Open, Locked
<1>12. QED BY <1>9, <1>11

\* The database is still there, so it is written to the new file.
LEMMA SaveAsWriteOutcome ==
    ASSUME DesktopClient, DesktopInv, NEW t \in Threads, SaveAsWrite(t), Open(Now.key)
    PROVE  LET k == Now.key
               n == Now.other
               c == [store[k] EXCEPT !.file_name = n]
           IN /\ Now = call[t] /\ Now.pc = "save_as_write" /\ Now \in Call
              /\ k \in Keys /\ n \in Keys /\ k # n /\ ~Open(n)
              /\ store[k] \in Context /\ Sealed(store[k]) /\ ~store[k].locked
              /\ store[k].file_name = k
              /\ c \in Context /\ Sealed(c) /\ c.file_name = n /\ c.enc_key = keystore[n]
              /\ c.content = store[k].content /\ c.content \in Content
              /\ store' = [store EXCEPT ![k] = Saved(c)]
              /\ disk' = [disk EXCEPT ![n] = c.content]
              /\ Now' = [Now EXCEPT !.pc = "move"]
<1> DEFINE k == Now.key
           n == Now.other
           c == [store[k] EXCEPT !.file_name = n]
<1>1. /\ Now = call[t] /\ Now.pc = "save_as_write" /\ Now \in Call
      /\ k \in Keys /\ n \in Keys
  BY AtNow DEF SaveAsWrite, DesktopInv, CallOK
<1>2. k # n /\ ~Open(n) /\ ~Locked(k) /\ keystore[n] = keystore[k]
  BY <1>1 DEF DesktopInv, GoesOn, SaveAsGoesOn
<1>3. /\ store[k] \in Context /\ Sealed(store[k]) /\ store[k].file_name = k
      /\ keystore[k] = store[k].enc_key
  BY <1>1, FitFacts DEF Settled
<1>4. ~store[k].locked BY <1>2 DEF Locked
<1>5. store[k].content \in Content /\ store[k].content # Absent
  BY <1>3, <1>4 DEF Sealed, Context
<1>6. /\ c \in Context /\ Sealed(c) /\ c.file_name = n /\ c.enc_key = keystore[n]
      /\ c.content = store[k].content
  BY <1>1, <1>2, <1>3 DEF Sealed, Context
<1>7. Writable(c) BY <1>5, <1>6 DEF Writable, HasKey
<1>8. /\ store' = [store EXCEPT ![k] = Saved(c)]
      /\ disk' = [disk EXCEPT ![n] = c.content]
      /\ Move(t)
  BY <1>1, <1>7 DEF SaveAsWrite, DesktopClient
<1>9. Now' = [Now EXCEPT !.pc = "move"]
  BY <1>1, <1>8, NextCall, TypeOKParts DEF Move, DesktopInv, Typed
<1>10. QED BY <1>1, <1>2, <1>3, <1>4, <1>5, <1>6, <1>8, <1>9

LEMMA SaveAsWriteInv ==
    ASSUME DesktopClient, DesktopInv, NEW t \in Threads, SaveAsWrite(t)
    PROVE  AllFit' /\ GoesOn'
<1> DEFINE k == Now.key
           n == Now.other
           c == [store[k] EXCEPT !.file_name = n]
<1>1. Now = call[t] /\ Now.pc = "save_as_write" /\ Now \in Call
  BY AtNow DEF SaveAsWrite, DesktopInv
<1>2. CASE ~Open(k)
  <2>1. Now' = Idle /\ UNCHANGED <<store, disk, keystore>>
    BY <1>1, <1>2, Goes DEF SaveAsWrite, DesktopInv
  <2>2. QED BY <1>1, <2>1, IdleSettled, IdleGoesOn, SameFit, SameFiles DEF Settled
<1>3. CASE Open(k)
  <2>1. /\ k \in Keys /\ n \in Keys /\ k # n /\ ~Open(n)
        /\ ~store[k].locked /\ store[k] \in Context
        /\ c \in Context /\ Sealed(c) /\ c.file_name = n /\ c.enc_key = keystore[n]
        /\ c.content \in Content
        /\ store' = [store EXCEPT ![k] = Saved(c)]
        /\ disk' = [disk EXCEPT ![n] = c.content]
        /\ Now' = [Now EXCEPT !.pc = "move"] /\ UNCHANGED keystore
    BY <1>3, SaveAsWriteOutcome DEF SaveAsWrite
  <2>2. Now'.pc = "move" /\ Now'.key = k /\ Now'.other = n BY <1>1, <2>1 DEF Call
  <2>3. KeepsReadable /\ \A f \in Keys : f = n => Readable(f)'
    BY <2>1, PutFile DEF DesktopInv
  <2>4. Saved(c) \in Context /\ ~Saved(c).locked BY <2>1 DEF Saved, Context
  <2>5. Saved(c) # Absent BY <2>4, NoneAssumption
  <2>6. /\ Sealed(Saved(c)) /\ Saved(c).file_name = n /\ Saved(c).enc_key = keystore[n]
    BY <2>1, SavedFacts
  <2> HIDE DEF c
  <2>7. store'[k] = Saved(c) /\ \A j \in Keys \ {k} : store'[j] = store[j]
    BY <2>1 DEF DesktopInv, TypeOK
  <2>8. \A j \in Keys \ {k} : Open(j)' => Fits(j)'
    BY <1>1, <2>1, <2>2, <2>3, <2>7, OthersFit DEF DesktopInv, KeepsReadable
  <2>9. \A j \in {k} : Open(j)' => Fits(j)'
    BY <2>1, <2>2, <2>3, <2>6, <2>7 DEF Fits, HasKey, FileOf, In
  <2>10. AllFit'
    <3>1. \A j \in Keys : Open(j)' => Fits(j)' BY <2>8, <2>9
    <3>2. QED BY <3>1 DEF AllFit
  <2>11. GoesOn'
    BY <2>1, <2>2, <2>4, <2>5, <2>7
    DEF GoesOn, OpeningGoesOn, MergeGoesOn, SaveAsGoesOn, Open, Locked
  <2>12. QED BY <2>10, <2>11
<1>4. QED BY <1>2, <1>3

LEMMA MoveContextInv ==
    ASSUME DesktopClient, DesktopInv, NEW t \in Threads, MoveContext(t)
    PROVE  /\ AllFit' /\ GoesOn'
           /\ LET k == Now.key
                  n == Now.other
              IN /\ k \in Keys /\ n \in Keys /\ k # n /\ Open(k) /\ ~Open(n)
                 /\ store[k].file_name = n
                 /\ store'[k] = Absent /\ store'[n] = store[k]
                 /\ \A j \in Keys \ {k, n} : store'[j] = store[j]
                 /\ Now' = Idle
<1> DEFINE k == Now.key
           n == Now.other
<1>1. Now = call[t] /\ Now.pc = "move" /\ k \in Keys /\ n \in Keys
  BY AtNow DEF MoveContext, DesktopInv, CallOK
<1>2. k # n /\ ~Open(n) /\ Open(k) BY <1>1 DEF DesktopInv, GoesOn, SaveAsGoesOn
<1>3. Fits(k) BY <1>1, <1>2 DEF DesktopInv, AllFit
<1>4. /\ Sealed(store[k]) /\ store[k].file_name = n /\ keystore[n] = store[k].enc_key
      /\ Readable(n)
  BY <1>1, <1>3 DEF Fits, FileOf, In, HasKey
<1>5. /\ store'[k] = Absent /\ store'[n] = store[k]
      /\ \A j \in Keys \ {k, n} : store'[j] = store[j]
      /\ \A j \in Keys \ {k} : keystore'[j] = keystore[j]
  BY <1>1, <1>2 DEF MoveContext, DesktopInv, TypeOK
<1>6. Now' = Idle BY Goes DEF MoveContext, DesktopInv
<1>7. KeepsReadable /\ UNCHANGED disk BY SameFiles DEF MoveContext
<1>8. \A j \in Keys \ {k, n} : Open(j)' => Fits(j)'
  BY <1>1, <1>5, <1>6, <1>7, OthersFit, IdleSettled DEF DesktopInv, Settled, KeepsReadable
<1>9. ASSUME NEW j \in Keys, j = n
      PROVE  Fits(j)'
  <2>1. Sealed(store'[j]) /\ store'[j].file_name = j /\ keystore'[j] = store'[j].enc_key
    BY <1>2, <1>4, <1>5, <1>9
  <2>2. Readable(j)' BY <1>4, <1>7, <1>9 DEF Readable
  <2>3. Now'.pc = "idle" BY <1>6, IdleSettled
  <2>4. QED BY <2>1, <2>2, <2>3 DEF Fits, HasKey, FileOf, In
<1>10. \A j \in {k} : ~Open(j)' BY <1>5 DEF Open
<1>11. AllFit'
  <2>1. \A j \in Keys : Open(j)' => Fits(j)' BY <1>1, <1>8, <1>9, <1>10
  <2>2. QED BY <2>1 DEF AllFit
<1>12. QED BY <1>1, <1>2, <1>4, <1>5, <1>6, <1>11, IdleGoesOn

-----------------------------------------------------------------------------
(* Closing *)

LEMMA CloseInv ==
    ASSUME DesktopClient, DesktopInv, NEW t \in Threads, NEW k \in Keys,
           Close(t, k) \/ CloseAll(t, k)
    PROVE  AllFit' /\ GoesOn'
<1>1. Now = Idle BY BeginIdle DEF Close, CloseAll
<1>2. CASE Close(t, k)
  <2>1. Now' = Idle BY <1>1, <1>2, SameCall DEF Close
  <2>2. AllFit' BY <1>1, <1>2, <2>1, IdleSettled, RemoveFit DEF Close
  <2>3. QED BY <2>1, <2>2, IdleGoesOn
<1>3. CASE CloseAll(t, k)
  <2>1. Now' = [Idle EXCEPT !.pc = "close_all", !.rest = {j \in Keys : Open(j)}]
    BY <1>3, NextCall, TypeOKParts DEF CloseAll, DesktopInv, Typed
  <2>2. Now'.pc = "close_all" BY <2>1 DEF Idle
  <2>3. AllFit' BY <1>1, <1>3, <2>2, IdleSettled, SameFit, SameFiles DEF CloseAll, Settled
  <2>4. QED BY <2>2, <2>3, PlainGoesOn
<1>4. QED BY <1>2, <1>3

\* close_all_databases closes the next of its databases, merge_databases its source.
LEMMA CloseNextFacts ==
    ASSUME DesktopClient, DesktopInv, NEW t \in Threads, CloseNext(t) \/ MergeClose(t)
    PROVE  \E k \in Keys : /\ Remove(k) /\ UNCHANGED disk
                           /\ Now.pc \in {"close_all", "merge_close"}
                           /\ Now'.pc \in {"idle", "close_all"}
<1>1. CASE CloseNext(t)
  <2>1. Now = call[t] /\ Now.pc = "close_all" /\ Now \in Call
    BY <1>1, AtNow DEF CloseNext, DesktopInv
  <2>2. PICK k \in Now.rest :
           /\ Remove(k)
           /\ call' = [call EXCEPT ![t] = IF Now.rest = {k} THEN Idle
                                          ELSE [Now EXCEPT !.rest = @ \ {k}]]
    BY <1>1, <2>1 DEF CloseNext
  <2>3. Now' = IF Now.rest = {k} THEN Idle ELSE [Now EXCEPT !.rest = @ \ {k}]
    BY <2>2, NextCall, TypeOKParts DEF DesktopInv, Typed
  <2>4. Now'.pc \in {"idle", "close_all"} BY <2>1, <2>3, IdleSettled DEF Call
  <2>5. k \in Keys BY <2>1 DEF Call
  <2>6. QED BY <1>1, <2>1, <2>2, <2>4, <2>5 DEF CloseNext
<1>2. CASE MergeClose(t)
  <2>1. Now = call[t] /\ Now.pc = "merge_close" /\ Now.key \in Keys
    BY <1>2, AtNow DEF MergeClose, DesktopInv, CallOK
  <2>2. Now'.pc = "idle" BY <1>2, Goes, IdleSettled DEF MergeClose, DesktopInv
  <2>3. QED BY <1>2, <2>1, <2>2 DEF MergeClose
<1>3. QED BY <1>1, <1>2

LEMMA CloseNextInv ==
    ASSUME DesktopClient, DesktopInv, NEW t \in Threads, CloseNext(t) \/ MergeClose(t)
    PROVE  AllFit' /\ GoesOn'
<1>1. PICK k \in Keys : /\ Remove(k) /\ UNCHANGED disk
                        /\ Now.pc \in {"close_all", "merge_close"}
                        /\ Now'.pc \in {"idle", "close_all"}
  BY CloseNextFacts
<1>2. AllFit' BY <1>1, RemoveFit DEF Settled
<1>3. QED BY <1>1, <1>2, PlainGoesOn

-----------------------------------------------------------------------------
(* Locking *)

\* Locking and unlocking move the content of one context between the clear and the
\* sealed form, and change nothing else.
Moved(c, d) ==
    /\ Sealed(d) /\ Held(d) = Held(c) /\ d.checksum = c.checksum
    /\ d.file_name = c.file_name /\ d.enc_key = c.enc_key

LEMMA LockOutcome ==
    ASSUME DesktopClient, DesktopInv, NEW t \in Threads, NEW k \in Keys, Lock(t, k)
    PROVE  /\ Now = Idle /\ Open(k)
           /\ \E d : d # Absent /\ store' = [store EXCEPT ![k] = d] /\ Moved(store[k], d)
<1> DEFINE c == store[k]
           b == [data |-> c.content, enc_key |-> keystore[k]]
           d == [c EXCEPT !.content = Absent, !.locked = TRUE, !.blob = b]
<1>1. Now = Idle /\ Open(k) /\ ~c.locked BY BeginIdle DEF Lock
<1>2. c \in Context /\ Sealed(c) /\ keystore[k] = c.enc_key
  BY <1>1, IdleSettled, FitFacts
<1>3. c.content # Absent /\ c.content \in Content BY <1>1, <1>2 DEF Sealed, Context
<1>4. keystore[k] \in EncKeys /\ keystore[k] # Absent
  BY <1>2, AbsentAssumption DEF Context
<1>5. b \in Blob BY <1>3, <1>4 DEF Blob
<1>6. b # Absent BY <1>5, NoneAssumption
<1>7. d \in Context BY <1>2, <1>5 DEF Context
<1>8. d # Absent BY <1>7, NoneAssumption
<1>9. store' = [store EXCEPT ![k] = d] BY <1>3, <1>4 DEF Lock
<1>10. /\ d.content = Absent /\ d.locked = TRUE /\ d.blob = b
       /\ d.checksum = c.checksum /\ d.file_name = c.file_name /\ d.enc_key = c.enc_key
  BY <1>2 DEF Context
<1>11. b.enc_key = c.enc_key /\ b.data = c.content BY <1>2
<1> HIDE DEF d, b
<1>12. Moved(c, d) BY <1>3, <1>6, <1>10, <1>11 DEF Moved, Sealed, Held
<1>13. QED BY <1>1, <1>8, <1>9, <1>12

LEMMA RestoreOutcome ==
    ASSUME DesktopInv, Settled(Now), NEW k \in Keys, Open(k), RestoreLockedContent(k)
    PROVE  \E d : d # Absent /\ store' = [store EXCEPT ![k] = d] /\ Moved(store[k], d)
<1> DEFINE c == store[k]
<1>1. c \in Context /\ Sealed(c) /\ keystore[k] = c.enc_key BY FitFacts
<1>2. CASE c.blob = Absent
  <2> DEFINE d == [c EXCEPT !.locked = FALSE]
  <2>1. d \in Context BY <1>1 DEF Context
  <2>2. d # Absent BY <2>1, NoneAssumption
  <2>3. Moved(c, d) BY <1>1, <1>2 DEF Moved, Sealed, Held, Context
  <2>4. store' = [store EXCEPT ![k] = d] BY <1>2 DEF RestoreLockedContent
  <2>5. QED BY <2>2, <2>3, <2>4
<1>3. CASE c.blob # Absent
  <2> DEFINE d == [c EXCEPT !.content = c.blob.data, !.blob = Absent, !.locked = FALSE]
  <2>1. c.blob \in Blob /\ c.blob.enc_key = c.enc_key /\ c.content = Absent
    BY <1>1, <1>3 DEF Sealed, Context
  <2>2. c.blob.data # Absent BY <2>1, ContentPresent DEF Blob
  <2>3. d \in Context BY <1>1, <2>1 DEF Context, Blob
  <2>4. d # Absent BY <2>3, NoneAssumption
  <2>5. Moved(c, d) BY <1>1, <1>3, <2>1, <2>2 DEF Moved, Sealed, Held, Context
  <2>6. store' = [store EXCEPT ![k] = d] BY <1>1, <1>3, <2>1 DEF RestoreLockedContent
  <2>7. QED BY <2>4, <2>5, <2>6
<1>4. QED BY <1>2, <1>3

\* The context that was locked or unlocked stays in its place.
LEMMA MovedFit ==
    ASSUME DesktopInv, Settled(Now), Settled(Now'), NEW k \in Keys, Open(k), NEW d,
           store' = [store EXCEPT ![k] = d], Moved(store[k], d), UNCHANGED <<keystore, disk>>
    PROVE  AllFit'
<1>1. store[k].file_name = k /\ keystore[k] = store[k].enc_key /\ Readable(k)
  BY FitFacts
<1>2. QED BY <1>1, PutFit, SameFiles DEF Moved, Readable

LEMMA UnlockOutcome ==
    ASSUME DesktopClient, DesktopInv, NEW t \in Threads, NEW k \in Keys,
           UnlockRestore(t) \/ UnlockBiometric(t, k)
    PROVE  /\ Settled(Now) /\ Now' = Idle /\ UNCHANGED <<keystore, disk>>
           /\ \/ UNCHANGED store
              \/ \E j \in Keys : \E d : /\ Open(j) /\ d # Absent
                                        /\ store' = [store EXCEPT ![j] = d] /\ Moved(store[j], d)
<1>1. CASE UnlockRestore(t)
  <2>1. Now = call[t] /\ Now.pc = "restore" /\ Now.key \in Keys
    BY <1>1, AtNow DEF UnlockRestore, DesktopInv, CallOK
  <2>2. Settled(Now) BY <2>1 DEF Settled
  <2>3. Now' = Idle BY <1>1, Goes DEF UnlockRestore, DesktopInv
  <2>4. QED BY <1>1, <2>1, <2>2, <2>3, RestoreOutcome DEF UnlockRestore
<1>2. CASE UnlockBiometric(t, k)
  <2>1. Now = Idle BY <1>2, BeginIdle DEF UnlockBiometric
  <2>2. Now' = Idle BY <1>2, <2>1, SameCall DEF UnlockBiometric
  <2>3. QED BY <1>2, <2>1, <2>2, IdleSettled, RestoreOutcome DEF UnlockBiometric
<1>3. QED BY <1>1, <1>2

LEMMA LockInv ==
    ASSUME DesktopClient, DesktopInv, NEW t \in Threads, NEW k \in Keys,
           Lock(t, k) \/ UnlockCompare(t, k) \/ UnlockRestore(t) \/ UnlockBiometric(t, k)
    PROVE  AllFit' /\ GoesOn'
<1>1. CASE Lock(t, k)
  <2>1. Now = Idle /\ Now' = Idle BY <1>1, LockOutcome, SameCall DEF Lock
  <2>2. AllFit' BY <1>1, <2>1, IdleSettled, LockOutcome, MovedFit DEF Lock
  <2>3. QED BY <2>1, <2>2, IdleGoesOn
<1>2. CASE UnlockCompare(t, k)
  <2>1. Now = Idle BY <1>2, BeginIdle DEF UnlockCompare
  <2>2. Now'.pc = "restore" BY <1>2, Goes DEF UnlockCompare, DesktopInv, Sections
  <2>3. AllFit' BY <1>2, <2>1, <2>2, IdleSettled, SameFit, SameFiles DEF UnlockCompare, Settled
  <2>4. QED BY <2>2, <2>3, PlainGoesOn
<1>3. CASE UnlockRestore(t) \/ UnlockBiometric(t, k)
  <2>1. /\ Settled(Now) /\ Now' = Idle /\ UNCHANGED <<keystore, disk>>
        /\ \/ UNCHANGED store
           \/ \E j \in Keys : \E d : /\ Open(j) /\ d # Absent
                                     /\ store' = [store EXCEPT ![j] = d] /\ Moved(store[j], d)
    BY <1>3, UnlockOutcome
  <2>2. AllFit' BY <2>1, IdleSettled, SameFit, SameFiles, MovedFit
  <2>3. QED BY <2>1, <2>2, IdleGoesOn
<1>4. QED BY <1>1, <1>2, <1>3

-----------------------------------------------------------------------------
(* Taking in what another program wrote, and merging two databases *)

LEMMA ReloadOutcome ==
    ASSUME DesktopClient, DesktopInv, NEW t \in Threads, NEW k \in Keys, Reload(t, k)
    PROVE  LET d == [store[k] EXCEPT !.content = disk[k], !.checksum = disk[k]] IN
           /\ Now = Idle /\ Now' = Idle /\ Open(k) /\ Readable(k)
           /\ store' = [store EXCEPT ![k] = d] /\ UNCHANGED <<keystore, disk>>
           /\ d \in Context /\ Sealed(d) /\ d.file_name = k /\ d.enc_key = keystore[k]
           /\ Held(d) = disk[k] /\ d.checksum = disk[k]
<1>1. Now = Idle /\ Open(k) /\ Readable(k) /\ ~store[k].locked
  BY BeginIdle DEF Reload, Reloadable, DesktopClient, Locked
<1>2. Now' = Idle BY <1>1, SameCall DEF Reload
<1>3. /\ store[k] \in Context /\ Sealed(store[k]) /\ store[k].file_name = k
      /\ keystore[k] = store[k].enc_key
  BY <1>1, IdleSettled, FitFacts
<1>4. disk[k] \in Content /\ disk[k] # Absent
  BY <1>1 DEF Readable, DesktopInv, TypeOK
<1>5. QED BY <1>1, <1>2, <1>3, <1>4 DEF Reload, Sealed, Held, Context

LEMMA MergeDiskOutcome ==
    ASSUME DesktopClient, DesktopInv, NEW t \in Threads, NEW k \in Keys, MergeDisk(t, k)
    PROVE  /\ Now = Idle /\ Now' = Idle /\ Open(k) /\ Readable(k)
           /\ UNCHANGED <<keystore, disk>>
           /\ \E d \in Context :
                 /\ store' = [store EXCEPT ![k] = d]
                 /\ Sealed(d) /\ d.file_name = k /\ d.enc_key = keystore[k]
                 /\ Held(d) = Held(store[k]) \cup disk[k] /\ d.checksum = disk[k]
<1> DEFINE b == Changed(store[k], disk[k])
           d == [b EXCEPT !.checksum = disk[k], !.save_pending = TRUE]
<1>1. Now = Idle /\ Open(k) /\ Readable(k) /\ ~store[k].locked
  BY BeginIdle DEF MergeDisk, Reloadable, DesktopClient, Locked
<1>2. Now' = Idle BY <1>1, SameCall DEF MergeDisk
<1>3. /\ store[k] \in Context /\ Sealed(store[k]) /\ store[k].file_name = k
      /\ keystore[k] = store[k].enc_key
  BY <1>1, IdleSettled, FitFacts
<1>4. disk[k] \in Content BY <1>1 DEF Readable, DesktopInv, TypeOK
<1>5. store[k].content # Absent BY <1>1, <1>3 DEF Sealed
<1>6. /\ b \in Context /\ Sealed(b) /\ b.content = store[k].content \cup disk[k]
      /\ b.content # Absent /\ b.file_name = k /\ b.enc_key = keystore[k]
  BY <1>3, <1>4, <1>5, ChangedSealed
<1>7. store' = [store EXCEPT ![k] = d]
  BY <1>5 DEF MergeDisk, DesktopClient
<1> HIDE DEF b
<1>8. /\ d \in Context /\ Sealed(d) /\ d.file_name = k /\ d.enc_key = keystore[k]
      /\ Held(d) = store[k].content \cup disk[k] /\ d.checksum = disk[k]
  BY <1>4, <1>6 DEF Sealed, Held, Context
<1>9. Held(store[k]) = store[k].content BY <1>5 DEF Held
<1> HIDE DEF d
<1>10. QED BY <1>1, <1>2, <1>7, <1>8, <1>9 DEF MergeDisk

LEMMA TakeInInv ==
    ASSUME DesktopClient, DesktopInv, NEW t \in Threads, NEW k \in Keys,
           Reload(t, k) \/ MergeDisk(t, k)
    PROVE  AllFit' /\ GoesOn'
<1>1. PICK d :
         /\ Now = Idle /\ Now' = Idle /\ Readable(k) /\ UNCHANGED <<keystore, disk>>
         /\ store' = [store EXCEPT ![k] = d]
         /\ Sealed(d) /\ d.file_name = k /\ d.enc_key = keystore[k]
  BY ReloadOutcome, MergeDiskOutcome
<1>2. AllFit' BY <1>1, IdleSettled, PutFit, SameFiles DEF Readable
<1>3. QED BY <1>1, <1>2, IdleGoesOn

LEMMA MergeInv ==
    ASSUME DesktopClient, DesktopInv, NEW t \in Threads, NEW k \in Keys, NEW s \in Keys,
           Merge(t, k, s)
    PROVE  AllFit' /\ GoesOn'
<1>1. Now = Idle /\ k # s /\ ~Locked(k) /\ ~Locked(s)
  BY BeginIdle DEF Merge, DesktopClient
<1>2. CASE ReadFile(t, s, k) BY <1>1, <1>2, ReadInv
<1>3. CASE /\ call' = [call EXCEPT ![t] = [Idle EXCEPT !.pc = "merge", !.key = s, !.other = k]]
           /\ UNCHANGED <<store, keystore, disk, used, poisoned>>
  <2>1. Now' = [Idle EXCEPT !.pc = "merge", !.key = s, !.other = k]
    BY <1>3, NextCall, TypeOKParts DEF DesktopInv, Typed
  <2>2. Now'.pc = "merge" /\ Now'.key = s /\ Now'.other = k /\ Now'.enc_key = Absent
    BY <2>1 DEF Idle
  <2>3. AllFit' BY <1>1, <1>3, <2>2, IdleSettled, SameFit, SameFiles DEF Settled
  <2>4. GoesOn'
    BY <1>1, <1>3, <2>2
    DEF GoesOn, OpeningGoesOn, MergeGoesOn, SaveAsGoesOn, Locked, Open
  <2>5. QED BY <2>3, <2>4
<1>4. QED BY <1>2, <1>3 DEF Merge

\* The merge proper finds both databases in the clear, or one of them closed.
LEMMA MergeApplyOutcome ==
    ASSUME DesktopClient, DesktopInv, NEW t \in Threads, MergeApply(t)
    PROVE  LET s == Now.key
               k == Now.other
               d == Changed(store[k], store[s].content)
           IN /\ Now.pc = "merge" /\ UNCHANGED <<keystore, disk>>
              /\ \/ Now' = Idle /\ UNCHANGED store
                 \/ /\ k \in Keys /\ s \in Keys /\ k # s /\ Open(k) /\ Open(s)
                    /\ Now' = AfterMerge(Now)
                    /\ store' = [store EXCEPT ![k] = d]
                    /\ d \in Context /\ Sealed(d) /\ d.file_name = k
                    /\ d.enc_key = keystore[k] /\ Readable(k)
                    /\ Held(store[k]) \subseteq Held(d) /\ Held(d) \in Content
                    /\ d.checksum = store[k].checksum
<1> DEFINE s == Now.key
           k == Now.other
           d == Changed(store[k], store[s].content)
<1>1. Now = call[t] /\ Now.pc = "merge" /\ s \in Keys /\ k \in Keys
  BY AtNow DEF MergeApply, DesktopInv, CallOK
<1>2. s # k /\ ~Locked(s) /\ ~Locked(k) BY <1>1 DEF DesktopInv, GoesOn, MergeGoesOn
<1>3. CASE ~(Open(s) /\ Open(k))
  BY <1>1, <1>3, Goes DEF MergeApply, DesktopInv
<1>4. CASE Open(s) /\ Open(k)
  <2>1. /\ store[k] \in Context /\ Sealed(store[k]) /\ store[k].file_name = k
        /\ keystore[k] = store[k].enc_key /\ Readable(k)
        /\ store[s] \in Context /\ Sealed(store[s])
    BY <1>1, <1>4, FitFacts DEF Settled
  <2>2. /\ store[k].content # Absent /\ store[s].content # Absent
        /\ store[s].content \in Content /\ store[k].content \in Content
    BY <1>2, <1>4, <2>1 DEF Sealed, Locked, Context
  <2>3. /\ store' = [store EXCEPT ![k] = d]
        /\ call' = [call EXCEPT ![t] = AfterMerge(call[t])]
    BY <1>1, <1>4, <2>2 DEF MergeApply, DesktopClient
  <2>4. Now' = AfterMerge(Now)
    BY <1>1, <2>3, NextCall, TypeOKParts DEF DesktopInv, Typed
  <2>5. /\ d \in Context /\ Sealed(d) /\ d.file_name = k /\ d.enc_key = keystore[k]
        /\ d.content = store[k].content \cup store[s].content /\ d.content # Absent
        /\ d.checksum = store[k].checksum
    BY <2>1, <2>2, ChangedSealed
  <2>6. Held(d) = d.content /\ Held(store[k]) = store[k].content
    BY <2>2, <2>5 DEF Held
  <2>7. Held(d) \in Content BY <2>2, <2>5, <2>6 DEF Content
  <2>8. UNCHANGED <<keystore, disk>> BY DEF MergeApply
  <2>9. Held(store[k]) \subseteq Held(d) BY <2>5, <2>6
  <2> HIDE DEF d
  <2>10. QED
    BY <1>1, <1>2, <1>4, <2>1, <2>3, <2>4, <2>5, <2>7, <2>8, <2>9 DEF d
<1>5. QED BY <1>3, <1>4

LEMMA MergeApplyInv ==
    ASSUME DesktopClient, DesktopInv, NEW t \in Threads, MergeApply(t)
    PROVE  AllFit' /\ GoesOn'
<1> DEFINE s == Now.key
           k == Now.other
           d == Changed(store[k], store[s].content)
<1>1. Now.pc = "merge" /\ Settled(Now) /\ UNCHANGED <<keystore, disk>>
  BY MergeApplyOutcome DEF Settled
<1>2. CASE Now' = Idle /\ UNCHANGED store
  BY <1>1, <1>2, IdleSettled, IdleGoesOn, SameFit, SameFiles
<1>3. CASE /\ k \in Keys /\ s \in Keys /\ k # s /\ Open(k) /\ Open(s)
           /\ Now' = AfterMerge(Now)
           /\ store' = [store EXCEPT ![k] = d]
           /\ Sealed(d) /\ d.file_name = k /\ d.enc_key = keystore[k] /\ Readable(k)
  <2> HIDE DEF d
  <2>1. Now \in Call BY NowIsCall DEF DesktopInv
  <2>2. CASE Now.enc_key = Absent
    <3>1. Now' = Idle BY <1>3, <2>2 DEF AfterMerge
    <3>2. AllFit' BY <1>1, <1>3, <3>1, IdleSettled, PutFit, SameFiles DEF Readable
    <3>3. QED BY <3>1, <3>2, IdleGoesOn
  <2>3. CASE Now.enc_key # Absent
    <3>1. /\ Now'.pc = "merge_close" /\ Now'.key = s /\ Now'.enc_key = Now.enc_key
      BY <1>3, <2>1, <2>3 DEF AfterMerge, Call
    <3>2. AllFit' BY <1>1, <1>3, <3>1, PutFit, SameFiles DEF Readable, Settled
    <3>3. store[s].enc_key = Now.enc_key
      BY <1>1, <2>3 DEF DesktopInv, GoesOn, MergeGoesOn
    <3>4. store'[s] = store[s] BY <1>3 DEF DesktopInv, TypeOK
    <3>5. GoesOn'
      BY <1>3, <3>1, <3>3, <3>4
      DEF GoesOn, OpeningGoesOn, MergeGoesOn, SaveAsGoesOn, Open
    <3>6. QED BY <3>2, <3>5
  <2>4. QED BY <2>2, <2>3
<1>4. QED BY <1>2, <1>3, MergeApplyOutcome

LEMMA ExternalInv ==
    ASSUME DesktopClient, DesktopInv, NEW f \in Keys, ExternalEdit(f)
    PROVE  AllFit' /\ GoesOn'
<1>1. PICK e \in Edits : disk' = [disk EXCEPT ![f] = @ \cup {e}] BY DEF ExternalEdit
<1>2. disk[f] \cup {e} \in Content
  BY DEF ExternalEdit, Readable, DesktopInv, TypeOK, Content
<1>3. KeepsReadable BY <1>1, <1>2, PutFile DEF DesktopInv
<1>4. Now' = Now /\ UNCHANGED <<store, keystore>> BY SameCall DEF ExternalEdit
<1>5. \A g \in Keys : Readable(g) => disk[g] \subseteq disk'[g]
  BY <1>1 DEF DesktopInv, TypeOK
<1>6. \A k \in Keys : Open(k) => store[k].file_name \in Keys
  BY OpenIsContext, TypeOKParts DEF DesktopInv, Typed, Context
<1>7. AllFit'
  BY <1>3, <1>4, <1>6 DEF DesktopInv, AllFit, Fits, FileOf, In, HasKey, Open, KeepsReadable
<1>8. Now.pc = "insert" => Now.key \in Keys BY NowIsCall DEF DesktopInv, CallOK
<1>9. OpeningGoesOn'
  BY <1>3, <1>4, <1>5, <1>8 DEF DesktopInv, GoesOn, OpeningGoesOn, KeepsReadable, Open, Locked
<1>10. MergeGoesOn' /\ SaveAsGoesOn'
  BY <1>4 DEF DesktopInv, GoesOn, MergeGoesOn, SaveAsGoesOn, Open, Locked
<1>11. QED BY <1>7, <1>9, <1>10 DEF GoesOn

-----------------------------------------------------------------------------
(* The invariant holds *)

\* Calls that this client does not make, and sections that it does not come to.
LEMMA NotMade ==
    ASSUME DesktopClient, DesktopInv, NEW t \in Threads, NEW k \in Keys
    PROVE  /\ ~\E n \in Keys : Rename(t, k, n)
           /\ ~\E locked \in BOOLEAN : SetLocked(t, k, locked)
           /\ ~RenameFile(t)
<1>1. ~RenameFile(t)
  BY AtNow DEF RenameFile, DesktopInv, GoesOn, SaveAsGoesOn
<1>2. QED BY <1>1, BeginIdle DEF DesktopClient, Rename, SetLocked

LEMMA DesktopStep ==
    ASSUME DesktopClient, DesktopInv, [Next]_vars
    PROVE  DesktopInv'
<1>1. SUFFICES AllFit' /\ GoesOn' BY TypeStep DEF DesktopInv
<1>2. ASSUME NEW t \in Threads, NEW k \in Keys, Start(t, k)
      PROVE  AllFit' /\ GoesOn'
  BY <1>2, NotMade, EditInv, LoadInv, CreateInv, SaveInv, ExportInv, SaveAsInv, CloseInv,
     LockInv, TakeInInv, MergeInv
  DEF Start
<1>3. ASSUME NEW t \in Threads, Continue(t)
      PROVE  AllFit' /\ GoesOn'
  <2>1. PICK k \in Keys : TRUE
    BY <1>3 DEF Continue, Mark, Insert, CreateInsert, CreateSave, SaveAsWrite, RenameFile,
                MoveContext, CloseNext, UnlockRestore, MergeApply, MergeClose, At, DesktopInv,
                TypeOK, CallOK, Call
  <2>2. QED
    BY <1>3, <2>1, NotMade, MarkInv, InsertInv, CreateInsertInv, CreateSaveInv, SaveAsWriteInv,
       MoveContextInv, CloseNextInv, LockInv, MergeApplyInv
    DEF Continue
<1>4. CASE \E f \in Keys : ExternalEdit(f) BY <1>4, ExternalInv
<1>5. CASE UNCHANGED vars
  <2>1. Now' = Now BY <1>5, SameCall DEF vars
  <2>2. UNCHANGED <<store, keystore, disk>> BY <1>5 DEF vars
  <2>3. AllFit' BY <2>1, <2>2 DEF DesktopInv, AllFit, Fits, FileOf, In, HasKey, Open, Readable
  <2>4. GoesOn'
    BY <2>1, <2>2
    DEF DesktopInv, GoesOn, OpeningGoesOn, MergeGoesOn, SaveAsGoesOn, Open, Locked, Readable
  <2>5. QED BY <2>3, <2>4
<1>6. QED BY <1>2, <1>3, <1>4, <1>5 DEF Next

LEMMA DesktopInit == DesktopClient /\ Init => DesktopInv
<1> SUFFICES ASSUME DesktopClient, Init PROVE DesktopInv OBVIOUS
<1>1. PICK t \in Threads : TRUE BY DEF DesktopClient
<1>2. Now = Idle BY <1>1, OnlyThread DEF Init
<1>3. AllFit BY DEF Init, AllFit, Open
<1>4. QED BY <1>2, <1>3, InitType, IdleGoesOn DEF DesktopInv

LEMMA DesktopAlways ==
    ASSUME DesktopClient
    PROVE  Spec => []DesktopInv
<1>1. Init => DesktopInv BY DesktopInit
<1>2. DesktopInv /\ [Next]_vars => DesktopInv' BY DesktopStep
<1>3. QED BY <1>1, <1>2, PTL DEF Spec

\* Locking and unlocking never lose the content of an open database, whichever calls
\* of the client come between them.
THEOREM ContentNeverLost ==
    ASSUME DesktopClient
    PROVE  Spec => []ContentHeld
<1>1. DesktopInv => ContentHeld
  BY DEF DesktopInv, AllFit, Fits, Sealed, ContentHeld
<1>2. QED BY <1>1, DesktopAlways, PTL

\* Between two calls the session key of every open database is where saving, locking
\* and unlocking look for it, also after new credentials, a save under another name, a
\* merge or a file that was read again.
THEOREM KeyNeverLost ==
    ASSUME DesktopClient
    PROVE  Spec => []KeyAvailable
<1>1. ASSUME DesktopInv, AtRest
      PROVE  \A k \in Keys : Open(k) => HasKey(store[k])
  <2>1. PICK t \in Threads : TRUE BY DEF DesktopClient
  <2>2. Now = Idle BY <1>1, <2>1, OnlyThread DEF AtRest
  <2>3. QED BY <1>1, <2>2, IdleSettled DEF DesktopInv, AllFit, Fits, In
<1>2. DesktopInv => KeyAvailable BY <1>1 DEF KeyAvailable
<1>3. QED BY <1>2, DesktopAlways, PTL

-----------------------------------------------------------------------------
(* The document of a file, before and after a step *)

\* The document saved to a file is what its only context holds.
LEMMA DocOf ==
    ASSUME NEW f \in Keys
    PROVE  /\ \A k \in Keys : Named(f) = {k} =>
                 Docs[f] = Held(store[k]) /\ Seen[f] = store[k].checksum
           /\ Named(f) = {} => Docs[f] = Absent /\ Seen[f] = Absent
<1>1. ASSUME NEW k \in Keys, Named(f) = {k}
      PROVE  Docs[f] = Held(store[k]) /\ Seen[f] = store[k].checksum
  BY <1>1 DEF Docs, Seen, OfContext, Checksum
<1>2. Named(f) = {} => Docs[f] = Absent /\ Seen[f] = Absent
  BY DEF Docs, Seen, OfContext
<1>3. QED BY <1>1, <1>2

LEMMA DocOfNext ==
    ASSUME NEW f \in Keys
    PROVE  /\ \A k \in Keys : Named(f)' = {k} =>
                 Docs'[f] = Held(store'[k]) /\ Seen'[f] = store'[k].checksum
           /\ Named(f)' = {} => Docs'[f] = Absent /\ Seen'[f] = Absent
<1>1. ASSUME NEW k \in Keys, Named(f)' = {k}
      PROVE  Docs'[f] = Held(store'[k]) /\ Seen'[f] = store'[k].checksum
  BY <1>1 DEF Docs, Seen, OfContext, Checksum
<1>2. Named(f)' = {} => Docs'[f] = Absent /\ Seen'[f] = Absent
  BY DEF Docs, Seen, OfContext
<1>3. QED BY <1>1, <1>2

LEMMA DocsAreFunctions ==
    /\ DOMAIN Docs = Keys /\ Docs = [f \in Keys |-> Docs[f]]
    /\ DOMAIN Seen = Keys /\ Seen = [f \in Keys |-> Seen[f]]
    /\ DOMAIN Docs' = Keys /\ Docs' = [f \in Keys |-> Docs'[f]]
    /\ DOMAIN Seen' = Keys /\ Seen' = [f \in Keys |-> Seen'[f]]
BY DEF Docs, Seen

\* Outside a save under another name every context has its db key as its file name.
OwnNames == \A k \in Keys : Open(k) => store[k].file_name = k

LEMMA OwnNamesHold ==
    /\ AllFit /\ Now.pc # "move" => OwnNames
    /\ AllFit' /\ Now'.pc # "move" => OwnNames'
BY DEF AllFit, Fits, FileOf, In, OwnNames

LEMMA OwnDoc ==
    ASSUME OwnNames, NEW f \in Keys
    PROVE  /\ Named(f) = IF Open(f) THEN {f} ELSE {}
           /\ Docs[f] = IF Open(f) THEN Held(store[f]) ELSE Absent
           /\ Seen[f] = IF Open(f) THEN store[f].checksum ELSE Absent
<1>1. Named(f) = IF Open(f) THEN {f} ELSE {} BY DEF OwnNames, Named
<1>2. QED BY <1>1, DocOf

LEMMA OwnDocNext ==
    ASSUME OwnNames', NEW f \in Keys
    PROVE  /\ Named(f)' = IF Open(f)' THEN {f} ELSE {}
           /\ Docs'[f] = IF Open(f)' THEN Held(store'[f]) ELSE Absent
           /\ Seen'[f] = IF Open(f)' THEN store'[f].checksum ELSE Absent
<1>1. Named(f)' = IF Open(f)' THEN {f} ELSE {} BY DEF OwnNames, Named
<1>2. QED BY <1>1, DocOfNext

\* What a context holds is a content.
LEMMA HeldIsContent ==
    ASSUME NEW c \in Context
    PROVE  Held(c) \in Content /\ Held(c) # Absent
<1>1. Held(c) \in Content BY DEF Held, Context, Blob, Content
<1>2. QED BY <1>1, ContentPresent

\* A database is open exactly when the editor has its document.
LEMMA OpenIsOpened ==
    ASSUME TypeOK, OwnNames, NEW k \in Keys
    PROVE  Open(k) <=> Docs[k] # Absent
BY OwnDoc, OpenIsContext, HeldIsContent, TypeOKParts DEF Typed

-----------------------------------------------------------------------------
(* What the steps do to the documents *)

LEMMA SameStoreDocs == UNCHANGED store => UNCHANGED <<Docs, Seen>>
BY DEF Docs, Seen, OfContext, Named, Open

\* Putting a context under its own name puts its document there.
LEMMA PutDocs ==
    ASSUME TypeOK, OwnNames, OwnNames', NEW k \in Keys, NEW d, d # Absent,
           store' = [store EXCEPT ![k] = d]
    PROVE  /\ Docs' = [Docs EXCEPT ![k] = Held(d)]
           /\ Seen' = [Seen EXCEPT ![k] = d.checksum]
<1>1. store'[k] = d /\ \A j \in Keys \ {k} : store'[j] = store[j] BY DEF TypeOK
<1>2. \A f \in Keys : /\ Docs'[f] = IF f = k THEN Held(d) ELSE Docs[f]
                      /\ Seen'[f] = IF f = k THEN d.checksum ELSE Seen[f]
  BY <1>1, OwnDoc, OwnDocNext DEF Open
<1>3. QED BY <1>2, DocsAreFunctions

\* A context whose content and checksum stay is the same document.
LEMMA SameDocs ==
    ASSUME TypeOK, OwnNames, OwnNames', NEW k \in Keys, Open(k), NEW d, d # Absent,
           Held(d) = Held(store[k]), d.checksum = store[k].checksum,
           store' = [store EXCEPT ![k] = d]
    PROVE  UNCHANGED <<Docs, Seen>>
<1>1. Docs[k] = Held(d) /\ Seen[k] = d.checksum BY OwnDoc
<1>2. Docs' = [Docs EXCEPT ![k] = Docs[k]] /\ Seen' = [Seen EXCEPT ![k] = Seen[k]]
  BY <1>1, PutDocs
<1>3. Docs' = Docs /\ Seen' = Seen BY <1>2, DocsAreFunctions
<1>4. QED BY <1>3

\* Taking a context out of the store takes its document out.
LEMMA RemoveDocs ==
    ASSUME TypeOK, OwnNames, OwnNames', NEW k \in Keys, Remove(k), UNCHANGED disk
    PROVE  [Editor!Next]_(Editor!vars)
<1>1. store'[k] = Absent /\ \A j \in Keys \ {k} : store'[j] = store[j]
  BY DEF TypeOK, Remove
<1>2. \A f \in Keys : /\ Docs'[f] = IF f = k THEN Absent ELSE Docs[f]
                      /\ Seen'[f] = IF f = k THEN Absent ELSE Seen[f]
  BY <1>1, OwnDoc, OwnDocNext DEF Open
<1>3. Docs' = [Docs EXCEPT ![k] = Absent] /\ Seen' = [Seen EXCEPT ![k] = Absent]
  BY <1>2, DocsAreFunctions
<1>4. CASE Open(k)
  <2>1. Docs[k] # Absent BY <1>4, OpenIsOpened
  <2>2. Editor!Close(k) BY <1>3, <2>1 DEF Editor!Close, Editor!Put, Editor!Opened
  <2>3. QED BY <2>2 DEF Editor!Next
<1>5. CASE ~Open(k)
  <2>1. UNCHANGED store BY <1>1, <1>5 DEF Open, Remove, TypeOK
  <2>2. QED BY <2>1, SameStoreDocs DEF Editor!vars
<1>6. QED BY <1>4, <1>5

LEMMA Stutter ==
    UNCHANGED <<store, disk>> => [Editor!Next]_(Editor!vars)
BY SameStoreDocs DEF Editor!vars

-----------------------------------------------------------------------------
(* The steps *)

\* What is known before and after every step.
Known == DesktopInv /\ DesktopInv'

\* A step from and to a section where every context has its own name
Plain == Now.pc # "move" /\ Now'.pc # "move"

LEMMA PlainNames ==
    ASSUME Known, Plain
    PROVE  TypeOK /\ OwnNames /\ OwnNames'
BY OwnNamesHold DEF Known, Plain, DesktopInv

\* A context is changed, and nothing else: the document takes the change in.
LEMMA ChangeStep ==
    ASSUME Known, Plain, NEW k \in Keys, Open(k), NEW d, d # Absent,
           store' = [store EXCEPT ![k] = d], UNCHANGED disk,
           Held(store[k]) \subseteq Held(d), Held(d) \in Content,
           d.checksum = store[k].checksum
    PROVE  [Editor!Next]_(Editor!vars)
<1>1. Docs[k] = Held(store[k]) /\ Docs[k] # Absent /\ Seen[k] = d.checksum
  BY PlainNames, OwnDoc, OpenIsOpened
<1>2. Docs' = [Docs EXCEPT ![k] = Held(d)] /\ Seen' = [Seen EXCEPT ![k] = Seen[k]]
  BY <1>1, PlainNames, PutDocs
<1>3. Seen' = Seen BY <1>2, DocsAreFunctions
<1>4. Editor!Content = Content BY DEF Editor!Content, Content
<1>5. Editor!Change(k)
  BY <1>1, <1>2, <1>3, <1>4 DEF Editor!Change, Editor!Opened
<1>6. QED BY <1>5 DEF Editor!Next

LEMMA EditStep ==
    ASSUME DesktopClient, Known, NEW t \in Threads, NEW k \in Keys,
           Edit(t, k) \/ SetCredentials(t, k)
    PROVE  [Editor!Next]_(Editor!vars)
<1>1. Now = Idle BY BeginIdle DEF Edit, SetCredentials, Known, DesktopInv
<1>2. Now'.pc = "mark" BY Goes DEF Edit, SetCredentials, Known, DesktopInv, Sections
<1>3. Plain BY <1>1, <1>2, IdleSettled DEF Plain
<1>4. UNCHANGED disk BY DEF Edit, SetCredentials
<1>5. CASE UNCHANGED store BY <1>4, <1>5, Stutter
<1>6. CASE ~UNCHANGED store
  <2>1. PICK e \in Edits : \E d :
           /\ Open(k) /\ store[k].content # Absent
           /\ store' = [store EXCEPT ![k] = d]
           /\ \/ d = Changed(store[k], {e})
              \/ \E id \in EncKeys : d = [Changed(store[k], {e}) EXCEPT !.enc_key = id]
    BY <1>6 DEF Edit, SetCredentials, FreshEncKeys
  <2>2. PICK d :
           /\ Open(k) /\ store[k].content # Absent
           /\ store' = [store EXCEPT ![k] = d]
           /\ \/ d = Changed(store[k], {e})
              \/ \E id \in EncKeys : d = [Changed(store[k], {e}) EXCEPT !.enc_key = id]
    BY <2>1
  <2>3. /\ store[k] \in Context /\ Sealed(store[k])
        /\ store[k].content \in Content
    BY <1>1, <2>2, FitFacts, IdleSettled DEF Known
  <2> DEFINE b == Changed(store[k], {e})
  <2>4. /\ b \in Context /\ b.content = store[k].content \cup {e} /\ b.content # Absent
        /\ b.checksum = store[k].checksum
    <3>1. {e} \in Content BY DEF Content
    <3>2. QED BY <2>2, <2>3, <3>1, ChangedSealed
  <2> HIDE DEF b
  <2>5. /\ d \in Context /\ d.content = b.content /\ d.checksum = store[k].checksum
    BY <2>2, <2>4 DEF b, Context
  <2>6. Held(d) = store[k].content \cup {e} /\ Held(store[k]) = store[k].content
    BY <2>2, <2>4, <2>5 DEF Held
  <2>7. d # Absent BY <2>5, NoneAssumption
  <2>8. Held(d) \in Content BY <2>5, HeldIsContent
  <2>9. QED BY <1>3, <1>4, <2>2, <2>5, <2>6, <2>7, <2>8, ChangeStep
<1>7. QED BY <1>5, <1>6

LEMMA MarkStep ==
    ASSUME DesktopClient, Known, NEW t \in Threads, Mark(t)
    PROVE  [Editor!Next]_(Editor!vars)
<1>1. Now.pc = "mark" /\ Now = call[t] /\ CallOK(Now)
  BY AtNow DEF Mark, Known, DesktopInv
<1>2. Now' = Idle BY Goes DEF Mark, Known, DesktopInv
<1>3. Plain BY <1>1, <1>2, IdleSettled DEF Plain
<1>4. CASE UNCHANGED store BY <1>4, Stutter DEF Mark
<1>5. CASE ~UNCHANGED store
  <2>1. PICK k \in Keys : /\ Open(k)
                          /\ store' = [store EXCEPT ![k] = [store[k] EXCEPT !.save_pending = TRUE]]
    BY <1>1, <1>5 DEF Mark, CallOK
  <2> DEFINE d == [store[k] EXCEPT !.save_pending = TRUE]
  <2>2. store[k] \in Context BY <2>1, OpenIsContext, TypeOKParts DEF Known, DesktopInv, Typed
  <2>3. d \in Context /\ Held(d) = Held(store[k]) /\ d.checksum = store[k].checksum
    BY <2>2 DEF Context, Held
  <2>4. d # Absent BY <2>3, NoneAssumption
  <2> HIDE DEF d
  <2>5. UNCHANGED <<Docs, Seen>>
    BY <1>3, <2>1, <2>3, <2>4, PlainNames, SameDocs DEF d
  <2>6. QED BY <2>5 DEF Editor!vars, Mark
<1>6. QED BY <1>4, <1>5

\* A file is opened with the content that was read from it some steps ago.
LEMMA InsertStep ==
    ASSUME DesktopClient, Known, NEW t \in Threads, Insert(t)
    PROVE  [Editor!Next]_(Editor!vars)
<1>1. Now = call[t] /\ Now.pc = "insert" /\ Now \in Call /\ CallOK(Now)
  BY AtNow DEF Insert, Known, DesktopInv
<1>2. PICK k \in Keys : k = Now.key BY <1>1 DEF CallOK
<1>3. PICK data : data = Now.data OBVIOUS
<1>4. Readable(k) /\ data \subseteq disk[k]
  BY <1>1, <1>2, <1>3 DEF Known, DesktopInv, GoesOn, OpeningGoesOn
<1>5. data \in Content /\ Now.enc_key \in EncKeys BY <1>1, <1>3 DEF Call, CallOK
<1>6. PICK d : d = NewContext(k, data, data, Now.enc_key) OBVIOUS
<1>7. d \in Context /\ Held(d) = data /\ d.checksum = data
  BY <1>5, <1>6, ContentPresent DEF NewContext, Context, Held
<1>8. d # Absent BY <1>7, NoneAssumption
<1>9. Now' = IF Now.other = Absent THEN Idle ELSE [Now EXCEPT !.pc = "merge", !.data = {}]
  BY <1>1, NextCall, TypeOKParts DEF Insert, Known, DesktopInv, Typed
<1>10. Plain BY <1>1, <1>9, IdleSettled DEF Plain, Call
<1>11. TypeOK /\ OwnNames /\ OwnNames' BY <1>10, PlainNames
<1>12. store' = [store EXCEPT ![k] = d] /\ UNCHANGED disk
  BY <1>1, <1>2, <1>3, <1>6 DEF Insert
<1>13. Docs' = [Docs EXCEPT ![k] = data] /\ Seen' = [Seen EXCEPT ![k] = data]
  BY <1>7, <1>8, <1>11, <1>12, PutDocs
<1>14. Editor!OpenFile(k)
  BY <1>4, <1>12, <1>13 DEF Editor!OpenFile, Editor!Put, Readable
<1>15. QED BY <1>14 DEF Editor!Next

LEMMA CreateInsertStep ==
    ASSUME DesktopClient, Known, NEW t \in Threads, CreateInsert(t)
    PROVE  [Editor!Next]_(Editor!vars)
<1>1. Now = call[t] /\ Now.pc = "create" /\ CallOK(Now)
  BY AtNow DEF CreateInsert, Known, DesktopInv
<1>2. PICK k \in Keys : k = Now.key BY <1>1 DEF CallOK
<1>3. {} \in Content /\ Now.enc_key \in EncKeys BY <1>1 DEF Content, CallOK
<1>4. PICK d : d = NewContext(k, {}, Absent, Now.enc_key) OBVIOUS
<1>5. d \in Context /\ Held(d) = {} /\ d.checksum = Absent
  BY <1>3, <1>4, ContentPresent DEF NewContext, Context, Held
<1>6. d # Absent BY <1>5, NoneAssumption
<1>7. Now'.pc = "create_save"
  BY <1>1, <1>2, Goes DEF CreateInsert, Known, DesktopInv, Sections
<1>8. Plain BY <1>1, <1>7 DEF Plain
<1>9. TypeOK /\ OwnNames /\ OwnNames' BY <1>8, PlainNames
<1>10. store' = [store EXCEPT ![k] = d] /\ UNCHANGED disk
  BY <1>1, <1>2, <1>4 DEF CreateInsert
<1>11. Docs' = [Docs EXCEPT ![k] = {}] /\ Seen' = [Seen EXCEPT ![k] = Absent]
  BY <1>5, <1>6, <1>9, <1>10, PutDocs
<1>12. Editor!New(k) BY <1>10, <1>11 DEF Editor!New, Editor!Put
<1>13. QED BY <1>12 DEF Editor!Next

\* A context goes to its own file: the editor overwrites it, or saves over the version
\* that it knows.
LEMMA WriteStep ==
    ASSUME DesktopClient, Known, Plain, NEW k \in Keys, Open(k), NEW overwrite \in BOOLEAN,
           NEW backup \in BOOLEAN, Write(k, overwrite, backup), HasKey(store[k]),
           Readable(k) \/ (overwrite /\ store[k].content # Absent)
    PROVE  [Editor!Next]_(Editor!vars)
<1>1. TypeOK /\ OwnNames /\ OwnNames' BY PlainNames
<1>2. store[k] \in Context /\ store[k].file_name = k
  BY <1>1, OpenIsContext, TypeOKParts DEF Typed, OwnNames
<1>3. CASE UNCHANGED <<store, disk>> BY <1>3, Stutter
<1>4. CASE /\ store[k].content # Absent
           /\ overwrite \/ Unmodified(store[k])
           /\ store' = [store EXCEPT ![k] = Saved(store[k])]
           /\ disk' = [disk EXCEPT ![k] = store[k].content]
  <2>1. PICK d : d = Saved(store[k]) OBVIOUS
  <2>2. /\ d \in Context /\ d.content = store[k].content /\ d.checksum = store[k].content
        /\ Held(store[k]) = store[k].content /\ Held(d) = store[k].content
    BY <1>2, <1>4, <2>1 DEF Saved, Context, Held
  <2>3. d # Absent BY <2>2, NoneAssumption
  <2>4. Docs[k] = store[k].content /\ Seen[k] = store[k].checksum /\ Docs[k] # Absent
    BY <1>1, <2>2, OwnDoc, OpenIsOpened
  <2>5. Docs' = [Docs EXCEPT ![k] = Docs[k]] /\ Seen' = [Seen EXCEPT ![k] = Docs[k]]
    <3>1. store' = [store EXCEPT ![k] = d] BY <1>4, <2>1
    <3>2. Docs' = [Docs EXCEPT ![k] = Held(d)] /\ Seen' = [Seen EXCEPT ![k] = d.checksum]
      BY <1>1, <2>3, <3>1, PutDocs
    <3>3. QED BY <2>2, <2>4, <3>2
  <2>6. Docs' = Docs BY <2>5, DocsAreFunctions
  <2>7. disk' = [disk EXCEPT ![k] = Docs[k]] BY <1>4, <2>4
  <2>8. CASE overwrite
    <3>1. Editor!Overwrite(k)
      BY <2>4, <2>5, <2>6, <2>7 DEF Editor!Overwrite, Editor!Opened
    <3>2. QED BY <3>1 DEF Editor!Next
  <2>9. CASE Unmodified(store[k])
    <3>1. disk[k] # Absent /\ disk[k] = Seen[k]
      BY <1>2, <2>4, <2>9 DEF Unmodified, Readable
    <3>2. Editor!Save(k)
      BY <2>4, <2>5, <2>6, <2>7, <3>1 DEF Editor!Save, Editor!Opened
    <3>3. QED BY <3>2 DEF Editor!Next
  <2>10. QED BY <1>4, <2>8, <2>9
<1>5. QED BY <1>1, <1>2, <1>3, <1>4, WriteOutcome

LEMMA SaveStep ==
    ASSUME DesktopClient, Known, NEW t \in Threads, NEW k \in Keys,
           NEW overwrite \in BOOLEAN, NEW backup \in BOOLEAN,
           Save(t, k, overwrite, backup) \/ SaveAll(t, k, backup)
    PROVE  [Editor!Next]_(Editor!vars)
<1>1. Now = Idle /\ Now' = Idle BY BeginIdle, SameCall DEF Save, SaveAll
<1>2. Settled(Now) /\ Plain BY <1>1, IdleSettled DEF Plain
<1>3. Open(k) BY DEF Save, SaveAll
<1>4. HasKey(store[k]) /\ Readable(k) BY <1>2, <1>3, FitFacts DEF Known, HasKey
<1>5. PICK o \in BOOLEAN : Write(k, o, backup) BY DEF Save, SaveAll
<1>6. QED BY <1>2, <1>3, <1>4, <1>5, WriteStep

LEMMA CreateSaveStep ==
    ASSUME DesktopClient, Known, NEW t \in Threads, CreateSave(t)
    PROVE  [Editor!Next]_(Editor!vars)
<1>1. PICK k : k = Now.key OBVIOUS
<1>2. /\ k \in Keys /\ Open(k) /\ store[k].content # Absent /\ Now.pc = "create_save"
      /\ Write(k, TRUE, FALSE) /\ Now' = Idle
  BY <1>1, CreateSaveFacts DEF Known, In
<1>3. HasKey(store[k]) BY <1>2 DEF Known, DesktopInv, AllFit, Fits, In
<1>4. Plain BY <1>2, IdleSettled DEF Plain
<1>5. QED BY <1>2, <1>3, <1>4, WriteStep

\* A copy of the content goes to a file.
LEMMA ExportStep ==
    ASSUME DesktopClient, Known, NEW t \in Threads, NEW k \in Keys, NEW f \in Keys,
           SaveToDbFile(t, k, f)
    PROVE  [Editor!Next]_(Editor!vars)
<1>1. /\ Open(k) /\ store[k].content \in Content
      /\ disk' = [disk EXCEPT ![f] = store[k].content]
      /\ Now = Idle /\ Now' = Idle
  BY ExportFacts DEF Known
<1>2. TypeOK /\ OwnNames BY <1>1, IdleSettled, PlainNames DEF Plain
<1>3. Docs[k] = store[k].content /\ Docs[k] # Absent
  BY <1>1, <1>2, OwnDoc, ContentPresent DEF Held
<1>4. UNCHANGED <<Docs, Seen>> BY SameStoreDocs DEF SaveToDbFile
<1>5. Editor!Export(k, f) BY <1>1, <1>3, <1>4 DEF Editor!Export, Editor!Opened
<1>6. QED BY <1>5 DEF Editor!Next

\* The first section of a call that only reads, or stores a session key
LEMMA ReadingStep ==
    ASSUME NEW t \in Threads, NEW k \in Keys,
           \/ Load(t, k) \/ Create(t, k) \/ CloseAll(t, k) \/ UnlockCompare(t, k)
           \/ \E n \in Keys : SaveAs(t, k, n) \/ Merge(t, k, n)
    PROVE  [Editor!Next]_(Editor!vars)
BY Stutter DEF Load, Create, CloseAll, UnlockCompare, SaveAs, CopyKey, Merge, ReadFile

\* A database is saved under another name: the document goes to the new name with the
\* write, before the context does.
LEMMA SaveAsWriteStep ==
    ASSUME DesktopClient, Known, NEW t \in Threads, SaveAsWrite(t)
    PROVE  [Editor!Next]_(Editor!vars)
<1>1. PICK k, n : k = Now.key /\ n = Now.other OBVIOUS
<1>2. CASE ~Open(k)
  <2>1. Now = call[t] BY AtNow DEF SaveAsWrite, Known, DesktopInv
  <2>2. UNCHANGED <<store, disk>> BY <1>1, <1>2, <2>1 DEF SaveAsWrite
  <2>3. QED BY <2>2, Stutter
<1>3. CASE Open(k)
  <2>1. PICK c : c = [store[k] EXCEPT !.file_name = n] OBVIOUS
  <2>2. PICK d : d = Saved(c) OBVIOUS
  <2>3. /\ Now.pc = "save_as_write" /\ k \in Keys /\ n \in Keys /\ k # n /\ ~Open(n)
        /\ store[k] \in Context /\ c \in Context /\ c.file_name = n
        /\ c.content = store[k].content /\ c.content \in Content
        /\ store' = [store EXCEPT ![k] = d] /\ disk' = [disk EXCEPT ![n] = c.content]
    BY <1>1, <1>3, <2>1, <2>2, SaveAsWriteOutcome DEF Known
  <2>4. /\ d \in Context /\ d.file_name = n /\ d.checksum = c.content
        /\ Held(d) = c.content /\ Held(store[k]) = c.content
    BY <2>2, <2>3, ContentPresent DEF Saved, Context, Held
  <2>5. d # Absent BY <2>4, NoneAssumption
  <2>6. TypeOK /\ OwnNames BY <2>3, OwnNamesHold DEF Known, DesktopInv
  <2>7. /\ store'[k] = d /\ \A j \in Keys \ {k} : store'[j] = store[j]
    BY <2>3, <2>6 DEF TypeOK
  <2>8. /\ Docs[k] = c.content /\ Docs[k] # Absent /\ Docs[n] = Absent
    BY <1>3, <2>3, <2>4, <2>6, OwnDoc, ContentPresent
  <2>9. Named(k)' = {} /\ Named(n)' = {k}
    BY <2>3, <2>4, <2>5, <2>6, <2>7 DEF Named, Open, OwnNames
  <2>10. ASSUME NEW f \in Keys
         PROVE  /\ Docs'[f] = IF f = n THEN c.content ELSE IF f = k THEN Absent ELSE Docs[f]
                /\ Seen'[f] = IF f = n THEN c.content ELSE IF f = k THEN Absent ELSE Seen[f]
    <3>1. CASE f = n BY <2>3, <2>4, <2>7, <2>9, <3>1, DocOfNext
    <3>2. CASE f = k BY <2>3, <2>9, <3>2, DocOfNext
    <3>3. CASE f # k /\ f # n
      <4>1. Named(f)' = IF Open(f) THEN {f} ELSE {}
        BY <2>4, <2>6, <2>7, <3>3 DEF Named, Open, OwnNames
      <4>2. store'[f] = store[f] BY <2>7, <3>3
      <4>3. QED BY <2>6, <3>3, <4>1, <4>2, DocOfNext, OwnDoc
    <3>4. QED BY <3>1, <3>2, <3>3
  <2>11. /\ Docs' = [[Docs EXCEPT ![k] = Absent] EXCEPT ![n] = Docs[k]]
         /\ Seen' = [[Seen EXCEPT ![k] = Absent] EXCEPT ![n] = Docs[k]]
    BY <2>3, <2>8, <2>10, DocsAreFunctions
  <2>12. disk' = [disk EXCEPT ![n] = Docs[k]] BY <2>3, <2>8
  <2>13. Editor!SaveAs(k, n)
    BY <2>8, <2>11, <2>12 DEF Editor!SaveAs, Editor!Opened
  <2>14. QED BY <2>3, <2>13 DEF Editor!Next
<1>4. QED BY <1>2, <1>3

\* The context goes to the new key: its document is there already.
LEMMA MoveStep ==
    ASSUME DesktopClient, Known, NEW t \in Threads, MoveContext(t)
    PROVE  [Editor!Next]_(Editor!vars)
<1>1. PICK k, n : k = Now.key /\ n = Now.other OBVIOUS
<1>2. /\ k \in Keys /\ n \in Keys /\ k # n /\ Open(k) /\ ~Open(n)
      /\ store[k].file_name = n
      /\ store'[k] = Absent /\ store'[n] = store[k]
      /\ \A j \in Keys \ {k, n} : store'[j] = store[j]
  BY <1>1, MoveContextInv DEF Known
<1>3. \A j \in Keys \ {k} : Open(j) => store[j].file_name = j
  BY <1>1 DEF Known, DesktopInv, AllFit, Fits, FileOf, In
<1>4. \A j \in Keys : Open(j)' => store'[j].file_name = j
  BY <1>2, <1>3 DEF Open
<1>5. ASSUME NEW f \in Keys
      PROVE  Docs'[f] = Docs[f] /\ Seen'[f] = Seen[f]
  <2>1. CASE f = n
    <3>1. Named(f) = {k} BY <1>2, <1>3, <2>1 DEF Named
    <3>2. Named(f)' = {n} BY <1>2, <1>4, <2>1 DEF Named, Open
    <3>3. QED BY <1>2, <3>1, <3>2, DocOf, DocOfNext
  <2>2. CASE f # n
    <3>1. Named(f) = {} \/ (f # k /\ Named(f) = {f}) BY <1>2, <1>3, <2>2 DEF Named
    <3>2. Named(f)' = Named(f) BY <1>2, <1>3, <1>4, <2>2 DEF Named, Open
    <3>3. f # k => store'[f] = store[f] BY <1>2, <2>2
    <3>4. QED BY <3>1, <3>2, <3>3, DocOf, DocOfNext
  <2>3. QED BY <2>1, <2>2
<1>6. Docs' = Docs /\ Seen' = Seen BY <1>5, DocsAreFunctions
<1>7. QED BY <1>6 DEF Editor!vars, MoveContext

\* A database is closed, alone, as one of all or after a merge.
LEMMA CloseStep ==
    ASSUME DesktopClient, Known, NEW t \in Threads, NEW k \in Keys,
           Close(t, k) \/ CloseNext(t) \/ MergeClose(t)
    PROVE  [Editor!Next]_(Editor!vars)
<1>1. CASE Close(t, k)
  <2>1. Now = Idle /\ Now' = Idle BY <1>1, BeginIdle, SameCall DEF Close
  <2>2. Plain BY <2>1, IdleSettled DEF Plain
  <2>3. QED BY <1>1, <2>2, PlainNames, RemoveDocs DEF Close
<1>2. CASE CloseNext(t) \/ MergeClose(t)
  <2>1. PICK j \in Keys : /\ Remove(j) /\ UNCHANGED disk
                          /\ Now.pc \in {"close_all", "merge_close"}
                          /\ Now'.pc \in {"idle", "close_all"}
    BY <1>2, CloseNextFacts DEF Known
  <2>2. Plain BY <2>1 DEF Plain
  <2>3. QED BY <2>1, <2>2, PlainNames, RemoveDocs
<1>3. QED BY <1>1, <1>2

\* Locking and unlocking move the content, and keep it.
LEMMA LockStep ==
    ASSUME DesktopClient, Known, NEW t \in Threads, NEW k \in Keys,
           Lock(t, k) \/ UnlockRestore(t) \/ UnlockBiometric(t, k)
    PROVE  [Editor!Next]_(Editor!vars)
<1>1. /\ Plain /\ UNCHANGED disk
      /\ \/ UNCHANGED store
         \/ \E j \in Keys : \E d : /\ Open(j) /\ d # Absent
                                   /\ store' = [store EXCEPT ![j] = d] /\ Moved(store[j], d)
  <2>1. CASE Lock(t, k)
    <3>1. Now' = Now BY <2>1, SameCall DEF Lock
    <3>2. QED BY <2>1, <3>1, LockOutcome, IdleSettled DEF Known, Plain, Lock
  <2>2. CASE UnlockRestore(t) \/ UnlockBiometric(t, k)
    BY <2>2, UnlockOutcome, IdleSettled DEF Known, Plain, Settled
  <2>3. QED BY <2>1, <2>2
<1>2. CASE UNCHANGED store BY <1>1, <1>2, Stutter
<1>3. ASSUME NEW j \in Keys, NEW d, Open(j), d # Absent,
             store' = [store EXCEPT ![j] = d], Moved(store[j], d)
      PROVE  [Editor!Next]_(Editor!vars)
  <2>1. Held(d) = Held(store[j]) /\ d.checksum = store[j].checksum BY <1>3 DEF Moved
  <2>2. UNCHANGED <<Docs, Seen>> BY <1>1, <1>3, <2>1, PlainNames, SameDocs
  <2>3. QED BY <1>1, <2>2 DEF Editor!vars
<1>4. QED BY <1>1, <1>2, <1>3

\* The file is read again, alone or together with what the document holds.
LEMMA TakeInStep ==
    ASSUME DesktopClient, Known, NEW t \in Threads, NEW k \in Keys,
           Reload(t, k) \/ MergeDisk(t, k)
    PROVE  [Editor!Next]_(Editor!vars)
<1>1. /\ Now = Idle /\ Now' = Idle /\ Open(k) /\ Readable(k) /\ UNCHANGED disk
      /\ \E d \in Context :
            /\ store' = [store EXCEPT ![k] = d] /\ d.checksum = disk[k]
            /\ \/ Held(d) = disk[k]
               \/ Held(d) = Held(store[k]) \cup disk[k]
  <2>1. CASE Reload(t, k)
    <3>1. PICK d : d = [store[k] EXCEPT !.content = disk[k], !.checksum = disk[k]] OBVIOUS
    <3>2. QED BY <2>1, <3>1, ReloadOutcome DEF Known
  <2>2. CASE MergeDisk(t, k)
    BY <2>2, MergeDiskOutcome DEF Known
  <2>3. QED BY <2>1, <2>2
<1>2. PICK d \in Context : /\ store' = [store EXCEPT ![k] = d] /\ d.checksum = disk[k]
                           /\ \/ Held(d) = disk[k]
                              \/ Held(d) = Held(store[k]) \cup disk[k]
  BY <1>1
<1>3. TypeOK /\ OwnNames /\ OwnNames' BY <1>1, IdleSettled, PlainNames DEF Plain
<1>4. d # Absent BY NoneAssumption
<1>5. Docs' = [Docs EXCEPT ![k] = Held(d)] /\ Seen' = [Seen EXCEPT ![k] = disk[k]]
  <2>1. Docs' = [Docs EXCEPT ![k] = Held(d)] /\ Seen' = [Seen EXCEPT ![k] = d.checksum]
    BY <1>2, <1>3, <1>4, PutDocs
  <2>2. QED BY <1>2, <2>1
<1>6. Docs[k] = Held(store[k]) /\ Docs[k] # Absent /\ disk[k] # Absent
  BY <1>1, <1>3, OwnDoc, OpenIsOpened DEF Readable
<1>7. CASE Held(d) = disk[k]
  <2>1. Editor!Refresh(k)
    BY <1>1, <1>5, <1>6, <1>7 DEF Editor!Refresh, Editor!Put, Editor!Opened
  <2>2. QED BY <2>1 DEF Editor!Next
<1>8. CASE Held(d) = Held(store[k]) \cup disk[k]
  <2>1. Editor!TakeIn(k)
    BY <1>1, <1>5, <1>6, <1>8 DEF Editor!TakeIn, Editor!Put, Editor!Opened
  <2>2. QED BY <2>1 DEF Editor!Next
<1>9. QED BY <1>2, <1>7, <1>8

\* The merge proper changes the target's document.
LEMMA MergeApplyStep ==
    ASSUME DesktopClient, Known, NEW t \in Threads, MergeApply(t)
    PROVE  [Editor!Next]_(Editor!vars)
<1>1. PICK k, s, d : /\ k = Now.other /\ s = Now.key
                     /\ d = Changed(store[k], store[s].content)
  OBVIOUS
<1>2. /\ Now.pc = "merge" /\ UNCHANGED disk
      /\ \/ Now' = Idle /\ UNCHANGED store
         \/ /\ k \in Keys /\ Open(k) /\ Now' = AfterMerge(Now)
            /\ store' = [store EXCEPT ![k] = d] /\ d \in Context
            /\ Held(store[k]) \subseteq Held(d) /\ Held(d) \in Content
            /\ d.checksum = store[k].checksum
  BY <1>1, MergeApplyOutcome DEF Known
<1>3. CASE UNCHANGED store BY <1>2, <1>3, Stutter
<1>4. CASE ~UNCHANGED store
  <2>1. Now \in Call BY NowIsCall DEF Known, DesktopInv
  <2>2. Now'.pc # "move" BY <1>2, <1>4, <2>1, IdleSettled DEF AfterMerge, Call
  <2>3. d # Absent BY <1>2, <1>4, NoneAssumption
  <2>4. QED BY <1>2, <1>4, <2>2, <2>3, ChangeStep DEF Plain
<1>5. QED BY <1>3, <1>4

\* Another program writes the file.
LEMMA OutsideStep ==
    ASSUME NEW f \in Keys, ExternalEdit(f)
    PROVE  [Editor!Next]_(Editor!vars)
<1>1. UNCHANGED <<Docs, Seen>> BY SameStoreDocs DEF ExternalEdit
<1>2. Editor!Outside(f) BY <1>1 DEF ExternalEdit, Readable, Editor!Outside
<1>3. QED BY <1>2 DEF Editor!Next

-----------------------------------------------------------------------------
(* The refinement *)

LEMMA EditorStep ==
    ASSUME DesktopClient, DesktopInv, DesktopInv', [Next]_vars
    PROVE  [Editor!Next]_(Editor!vars)
<1>1. Known BY DEF Known
<1>2. ASSUME NEW t \in Threads, NEW k \in Keys, Start(t, k)
      PROVE  [Editor!Next]_(Editor!vars)
  BY <1>1, <1>2, NotMade, EditStep, ReadingStep, SaveStep, ExportStep, CloseStep, LockStep,
     TakeInStep
  DEF Start
<1>3. ASSUME NEW t \in Threads, Continue(t)
      PROVE  [Editor!Next]_(Editor!vars)
  <2>1. PICK k \in Keys : TRUE
    BY <1>3 DEF Continue, Mark, Insert, CreateInsert, CreateSave, SaveAsWrite, RenameFile,
                MoveContext, CloseNext, UnlockRestore, MergeApply, MergeClose, At, DesktopInv,
                TypeOK, CallOK, Call
  <2>2. QED
    BY <1>1, <1>3, <2>1, NotMade, MarkStep, InsertStep, CreateInsertStep, CreateSaveStep,
       SaveAsWriteStep, MoveStep, CloseStep, LockStep, MergeApplyStep
    DEF Continue
<1>4. CASE \E f \in Keys : ExternalEdit(f) BY <1>4, OutsideStep
<1>5. CASE UNCHANGED vars BY <1>5, Stutter DEF vars
<1>6. QED BY <1>2, <1>3, <1>4, <1>5 DEF Next

LEMMA EditorInit == Init => Editor!Init
<1> SUFFICES ASSUME Init PROVE Editor!Init OBVIOUS
<1>1. \A f \in Keys : Named(f) = {} BY DEF Init, Named, Open
<1>2. \A f \in Keys : Docs[f] = Absent /\ Seen[f] = Absent BY <1>1, DocOf
<1>3. Docs = [f \in Keys |-> Absent] /\ Seen = [f \in Keys |-> Absent]
  BY <1>2, DocsAreFunctions
<1>4. QED BY <1>3 DEF Init, Editor!Init

\* For a desktop client the store is an editor of documents, with any number of
\* databases, edits and session keys: the sections of the calls, the session keys, the
\* ciphertexts and the pending flags are seen by nobody; a save without overwrite goes
\* over the version that was read last and over no other one.
THEOREM DesktopIsEditor ==
    ASSUME DesktopClient
    PROVE  Spec => BehavesAsEditor
<1>1. Init => Editor!Init BY EditorInit
<1>2. DesktopInv /\ DesktopInv' /\ [Next]_vars => [Editor!Next]_(Editor!vars)
  BY EditorStep
<1>3. QED
  BY <1>1, <1>2, DesktopAlways, PTL DEF Spec, BehavesAsEditor, Editor!Spec
=============================================================================
