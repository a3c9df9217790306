------------------------------ MODULE SavesProofs -----------------------------
(* Proofs about Saves: whatever a crash leaves of a file reads back as one  *)
(* whole save or not at all, with the header fields of the file that was    *)
(* opened, and a content that went through the backup can be recovered.     *)
EXTENDS Saves, KdbxStreamProofs

\* The fields of a header that every save takes over
IsKept(h) ==
  \E g \in ForeignHeaders : /\ h.comment = g.comment
                            /\ h.public_custom_data = g.public_custom_data
                            /\ h.kdf_algorithm.memory = g.kdf_algorithm.memory
IsContent(content) == content \in SUBSET (0 .. MaxEdits)

\* The first n cells of a file are those of a save.
Starts(f, n, cells) == n <= Len(f) /\ n <= Len(cells) /\ \A i \in 1 .. n : f[i] = cells[i]

TypeOK ==
  /\ fresh \in Nat \ {0} /\ made \in 0 .. MaxEdits /\ synced \subseteq Files /\ IsContent(backed)

\* An open database has a header that it may save with, and all that the backup protects.
MemOK ==
  mem # Closed =>
    /\ mem = [open |-> TRUE, edits |-> mem.edits, header |-> mem.header, checksum |-> mem.checksum]
    /\ IsMainHeader(mem.header) /\ IsKept(mem.header) /\ mem.header.master_seed \notin fresh .. MaxSaves
    /\ IsContent(mem.edits) /\ backed \subseteq mem.edits

\* A save in progress has written the first cells of what it will write.
OpOK ==
  op # Idle =>
    /\ mem # Closed
    /\ op = [at |-> op.at, path |-> op.path, file |-> op.file, pos |-> op.pos,
             overwrite |-> op.overwrite, cells |-> op.cells]
    /\ op.at \in {"write", "copy", "written"} /\ op.pos \in Nat
    /\ op.file \in Files /\ op.overwrite \in BOOLEAN
    /\ op.path \in {"backup", "in place", "writer"}
    /\ op.path = "backup" <=> op.file = "backup"
    /\ op.at = "write" => /\ op.cells = write(mem.header, mem.edits)
                          /\ Starts(files[op.file], op.pos, op.cells)
                          /\ op.file = "backup" => Len(files["backup"]) = op.pos
    /\ op.at = "copy" => /\ op.path = "backup" /\ files["backup"] = write(mem.header, mem.edits)
                         /\ op.pos <= Len(files["backup"]) + 1
                         /\ op.pos > 0 => files["main"] = SubSeq(files["backup"], 1, op.pos - 1)
    /\ op.at = "written" => op.path = "writer"

\* Saves, each with a seed of its own, which no later save takes, and the content that
\* the backup protects
Suits(saves, next, protected) ==
  /\ AreSaves(saves)
  /\ \A seed \in DOMAIN saves : /\ seed \notin next .. MaxSaves
                                /\ IsKept(saves[seed].header) /\ IsContent(saves[seed].content)
                                /\ protected \subseteq saves[seed].content

\* A file that starts with the header of a save has nothing that is not among these edits.
Covers(edits, f, saves) ==
  2 \in DOMAIN f => \A seed \in DOMAIN saves :
                      f[2] = Header(write_bytes(saves[seed].header)) => saves[seed].content \subseteq edits

\* Nobody else's edits are lost when memory has all that was in the file of its checksum, but for
\* those that came with the checksum. So the database file has, once its checksum was verified, and
\* when the checksum is taken, but for those that came after the verification.
Known == mem.edits \cup adopted
Seen == Known \cup window
MainIsCovered == \/ op.at = "write" /\ op.file = "main" /\ ~op.overwrite
                 \/ op.at = "copy" /\ ~op.overwrite
                 \/ op.at = "written"
Covered(saves) ==
  /\ mem # Closed => /\ mem.checksum \in Seq(KnownCells(saves))
                     /\ Covers(Known, mem.checksum, saves)
  /\ op.at \in {"write", "copy"} => /\ mem.header.master_seed \in DOMAIN saves
                                    /\ saves[mem.header.master_seed].content = mem.edits
  /\ MainIsCovered => Covers(Seen, files["main"], saves)

\* Every cell in a file is a zero or was written by one of these saves.
SavesOK(saves) ==
  /\ Suits(saves, fresh, backed)
  /\ files \in [Files -> Seq(KnownCells(saves))]
  /\ op.at = "write" => op.cells \in Seq(KnownCells(saves))
  /\ ChecksumCells >= 2 => Covered(saves)

SavesInv == TypeOK /\ MemOK /\ OpOK /\ \E saves : SavesOK(saves)

-----------------------------------------------------------------------------
(* Headers and saves *)

LEMMA ResetHeader ==
    ASSUME NEW h, IsMainHeader(h), NEW n, NEW flag
    PROVE  LET r == reset_random_values(h, n)
               c == [r EXCEPT !.compression_flag = flag]
           IN /\ IsMainHeader(r) /\ r.master_seed = n /\ (IsKept(h) => IsKept(r))
              /\ IsMainHeader(c) /\ c.master_seed = n /\ (IsKept(h) => IsKept(c))
<1>1. PICK k : k = h.kdf_algorithm OBVIOUS
<1>2. PICK a : a = [k EXCEPT !.salt = n] OBVIOUS
<1>3. /\ k = [variant |-> k.variant, iterations |-> k.iterations, memory |-> k.memory,
              parallelism |-> k.parallelism, version |-> k.version, salt |-> k.salt]
      /\ k.variant \in Variants
  BY <1>1 DEF IsMainHeader, IsKdf
<1>4. /\ a = [variant |-> k.variant, iterations |-> k.iterations, memory |-> k.memory,
              parallelism |-> k.parallelism, version |-> k.version, salt |-> n]
  BY <1>2, <1>3
<1>5. IsKdf(a) /\ a.memory = k.memory BY <1>3, <1>4 DEF IsKdf
<1>6. h = [cipher_id |-> h.cipher_id, compression_flag |-> h.compression_flag,
           master_seed |-> h.master_seed, encryption_iv |-> h.encryption_iv,
           public_custom_data |-> h.public_custom_data, comment |-> h.comment,
           kdf_algorithm |-> k]
  BY <1>1 DEF IsMainHeader
<1>7. PICK r : r = reset_random_values(h, n) OBVIOUS
<1>8. r = [cipher_id |-> h.cipher_id, compression_flag |-> h.compression_flag,
           master_seed |-> n, encryption_iv |-> n,
           public_custom_data |-> h.public_custom_data, comment |-> h.comment, kdf_algorithm |-> a]
  BY <1>1, <1>2, <1>6, <1>7 DEF reset_random_values
<1>9. PICK c : c = [r EXCEPT !.compression_flag = flag] OBVIOUS
<1>10. c = [cipher_id |-> h.cipher_id, compression_flag |-> flag,
            master_seed |-> n, encryption_iv |-> n,
            public_custom_data |-> h.public_custom_data, comment |-> h.comment, kdf_algorithm |-> a]
  BY <1>8, <1>9
<1>11. IsMainHeader(r) /\ r.master_seed = n /\ (IsKept(h) => IsKept(r))
  BY <1>1, <1>5, <1>8 DEF IsMainHeader, IsKept
<1>12. IsMainHeader(c) /\ c.master_seed = n /\ (IsKept(h) => IsKept(c))
  BY <1>1, <1>5, <1>10 DEF IsMainHeader, IsKept
<1>13. QED BY <1>7, <1>9, <1>11, <1>12

WithSave(saves, h, content) ==
  [seed \in DOMAIN saves \cup {h.master_seed} |->
     IF seed = h.master_seed THEN [header |-> h, content |-> content] ELSE saves[seed]]

LEMMA OneMoreSave ==
    ASSUME NEW saves, AreSaves(saves), NEW h, IsMainHeader(h), h.master_seed \notin DOMAIN saves,
           NEW content, IsContent(content)
    PROVE  /\ AreSaves(WithSave(saves, h, content))
           /\ KnownCells(saves) \subseteq KnownCells(WithSave(saves, h, content))
           /\ write(h, content) \in Seq(KnownCells(WithSave(saves, h, content)))
           /\ SizeOf(content) \in Nat \ {0}
<1>1. SizeOf(content) \in Nat \ {0} BY SavesAssumption DEF IsContent
<1>2. PICK new : new = WithSave(saves, h, content) OBVIOUS
<1>3. /\ DOMAIN new = DOMAIN saves \cup {h.master_seed}
      /\ new[h.master_seed].header = h /\ new[h.master_seed].content = content
      /\ \A seed \in DOMAIN saves : new[seed] = saves[seed]
  BY <1>2 DEF WithSave
<1>4. AreSaves(new) BY <1>1, <1>3 DEF AreSaves
<1>5. KnownCells(saves) \subseteq KnownCells(new) BY <1>3 DEF KnownCells
<1>6. WrittenCells(h, content) \subseteq KnownCells(new) BY <1>3 DEF KnownCells
<1>7. write(h, content) \in Seq(WrittenCells(h, content)) BY <1>1, CellsWritten
<1>8. write(h, content) \in Seq(KnownCells(new)) BY <1>6, <1>7, SeqMonotonic
<1>9. QED BY <1>1, <1>2, <1>4, <1>5, <1>8

\* What a file holds that reads back
LEMMA ReadKnown ==
    ASSUME TypeOK, NEW saves, SavesOK(saves), NEW x \in Files, read(files[x]).ok
    PROVE  LET r == read(files[x])
               content == r.data[1].of
           IN /\ \E seed \in DOMAIN saves : r.header = saves[seed].header /\ content = saves[seed].content
              /\ r.data = Payload(r.header, content)
              /\ IsMainHeader(r.header) /\ IsKept(r.header) /\ r.header.master_seed \notin fresh .. MaxSaves
              /\ IsContent(content) /\ backed \subseteq content
<1>1. AreSaves(saves) /\ files[x] \in Seq(KnownCells(saves)) BY DEF SavesOK, Suits
<1>2. PICK r : r = read(files[x]) OBVIOUS
<1>3. PICK seed \in DOMAIN saves :
        r.header = saves[seed].header /\ r.data = Payload(saves[seed].header, saves[seed].content)
  BY <1>1, <1>2, OnlyWholeSavesRead
<1>4. /\ IsMainHeader(saves[seed].header) /\ saves[seed].header.master_seed = seed
      /\ SizeOf(saves[seed].content) \in Nat \ {0}
  BY <1>1 DEF AreSaves
<1>5. r.data[1].of = saves[seed].content
  <2>1. 1 \in 1 .. SizeOf(saves[seed].content) BY <1>4
  <2>2. Payload(saves[seed].header, saves[seed].content)[1].of = saves[seed].content BY <2>1 DEF Payload
  <2>3. QED BY <1>3, <2>2
<1>6. /\ seed \notin fresh .. MaxSaves
      /\ IsKept(saves[seed].header) /\ IsContent(saves[seed].content)
      /\ backed \subseteq saves[seed].content
  BY DEF SavesOK, Suits
<1>7. QED BY <1>2, <1>3, <1>4, <1>5, <1>6

\* A file with one cell more of what is written to it
LEMMA PutCell ==
    ASSUME NEW K, NEW f \in Seq(K), NEW pos \in Nat, NEW cells \in Seq(K), Starts(f, pos, cells), pos < Len(cells)
    PROVE  LET new == Put(f, pos + 1, cells[pos + 1])
           IN /\ new \in Seq(K) /\ Starts(new, pos + 1, cells)
              /\ Len(f) = pos => Len(new) = pos + 1
<1>1. PICK cell : cell = cells[pos + 1] OBVIOUS
<1>2. Len(f) \in Nat /\ Len(cells) \in Nat OBVIOUS
<1>3. cell \in K
  <2>1. pos + 1 \in 1 .. Len(cells) BY <1>2
  <2>2. QED BY <1>1, <2>1, ElementOfSeq
<1>4. PICK new : new = Put(f, pos + 1, cell) OBVIOUS
<1>5. pos <= Len(f) /\ \A i \in 1 .. pos : f[i] = cells[i] BY DEF Starts
<1>6. CASE pos + 1 <= Len(f)
  <2>1. new = [f EXCEPT ![pos + 1] = cell] BY <1>4, <1>6 DEF Put
  <2>2. pos + 1 \in 1 .. Len(f) BY <1>2, <1>6
  <2>3. /\ new \in Seq(K) /\ Len(new) = Len(f)
        /\ \A j \in 1 .. Len(f) : new[j] = IF j = pos + 1 THEN cell ELSE f[j]
    BY <1>3, <2>1, <2>2, ExceptSeq
  <2>4. \A i \in 1 .. (pos + 1) : new[i] = cells[i]
    <3>1. TAKE i \in 1 .. (pos + 1)
    <3>2. i \in 1 .. Len(f) BY <1>2, <1>6
    <3>3. CASE i = pos + 1 BY <1>1, <2>3, <3>2, <3>3
    <3>4. CASE i # pos + 1
      <4>1. i \in 1 .. pos BY <3>4
      <4>2. QED BY <1>5, <2>3, <3>2, <3>4, <4>1
    <3>5. QED BY <3>3, <3>4
  <2>5. pos + 1 <= Len(new) /\ pos + 1 <= Len(cells) BY <1>2, <1>6, <2>3
  <2>6. Len(f) # pos BY <1>2, <1>6
  <2>7. QED BY <1>1, <1>4, <2>3, <2>4, <2>5, <2>6 DEF Starts
<1>7. CASE ~(pos + 1 <= Len(f))
  <2>1. new = Append(f, cell) BY <1>4, <1>7 DEF Put
  <2>2. Len(f) = pos BY <1>2, <1>5, <1>7
  <2>3. /\ new \in Seq(K) /\ Len(new) = Len(f) + 1
        /\ \A j \in 1 .. Len(f) : new[j] = f[j]
        /\ new[Len(f) + 1] = cell
    BY <1>3, <2>1, AppendProperties
  <2>4. \A i \in 1 .. (pos + 1) : new[i] = cells[i]
    <3>1. TAKE i \in 1 .. (pos + 1)
    <3>3. CASE i = pos + 1 BY <1>1, <2>2, <2>3, <3>3
    <3>4. CASE i # pos + 1
      <4>1. i \in 1 .. pos BY <3>4
      <4>2. QED BY <1>5, <2>2, <2>3, <4>1
    <3>5. QED BY <3>3, <3>4
  <2>5. pos + 1 <= Len(new) /\ pos + 1 <= Len(cells) BY <1>2, <2>2, <2>3
  <2>6. QED BY <1>1, <1>4, <2>2, <2>3, <2>4, <2>5 DEF Starts
<1>8. QED BY <1>6, <1>7

\* A file that starts with the whole of a save has it, cell by cell.
LEMMA WholeStart ==
    ASSUME NEW K, NEW f \in Seq(K), NEW cells \in Seq(K), Starts(f, Len(cells), cells)
    PROVE  /\ SubSeq(f, 1, Len(cells)) = cells /\ Follows(f, 0, cells)
           /\ Len(f) = Len(cells) => f = cells
<1>1. Len(f) \in Nat /\ DOMAIN f = 1 .. Len(f) /\ Len(cells) \in Nat OBVIOUS
<1>2. Len(cells) <= Len(f) /\ \A i \in 1 .. Len(cells) : f[i] = cells[i] BY DEF Starts
<1>3. Follows(f, 0, cells)
  <2>1. ASSUME NEW i \in 1 .. Len(cells) PROVE 0 + i \in DOMAIN f /\ f[0 + i] = cells[i]
    <3>1. 0 + i = i /\ i \in 1 .. Len(f) BY <1>1, <1>2
    <3>2. QED BY <1>1, <1>2, <3>1
  <2>2. QED BY <2>1 DEF Follows
<1>4. PICK n \in Nat : n = Len(cells) BY <1>1
<1>5. PICK sub : sub = SubSeq(f, 1, n) OBVIOUS
<1>6. sub \in Seq(K) /\ Len(sub) = n /\ \A i \in 1 .. n : sub[i] = f[i]
  <2>1. n <= Len(f) BY <1>2, <1>4
  <2>2. QED BY <1>1, <1>5, <2>1
<1>7. sub = cells BY <1>2, <1>4, <1>6, SeqEqual
<1>8. Len(f) = Len(cells) => f = cells BY <1>2, SeqEqual
<1>9. QED BY <1>3, <1>4, <1>5, <1>7, <1>8

LEMMA FirstCells ==
    ASSUME NEW K, NEW f \in Seq(K), NEW n \in Nat, n <= Len(f)
    PROVE  SubSeq(f, 1, n) \in Seq(K)
  OBVIOUS

LEMMA SuitsLater ==
    ASSUME NEW saves, NEW next \in Nat, NEW protected, Suits(saves, next, protected),
           NEW later \in Nat, later >= next, NEW less, less \subseteq protected
    PROVE  Suits(saves, later, less)
<1>1. later .. MaxSaves \subseteq next .. MaxSaves BY SavesAssumption
<1>2. QED BY <1>1 DEF Suits

\* One more save
Adds(new, saves, h, content) ==
  /\ DOMAIN new = DOMAIN saves \cup {h.master_seed}
  /\ new[h.master_seed].header = h /\ new[h.master_seed].content = content
  /\ \A seed \in DOMAIN saves : new[seed] = saves[seed]

LEMMA SuitsNext ==
    ASSUME NEW saves, NEW next \in Nat, NEW protected, Suits(saves, next, protected), next < MaxSaves,
           NEW h, IsMainHeader(h), IsKept(h), h.master_seed = next,
           NEW content, IsContent(content), protected \subseteq content
    PROVE  \E new : /\ Suits(new, next + 1, protected) /\ Adds(new, saves, h, content)
                    /\ next \notin DOMAIN saves
                    /\ KnownCells(saves) \subseteq KnownCells(new)
                    /\ write(h, content) \in Seq(KnownCells(new))
<1>1. next \in next .. MaxSaves /\ next \notin (next + 1) .. MaxSaves BY SavesAssumption
<1>2. AreSaves(saves) /\ next \notin DOMAIN saves BY <1>1 DEF Suits
<1>3. PICK new : new = WithSave(saves, h, content) OBVIOUS
<1>4. /\ AreSaves(new) /\ KnownCells(saves) \subseteq KnownCells(new)
      /\ write(h, content) \in Seq(KnownCells(new))
  BY <1>2, <1>3, OneMoreSave
<1>5. Suits(saves, next + 1, protected)
  <2>1. next + 1 \in Nat /\ next + 1 >= next OBVIOUS
  <2>2. QED BY <2>1, SuitsLater
<1>6. /\ DOMAIN new = DOMAIN saves \cup {next}
      /\ new[next].header = h /\ new[next].content = content
      /\ \A seed \in DOMAIN saves : new[seed] = saves[seed]
  BY <1>2, <1>3 DEF WithSave
<1>7. Suits(new, next + 1, protected) BY <1>1, <1>4, <1>5, <1>6 DEF Suits
<1>8. Adds(new, saves, h, content) BY <1>6 DEF Adds
<1>9. QED BY <1>2, <1>4, <1>7, <1>8

\* No save so far, and one
Has(saves, h, content) == h.master_seed \in DOMAIN saves /\ saves[h.master_seed].content = content
LEMMA FirstSave ==
    ASSUME NEW next \in Nat, NEW h, IsMainHeader(h), IsKept(h), h.master_seed \notin next .. MaxSaves,
           NEW content, IsContent(content), NEW protected, protected \subseteq content
    PROVE  \E new : /\ Suits(new, next, protected) /\ write(h, content) \in Seq(KnownCells(new))
                    /\ Has(new, h, content)
<1>1. PICK none : none = [seed \in {} |-> 0] OBVIOUS
<1>2. DOMAIN none = {} BY <1>1
<1>3. AreSaves(none) BY <1>2 DEF AreSaves
<1>4. PICK new : new = WithSave(none, h, content) OBVIOUS
<1>5. AreSaves(new) /\ write(h, content) \in Seq(KnownCells(new)) BY <1>2, <1>3, <1>4, OneMoreSave
<1>6. /\ DOMAIN new = {h.master_seed}
      /\ new[h.master_seed].header = h /\ new[h.master_seed].content = content
  BY <1>2, <1>4 DEF WithSave
<1>7. Suits(new, next, protected) BY <1>5, <1>6 DEF Suits
<1>8. Has(new, h, content) BY <1>6 DEF Has
<1>9. QED BY <1>5, <1>7, <1>8

\* A step that writes only cells of known saves
LEMMA SavesStay ==
    ASSUME TypeOK, NEW saves, SavesOK(saves), fresh' = fresh, backed' \subseteq backed,
           files' \in [Files -> Seq(KnownCells(saves))],
           op'.at = "write" => op'.cells \in Seq(KnownCells(saves)),
           ChecksumCells >= 2 => Covered(saves)'
    PROVE  \E new : SavesOK(new)'
<1>1. Suits(saves, fresh, backed) /\ fresh \in Nat BY DEF SavesOK, TypeOK
<1>2. Suits(saves, fresh, backed') BY <1>1, SuitsLater
<1>3. Suits(saves, fresh', backed') BY <1>2
<1>4. SavesOK(saves)' BY <1>3 DEF SavesOK
<1>5. QED BY <1>4

-----------------------------------------------------------------------------
(* What is covered *)

LEMMA SameHeader ==
    ASSUME NEW h, IsMainHeader(h), NEW g, IsMainHeader(g), Header(write_bytes(h)) = Header(write_bytes(g))
    PROVE  h = g
<1>1. PICK f : f = [i \in {2} |-> Header(write_bytes(h))] OBVIOUS
<1>2. f[2] = Header(write_bytes(h)) BY <1>1
<1>3. read_header(f) = h /\ read_header(f) = g BY <1>2, HeaderReadsBack
<1>4. QED BY <1>3

\* The header of a save covers the file, if its content is covered.
LEMMA OwnHeader ==
    ASSUME NEW saves, AreSaves(saves), NEW h, IsMainHeader(h), h.master_seed \in DOMAIN saves, NEW edits,
           saves[h.master_seed].content \subseteq edits, NEW f, 2 \in DOMAIN f => f[2] = Header(write_bytes(h))
    PROVE  Covers(edits, f, saves)
<1>1. ASSUME NEW seed \in DOMAIN saves, Header(write_bytes(h)) = Header(write_bytes(saves[seed].header))
      PROVE  seed = h.master_seed
  <2>1. IsMainHeader(saves[seed].header) /\ saves[seed].header.master_seed = seed BY DEF AreSaves
  <2>2. saves[seed].header = h BY <1>1, <2>1, SameHeader
  <2>3. QED BY <2>1, <2>2
<1>2. SUFFICES ASSUME 2 \in DOMAIN f, NEW seed \in DOMAIN saves, f[2] = Header(write_bytes(saves[seed].header))
               PROVE  saves[seed].content \subseteq edits
  BY DEF Covers
<1>3. Header(write_bytes(h)) = Header(write_bytes(saves[seed].header)) BY <1>2
<1>4. seed = h.master_seed BY <1>1, <1>3
<1>5. QED BY <1>4

\* Another save: its content is covered, or the file cannot have its header yet.
LEMMA CoversNext ==
    ASSUME NEW saves, AreSaves(saves), NEW new, NEW h, IsMainHeader(h), NEW content, Adds(new, saves, h, content),
           h.master_seed \notin DOMAIN saves, NEW edits, NEW f, Covers(edits, f, saves),
           content \subseteq edits \/ f \in Seq(KnownCells(saves))
    PROVE  Covers(edits, f, new)
<1>1. /\ DOMAIN new = DOMAIN saves \cup {h.master_seed}
      /\ new[h.master_seed].header = h /\ new[h.master_seed].content = content
      /\ \A seed \in DOMAIN saves : new[seed] = saves[seed]
  BY DEF Adds
<1>2. ASSUME 2 \in DOMAIN f, f[2] = Header(write_bytes(h)), ~(content \subseteq edits) PROVE FALSE
  <2>0. PICK cell : cell = f[2] OBVIOUS
  <2>1. cell \in KnownCells(saves) BY <1>2, <2>0, KnownSized
  <2>2. cell.kind = "header" BY <1>2, <2>0 DEF Header
  <2>3. PICK seed \in DOMAIN saves : cell = Header(write_bytes(saves[seed].header)) BY <2>1, <2>2, KnownKinds
  <2>4. IsMainHeader(saves[seed].header) /\ saves[seed].header.master_seed = seed BY DEF AreSaves
  <2>5. saves[seed].header = h BY <1>2, <2>0, <2>3, <2>4, SameHeader
  <2>6. QED BY <2>4, <2>5
<1>3. QED BY <1>1, <1>2 DEF Covers

LEMMA CoversMore ==
    ASSUME NEW saves, NEW f, NEW edits, Covers(edits, f, saves), NEW more, edits \subseteq more
    PROVE  Covers(more, f, saves)
BY DEF Covers

\* The checksum is long enough to cover what the file does.
LEMMA ChecksumCovers ==
    ASSUME NEW K, NEW f \in Seq(K)
    PROVE  /\ Checksum(f) \in Seq(K)
           /\ ChecksumCells >= 2 =>
                \A edits : \A saves : Covers(edits, Checksum(f), saves) <=> Covers(edits, f, saves)
<1>1. PICK n : n = IF Len(f) < ChecksumCells THEN Len(f) ELSE ChecksumCells OBVIOUS
<1>2. Len(f) \in Nat /\ ChecksumCells \in Nat BY StreamAssumption
<1>3. n \in Nat /\ n <= Len(f) /\ (ChecksumCells >= 2 => (n >= 2 <=> Len(f) >= 2)) BY <1>1, <1>2
<1>4. PICK sum : sum = SubSeq(f, 1, n) OBVIOUS
<1>5. sum = Checksum(f) BY <1>1, <1>4 DEF Checksum
<1>6. sum \in Seq(K) /\ Len(sum) = n /\ \A i \in 1 .. n : sum[i] = f[i]
  <2>1. sum \in Seq(K) /\ Len(sum) = n BY <1>3, <1>4
  <2>2. \A i \in 1 .. n : sum[i] = f[i] BY <1>3, <1>4
  <2>3. QED BY <2>1, <2>2
<1>7. DOMAIN sum = 1 .. n /\ DOMAIN f = 1 .. Len(f) BY <1>6
<1>8. ASSUME ChecksumCells >= 2 PROVE (2 \in DOMAIN sum <=> 2 \in DOMAIN f) /\ (2 \in DOMAIN sum => sum[2] = f[2])
  <2>1. 2 \in 1 .. n <=> 2 \in 1 .. Len(f) BY <1>2, <1>3, <1>8
  <2>2. QED BY <1>6, <1>7, <2>1
<1>9. QED BY <1>5, <1>6, <1>8 DEF Covers

\* A file that reads back, with the save it has
LEMMA ReadCovered ==
    ASSUME TypeOK, NEW saves, SavesOK(saves), read(files["main"]).ok
    PROVE  LET r == read(files["main"])
           IN /\ \A edits : Covers(edits, files["main"], saves) => r.data[1].of \subseteq edits
              /\ Covers(r.data[1].of, files["main"], saves)
<1>1. PICK f : f = files["main"] OBVIOUS
<1>2. PICK r : r = read(f) OBVIOUS
<1>3. AreSaves(saves) /\ f \in Seq(KnownCells(saves)) BY <1>1 DEF SavesOK, Suits, Files
<1>4. PICK seed \in DOMAIN saves : r.header = saves[seed].header /\ r.data[1].of = saves[seed].content
  BY <1>1, <1>2, ReadKnown DEF Files
<1>5. At(f, 2, "header") /\ r.header = read_header(f) BY <1>1, <1>2 DEF read, NotRead
<1>6. 2 \in DOMAIN f /\ f[2].kind = "header" /\ f[2] \in KnownCells(saves) BY <1>3, <1>5, KnownSized DEF At
<1>7. PICK other \in DOMAIN saves : f[2] = Header(write_bytes(saves[other].header)) BY <1>3, <1>6, KnownKinds
<1>8. IsMainHeader(saves[other].header) /\ saves[other].header.master_seed = other BY <1>3 DEF AreSaves
<1>9. read_header(f) = saves[other].header BY <1>7, <1>8, HeaderReadsBack
<1>10. other = seed
  <2>1. saves[seed].header.master_seed = seed BY <1>3 DEF AreSaves
  <2>2. saves[other].header = saves[seed].header BY <1>4, <1>5, <1>9
  <2>3. QED BY <1>8, <2>1, <2>2
<1>11. \A edits : Covers(edits, f, saves) => saves[seed].content \subseteq edits BY <1>6, <1>7, <1>10 DEF Covers
<1>12. Covers(saves[other].content, f, saves) BY <1>3, <1>7, <1>8, OwnHeader
<1>13. QED BY <1>1, <1>2, <1>4, <1>10, <1>11, <1>12

\* The first cells of a save cover a file that has its header.
LEMMA OwnStart ==
    ASSUME NEW saves, AreSaves(saves), NEW h, IsMainHeader(h), h.master_seed \in DOMAIN saves,
           NEW content, IsContent(content), saves[h.master_seed].content = content, NEW edits, content \subseteq edits,
           NEW K, NEW f \in Seq(K), NEW n \in Nat, Starts(f, n, write(h, content)), n >= 2 \/ Len(f) <= n
    PROVE  Covers(edits, f, saves)
<1>1. PICK w : w = write(h, content) OBVIOUS
<1>2. SizeOf(content) \in Nat BY SavesAssumption DEF IsContent
<1>3. w[2] = Header(write_bytes(h)) BY <1>1, <1>2, CellsWritten
<1>4. \A i \in 1 .. n : f[i] = w[i] BY <1>1 DEF Starts
<1>5. ASSUME 2 \in DOMAIN f PROVE f[2] = Header(write_bytes(h))
  <2>1. Len(f) \in Nat /\ DOMAIN f = 1 .. Len(f) OBVIOUS
  <2>2. 2 \in 1 .. n BY <1>5, <2>1
  <2>3. QED BY <1>3, <1>4, <2>2
<1>6. QED BY <1>5, OwnHeader

\* So do the first cells of the save in progress.
LEMMA SavedCovers ==
    ASSUME SavesInv, NEW saves, SavesOK(saves), ChecksumCells >= 2, op.at \in {"write", "copy"}, NEW K,
           NEW f \in Seq(K), NEW n \in Nat, Starts(f, n, write(mem.header, mem.edits)), n >= 2 \/ Len(f) <= n
    PROVE  Covers(mem.edits, f, saves) /\ Covers(Known, f, saves) /\ Covers(Seen, f, saves)
<1>1. op # Idle BY DEF Idle
<1>2. mem # Closed BY <1>1 DEF SavesInv, OpOK
<1>3. IsMainHeader(mem.header) /\ IsContent(mem.edits) BY <1>2 DEF SavesInv, MemOK
<1>4. AreSaves(saves) BY DEF SavesOK, Suits
<1>5. mem.header.master_seed \in DOMAIN saves /\ saves[mem.header.master_seed].content = mem.edits
  BY DEF SavesOK, Covered
<1>6. mem.edits \subseteq Known /\ Known \subseteq Seen BY DEF Known, Seen
<1>7. PICK edits : edits = mem.edits OBVIOUS
<1>8. edits \subseteq edits OBVIOUS
<1>9. Covers(edits, f, saves) BY <1>3, <1>4, <1>5, <1>7, <1>8, OwnStart
<1>10. Covers(Known, f, saves) BY <1>6, <1>7, <1>9, CoversMore
<1>11. Covers(Seen, f, saves) BY <1>6, <1>10, CoversMore
<1>12. QED BY <1>7, <1>9, <1>10, <1>11

LEMMA StartsItself == ASSUME NEW K, NEW f \in Seq(K) PROVE Len(f) \in Nat /\ Starts(f, Len(f), f)
<1>1. Len(f) \in Nat OBVIOUS
<1>2. QED BY <1>1 DEF Starts

\* A database file whose checksum was verified is covered.
LEMMA VerifiedCovers ==
    ASSUME NEW saves, SavesOK(saves), ChecksumCells >= 2, mem # Closed, Checksum(files["main"]) = mem.checksum
    PROVE  Covers(Known, files["main"], saves) /\ Covers(Seen, files["main"], saves)
<1>1. PICK K : K = KnownCells(saves) OBVIOUS
<1>2. files["main"] \in Seq(K) BY <1>1 DEF SavesOK, Files
<1>3. Covers(Known, mem.checksum, saves) BY DEF SavesOK, Covered
<1>4. PICK edits : edits = Known OBVIOUS
<1>5. Covers(edits, files["main"], saves) BY <1>2, <1>3, <1>4, ChecksumCovers
<1>6. Known \subseteq Seen BY DEF Seen
<1>7. QED BY <1>4, <1>5, <1>6, CoversMore

\* A step of the save in progress that leaves memory alone
LEMMA CoveredStays ==
    ASSUME NEW saves, ChecksumCells >= 2 => Covered(saves), mem' = mem,
           window' = window, adopted' = adopted,
           op'.at \in {"write", "copy"} => op.at \in {"write", "copy"},
           ChecksumCells >= 2 /\ MainIsCovered' => Covers(Seen, files'["main"], saves)
    PROVE  ChecksumCells >= 2 => Covered(saves)'
BY DEF Covered, Known, Seen

\* The first cell of a file is not its header.
LEMMA FirstCell ==
    ASSUME NEW K, NEW f \in Seq(K), NEW cell \in K
    PROVE  2 \in DOMAIN Put(f, 1, cell) => 2 \in DOMAIN f /\ Put(f, 1, cell)[2] = f[2]
<1>1. PICK new : new = Put(f, 1, cell) OBVIOUS
<1>2. Len(f) \in Nat OBVIOUS
<1>3. CASE 1 <= Len(f)
  <2>1. new = [f EXCEPT ![1] = cell] BY <1>1, <1>3 DEF Put
  <2>2. 1 \in 1 .. Len(f) BY <1>2, <1>3
  <2>3. /\ new \in Seq(K) /\ Len(new) = Len(f)
        /\ \A j \in 1 .. Len(f) : new[j] = IF j = 1 THEN cell ELSE f[j]
    BY <2>1, <2>2, ExceptSeq
  <2>4. DOMAIN new = 1 .. Len(f) /\ DOMAIN f = 1 .. Len(f) BY <2>3
  <2>5. QED BY <1>1, <2>3, <2>4
<1>4. CASE ~(1 <= Len(f))
  <2>1. new = Append(f, cell) BY <1>1, <1>4 DEF Put
  <2>2. new \in Seq(K) /\ Len(new) = Len(f) + 1 BY <2>1, AppendProperties
  <2>3. DOMAIN new = 1 .. 1 BY <1>2, <1>4, <2>2
  <2>4. QED BY <1>1, <2>3
<1>5. QED BY <1>3, <1>4

\* A step that ends what goes on, or leaves nothing going on
LEMMA QuietCovered ==
    ASSUME NEW saves, ChecksumCells >= 2 => Covered(saves), op' = Idle,
           (mem' = mem /\ adopted' = adopted) \/ mem' = Closed
    PROVE  ChecksumCells >= 2 => Covered(saves)'
<1>1. op'.at = "idle" BY DEF Idle
<1>2. ~MainIsCovered' BY <1>1 DEF MainIsCovered
<1>3. QED BY <1>1, <1>2 DEF Covered, Known

-----------------------------------------------------------------------------
(* One step *)

LEMMA InitSaves == ASSUME Init PROVE SavesInv
<1>2. PICK h \in ForeignHeaders : files = [main |-> write(h, {0}), backup |-> <<>>] BY DEF Init
<1>3. /\ synced = Files /\ mem = Closed /\ op = Idle
      /\ fresh = 1 /\ made = 0 /\ backed = {}
  BY DEF Init
<1>4. IsMainHeader(h) /\ IsKept(h) /\ h.master_seed \notin 1 .. MaxSaves BY SavesAssumption DEF IsKept
<1>5. IsContent({0}) /\ IsContent({}) BY SavesAssumption DEF IsContent
<1>6. PICK saves : Suits(saves, 1, {}) /\ write(h, {0}) \in Seq(KnownCells(saves))
  BY <1>4, <1>5, FirstSave
<1>7. SavesOK(saves)
  <2>1. files \in [Files -> Seq(KnownCells(saves))]
    <3>1. PICK K : K = Seq(KnownCells(saves)) OBVIOUS
    <3>2. PICK w : w = write(h, {0}) OBVIOUS
    <3>3. <<>> \in K /\ w \in K BY <1>6, <3>1, <3>2
    <3>4. files = [main |-> w, backup |-> <<>>] BY <1>2, <3>2
    <3>5. files \in [Files -> K] BY <3>3, <3>4 DEF Files
    <3>6. QED BY <3>1, <3>5
  <2>2. op.at = "idle" BY <1>3 DEF Idle
  <2>3. Covered(saves) BY <1>3, <2>2 DEF Covered, MainIsCovered
  <2>4. QED BY <1>3, <1>6, <2>1, <2>2, <2>3 DEF SavesOK
<1>8. TypeOK BY <1>3, <1>5, SavesAssumption DEF TypeOK
<1>9. MemOK /\ OpOK BY <1>3 DEF MemOK, OpOK
<1>10. QED BY <1>7, <1>8, <1>9 DEF SavesInv

LEMMA OpenSaves == ASSUME SavesInv, Open PROVE SavesInv'
<1>2. TypeOK BY DEF SavesInv
<1>3. PICK saves : SavesOK(saves) BY DEF SavesInv
<1>4. PICK r : r = read(files["main"]) OBVIOUS
<1>5. /\ mem = Closed /\ op = Idle /\ r.ok
      /\ mem' = [open |-> TRUE, edits |-> r.data[1].of, header |-> r.header, checksum |-> Checksum(files["main"])]
      /\ UNCHANGED <<files, synced, op, fresh, made, window, backed>>
  BY <1>4 DEF Open
<1>6. /\ IsMainHeader(r.header) /\ IsKept(r.header) /\ r.header.master_seed \notin fresh .. MaxSaves
      /\ IsContent(r.data[1].of) /\ backed \subseteq r.data[1].of
  BY <1>2, <1>3, <1>4, <1>5, ReadKnown DEF Files
<1>7. TypeOK' BY <1>2, <1>5 DEF TypeOK
<1>8. MemOK' BY <1>5, <1>6 DEF MemOK
<1>9. OpOK' BY <1>5 DEF OpOK
<1>10. \E new : SavesOK(new)'
  <2>1. files' \in [Files -> Seq(KnownCells(saves))] BY <1>3, <1>5 DEF SavesOK
  <2>2. op'.at # "write" BY <1>5 DEF Idle
  <2>3. ASSUME ChecksumCells >= 2 PROVE Covered(saves)'
    <3>1. PICK edits : edits = r.data[1].of OBVIOUS
    <3>2. PICK sum : sum = Checksum(files["main"]) OBVIOUS
    <3>3. mem'.edits = edits /\ mem'.checksum = sum /\ op'.at = "idle" BY <1>5, <3>1, <3>2 DEF Idle
    <3>4. PICK K : K = KnownCells(saves) OBVIOUS
    <3>5. files["main"] \in Seq(K) BY <1>3, <3>4 DEF SavesOK, Files
    <3>6. Covers(edits, files["main"], saves) BY <1>2, <1>3, <1>4, <1>5, <3>1, ReadCovered
    <3>7. sum \in Seq(K) /\ Covers(edits, sum, saves) BY <2>3, <3>2, <3>5, <3>6, ChecksumCovers
    <3>8. Covers(Known', sum, saves)
      <4>1. edits \subseteq Known' BY <3>3 DEF Known
      <4>2. QED BY <3>7, <4>1, CoversMore
    <3>9. QED BY <3>3, <3>4, <3>7, <3>8 DEF Covered, MainIsCovered
  <2>4. QED BY <1>2, <1>3, <1>5, <2>1, <2>2, <2>3, SavesStay
<1>11. QED BY <1>7, <1>8, <1>9, <1>10 DEF SavesInv

LEMMA EditSaves == ASSUME SavesInv, Edit PROVE SavesInv'
<1>2. TypeOK /\ MemOK /\ OpOK BY DEF SavesInv
<1>3. PICK saves : SavesOK(saves) BY DEF SavesInv
<1>4. /\ mem.open /\ op.at \in {"idle", "written"} /\ made < MaxEdits /\ made' = made + 1
      /\ mem' = [mem EXCEPT !.edits = @ \cup {made + 1}]
      /\ UNCHANGED <<files, synced, op, fresh, window, adopted, backed>>
  BY DEF Edit
<1>5. mem # Closed BY <1>4 DEF Closed
<1>6. /\ mem = [open |-> TRUE, edits |-> mem.edits, header |-> mem.header, checksum |-> mem.checksum]
      /\ IsMainHeader(mem.header) /\ IsKept(mem.header) /\ mem.header.master_seed \notin fresh .. MaxSaves
      /\ IsContent(mem.edits) /\ backed \subseteq mem.edits
  BY <1>2, <1>5 DEF MemOK
<1>7. made \in 0 .. MaxEdits /\ MaxEdits \in Nat BY <1>2, SavesAssumption DEF TypeOK
<1>8. IsContent(mem.edits \cup {made + 1}) /\ made' \in 0 .. MaxEdits BY <1>4, <1>6, <1>7 DEF IsContent
<1>9. PICK edits : edits = mem.edits \cup {made + 1} OBVIOUS
<1>10. mem' = [open |-> TRUE, edits |-> edits, header |-> mem.header, checksum |-> mem.checksum]
  BY <1>4, <1>6, <1>9
<1>11. IsContent(edits) /\ backed \subseteq edits BY <1>6, <1>8, <1>9
<1>12. TypeOK' BY <1>2, <1>4, <1>8 DEF TypeOK
<1>13. MemOK'
  <2>1. fresh' = fresh /\ backed' = backed BY <1>4
  <2>2. mem'.edits = edits /\ mem'.header = mem.header /\ mem'.checksum = mem.checksum BY <1>10
  <2>3. QED BY <1>6, <1>10, <1>11, <2>1, <2>2 DEF MemOK
<1>14. OpOK'
  <2>1. mem' # Closed
    <3>1. mem'.open = TRUE BY <1>10
    <3>2. QED BY <3>1 DEF Closed
  <2>2. CASE op = Idle BY <1>4, <2>2 DEF OpOK
  <2>3. CASE op # Idle
    <3>1. op.at = "written" BY <1>2, <1>4, <2>3 DEF OpOK
    <3>2. QED BY <1>2, <1>4, <2>1, <2>3, <3>1 DEF OpOK
  <2>4. QED BY <2>2, <2>3
<1>15. \E new : SavesOK(new)'
  <2>1. files' \in [Files -> Seq(KnownCells(saves))] BY <1>3, <1>4 DEF SavesOK
  <2>2. op'.at # "write" BY <1>4
  <2>3. ASSUME ChecksumCells >= 2 PROVE Covered(saves)'
    <3>1. Covered(saves) BY <1>3, <2>3 DEF SavesOK
    <3>2. mem'.checksum = mem.checksum /\ mem'.edits = edits BY <1>10
    <3>3. op' = op /\ files' = files BY <1>4
    <3>4. Known \subseteq Known' /\ Seen \subseteq Seen' BY <1>4, <1>9, <3>2 DEF Known, Seen
    <3>5. /\ mem'.checksum \in Seq(KnownCells(saves))
          /\ Covers(Known', mem'.checksum, saves)
      <4>1. mem.checksum \in Seq(KnownCells(saves)) /\ Covers(Known, mem.checksum, saves)
        BY <1>5, <3>1 DEF Covered
      <4>2. Covers(Known', mem.checksum, saves) BY <3>4, <4>1, CoversMore
      <4>3. QED BY <3>2, <4>1, <4>2
    <3>6. ASSUME MainIsCovered' PROVE Covers(Seen', files'["main"], saves)
      <4>1. MainIsCovered BY <3>3, <3>6 DEF MainIsCovered
      <4>2. Covers(Seen, files["main"], saves) BY <3>1, <4>1 DEF Covered
      <4>3. Covers(Seen', files["main"], saves) BY <3>4, <4>2, CoversMore
      <4>4. QED BY <3>3, <4>3
    <3>7. op'.at \notin {"write", "copy"} BY <1>4
    <3>8. QED BY <3>5, <3>6, <3>7 DEF Covered
  <2>4. QED BY <1>2, <1>3, <1>4, <2>1, <2>2, <2>3, SavesStay
<1>16. QED BY <1>12, <1>13, <1>14, <1>15 DEF SavesInv

LEMMA NothingYet == ASSUME NEW K, NEW f \in Seq(K), NEW cells \in Seq(K) PROVE Starts(f, 0, cells)
<1>1. Len(f) \in Nat /\ Len(cells) \in Nat OBVIOUS
<1>2. 1 .. 0 = {} OBVIOUS
<1>3. QED BY <1>1, <1>2 DEF Starts

\* The three saves begin alike.
Begins(path, file, overwrite) ==
  /\ path \in {"backup", "in place", "writer"} /\ file \in Files /\ overwrite \in BOOLEAN
  /\ path = "backup" <=> file = "backup"
  /\ Begin(path, file, overwrite)
  /\ file = "main" /\ ~overwrite => Checksum(files["main"]) = mem.checksum
  /\ backed' \subseteq backed /\ made' = made /\ adopted' = adopted /\ synced' \subseteq Files
BeginsFiles(file) ==
  \A saves : SavesOK(saves) =>
    /\ files' \in [Files -> Seq(KnownCells(saves))]
    /\ file = "backup" => Len(files'["backup"]) = 0
    /\ file = "main" => files'["main"] \in {files["main"], <<>>}
LEMMA BeginSaves ==
    ASSUME SavesInv, NEW path, NEW file, NEW overwrite, Begins(path, file, overwrite), BeginsFiles(file)
    PROVE  SavesInv'
<1>1. TypeOK /\ MemOK BY DEF SavesInv
<1>2. PICK saves : SavesOK(saves) BY DEF SavesInv
<1>3. PICK h : h = reset_random_values(mem.header, fresh) OBVIOUS
<1>4. PICK cells : cells = write(h, mem.edits) OBVIOUS
<1>5. /\ mem.open /\ fresh < MaxSaves /\ fresh' = fresh + 1
      /\ op' = [at |-> "write", path |-> path, file |-> file, pos |-> 0, overwrite |-> overwrite, cells |-> cells]
      /\ mem' = [mem EXCEPT !.header = h]
  BY <1>3, <1>4 DEF Begins, Begin
<1>6. mem # Closed BY <1>5 DEF Closed
<1>7. /\ mem = [open |-> TRUE, edits |-> mem.edits, header |-> mem.header, checksum |-> mem.checksum]
      /\ IsMainHeader(mem.header) /\ IsKept(mem.header)
      /\ IsContent(mem.edits) /\ backed \subseteq mem.edits
  BY <1>1, <1>6 DEF MemOK
<1>8. mem' = [open |-> TRUE, edits |-> mem.edits, header |-> h, checksum |-> mem.checksum] BY <1>5, <1>7
<1>9. mem'.open = TRUE /\ mem'.edits = mem.edits /\ mem'.header = h /\ mem'.checksum = mem.checksum BY <1>8
<1>10. IsMainHeader(h) /\ IsKept(h) /\ h.master_seed = fresh BY <1>3, <1>7, ResetHeader
<1>11. fresh \in Nat \ {0} /\ MaxSaves \in Nat BY <1>1, SavesAssumption DEF TypeOK
<1>12. Suits(saves, fresh, backed) BY <1>2 DEF SavesOK
<1>13. PICK new : /\ Suits(new, fresh + 1, backed) /\ Adds(new, saves, h, mem.edits)
                  /\ fresh \notin DOMAIN saves
                  /\ KnownCells(saves) \subseteq KnownCells(new)
                  /\ cells \in Seq(KnownCells(new))
  BY <1>4, <1>5, <1>7, <1>10, <1>11, <1>12, SuitsNext
<1>14. files' \in [Files -> Seq(KnownCells(new))]
  <2>1. files' \in [Files -> Seq(KnownCells(saves))] BY <1>2 DEF BeginsFiles
  <2>2. Seq(KnownCells(saves)) \subseteq Seq(KnownCells(new)) BY <1>13, SeqMonotonic
  <2>3. QED BY <2>1, <2>2
<1>15. Suits(new, fresh', backed')
  <2>1. fresh + 1 \in Nat BY <1>11
  <2>2. backed' \subseteq backed BY DEF Begins
  <2>5. fresh + 1 >= fresh + 1 BY <1>11
  <2>4. Suits(new, fresh + 1, backed') BY <1>13, <2>1, <2>2, <2>5, SuitsLater
  <2>3. QED BY <1>5, <2>4
<1>16. SavesOK(new)'
  <2>1. op'.cells = cells BY <1>5
  <2>2. ASSUME ChecksumCells >= 2 PROVE Covered(new)'
    <3>1. AreSaves(saves) BY <1>12 DEF Suits
    <3>2. PICK edits : edits = Known OBVIOUS
    <3>3. mem.edits \subseteq edits /\ Known' = edits /\ edits \subseteq Seen'
      BY <1>9, <3>2 DEF Begins, Known, Seen
    <3>4. mem.checksum \in Seq(KnownCells(saves)) /\ Covers(edits, mem.checksum, saves)
      BY <1>2, <1>6, <2>2, <3>2 DEF SavesOK, Covered
    <3>5. mem.checksum \in Seq(KnownCells(new))
      <4>1. Seq(KnownCells(saves)) \subseteq Seq(KnownCells(new)) BY <1>13, SeqMonotonic
      <4>2. QED BY <3>4, <4>1
    <3>6. \A f : Covers(edits, f, saves) => Covers(edits, f, new)
      <4>1. TAKE f
      <4>2. HAVE Covers(edits, f, saves)
      <4>3. QED BY <1>10, <1>13, <3>1, <3>3, <4>2, CoversNext
    <3>7. Covers(edits, mem.checksum, new) BY <3>4, <3>6
    <3>8. mem'.header.master_seed \in DOMAIN new /\ new[mem'.header.master_seed].content = mem'.edits
      <4>1. h.master_seed \in DOMAIN new /\ new[h.master_seed].content = mem.edits BY <1>13 DEF Adds
      <4>2. QED BY <1>9, <4>1
    <3>9. ASSUME MainIsCovered' PROVE Covers(Seen', files'["main"], new)
      <4>1. file = "main" /\ ~overwrite BY <1>5, <3>9 DEF MainIsCovered
      <4>2. Checksum(files["main"]) = mem.checksum BY <4>1 DEF Begins
      <4>3. Covers(edits, files["main"], saves) BY <1>2, <1>6, <2>2, <3>2, <4>2, VerifiedCovers
      <4>4. Covers(edits, <<>>, saves) BY DEF Covers
      <4>5. files'["main"] \in {files["main"], <<>>} BY <1>2, <4>1 DEF BeginsFiles
      <4>6. Covers(edits, files'["main"], saves) BY <4>3, <4>4, <4>5
      <4>7. Covers(edits, files'["main"], new) BY <3>6, <4>6
      <4>8. QED BY <3>3, <4>7, CoversMore
    <3>10. QED BY <1>9, <3>3, <3>5, <3>7, <3>8, <3>9 DEF Covered
  <2>3. QED BY <1>13, <1>14, <1>15, <2>1, <2>2 DEF SavesOK
<1>17. TypeOK'
  <2>1. IsContent(backed') BY <1>1 DEF Begins, TypeOK, IsContent
  <2>2. fresh' \in Nat \ {0} BY <1>5, <1>11
  <2>3. QED BY <1>1, <2>1, <2>2 DEF Begins, TypeOK
<1>18. MemOK'
  <2>1. fresh \notin fresh' .. MaxSaves BY <1>5, <1>11
  <2>2. backed' \subseteq mem.edits BY <1>7 DEF Begins
  <2>3. QED BY <1>7, <1>8, <1>9, <1>10, <2>1, <2>2 DEF MemOK
<1>19. OpOK'
  <2>1. mem' # Closed BY <1>9 DEF Closed
  <2>2. files'[file] \in Seq(KnownCells(new)) BY <1>14 DEF Begins
  <2>3. Starts(files'[file], 0, cells) BY <1>13, <2>2, NothingYet
  <2>4. op'.at = "write" /\ op'.path = path /\ op'.file = file /\ op'.pos = 0 /\ op'.overwrite = overwrite
        /\ op'.cells = cells
    BY <1>5
  <2>5. cells = write(mem'.header, mem'.edits) BY <1>4, <1>9
  <2>6. file = "backup" => Len(files'["backup"]) = 0 BY <1>2 DEF BeginsFiles
  <2>7. /\ path \in {"backup", "in place", "writer"} /\ file \in Files /\ overwrite \in BOOLEAN
        /\ path = "backup" <=> file = "backup"
    BY DEF Begins
  <2>8. QED BY <1>5, <2>1, <2>3, <2>4, <2>5, <2>6, <2>7 DEF OpOK
<1>20. QED BY <1>16, <1>17, <1>18, <1>19 DEF SavesInv

LEMMA BeginBackupSaves == ASSUME SavesInv, BeginBackup PROVE SavesInv'
<1>1. PICK overwrite \in BOOLEAN : Begin("backup", "backup", overwrite) BY DEF BeginBackup
<1>2. /\ files' = [files EXCEPT !["backup"] = <<>>] /\ synced' = synced \ {"backup"}
      /\ made' = made /\ adopted' = adopted /\ backed' = backed
  BY DEF BeginBackup
<1>3. synced' \subseteq Files BY <1>2 DEF SavesInv, TypeOK
<1>4. ASSUME NEW saves, SavesOK(saves)
      PROVE  files' \in [Files -> Seq(KnownCells(saves))] /\ Len(files'["backup"]) = 0
  <2>1. PICK K : K = Seq(KnownCells(saves)) OBVIOUS
  <2>2. <<>> \in K BY <2>1
  <2>3. files \in [Files -> K] BY <1>4, <2>1 DEF SavesOK
  <2>4. files' \in [Files -> K] /\ files'["backup"] = <<>> BY <1>2, <2>2, <2>3 DEF Files
  <2>5. QED BY <2>1, <2>4
<1>5. BeginsFiles("backup") BY <1>4 DEF BeginsFiles
<1>6. Begins("backup", "backup", overwrite) BY <1>1, <1>2, <1>3 DEF Begins, Files
<1>7. QED BY <1>5, <1>6, BeginSaves

LEMMA BeginInPlaceSaves == ASSUME SavesInv, BeginInPlace PROVE SavesInv'
<1>1. PICK overwrite \in BOOLEAN : verify_db_file_checksum(overwrite) /\ Begin("in place", "main", overwrite)
  BY DEF BeginInPlace
<1>2. UNCHANGED <<files, synced, made, adopted>> BY DEF BeginInPlace
<1>3. backed' \subseteq backed BY DEF BeginInPlace, PastBackup
<1>4. synced' \subseteq Files BY <1>2 DEF SavesInv, TypeOK
<1>5. BeginsFiles("main") BY <1>2 DEF BeginsFiles, SavesOK
<1>6. Begins("in place", "main", overwrite)
  BY <1>1, <1>2, <1>3, <1>4 DEF Begins, Files, verify_db_file_checksum
<1>7. QED BY <1>5, <1>6, BeginSaves

LEMMA BeginWriterSaves == ASSUME SavesInv, BeginWriter PROVE SavesInv'
<1>1. PICK overwrite \in BOOLEAN : verify_db_file_checksum(overwrite) /\ Begin("writer", "main", overwrite)
  BY DEF BeginWriter
<1>2. /\ made' = made /\ adopted' = adopted
      /\ \/ files' = [files EXCEPT !["main"] = <<>>] /\ synced' = synced \ {"main"}
         \/ UNCHANGED <<files, synced>>
  BY DEF BeginWriter
<1>3. backed' \subseteq backed BY DEF BeginWriter, PastBackup
<1>4. synced' \subseteq Files BY <1>2 DEF SavesInv, TypeOK
<1>5. ASSUME NEW saves, SavesOK(saves)
      PROVE  /\ files' \in [Files -> Seq(KnownCells(saves))]
             /\ files'["main"] \in {files["main"], <<>>}
  <2>1. PICK K : K = Seq(KnownCells(saves)) OBVIOUS
  <2>2. <<>> \in K BY <2>1
  <2>3. files \in [Files -> K] BY <1>5, <2>1 DEF SavesOK
  <2>4. files' \in [Files -> K] /\ files'["main"] \in {files["main"], <<>>} BY <1>2, <2>2, <2>3 DEF Files
  <2>5. QED BY <2>1, <2>4
<1>6. BeginsFiles("main") BY <1>5 DEF BeginsFiles
<1>7. Begins("writer", "main", overwrite)
  BY <1>1, <1>2, <1>3, <1>4 DEF Begins, Files, verify_db_file_checksum
<1>8. QED BY <1>6, <1>7, BeginSaves

LEMMA WriteSaves == ASSUME SavesInv, Write PROVE SavesInv'
<1>1. TypeOK /\ MemOK /\ OpOK BY DEF SavesInv
<1>2. PICK saves : SavesOK(saves) BY DEF SavesInv
<1>3. PICK pos : pos = op.pos OBVIOUS
<1>4. PICK cells : cells = op.cells OBVIOUS
<1>5. PICK file : file = op.file OBVIOUS
<1>6. PICK f : f = files[file] OBVIOUS
<1>7. PICK new : new = Put(f, pos + 1, cells[pos + 1]) OBVIOUS
<1>8. op.at = "write" /\ pos < Len(cells) /\ op' = [op EXCEPT !.pos = @ + 1] BY <1>3, <1>4 DEF Write
<1>9. files' = [files EXCEPT ![file] = new] BY <1>3, <1>4, <1>5, <1>6, <1>7 DEF Write
<1>10. synced' = synced \ {file} /\ UNCHANGED <<mem, fresh, made, window, adopted, backed>> BY <1>5 DEF Write
<1>11. /\ mem # Closed /\ pos \in Nat /\ file \in Files
       /\ op = [at |-> op.at, path |-> op.path, file |-> file, pos |-> pos,
                overwrite |-> op.overwrite, cells |-> cells]
       /\ op.overwrite \in BOOLEAN /\ op.path \in {"backup", "in place", "writer"}
       /\ op.path = "backup" <=> file = "backup"
  <2>1. op # Idle BY <1>8 DEF Idle
  <2>2. QED BY <1>1, <1>3, <1>4, <1>5, <2>1 DEF OpOK
<1>12. /\ cells = write(mem.header, mem.edits) /\ Starts(f, pos, cells)
       /\ file = "backup" => Len(f) = pos
  <2>1. op # Idle BY <1>8 DEF Idle
  <2>2. QED BY <1>1, <1>3, <1>4, <1>5, <1>6, <1>8, <2>1 DEF OpOK
<1>13. PICK K : K = KnownCells(saves) OBVIOUS
<1>14. files \in [Files -> Seq(K)] /\ f \in Seq(K) /\ cells \in Seq(K)
  BY <1>2, <1>4, <1>6, <1>8, <1>11, <1>13 DEF SavesOK
<1>15. new \in Seq(K) /\ Starts(new, pos + 1, cells) /\ (Len(f) = pos => Len(new) = pos + 1)
  BY <1>7, <1>8, <1>11, <1>12, <1>14, PutCell
<1>16. files' \in [Files -> Seq(K)] /\ files'[file] = new BY <1>9, <1>11, <1>14, <1>15
<1>17. op' = [at |-> "write", path |-> op.path, file |-> file, pos |-> pos + 1,
              overwrite |-> op.overwrite, cells |-> cells]
  <2>1. PICK next : next = pos + 1 OBVIOUS
  <2>2. op' = [op EXCEPT !.pos = next] /\ op.at = "write" BY <1>3, <1>8, <2>1
  <2>3. op = [at |-> op.at, path |-> op.path, file |-> file, pos |-> pos,
              overwrite |-> op.overwrite, cells |-> cells]
    BY <1>11
  <2>4. op' = [at |-> "write", path |-> op.path, file |-> file, pos |-> next,
               overwrite |-> op.overwrite, cells |-> cells]
    BY <2>2, <2>3
  <2>5. QED BY <2>1, <2>4
<1>18. /\ op'.at = "write" /\ op'.path = op.path /\ op'.file = file /\ op'.pos = pos + 1
       /\ op'.overwrite = op.overwrite /\ op'.cells = cells
  BY <1>17
<1>19. \E other : SavesOK(other)'
  <2>1. op'.at = "write" => op'.cells \in Seq(K) BY <1>14, <1>18
  <2>2. ASSUME ChecksumCells >= 2, MainIsCovered' PROVE Covers(Seen, files'["main"], saves)
    <3>1. file = "main" /\ ~op.overwrite BY <1>18, <2>2 DEF MainIsCovered
    <3>2. CASE pos = 0
      <4>1. MainIsCovered BY <1>5, <1>8, <3>1 DEF MainIsCovered
      <4>2. Covers(Seen, f, saves) BY <1>2, <1>6, <2>2, <3>1, <4>1 DEF SavesOK, Covered
      <4>3. PICK cell : cell = cells[1] OBVIOUS
      <4>4. cell \in K
        <5>1. 1 \in 1 .. Len(cells) /\ Len(cells) \in Nat BY <1>8, <1>14, <3>2
        <5>2. QED BY <1>14, <4>3, <5>1, ElementOfSeq
      <4>5. new = Put(f, 1, cell) BY <1>7, <3>2, <4>3
      <4>6. 2 \in DOMAIN new => 2 \in DOMAIN f /\ new[2] = f[2] BY <1>14, <4>4, <4>5, FirstCell
      <4>7. Covers(Seen, new, saves) BY <4>2, <4>6 DEF Covers
      <4>8. QED BY <1>16, <3>1, <4>7
    <3>3. CASE pos # 0
      <4>1. PICK next : next = pos + 1 OBVIOUS
      <4>2. next \in Nat /\ next >= 2
        <5>1. pos \in Nat BY <1>11
        <5>2. QED BY <3>3, <4>1, <5>1
      <4>3. Starts(new, next, write(mem.header, mem.edits)) /\ new \in Seq(K) BY <1>12, <1>15, <4>1
      <4>4. Covers(Seen, new, saves) BY <1>2, <1>8, <2>2, <4>2, <4>3, SavedCovers
      <4>5. QED BY <1>16, <3>1, <4>4
    <3>4. QED BY <3>2, <3>3
  <2>3. op.at \in {"write", "copy"} BY <1>8
  <2>4. ChecksumCells >= 2 => Covered(saves)' BY <1>2, <1>10, <2>2, <2>3, CoveredStays DEF SavesOK
  <2>5. QED BY <1>1, <1>2, <1>10, <1>13, <1>16, <2>1, <2>4, SavesStay
<1>20. TypeOK' BY <1>1, <1>10 DEF TypeOK
<1>21. MemOK' BY <1>1, <1>10 DEF MemOK
<1>22. OpOK'
  <2>1. mem' # Closed /\ mem'.header = mem.header /\ mem'.edits = mem.edits BY <1>10, <1>11
  <2>2. pos + 1 \in Nat
    <3>1. pos \in Nat BY <1>11
    <3>2. QED BY <3>1
  <2>3. file = "backup" => Len(files'["backup"]) = pos + 1 BY <1>12, <1>15, <1>16
  <2>4. QED BY <1>11, <1>12, <1>15, <1>16, <1>17, <1>18, <2>1, <2>2, <2>3 DEF OpOK
<1>23. QED BY <1>19, <1>20, <1>21, <1>22 DEF SavesInv

LEMMA WriteFailsSaves == ASSUME SavesInv, WriteFails PROVE SavesInv'
<1>1. TypeOK /\ MemOK BY DEF SavesInv
<1>2. PICK saves : SavesOK(saves) BY DEF SavesInv
<1>3. op' = Idle /\ UNCHANGED <<files, synced, mem, fresh, made, window, adopted, backed>> BY DEF WriteFails
<1>4. TypeOK' /\ MemOK' /\ OpOK' BY <1>1, <1>3 DEF TypeOK, MemOK, OpOK
<1>5. \E new : SavesOK(new)'
  <2>1. files' \in [Files -> Seq(KnownCells(saves))] BY <1>2, <1>3 DEF SavesOK
  <2>2. op'.at # "write" BY <1>3 DEF Idle
  <2>3. ChecksumCells >= 2 => Covered(saves)' BY <1>2, <1>3, QuietCovered DEF SavesOK
  <2>4. QED BY <1>1, <1>2, <1>3, <2>1, <2>2, <2>3, SavesStay
<1>6. QED BY <1>4, <1>5 DEF SavesInv

LEMMA CrashSaves == ASSUME SavesInv, Crash PROVE SavesInv'
<1>1. TypeOK BY DEF SavesInv
<1>2. PICK saves : SavesOK(saves) BY DEF SavesInv
<1>3. mem' = Closed /\ op' = Idle /\ UNCHANGED <<files, synced, fresh, made, window, adopted, backed>> BY DEF Crash
<1>4. TypeOK' /\ MemOK' /\ OpOK' BY <1>1, <1>3 DEF TypeOK, MemOK, OpOK
<1>5. \E new : SavesOK(new)'
  <2>1. files' \in [Files -> Seq(KnownCells(saves))] BY <1>2, <1>3 DEF SavesOK
  <2>2. op'.at # "write" BY <1>3 DEF Idle
  <2>3. ChecksumCells >= 2 => Covered(saves)' BY <1>2, <1>3, QuietCovered DEF SavesOK
  <2>4. QED BY <1>1, <1>2, <1>3, <2>1, <2>2, <2>3, SavesStay
<1>6. QED BY <1>4, <1>5 DEF SavesInv

LEMMA WriteBackSaves == ASSUME SavesInv, WriteBack PROVE SavesInv'
<1>1. TypeOK /\ MemOK BY DEF SavesInv
<1>2. PICK saves : SavesOK(saves) BY DEF SavesInv
<1>3. synced' = Files /\ op = Idle /\ UNCHANGED <<files, mem, op, fresh, made, window, adopted, backed>> BY DEF WriteBack
<1>4. TypeOK' /\ MemOK' /\ OpOK' BY <1>1, <1>3 DEF TypeOK, MemOK, OpOK
<1>5. \E new : SavesOK(new)'
  <2>1. files' \in [Files -> Seq(KnownCells(saves))] BY <1>2, <1>3 DEF SavesOK
  <2>2. op'.at # "write" BY <1>3 DEF Idle
  <2>3. ChecksumCells >= 2 => Covered(saves)' BY <1>2, <1>3, QuietCovered DEF SavesOK
  <2>4. QED BY <1>1, <1>2, <1>3, <2>1, <2>2, <2>3, SavesStay
<1>6. QED BY <1>4, <1>5 DEF SavesInv

\* Records with some of their fields changed
LEMMA SetChecksum ==
    ASSUME NEW m, m = [open |-> TRUE, edits |-> m.edits, header |-> m.header, checksum |-> m.checksum],
           NEW sum, NEW n, n = [m EXCEPT !.checksum = sum]
    PROVE  n = [open |-> TRUE, edits |-> m.edits, header |-> m.header, checksum |-> sum]
<1>1. PICK e : e = m.edits OBVIOUS
<1>2. PICK h : h = m.header OBVIOUS
<1>3. PICK c : c = m.checksum OBVIOUS
<1>4. m = [open |-> TRUE, edits |-> e, header |-> h, checksum |-> c] BY <1>1, <1>2, <1>3
<1>5. n = [open |-> TRUE, edits |-> e, header |-> h, checksum |-> sum] BY <1>4
<1>6. QED BY <1>1, <1>2, <1>5

\* A save that has written its last cell
IsWritten(path, file) ==
  /\ op = [at |-> "write", path |-> path, file |-> file, pos |-> op.pos,
           overwrite |-> op.overwrite, cells |-> op.cells]
  /\ file \in Files /\ op.overwrite \in BOOLEAN /\ mem # Closed
  /\ path = "backup" <=> file = "backup"
  /\ op.cells = write(mem.header, mem.edits)
  /\ Starts(files[file], Len(op.cells), op.cells)
  /\ SubSeq(files[file], 1, Len(op.cells)) = op.cells /\ Follows(files[file], 0, op.cells)
  /\ file = "backup" => files["backup"] = op.cells
LEMMA WrittenWhole ==
    ASSUME SavesInv, NEW path, Written(path)
    PROVE  IsWritten(path, op.file)
<1>1. OpOK BY DEF SavesInv
<1>2. PICK saves : SavesOK(saves) BY DEF SavesInv
<1>3. PICK cells : cells = op.cells OBVIOUS
<1>4. PICK file : file = op.file OBVIOUS
<1>5. PICK f : f = files[file] OBVIOUS
<1>6. op.at = "write" /\ op.path = path /\ op.pos = Len(cells) BY <1>3 DEF Written
<1>7. op # Idle BY <1>6 DEF Idle
<1>8. op = [at |-> op.at, path |-> op.path, file |-> file, pos |-> op.pos,
            overwrite |-> op.overwrite, cells |-> cells]
  BY <1>1, <1>3, <1>4, <1>7 DEF OpOK
<1>9. op = [at |-> "write", path |-> path, file |-> file, pos |-> op.pos,
            overwrite |-> op.overwrite, cells |-> cells]
  BY <1>6, <1>8
<1>10. /\ mem # Closed /\ file \in Files /\ op.overwrite \in BOOLEAN
       /\ op.path = "backup" <=> file = "backup"
  BY <1>1, <1>4, <1>7 DEF OpOK
<1>11. cells = write(mem.header, mem.edits) BY <1>1, <1>3, <1>6, <1>7 DEF OpOK
<1>12. Starts(f, op.pos, cells) BY <1>1, <1>3, <1>4, <1>5, <1>6, <1>7 DEF OpOK
<1>13. file = "backup" => Len(f) = op.pos BY <1>1, <1>4, <1>5, <1>6, <1>7 DEF OpOK
<1>14. PICK K : K = KnownCells(saves) OBVIOUS
<1>15. f \in Seq(K) /\ cells \in Seq(K) BY <1>2, <1>3, <1>5, <1>6, <1>10, <1>14 DEF SavesOK
<1>16. Starts(f, Len(cells), cells) BY <1>6, <1>12
<1>17. /\ SubSeq(f, 1, Len(cells)) = cells /\ Follows(f, 0, cells)
       /\ Len(f) = Len(cells) => f = cells
  BY <1>15, <1>16, WholeStart
<1>18. file = "backup" => files["backup"] = cells BY <1>5, <1>6, <1>13, <1>17
<1>19. QED BY <1>3, <1>4, <1>5, <1>6, <1>9, <1>10, <1>11, <1>16, <1>17, <1>18 DEF IsWritten

LEMMA EndBackupSaves == ASSUME SavesInv, EndBackup PROVE SavesInv'
<1>1. TypeOK /\ MemOK BY DEF SavesInv
<1>2. PICK saves : SavesOK(saves) BY DEF SavesInv
<1>3. PICK file : file = op.file OBVIOUS
<1>4. Written("backup") /\ UNCHANGED <<files, mem, fresh, made, window, adopted, backed>> BY DEF EndBackup
<1>5. synced' = synced \cup {"backup"} BY DEF EndBackup
<1>6. op' = [op EXCEPT !.at = "copy", !.pos = 0] \/ op' = Idle BY DEF EndBackup
<1>7. IsWritten("backup", file) BY <1>3, <1>4, WrittenWhole
<1>8. /\ op = [at |-> "write", path |-> "backup", file |-> file, pos |-> op.pos,
               overwrite |-> op.overwrite, cells |-> op.cells]
      /\ file = "backup" /\ op.overwrite \in BOOLEAN /\ mem # Closed
      /\ files["backup"] = write(mem.header, mem.edits)
  BY <1>7 DEF IsWritten
<1>9. OpOK'
  <2>1. CASE op' = Idle BY <2>1 DEF OpOK
  <2>2. CASE op' = [op EXCEPT !.at = "copy", !.pos = 0]
    <3>1. op' = [at |-> "copy", path |-> "backup", file |-> file, pos |-> 0,
                 overwrite |-> op.overwrite, cells |-> op.cells]
      <4>1. op = [at |-> "write", path |-> "backup", file |-> file, pos |-> op.pos,
                  overwrite |-> op.overwrite, cells |-> op.cells]
        BY <1>8
      <4>2. PICK pos : pos = op.pos OBVIOUS
      <4>3. PICK w : w = op.overwrite OBVIOUS
      <4>4. PICK cells : cells = op.cells OBVIOUS
      <4>5. op = [at |-> "write", path |-> "backup", file |-> file, pos |-> pos,
                  overwrite |-> w, cells |-> cells]
        BY <4>1, <4>2, <4>3, <4>4
      <4>6. op' = [at |-> "copy", path |-> "backup", file |-> file, pos |-> 0,
                   overwrite |-> w, cells |-> cells]
        BY <2>2, <4>5
      <4>7. QED BY <4>3, <4>4, <4>6
    <3>2. /\ op'.at = "copy" /\ op'.path = "backup" /\ op'.file = file /\ op'.pos = 0
          /\ op'.overwrite = op.overwrite /\ op'.cells = op.cells
      BY <3>1
    <3>3. mem' # Closed /\ files'["backup"] = write(mem'.header, mem'.edits) BY <1>4, <1>8
    <3>4. 0 <= Len(files'["backup"]) + 1
      <4>1. files["backup"] \in Seq(KnownCells(saves)) BY <1>2 DEF SavesOK, Files
      <4>2. Len(files["backup"]) \in Nat BY <4>1
      <4>3. QED BY <1>4, <4>2
    <3>5. "backup" \in Files BY DEF Files
    <3>6. QED BY <1>8, <3>1, <3>2, <3>3, <3>4, <3>5 DEF OpOK
  <2>3. QED BY <1>6, <2>1, <2>2
<1>10. TypeOK' BY <1>1, <1>4, <1>5 DEF TypeOK, Files
<1>11. MemOK' BY <1>1, <1>4 DEF MemOK
<1>12. \E new : SavesOK(new)'
  <2>1. files' \in [Files -> Seq(KnownCells(saves))] BY <1>2, <1>4 DEF SavesOK
  <2>2. op'.at # "write"
    <3>1. op = [at |-> "write", path |-> "backup", file |-> file, pos |-> op.pos,
                overwrite |-> op.overwrite, cells |-> op.cells]
      BY <1>8
    <3>2. CASE op' = Idle BY <3>2 DEF Idle
    <3>3. CASE op' = [op EXCEPT !.at = "copy", !.pos = 0]
      <4>1. PICK o : o = op OBVIOUS
      <4>2. PICK n : n = op' OBVIOUS
      <4>3. n = [o EXCEPT !.at = "copy", !.pos = 0] BY <3>3, <4>1, <4>2
      <4>4. o = [at |-> "write", path |-> "backup", file |-> file, pos |-> o.pos,
                 overwrite |-> o.overwrite, cells |-> o.cells]
        BY <3>1, <4>1
      <4>5. n.at = "copy" BY <4>3, <4>4
      <4>6. QED BY <4>2, <4>5
    <3>4. QED BY <1>6, <3>2, <3>3
  <2>3. ASSUME ChecksumCells >= 2, MainIsCovered' PROVE Covers(Seen, files'["main"], saves)
    <3>1. op' # Idle BY <2>3 DEF MainIsCovered, Idle
    <3>2. verify_db_file_checksum(op.overwrite) /\ op' = [op EXCEPT !.at = "copy", !.pos = 0]
      BY <3>1 DEF EndBackup
    <3>3. op'.at = "copy" /\ op'.overwrite = op.overwrite
      <4>1. PICK o : o = op OBVIOUS
      <4>2. PICK n : n = op' OBVIOUS
      <4>3. n = [o EXCEPT !.at = "copy", !.pos = 0] BY <3>2, <4>1, <4>2
      <4>4. o = [at |-> "write", path |-> "backup", file |-> file, pos |-> o.pos,
                 overwrite |-> o.overwrite, cells |-> o.cells]
        BY <1>8, <4>1
      <4>5. n.at = "copy" /\ n.overwrite = o.overwrite BY <4>3, <4>4
      <4>6. QED BY <4>1, <4>2, <4>5
    <3>4. ~op.overwrite BY <2>3, <3>3 DEF MainIsCovered
    <3>5. Checksum(files["main"]) = mem.checksum BY <3>2, <3>4 DEF verify_db_file_checksum
    <3>6. Covers(Seen, files["main"], saves) BY <1>2, <1>8, <2>3, <3>5, VerifiedCovers
    <3>7. QED BY <1>4, <3>6
  <2>4. op.at \in {"write", "copy"} BY <1>4 DEF Written
  <2>5. ChecksumCells >= 2 => Covered(saves)' BY <1>2, <1>4, <2>3, <2>4, CoveredStays DEF SavesOK
  <2>6. QED BY <1>1, <1>2, <1>4, <2>1, <2>2, <2>5, SavesStay
<1>13. QED BY <1>9, <1>10, <1>11, <1>12 DEF SavesInv

\* A save that is being copied over the database file
IsCopied ==
  /\ op = [at |-> "copy", path |-> "backup", file |-> "backup", pos |-> op.pos,
           overwrite |-> op.overwrite, cells |-> op.cells]
  /\ op.overwrite \in BOOLEAN /\ mem # Closed
  /\ op.pos \in Nat /\ op.pos <= Len(files["backup"]) + 1
  /\ files["backup"] = write(mem.header, mem.edits)
  /\ op.pos > 0 => files["main"] = SubSeq(files["backup"], 1, op.pos - 1)
LEMMA CopiedSoFar ==
    ASSUME SavesInv, op.at = "copy"
    PROVE  IsCopied
<1>1. OpOK /\ op # Idle BY DEF SavesInv, Idle
<1>2. op = [at |-> op.at, path |-> op.path, file |-> op.file, pos |-> op.pos,
            overwrite |-> op.overwrite, cells |-> op.cells]
  BY <1>1 DEF OpOK
<1>3. op.path = "backup" /\ op.file = "backup" BY <1>1 DEF OpOK
<1>4. op = [at |-> "copy", path |-> "backup", file |-> "backup", pos |-> op.pos,
            overwrite |-> op.overwrite, cells |-> op.cells]
  BY <1>2, <1>3
<1>5. QED BY <1>1, <1>4 DEF OpOK, IsCopied

LEMMA CopySaves == ASSUME SavesInv, Copy PROVE SavesInv'
<1>1. TypeOK /\ MemOK BY DEF SavesInv
<1>2. PICK saves : SavesOK(saves) BY DEF SavesInv
<1>3. PICK pos : pos = op.pos OBVIOUS
<1>4. PICK f : f = files["backup"] OBVIOUS
<1>5. /\ op.at = "copy" /\ pos <= Len(f) /\ op' = [op EXCEPT !.pos = @ + 1]
      /\ files' = [files EXCEPT !["main"] = SubSeq(f, 1, pos)]
  BY <1>3, <1>4 DEF Copy
<1>6. synced' = synced \ {"main"} /\ UNCHANGED <<mem, fresh, made, window, adopted, backed>> BY DEF Copy
<1>7. IsCopied BY <1>5, CopiedSoFar
<1>8. /\ op = [at |-> "copy", path |-> "backup", file |-> "backup", pos |-> pos,
               overwrite |-> op.overwrite, cells |-> op.cells]
      /\ op.overwrite \in BOOLEAN /\ mem # Closed
      /\ f = write(mem.header, mem.edits)
  BY <1>3, <1>4, <1>7 DEF IsCopied
<1>9. pos \in Nat BY <1>3, <1>7 DEF IsCopied
<1>10. PICK K : K = KnownCells(saves) OBVIOUS
<1>11. files \in [Files -> Seq(K)] /\ f \in Seq(K) BY <1>2, <1>4, <1>10 DEF SavesOK, Files
<1>12. PICK sub : sub = SubSeq(f, 1, pos) OBVIOUS
<1>13. sub \in Seq(K) BY <1>5, <1>9, <1>11, <1>12, FirstCells
<1>14. files' = [files EXCEPT !["main"] = sub] BY <1>5, <1>12
<1>15. files' \in [Files -> Seq(K)] /\ files'["main"] = sub /\ files'["backup"] = f
  BY <1>4, <1>11, <1>13, <1>14 DEF Files
<1>16. PICK next : next = pos + 1 OBVIOUS
<1>17. next \in Nat /\ next - 1 = pos BY <1>9, <1>16
<1>18. next <= Len(f) + 1
  <2>1. Len(f) \in Nat BY <1>11
  <2>2. QED BY <1>5, <1>9, <1>16, <2>1
<1>19. OpOK'
  <2>1. op' = [op EXCEPT !.pos = next] BY <1>3, <1>5, <1>16
  <2>2. op' = [at |-> "copy", path |-> "backup", file |-> "backup", pos |-> next,
               overwrite |-> op.overwrite, cells |-> op.cells]
    BY <1>8, <2>1
  <2>3. /\ op'.at = "copy" /\ op'.path = "backup" /\ op'.file = "backup" /\ op'.pos = next
        /\ op'.overwrite = op.overwrite /\ op'.cells = op.cells
    BY <2>2
  <2>4. mem' # Closed /\ files'["backup"] = write(mem'.header, mem'.edits) BY <1>6, <1>8, <1>15
  <2>5. op'.pos <= Len(files'["backup"]) + 1 BY <1>15, <1>18, <2>3
  <2>6. files'["main"] = SubSeq(files'["backup"], 1, op'.pos - 1) BY <1>12, <1>15, <1>17, <2>3
  <2>7. "backup" \in Files BY DEF Files
  <2>8. op'.overwrite \in BOOLEAN BY <1>8, <2>3
  <2>9. op'.pos \in Nat BY <1>17, <2>3
  <2>10. QED BY <2>2, <2>3, <2>4, <2>5, <2>6, <2>7, <2>8, <2>9 DEF OpOK
<1>20. TypeOK' BY <1>1, <1>6 DEF TypeOK
<1>21. MemOK' BY <1>1, <1>6 DEF MemOK
<1>22. \E new : SavesOK(new)'
  <2>1. op'.at # "write" BY <1>5, <1>8
  <2>2. ASSUME ChecksumCells >= 2 PROVE Covers(Seen, files'["main"], saves)
    <3>1. Len(f) \in Nat BY <1>11
    <3>2. Len(sub) = pos /\ \A i \in 1 .. pos : sub[i] = f[i] BY <1>5, <1>9, <1>11, <1>12, <3>1
    <3>3. pos <= Len(sub) /\ Len(sub) <= pos BY <1>9, <3>2
    <3>4. Starts(sub, pos, f) BY <1>5, <3>2, <3>3 DEF Starts
    <3>5. Starts(sub, pos, write(mem.header, mem.edits)) BY <1>8, <3>4
    <3>6. Covers(Seen, sub, saves)
      BY <1>2, <1>5, <1>9, <1>13, <2>2, <3>3, <3>5, SavedCovers
    <3>7. QED BY <1>15, <3>6
  <2>3. op.at \in {"write", "copy"} BY <1>5
  <2>4. ChecksumCells >= 2 => Covered(saves)' BY <1>2, <1>6, <2>2, <2>3, CoveredStays DEF SavesOK
  <2>5. QED BY <1>1, <1>2, <1>6, <1>10, <1>15, <2>1, <2>4, SavesStay
<1>23. QED BY <1>19, <1>20, <1>21, <1>22 DEF SavesInv

LEMMA EndCopySaves == ASSUME SavesInv, EndCopy PROVE SavesInv'
<1>1. TypeOK /\ MemOK BY DEF SavesInv
<1>2. PICK old : SavesOK(old) BY DEF SavesInv
<1>3. PICK f : f = files["backup"] OBVIOUS
<1>4. PICK sum : sum = Checksum(f) OBVIOUS
<1>5. op.at = "copy" /\ op.pos = Len(f) + 1 /\ op' = Idle BY <1>3 DEF EndCopy
<1>6. mem' = [mem EXCEPT !.checksum = sum] /\ backed' = mem.edits BY <1>3, <1>4 DEF EndCopy
<1>7. UNCHANGED <<files, synced, fresh, made, window, adopted>> BY DEF EndCopy
<1>8. mem # Closed /\ f = write(mem.header, mem.edits)
      /\ (op.pos > 0 => files["main"] = SubSeq(f, 1, op.pos - 1))
  BY <1>3, <1>5, CopiedSoFar DEF IsCopied
<1>9. /\ mem = [open |-> TRUE, edits |-> mem.edits, header |-> mem.header, checksum |-> mem.checksum]
      /\ IsMainHeader(mem.header) /\ IsKept(mem.header) /\ mem.header.master_seed \notin fresh .. MaxSaves
      /\ IsContent(mem.edits) /\ backed \subseteq mem.edits
  BY <1>1, <1>8 DEF MemOK
<1>10. fresh \in Nat BY <1>1 DEF TypeOK
<1>11. PICK saves : /\ Suits(saves, fresh, mem.edits)
                    /\ f \in Seq(KnownCells(saves))
                    /\ mem.header.master_seed \in DOMAIN saves
                    /\ saves[mem.header.master_seed].content = mem.edits
  <2>1. PICK h : h = mem.header OBVIOUS
  <2>2. PICK content : content = mem.edits OBVIOUS
  <2>3. IsMainHeader(h) /\ IsKept(h) /\ h.master_seed \notin fresh .. MaxSaves /\ IsContent(content)
    BY <1>9, <2>1, <2>2
  <2>4. content \subseteq content OBVIOUS
  <2>5. \E new : /\ Suits(new, fresh, content) /\ write(h, content) \in Seq(KnownCells(new))
                 /\ Has(new, h, content)
    BY <1>10, <2>3, <2>4, FirstSave
  <2>6. f = write(h, content) BY <1>8, <2>1, <2>2
  <2>7. QED BY <2>1, <2>2, <2>5, <2>6 DEF Has
<1>12. files["main"] = f
  <2>1. Len(f) \in Nat BY <1>11
  <2>2. op.pos > 0 /\ op.pos - 1 = Len(f) BY <1>5, <2>1
  <2>3. files["main"] = SubSeq(f, 1, Len(f)) BY <1>8, <2>2
  <2>4. SubSeq(f, 1, Len(f)) = f BY <1>11
  <2>5. QED BY <2>3, <2>4
<1>13. files \in [Files -> Seq(KnownCells(saves))]
  <2>1. PICK K : K = Seq(KnownCells(saves)) OBVIOUS
  <2>2. PICK O : O = Seq(KnownCells(old)) OBVIOUS
  <2>3. files \in [Files -> O] /\ f \in K BY <1>2, <1>11, <2>1, <2>2 DEF SavesOK
  <2>4. files \in [Files -> K] BY <1>3, <1>12, <2>3 DEF Files
  <2>5. QED BY <2>1, <2>4
<1>14. mem' = [open |-> TRUE, edits |-> mem.edits, header |-> mem.header, checksum |-> sum]
  <2>1. mem = [open |-> TRUE, edits |-> mem.edits, header |-> mem.header, checksum |-> mem.checksum] BY <1>9
  <2>2. QED BY <1>6, <2>1, SetChecksum, Zenon
<1>15. mem'.open = TRUE /\ mem'.edits = mem.edits /\ mem'.header = mem.header /\ mem'.checksum = sum BY <1>14
<1>16. SavesOK(saves)'
  <2>1. op'.at = "idle" BY <1>5 DEF Idle
  <2>2. Suits(saves, fresh', backed') BY <1>6, <1>7, <1>11
  <2>3. ASSUME ChecksumCells >= 2 PROVE Covered(saves)'
    <3>1. PICK K : K = KnownCells(saves) OBVIOUS
    <3>2. f \in Seq(K) BY <1>11, <3>1
    <3>3. PICK n : n = Len(f) OBVIOUS
    <3>4. n \in Nat /\ Starts(f, n, f) /\ Len(f) <= n BY <3>2, <3>3, StartsItself
    <3>5. PICK edits : edits = Known OBVIOUS
    <3>6. mem.edits \subseteq edits /\ Known' = edits BY <1>7, <1>15, <3>5 DEF Known
    <3>7. AreSaves(saves) BY <1>11 DEF Suits
    <3>8. Starts(f, n, write(mem.header, mem.edits)) BY <1>8, <3>4
    <3>9. Covers(edits, f, saves) BY <1>9, <1>11, <3>2, <3>4, <3>6, <3>7, <3>8, OwnStart
    <3>10. sum \in Seq(K) /\ Covers(edits, sum, saves) BY <1>4, <2>3, <3>2, <3>9, ChecksumCovers
    <3>11. ~MainIsCovered' BY <2>1 DEF MainIsCovered
    <3>12. QED BY <1>15, <2>1, <3>1, <3>6, <3>10, <3>11 DEF Covered
  <2>4. QED BY <1>7, <1>13, <2>1, <2>2, <2>3 DEF SavesOK
<1>17. MemOK'
  <2>1. fresh' = fresh /\ backed' = mem.edits BY <1>6, <1>7
  <2>2. QED BY <1>9, <1>14, <1>15, <2>1 DEF MemOK
<1>18. TypeOK' BY <1>1, <1>6, <1>7, <1>9 DEF TypeOK
<1>19. OpOK' BY <1>5 DEF OpOK
<1>20. QED BY <1>16, <1>17, <1>18, <1>19 DEF SavesInv

\* The checksum of the open database changes, and no save is in progress any more.
Ends(next) ==
  /\ mem # Closed
  /\ \E sum : /\ mem' = [mem EXCEPT !.checksum = sum]
              /\ \A saves : SavesOK(saves) /\ ChecksumCells >= 2 =>
                   sum \in Seq(KnownCells(saves)) /\ Covers(mem.edits \cup adopted', sum, saves)
  /\ op' = Idle /\ synced' \subseteq Files
  /\ UNCHANGED <<fresh, made, window, backed>>
  /\ \A saves : SavesOK(saves) => next \in [Files -> Seq(KnownCells(saves))]
LEMMA EndSaves == ASSUME SavesInv, Ends(files') PROVE SavesInv'
<1>1. TypeOK /\ MemOK BY DEF SavesInv
<1>2. PICK saves : SavesOK(saves) BY DEF SavesInv
<1>3. PICK sum : /\ mem' = [mem EXCEPT !.checksum = sum]
                 /\ ChecksumCells >= 2 =>
                      sum \in Seq(KnownCells(saves)) /\ Covers(mem.edits \cup adopted', sum, saves)
  BY <1>2 DEF Ends
<1>4. op' = Idle /\ synced' \subseteq Files /\ UNCHANGED <<fresh, made, window, backed>> BY DEF Ends
<1>5. files' \in [Files -> Seq(KnownCells(saves))] BY <1>2 DEF Ends
<1>6. mem # Closed BY DEF Ends
<1>7. /\ mem = [open |-> TRUE, edits |-> mem.edits, header |-> mem.header, checksum |-> mem.checksum]
      /\ IsMainHeader(mem.header) /\ IsKept(mem.header) /\ mem.header.master_seed \notin fresh .. MaxSaves
      /\ IsContent(mem.edits) /\ backed \subseteq mem.edits
  BY <1>1, <1>6 DEF MemOK
<1>8. mem' = [open |-> TRUE, edits |-> mem.edits, header |-> mem.header, checksum |-> sum]
  <2>1. mem = [open |-> TRUE, edits |-> mem.edits, header |-> mem.header, checksum |-> mem.checksum] BY <1>7
  <2>2. QED BY <1>3, <2>1, SetChecksum, Zenon
<1>9. mem'.open = TRUE /\ mem'.edits = mem.edits /\ mem'.header = mem.header /\ mem'.checksum = sum BY <1>8
<1>10. MemOK' BY <1>4, <1>7, <1>8, <1>9 DEF MemOK
<1>11. TypeOK' BY <1>1, <1>4 DEF TypeOK
<1>12. OpOK' BY <1>4 DEF OpOK
<1>13. \E new : SavesOK(new)'
  <2>1. op'.at # "write" BY <1>4 DEF Idle
  <2>2. ASSUME ChecksumCells >= 2 PROVE Covered(saves)'
    <3>1. sum \in Seq(KnownCells(saves)) /\ Covers(mem.edits \cup adopted', sum, saves) BY <1>3, <2>2
    <3>2. op'.at = "idle" BY <1>4 DEF Idle
    <3>3. Known' = mem.edits \cup adopted' BY <1>9 DEF Known
    <3>4. ~MainIsCovered' BY <3>2 DEF MainIsCovered
    <3>5. QED BY <1>9, <3>1, <3>2, <3>3, <3>4 DEF Covered
  <2>3. QED BY <1>1, <1>2, <1>4, <1>5, <2>1, <2>2, SavesStay
<1>14. QED BY <1>10, <1>11, <1>12, <1>13 DEF SavesInv

LEMMA EndInPlaceSaves == ASSUME SavesInv, EndInPlace PROVE SavesInv'
<1>1. PICK cut : cut = SubSeq(files["main"], 1, Len(op.cells)) OBVIOUS
<1>2. /\ Written("in place") /\ files' = [files EXCEPT !["main"] = cut]
      /\ mem' = [mem EXCEPT !.checksum = Checksum(cut)]
      /\ synced' = synced \cup {"main"} /\ op' = Idle /\ UNCHANGED <<fresh, made, window, adopted, backed>>
  BY <1>1 DEF EndInPlace
<1>3. PICK file : file = op.file OBVIOUS
<1>4. IsWritten("in place", file) BY <1>2, <1>3, WrittenWhole
<1>5. file = "main" BY <1>4 DEF IsWritten, Files
<1>6. cut = op.cells /\ mem # Closed BY <1>1, <1>4, <1>5 DEF IsWritten
<1>7. synced' \subseteq Files BY <1>2 DEF SavesInv, TypeOK, Files
<1>8. ASSUME NEW saves, SavesOK(saves) PROVE files' \in [Files -> Seq(KnownCells(saves))]
  <2>1. PICK K : K = Seq(KnownCells(saves)) OBVIOUS
  <2>2. op.at = "write" BY <1>2 DEF Written
  <2>3. files \in [Files -> K] /\ cut \in K BY <1>6, <1>8, <2>1, <2>2 DEF SavesOK
  <2>4. files' \in [Files -> K] BY <1>2, <2>3
  <2>5. QED BY <2>1, <2>4
<1>9. PICK sum : sum = Checksum(cut) OBVIOUS
<1>10. ASSUME NEW saves, SavesOK(saves), ChecksumCells >= 2
       PROVE  sum \in Seq(KnownCells(saves)) /\ Covers(mem.edits \cup adopted', sum, saves)
  <2>1. PICK K : K = KnownCells(saves) OBVIOUS
  <2>2. op.at = "write" BY <1>2 DEF Written
  <2>3. cut \in Seq(K) BY <1>6, <1>10, <2>1, <2>2 DEF SavesOK
  <2>4. PICK n : n = Len(cut) OBVIOUS
  <2>5. n \in Nat /\ Starts(cut, n, cut) /\ Len(cut) <= n BY <2>3, <2>4, StartsItself
  <2>6. Starts(cut, n, write(mem.header, mem.edits)) BY <1>4, <1>6, <2>5 DEF IsWritten
  <2>7. Covers(mem.edits, cut, saves) BY <1>10, <2>2, <2>3, <2>5, <2>6, SavedCovers
  <2>8. PICK edits : edits = mem.edits \cup adopted' OBVIOUS
  <2>9. Covers(edits, cut, saves)
    <3>1. mem.edits \subseteq edits BY <2>8
    <3>2. QED BY <2>7, <3>1, CoversMore
  <2>10. QED BY <1>9, <1>10, <2>1, <2>3, <2>8, <2>9, ChecksumCovers
<1>11. Ends(files') BY <1>2, <1>6, <1>7, <1>8, <1>9, <1>10 DEF Ends
<1>12. QED BY <1>11, EndSaves

LEMMA EndWriterSaves == ASSUME SavesInv, EndWriter PROVE SavesInv'
<1>1. TypeOK /\ MemOK BY DEF SavesInv
<1>2. PICK saves : SavesOK(saves) BY DEF SavesInv
<1>3. PICK file : file = op.file OBVIOUS
<1>4. /\ Written("writer") /\ op' = [op EXCEPT !.at = "written"]
      /\ UNCHANGED <<files, synced, mem, fresh, made, window, adopted, backed>>
  BY DEF EndWriter
<1>5. IsWritten("writer", file) BY <1>3, <1>4, WrittenWhole
<1>6. op = [at |-> "write", path |-> "writer", file |-> file, pos |-> op.pos,
            overwrite |-> op.overwrite, cells |-> op.cells]
  BY <1>5 DEF IsWritten
<1>7. op' = [at |-> "written", path |-> "writer", file |-> file, pos |-> op.pos,
             overwrite |-> op.overwrite, cells |-> op.cells]
  BY <1>4, <1>6
<1>8. /\ op'.at = "written" /\ op'.path = "writer" /\ op'.file = file /\ op'.pos = op.pos
      /\ op'.overwrite = op.overwrite /\ op'.cells = op.cells
  BY <1>7
<1>9. file \in Files /\ op.overwrite \in BOOLEAN /\ mem # Closed /\ file # "backup" BY <1>5 DEF IsWritten
<1>10. op.pos \in Nat
  <2>1. op # Idle BY <1>4 DEF Written, Idle
  <2>2. QED BY <2>1 DEF SavesInv, OpOK
<1>11. mem' # Closed BY <1>4, <1>9
<1>12. OpOK' BY <1>7, <1>8, <1>9, <1>10, <1>11 DEF OpOK
<1>13. TypeOK' /\ MemOK' BY <1>1, <1>4 DEF TypeOK, MemOK
<1>14. \E new : SavesOK(new)'
  <2>1. files' \in [Files -> Seq(KnownCells(saves))] BY <1>2, <1>4 DEF SavesOK
  <2>2. op'.at # "write" BY <1>8
  <2>3. ASSUME ChecksumCells >= 2 PROVE Covers(Seen, files'["main"], saves)
    <3>1. PICK f : f = files["main"] OBVIOUS
    <3>2. PICK n : n = Len(op.cells) OBVIOUS
    <3>3. op.at = "write" /\ op.pos = n /\ op # Idle BY <1>4, <3>2 DEF Written, Idle
    <3>4. file = "main" BY <1>9 DEF Files
    <3>5. op.cells = write(mem.header, mem.edits) /\ Starts(f, op.pos, op.cells)
      BY <1>5, <3>1, <3>2, <3>3, <3>4 DEF IsWritten
    <3>6. f \in Seq(KnownCells(saves)) BY <1>2, <3>1 DEF SavesOK, Files
    <3>7. SizeOf(mem.edits) \in Nat BY <1>1, <1>9, SavesAssumption DEF MemOK, IsContent
    <3>8. n \in Nat /\ n >= 2
      <4>1. PICK blocks : blocks = WriteRounds(compute_keys(mem.header), Payload(mem.header, mem.edits))[0] OBVIOUS
      <4>2. blocks \in Seq(WrittenCells(mem.header, mem.edits)) /\ n = 4 + Len(blocks)
        BY <3>2, <3>5, <3>7, <4>1, CellsWritten
      <4>3. Len(blocks) \in Nat BY <4>2
      <4>4. QED BY <4>2, <4>3
    <3>9. Starts(f, n, write(mem.header, mem.edits)) BY <3>3, <3>5
    <3>10. Covers(Seen, f, saves) BY <1>2, <2>3, <3>3, <3>6, <3>8, <3>9, SavedCovers
    <3>11. QED BY <1>4, <3>1, <3>10
  <2>4. op'.at \notin {"write", "copy"} BY <1>8
  <2>5. ChecksumCells >= 2 => Covered(saves)' BY <1>2, <1>4, <2>3, <2>4, CoveredStays DEF SavesOK
  <2>6. QED BY <1>1, <1>2, <1>4, <2>1, <2>2, <2>5, SavesStay
<1>15. QED BY <1>12, <1>13, <1>14 DEF SavesInv

LEMMA ChecksumSaves == ASSUME SavesInv, calculate_and_set_db_file_checksum PROVE SavesInv'
<1>1. /\ op.at = "written" /\ op' = Idle /\ mem' = [mem EXCEPT !.checksum = Checksum(files["main"])]
      /\ adopted' = adopted \cup window /\ UNCHANGED <<files, synced, fresh, made, window, backed>>
  BY DEF calculate_and_set_db_file_checksum
<1>2. mem # Closed
  <2>1. op # Idle BY <1>1 DEF Idle
  <2>2. QED BY <2>1 DEF SavesInv, OpOK
<1>3. synced' \subseteq Files BY <1>1 DEF SavesInv, TypeOK
<1>4. \A saves : SavesOK(saves) => files' \in [Files -> Seq(KnownCells(saves))] BY <1>1 DEF SavesOK
<1>5. PICK sum : sum = Checksum(files["main"]) OBVIOUS
<1>6. ASSUME NEW saves, SavesOK(saves), ChecksumCells >= 2
      PROVE  sum \in Seq(KnownCells(saves)) /\ Covers(mem.edits \cup adopted', sum, saves)
  <2>1. PICK K : K = KnownCells(saves) OBVIOUS
  <2>2. files["main"] \in Seq(K) BY <1>6, <2>1 DEF SavesOK, Files
  <2>3. MainIsCovered BY <1>1 DEF MainIsCovered
  <2>4. Covers(Seen, files["main"], saves) BY <1>6, <2>3 DEF SavesOK, Covered
  <2>5. PICK edits : edits = mem.edits \cup adopted' OBVIOUS
  <2>6. Seen = edits BY <1>1, <2>5 DEF Known, Seen
  <2>7. Covers(edits, files["main"], saves) BY <2>4, <2>6
  <2>8. QED BY <1>5, <1>6, <2>1, <2>2, <2>5, <2>7, ChecksumCovers
<1>7. Ends(files') BY <1>1, <1>2, <1>3, <1>4, <1>5, <1>6 DEF Ends
<1>8. QED BY <1>7, EndSaves

LEMMA ForeignEditSaves == ASSUME SavesInv, ForeignEdit PROVE SavesInv'
<1>1. TypeOK /\ MemOK /\ OpOK BY DEF SavesInv
<1>2. PICK saves : SavesOK(saves) BY DEF SavesInv
<1>3. PICK r : r = read(files["main"]) OBVIOUS
<1>4. PICK h : h = [reset_random_values(r.header, fresh) EXCEPT !.compression_flag = 1] OBVIOUS
<1>5. PICK content : content = r.data[1].of \cup {made + 1} OBVIOUS
<1>6. PICK w : w = write(h, content) OBVIOUS
<1>7. r.ok /\ files' = [files EXCEPT !["main"] = w] BY <1>3, <1>4, <1>5, <1>6 DEF ForeignEdit
<1>8. ~MainIsWritten /\ fresh < MaxSaves /\ made < MaxEdits BY DEF ForeignEdit
<1>9. made' = made + 1 /\ fresh' = fresh + 1 /\ synced' = synced \cup {"main"} /\ UNCHANGED <<mem, op, backed>>
  BY DEF ForeignEdit
<1>10. /\ IsMainHeader(r.header) /\ IsKept(r.header)
       /\ IsContent(r.data[1].of) /\ backed \subseteq r.data[1].of
  BY <1>1, <1>2, <1>3, <1>7, ReadKnown DEF Files
<1>11. IsMainHeader(h) /\ IsKept(h) /\ h.master_seed = fresh BY <1>4, <1>10, ResetHeader
<1>12. made \in 0 .. MaxEdits /\ MaxEdits \in Nat /\ fresh \in Nat \ {0} /\ MaxSaves \in Nat
  BY <1>1, SavesAssumption DEF TypeOK
<1>13. made + 1 \in 0 .. MaxEdits BY <1>8, <1>12
<1>14. IsContent(content) /\ backed \subseteq content BY <1>5, <1>10, <1>13 DEF IsContent
<1>15. Suits(saves, fresh, backed) BY <1>2 DEF SavesOK
<1>16. PICK new : /\ Suits(new, fresh + 1, backed) /\ Adds(new, saves, h, content)
                  /\ fresh \notin DOMAIN saves
                  /\ KnownCells(saves) \subseteq KnownCells(new)
                  /\ w \in Seq(KnownCells(new))
  BY <1>6, <1>8, <1>11, <1>12, <1>14, <1>15, SuitsNext
<1>17. Seq(KnownCells(saves)) \subseteq Seq(KnownCells(new)) BY <1>16, SeqMonotonic
<1>18. PICK K : K = Seq(KnownCells(new)) OBVIOUS
<1>19. PICK O : O = Seq(KnownCells(saves)) OBVIOUS
<1>20. O \subseteq K /\ w \in K /\ files \in [Files -> O] /\ (op.at = "write" => op.cells \in O)
  BY <1>2, <1>16, <1>17, <1>18, <1>19 DEF SavesOK
<1>21. files' \in [Files -> K] /\ files'["main"] = w /\ files'["backup"] = files["backup"]
  BY <1>7, <1>20 DEF Files
<1>22. SavesOK(new)'
  <2>1. Suits(new, fresh', backed') BY <1>9, <1>16
  <2>2. op'.at = "write" => op'.cells \in K BY <1>9, <1>20
  <2>3. ASSUME ChecksumCells >= 2 PROVE Covered(new)'
    <3>1. AreSaves(saves) /\ AreSaves(new) BY <1>15, <1>16 DEF Suits
    <3>2. Covered(saves) BY <1>2, <2>3 DEF SavesOK
    <3>3. PICK edits : edits = Seen' OBVIOUS
    <3>4. /\ window \subseteq window' /\ (IsVerified => window' = window \cup {made + 1})
          /\ mem' = mem /\ op' = op /\ adopted' = adopted
      BY DEF ForeignEdit
    <3>5. Known' = Known /\ Seen \subseteq edits /\ (IsVerified => made + 1 \in edits)
      BY <3>3, <3>4 DEF Known, Seen
    <3>6. mem' = mem /\ op' = op BY <1>9
    <3>7. ASSUME mem' # Closed
          PROVE  mem'.checksum \in Seq(KnownCells(new)) /\ Covers(Known', mem'.checksum, new)
      <4>1. PICK sum : sum = mem.checksum OBVIOUS
      <4>2. sum \in Seq(KnownCells(saves)) /\ Covers(Known, sum, saves)
        BY <3>2, <3>6, <3>7, <4>1 DEF Covered
      <4>3. PICK known : known = Known OBVIOUS
      <4>4. Covers(known, sum, saves) BY <4>2, <4>3
      <4>5. Covers(known, sum, new) BY <1>11, <1>16, <3>1, <4>2, <4>4, CoversNext
      <4>6. sum \in Seq(KnownCells(new)) BY <1>17, <4>2
      <4>7. QED BY <3>5, <3>6, <4>1, <4>3, <4>5, <4>6
    <3>8. ASSUME op'.at \in {"write", "copy"}
          PROVE  mem'.header.master_seed \in DOMAIN new /\ new[mem'.header.master_seed].content = mem'.edits
      <4>1. PICK seed : seed = mem.header.master_seed OBVIOUS
      <4>2. seed \in DOMAIN saves /\ saves[seed].content = mem.edits BY <3>2, <3>6, <3>8, <4>1 DEF Covered
      <4>3. seed \in DOMAIN new /\ new[seed] = saves[seed] BY <1>16, <4>2 DEF Adds
      <4>4. QED BY <3>6, <4>1, <4>2, <4>3
    <3>9. ASSUME MainIsCovered' PROVE Covers(edits, files'["main"], new)
      <4>1. MainIsCovered BY <3>6, <3>9 DEF MainIsCovered
      <4>2. Covers(Seen, files["main"], saves) BY <3>2, <4>1 DEF Covered
      <4>3. r.data[1].of \subseteq Seen BY <1>1, <1>2, <1>3, <1>7, <4>2, ReadCovered
      <4>4. IsVerified BY <4>1 DEF MainIsCovered, IsVerified
      <4>5. content \subseteq edits BY <1>5, <3>5, <4>3, <4>4
      <4>6. h.master_seed \in DOMAIN new /\ new[h.master_seed].content = content BY <1>16 DEF Adds
      <4>7. PICK n : n = Len(w) OBVIOUS
      <4>8. w \in Seq(KnownCells(new)) BY <1>16
      <4>9. n \in Nat /\ Starts(w, n, w) /\ Len(w) <= n BY <4>7, <4>8, StartsItself
      <4>10. Starts(w, n, write(h, content)) BY <1>6, <4>9
      <4>11. Covers(edits, w, new) BY <1>11, <1>14, <3>1, <4>5, <4>6, <4>8, <4>9, <4>10, OwnStart
      <4>12. QED BY <1>21, <4>11
    <3>10. QED BY <3>3, <3>7, <3>8, <3>9 DEF Covered
  <2>4. QED BY <1>18, <1>21, <2>1, <2>2, <2>3 DEF SavesOK
<1>23. TypeOK'
  <2>1. made' \in 0 .. MaxEdits BY <1>9, <1>13
  <2>2. fresh' \in Nat \ {0} BY <1>9, <1>12
  <2>3. QED BY <1>1, <1>9, <2>1, <2>2 DEF TypeOK, Files
<1>24. MemOK'
  <2>1. fresh' .. MaxSaves \subseteq fresh .. MaxSaves BY <1>9, <1>12
  <2>2. mem' = mem /\ backed' = backed BY <1>9
  <2>3. QED BY <1>1, <2>1, <2>2 DEF MemOK
<1>25. OpOK'
  <2>1. CASE op = Idle BY <1>9, <2>1 DEF OpOK
  <2>2. CASE op # Idle
    <3>1. op' = op /\ mem' = mem BY <1>9
    <3>2. ASSUME op.at = "write" PROVE Starts(files'[op.file], op.pos, op.cells)
      <4>1. Starts(files[op.file], op.pos, op.cells) /\ op.file \in Files BY <1>1, <2>2, <3>2 DEF OpOK
      <4>2. CASE op.file = "backup" BY <1>21, <4>1, <4>2
      <4>3. CASE op.file = "main"
        <5>1. ~(op.pos > 0) /\ op.pos \in Nat BY <1>1, <1>8, <2>2, <3>2, <4>3 DEF MainIsWritten, OpOK
        <5>2. op.pos = 0 BY <5>1
        <5>3. op.cells \in K /\ files'["main"] \in K BY <1>20, <1>21, <3>2
        <5>4. Starts(files'["main"], 0, op.cells) BY <1>18, <5>3, NothingYet
        <5>5. QED BY <4>3, <5>2, <5>4
      <4>4. QED BY <4>1, <4>2, <4>3 DEF Files
    <3>3. ASSUME op.at = "copy" PROVE ~(op.pos > 0)
      BY <1>8, <3>3 DEF MainIsWritten
    <3>4. QED BY <1>1, <1>21, <2>2, <3>1, <3>2, <3>3 DEF OpOK
  <2>3. QED BY <2>1, <2>2
<1>26. QED BY <1>22, <1>23, <1>24, <1>25 DEF SavesInv

\* What a loss of power leaves of a file
LEMMA RemainsKnown ==
    ASSUME NEW K, Zero \in K, NEW f \in Seq(K), NEW torn \in Remains(f)
    PROVE  torn \in Seq(K)
<1>1. PICK n \in 0 .. Len(f) : torn = SubSeq(f, 1, n) \o [i \in 1 .. (Len(f) - n) |-> Zero] BY DEF Remains
<1>2. Len(f) \in Nat OBVIOUS
<1>3. PICK m : m = Len(f) - n OBVIOUS
<1>4. n \in Nat /\ n <= Len(f) /\ m \in Nat BY <1>2, <1>3
<1>5. PICK zeros : zeros = [i \in 1 .. m |-> Zero] OBVIOUS
<1>6. zeros \in Seq(K)
  <2>1. PICK zero : zero = Zero OBVIOUS
  <2>2. zeros \in [1 .. m -> K] BY <1>5, <2>1
  <2>3. QED BY <1>4, <2>2
<1>7. PICK sub : sub = SubSeq(f, 1, n) OBVIOUS
<1>8. sub \in Seq(K) BY <1>4, <1>7, FirstCells
<1>9. torn = sub \o zeros BY <1>1, <1>3, <1>5, <1>7
<1>10. QED BY <1>6, <1>8, <1>9, ConcatProperties

LEMMA PowerLossSaves == ASSUME SavesInv, PowerLoss PROVE SavesInv'
<1>1. TypeOK BY DEF SavesInv
<1>2. PICK saves : SavesOK(saves) BY DEF SavesInv
<1>3. mem' = Closed /\ op' = Idle /\ synced' = Files /\ UNCHANGED <<fresh, made, window, adopted, backed>> BY DEF PowerLoss
<1>4. PICK torn \in [Files \ synced -> UNION {Remains(files[x]) : x \in Files \ synced}] :
        /\ \A x \in DOMAIN torn : torn[x] \in Remains(files[x])
        /\ files' = [x \in Files |-> IF x \in synced THEN files[x] ELSE torn[x]]
  BY DEF PowerLoss
<1>5. PICK K : K = KnownCells(saves) OBVIOUS
<1>6. files \in [Files -> Seq(K)] /\ Zero \in K BY <1>2, <1>5 DEF SavesOK, KnownCells
<1>7. ASSUME NEW x \in Files PROVE files'[x] \in Seq(K)
  <2>1. CASE x \in synced BY <1>4, <1>6, <2>1
  <2>2. CASE x \notin synced
    <3>1. x \in DOMAIN torn BY <1>4, <2>2
    <3>2. torn[x] \in Remains(files[x]) /\ files[x] \in Seq(K) BY <1>4, <1>6, <3>1
    <3>3. torn[x] \in Seq(K) BY <1>6, <3>2, RemainsKnown
    <3>4. QED BY <1>4, <2>2, <3>3
  <2>3. QED BY <2>1, <2>2
<1>8. files' \in [Files -> Seq(K)]
  <2>1. files' = [x \in Files |-> files'[x]] BY <1>4
  <2>2. QED BY <1>7, <2>1
<1>9. TypeOK' /\ MemOK' /\ OpOK' BY <1>1, <1>3 DEF TypeOK, MemOK, OpOK
<1>10. \E new : SavesOK(new)'
  <2>1. op'.at # "write" BY <1>3 DEF Idle
  <2>2. ChecksumCells >= 2 => Covered(saves)' BY <1>2, <1>3, QuietCovered DEF SavesOK
  <2>3. QED BY <1>1, <1>2, <1>3, <1>5, <1>8, <2>1, <2>2, SavesStay
<1>11. QED BY <1>9, <1>10 DEF SavesInv

LEMMA StepSaves == SavesInv /\ [Next]_vars => SavesInv'
<1>1. ASSUME SavesInv, UNCHANGED vars PROVE SavesInv'
  <2>1. TypeOK /\ MemOK /\ OpOK /\ \E saves : SavesOK(saves) BY <1>1 DEF SavesInv
  <2>2. UNCHANGED <<files, synced, mem, op, fresh, made, window, adopted, backed>> BY <1>1 DEF vars
  <2>3. TypeOK' /\ MemOK' BY <2>1, <2>2 DEF TypeOK, MemOK
  <2>4. OpOK' BY <2>1, <2>2 DEF OpOK
  <2>5. PICK saves : SavesOK(saves) BY <2>1
  <2>6. Covered(saves) => Covered(saves)' BY <2>2 DEF Covered, MainIsCovered, Known, Seen
  <2>7. SavesOK(saves)' BY <2>2, <2>5, <2>6 DEF SavesOK
  <2>8. QED BY <2>3, <2>4, <2>7 DEF SavesInv
<1>2. QED
  BY <1>1, OpenSaves, EditSaves, BeginBackupSaves, BeginInPlaceSaves, BeginWriterSaves, WriteSaves,
     WriteFailsSaves, EndBackupSaves, CopySaves, EndCopySaves, EndInPlaceSaves, EndWriterSaves,
     ChecksumSaves, ForeignEditSaves, WriteBackSaves, CrashSaves, PowerLossSaves
  DEF Next

THEOREM SavesInvariant == Spec => []SavesInv
BY InitSaves, StepSaves, PTL DEF Spec

\* Reading a file gives an error or the whole payload of one save, never parts of two or the
\* first part of one, however many saves there are and wherever a crash or a loss of power stops
\* them: the blocks are hashed with keys of their own save, in which they have their place.
THEOREM WholeSaveOrNone == Spec => []NeverTorn
<1>1. SavesInv => NeverTorn
  <2>1. SUFFICES ASSUME SavesInv, NEW x \in Files, read(files[x]).ok
                 PROVE  read(files[x]).data = Payload(read(files[x]).header, read(files[x]).data[1].of)
    BY DEF NeverTorn
  <2>2. TypeOK /\ \E saves : SavesOK(saves) BY <2>1 DEF SavesInv
  <2>3. QED BY <2>1, <2>2, ReadKnown
<1>2. QED BY <1>1, SavesInvariant, PTL

\* A save keeps the comment, the custom data and the key derivation of the header that it read.
THEOREM FieldsKept == Spec => []HeaderKept
<1>1. SavesInv => HeaderKept
  <2>1. SUFFICES ASSUME SavesInv, NEW x \in Files, read(files[x]).ok
                 PROVE  IsKept(read(files[x]).header)
    BY DEF HeaderKept, IsKept
  <2>2. TypeOK /\ \E saves : SavesOK(saves) BY <2>1 DEF SavesInv
  <2>3. QED BY <2>1, <2>2, ReadKnown
<1>2. QED BY <1>1, SavesInvariant, PTL

-----------------------------------------------------------------------------
(* What can be recovered *)

\* A save reads back, by itself and at the start of a file.
LEMMA SaveReads ==
    ASSUME NEW h, IsMainHeader(h), NEW content, IsContent(content)
    PROVE  read(write(h, content)).ok /\ Stored(write(h, content)) = content
<1>1. PICK none : none = [seed \in {} |-> 0] OBVIOUS
<1>2. DOMAIN none = {} BY <1>1
<1>3. AreSaves(none) BY <1>2 DEF AreSaves
<1>4. PICK new : new = WithSave(none, h, content) OBVIOUS
<1>5. PICK w : w = write(h, content) OBVIOUS
<1>6. AreSaves(new) /\ w \in Seq(KnownCells(new)) /\ SizeOf(content) \in Nat \ {0}
  BY <1>2, <1>3, <1>4, <1>5, OneMoreSave
<1>7. Sized(w) BY <1>6, KnownSized
<1>8. Follows(w, 0, w)
  <2>1. ASSUME NEW i \in 1 .. Len(w) PROVE 0 + i \in DOMAIN w /\ w[0 + i] = w[i]
    <3>1. 0 + i = i OBVIOUS
    <3>2. DOMAIN w = 1 .. Len(w) BY <1>7 DEF Sized
    <3>3. QED BY <3>1, <3>2
  <2>2. QED BY <2>1 DEF Follows
<1>9. read(w) = [ok |-> TRUE, header |-> h, data |-> Payload(h, content)]
  BY <1>5, <1>6, <1>7, <1>8, SavesReadBack
<1>10. Payload(h, content)[1].of = content
  <2>1. 1 \in 1 .. SizeOf(content) BY <1>6
  <2>2. QED BY <2>1 DEF Payload
<1>11. read(w).ok /\ read(w).data[1].of = content BY <1>9, <1>10
<1>12. QED BY <1>5, <1>11 DEF Stored

LEMMA WrittenReads ==
    ASSUME SavesInv, NEW path, NEW file, IsWritten(path, file)
    PROVE  read(files[file]).ok
<1>1. PICK saves : SavesOK(saves) BY DEF SavesInv
<1>2. PICK f : f = files[file] OBVIOUS
<1>3. PICK h : h = mem.header OBVIOUS
<1>4. PICK content : content = mem.edits OBVIOUS
<1>5. file \in Files /\ mem # Closed /\ op.cells = write(h, content) /\ Follows(f, 0, op.cells)
  BY <1>2, <1>3, <1>4 DEF IsWritten
<1>6. IsMainHeader(h) /\ IsContent(content) BY <1>3, <1>4, <1>5 DEF SavesInv, MemOK
<1>7. SizeOf(content) \in Nat \ {0} BY <1>6, SavesAssumption DEF IsContent
<1>8. PICK K : K = KnownCells(saves) OBVIOUS
<1>9. AreSaves(saves) /\ f \in Seq(K) BY <1>1, <1>2, <1>5, <1>8 DEF SavesOK, Suits
<1>10. Sized(f) BY <1>8, <1>9, KnownSized
<1>11. read(f) = [ok |-> TRUE, header |-> h, data |-> Payload(h, content)]
  BY <1>5, <1>6, <1>7, <1>9, <1>10, SavesReadBack
<1>12. QED BY <1>2, <1>11

Good(x) == read(files[x]).ok /\ x \in synced

\* Between two saves an open database has a file that reads back; what the backup protects is in
\* a file that reads back and that a loss of power leaves alone: while the backup is written, in
\* the database file, and while the database file is written, in the backup.
RecInv ==
  /\ mem # Closed /\ op.at \in {"idle", "written"} => read(files["main"]).ok
  /\ backed # {} => Good("main") \/ Good("backup")
  /\ op.at = "write" /\ op.file = "backup" => Good("main")
  /\ op.at = "write" /\ op.file = "main" /\ backed # {} => Good("backup")
  /\ op.at = "copy" => Good("backup")

\* The assumptions on the system: it writes a copy back before the next save begins, and only
\* the disk of the backup may be full.
WrittenBack == CopyReachesDisk /\ "main" \notin Failing

LEMMA InitRec == ASSUME Init PROVE RecInv
<1>1. mem = Closed /\ op = Idle /\ backed = {} BY DEF Init
<1>2. op.at = "idle" BY <1>1 DEF Idle
<1>3. QED BY <1>1, <1>2 DEF RecInv

\* Two steps leave both files and the save in progress as they are.
LEMMA SameRec ==
    ASSUME RecInv, UNCHANGED <<files, op, backed>>, synced \subseteq synced',
           mem' # Closed => mem # Closed \/ read(files["main"]).ok
    PROVE  RecInv'
BY DEF RecInv, Good

\* A save begins with a database file that reads back.
LEMMA BeginRec ==
    ASSUME SavesInv, RecInv, WrittenBack, NEW path, NEW file, NEW overwrite, Begin(path, file, overwrite)
    PROVE  /\ op'.at = "write" /\ op'.file = file
           /\ synced = Files /\ Good("main")
<1>1. mem.open /\ op = Idle /\ synced = Files BY DEF Begin, WrittenBack
<1>2. op'.at = "write" /\ op'.file = file BY DEF Begin
<1>3. mem # Closed BY <1>1 DEF Closed
<1>4. op.at = "idle" BY <1>1 DEF Idle
<1>5. Good("main") BY <1>1, <1>3, <1>4 DEF RecInv, Good, Files
<1>6. QED BY <1>1, <1>2, <1>5

LEMMA BeginBackupRec == ASSUME SavesInv, RecInv, WrittenBack, BeginBackup PROVE RecInv'
<1>1. PICK overwrite \in BOOLEAN : Begin("backup", "backup", overwrite) BY DEF BeginBackup
<1>2. files' = [files EXCEPT !["backup"] = <<>>] /\ synced' = synced \ {"backup"}
  BY DEF BeginBackup
<1>3. op'.at = "write" /\ op'.file = "backup" /\ Good("main") BY <1>1, BeginRec
<1>4. files'["main"] = files["main"]
  <2>1. PICK saves : SavesOK(saves) BY DEF SavesInv
  <2>2. QED BY <1>2, <2>1 DEF SavesOK, Files
<1>5. Good("main")' BY <1>2, <1>3, <1>4 DEF Good
<1>6. QED BY <1>3, <1>5 DEF RecInv

LEMMA PastBackupRec ==
    ASSUME SavesInv, RecInv, WrittenBack, NEW path, NEW overwrite, Begin(path, "main", overwrite),
           PastBackup, files'["backup"] = files["backup"], synced \ {"main"} \subseteq synced'
    PROVE  RecInv'
<1>1. op'.at = "write" /\ op'.file = "main" /\ synced = Files BY BeginRec
<1>2. ASSUME backed' # {} PROVE Good("backup")'
  <2>1. read(files["backup"]).ok BY <1>2 DEF PastBackup
  <2>2. read(files'["backup"]).ok BY <2>1
  <2>3. "backup" \in synced' BY <1>1 DEF Files
  <2>4. QED BY <2>2, <2>3 DEF Good
<1>3. QED BY <1>1, <1>2 DEF RecInv

LEMMA BeginInPlaceRec == ASSUME SavesInv, RecInv, WrittenBack, BeginInPlace PROVE RecInv'
<1>1. PICK overwrite \in BOOLEAN : Begin("in place", "main", overwrite) BY DEF BeginInPlace
<1>2. PastBackup /\ files' = files /\ synced' = synced BY DEF BeginInPlace
<1>3. QED BY <1>1, <1>2, PastBackupRec

LEMMA BeginWriterRec == ASSUME SavesInv, RecInv, WrittenBack, BeginWriter PROVE RecInv'
<1>1. PICK overwrite \in BOOLEAN : Begin("writer", "main", overwrite) BY DEF BeginWriter
<1>2. PastBackup BY DEF BeginWriter
<1>3. files'["backup"] = files["backup"] /\ synced \ {"main"} \subseteq synced'
  <2>1. PICK saves : SavesOK(saves) BY DEF SavesInv
  <2>2. \/ files' = [files EXCEPT !["main"] = <<>>] /\ synced' = synced \ {"main"}
        \/ files' = files /\ synced' = synced
    BY DEF BeginWriter
  <2>3. QED BY <2>1, <2>2 DEF SavesOK, Files
<1>4. QED BY <1>1, <1>2, <1>3, PastBackupRec

\* What a step changes in one file leaves the other one good.
LEMMA OtherStaysGood ==
    ASSUME SavesInv, NEW x \in Files, NEW y \in Files, x # y, NEW new,
           files' = [files EXCEPT ![x] = new], synced \ {x} \subseteq synced', Good(y)
    PROVE  Good(y)'
<1>1. PICK saves : SavesOK(saves) BY DEF SavesInv
<1>2. files'[y] = files[y] BY <1>1 DEF SavesOK
<1>3. y \in synced' BY DEF Good
<1>4. QED BY <1>2, <1>3 DEF Good

LEMMA WriteRec == ASSUME SavesInv, RecInv, Write PROVE RecInv'
<1>1. PICK file : file = op.file OBVIOUS
<1>2. PICK new : new = Put(files[file], op.pos + 1, op.cells[op.pos + 1]) OBVIOUS
<1>3. op.at = "write" /\ files' = [files EXCEPT ![file] = new] /\ synced' = synced \ {file} /\ backed' = backed
  BY <1>1, <1>2 DEF Write
<1>4. op # Idle BY <1>3 DEF Idle
<1>5. file \in Files /\ op' = [op EXCEPT !.pos = @ + 1] BY <1>1, <1>4 DEF SavesInv, OpOK, Write
<1>6. op'.at = "write" /\ op'.file = file
  <2>1. op = [at |-> op.at, path |-> op.path, file |-> op.file, pos |-> op.pos,
              overwrite |-> op.overwrite, cells |-> op.cells]
    BY <1>4 DEF SavesInv, OpOK
  <2>2. op'.at = op.at /\ op'.file = op.file BY <1>5, <2>1
  <2>3. QED BY <1>1, <1>3, <2>2
<1>7. CASE file = "backup"
  <2>1. Good("main") BY <1>1, <1>3, <1>7 DEF RecInv
  <2>2. Good("main")' BY <1>3, <1>7, <2>1, OtherStaysGood DEF Files
  <2>3. QED BY <1>6, <1>7, <2>2 DEF RecInv
<1>8. CASE file = "main"
  <2>1. backed # {} => Good("backup") BY <1>1, <1>3, <1>8 DEF RecInv
  <2>2. backed # {} => Good("backup")' BY <1>3, <1>8, <2>1, OtherStaysGood DEF Files
  <2>3. QED BY <1>3, <1>6, <1>8, <2>2 DEF RecInv
<1>9. QED BY <1>5, <1>7, <1>8 DEF Files

LEMMA WriteFailsRec == ASSUME SavesInv, RecInv, WrittenBack, WriteFails PROVE RecInv'
<1>1. op' = Idle /\ UNCHANGED <<files, synced, mem, backed>> BY DEF WriteFails
<1>2. op.at = "write" /\ op.file # "main" BY DEF WriteFails, WrittenBack
<1>3. op # Idle BY <1>2 DEF Idle
<1>4. op.file = "backup" BY <1>2, <1>3 DEF SavesInv, OpOK, Files
<1>5. Good("main") BY <1>2, <1>4 DEF RecInv
<1>6. Good("main")' /\ read(files'["main"]).ok BY <1>1, <1>5 DEF Good
<1>7. op'.at = "idle" BY <1>1 DEF Idle
<1>8. QED BY <1>6, <1>7 DEF RecInv

LEMMA EndBackupRec == ASSUME SavesInv, RecInv, EndBackup PROVE RecInv'
<1>1. PICK file : file = op.file OBVIOUS
<1>2. Written("backup") /\ UNCHANGED <<files, mem, backed>> /\ synced' = synced \cup {"backup"} BY DEF EndBackup
<1>3. IsWritten("backup", file) BY <1>1, <1>2, WrittenWhole
<1>4. file = "backup" BY <1>3 DEF IsWritten
<1>5. read(files["backup"]).ok BY <1>3, <1>4, WrittenReads
<1>6. Good("backup")' BY <1>2, <1>5 DEF Good
<1>7. op.at = "write" BY <1>2 DEF Written
<1>8. Good("main") BY <1>1, <1>4, <1>7 DEF RecInv
<1>9. read(files'["main"]).ok BY <1>2, <1>8 DEF Good
<1>10. op'.at # "write"
  <2>1. CASE op' = Idle BY <2>1 DEF Idle
  <2>2. CASE op' = [op EXCEPT !.at = "copy", !.pos = 0]
    <3>1. op = [at |-> "write", path |-> "backup", file |-> file, pos |-> op.pos,
                overwrite |-> op.overwrite, cells |-> op.cells]
      BY <1>3 DEF IsWritten
    <3>2. PICK o : o = op OBVIOUS
    <3>3. PICK n : n = op' OBVIOUS
    <3>4. n = [o EXCEPT !.at = "copy", !.pos = 0] BY <2>2, <3>2, <3>3
    <3>5. o = [at |-> "write", path |-> "backup", file |-> file, pos |-> o.pos,
               overwrite |-> o.overwrite, cells |-> o.cells]
      BY <3>1, <3>2
    <3>6. n.at = "copy" BY <3>4, <3>5
    <3>7. QED BY <3>3, <3>6
  <2>3. QED BY <2>1, <2>2 DEF EndBackup
<1>11. QED BY <1>6, <1>9, <1>10 DEF RecInv

LEMMA CopyRec == ASSUME SavesInv, RecInv, Copy PROVE RecInv'
<1>1. PICK new : new = SubSeq(files["backup"], 1, op.pos) OBVIOUS
<1>2. /\ op.at = "copy" /\ op' = [op EXCEPT !.pos = @ + 1] /\ files' = [files EXCEPT !["main"] = new]
      /\ synced' = synced \ {"main"}
  BY <1>1 DEF Copy
<1>3. Good("backup") BY <1>2 DEF RecInv
<1>4. Good("backup")' BY <1>2, <1>3, OtherStaysGood DEF Files
<1>5. op'.at = "copy"
  <2>1. op = [at |-> "copy", path |-> "backup", file |-> "backup", pos |-> op.pos,
              overwrite |-> op.overwrite, cells |-> op.cells]
    BY <1>2, CopiedSoFar DEF IsCopied
  <2>2. QED BY <1>2, <2>1
<1>6. QED BY <1>4, <1>5 DEF RecInv

LEMMA EndCopyRec == ASSUME SavesInv, RecInv, EndCopy PROVE RecInv'
<1>1. PICK f : f = files["backup"] OBVIOUS
<1>2. op.at = "copy" /\ op.pos = Len(f) + 1 /\ op' = Idle /\ UNCHANGED <<files, synced>> BY <1>1 DEF EndCopy
<1>3. Good("backup") BY <1>2 DEF RecInv
<1>4. Good("backup")' BY <1>2, <1>3 DEF Good
<1>5. op.pos > 0 => files["main"] = SubSeq(f, 1, op.pos - 1) BY <1>1, <1>2, CopiedSoFar DEF IsCopied
<1>6. PICK saves : SavesOK(saves) BY DEF SavesInv
<1>7. f \in Seq(KnownCells(saves)) BY <1>1, <1>6 DEF SavesOK, Files
<1>8. files["main"] = f
  <2>1. Len(f) \in Nat BY <1>7
  <2>2. op.pos > 0 /\ op.pos - 1 = Len(f) BY <1>2, <2>1
  <2>3. files["main"] = SubSeq(f, 1, Len(f)) BY <1>5, <2>2
  <2>4. SubSeq(f, 1, Len(f)) = f BY <1>7
  <2>5. QED BY <2>3, <2>4
<1>9. read(files'["main"]).ok BY <1>1, <1>2, <1>3, <1>8 DEF Good
<1>10. op'.at = "idle" BY <1>2 DEF Idle
<1>11. QED BY <1>4, <1>9, <1>10 DEF RecInv

LEMMA EndInPlaceRec == ASSUME SavesInv, RecInv, EndInPlace PROVE RecInv'
<1>1. PICK cut : cut = SubSeq(files["main"], 1, Len(op.cells)) OBVIOUS
<1>2. /\ Written("in place") /\ files' = [files EXCEPT !["main"] = cut]
      /\ synced' = synced \cup {"main"} /\ op' = Idle
  BY <1>1 DEF EndInPlace
<1>3. PICK file : file = op.file OBVIOUS
<1>4. IsWritten("in place", file) BY <1>2, <1>3, WrittenWhole
<1>5. file = "main" BY <1>4 DEF IsWritten, Files
<1>6. cut = write(mem.header, mem.edits) /\ mem # Closed BY <1>1, <1>4, <1>5 DEF IsWritten
<1>7. IsMainHeader(mem.header) /\ IsContent(mem.edits) BY <1>6 DEF SavesInv, MemOK
<1>8. read(cut).ok BY <1>6, <1>7, SaveReads
<1>9. PICK saves : SavesOK(saves) BY DEF SavesInv
<1>10. files'["main"] = cut BY <1>2, <1>9 DEF SavesOK, Files
<1>11. Good("main")' /\ read(files'["main"]).ok BY <1>2, <1>8, <1>10 DEF Good
<1>12. op'.at = "idle" BY <1>2 DEF Idle
<1>13. QED BY <1>11, <1>12 DEF RecInv

LEMMA EndWriterRec == ASSUME SavesInv, RecInv, EndWriter PROVE RecInv'
<1>1. PICK file : file = op.file OBVIOUS
<1>2. Written("writer") /\ op' = [op EXCEPT !.at = "written"] /\ UNCHANGED <<files, synced, mem, backed>>
  BY DEF EndWriter
<1>3. IsWritten("writer", file) BY <1>1, <1>2, WrittenWhole
<1>4. file = "main" BY <1>3 DEF IsWritten, Files
<1>5. read(files'["main"]).ok BY <1>2, <1>3, <1>4, WrittenReads
<1>6. op.at = "write" BY <1>2 DEF Written
<1>7. backed # {} => Good("backup") BY <1>1, <1>4, <1>6 DEF RecInv
<1>8. backed' # {} => Good("backup")' BY <1>2, <1>7 DEF Good
<1>9. op'.at = "written"
  <2>1. op = [at |-> "write", path |-> "writer", file |-> file, pos |-> op.pos,
              overwrite |-> op.overwrite, cells |-> op.cells]
    BY <1>3 DEF IsWritten
  <2>2. QED BY <1>2, <2>1
<1>10. QED BY <1>5, <1>8, <1>9 DEF RecInv

LEMMA ChecksumRec == ASSUME SavesInv, RecInv, calculate_and_set_db_file_checksum PROVE RecInv'
<1>1. op.at = "written" /\ op' = Idle /\ UNCHANGED <<files, synced, backed>>
  BY DEF calculate_and_set_db_file_checksum
<1>2. op # Idle BY <1>1 DEF Idle
<1>3. mem # Closed BY <1>2 DEF SavesInv, OpOK
<1>4. read(files["main"]).ok BY <1>1, <1>3 DEF RecInv
<1>5. backed # {} => Good("main") \/ Good("backup") BY DEF RecInv
<1>6. backed' # {} => Good("main")' \/ Good("backup")' BY <1>1, <1>5 DEF Good
<1>7. op'.at = "idle" BY <1>1 DEF Idle
<1>8. QED BY <1>1, <1>4, <1>6, <1>7 DEF RecInv

LEMMA ForeignEditRec == ASSUME SavesInv, RecInv, ForeignEdit PROVE RecInv'
<1>1. TypeOK BY DEF SavesInv
<1>2. PICK saves : SavesOK(saves) BY DEF SavesInv
<1>3. PICK r : r = read(files["main"]) OBVIOUS
<1>4. PICK h : h = [reset_random_values(r.header, fresh) EXCEPT !.compression_flag = 1] OBVIOUS
<1>5. PICK content : content = r.data[1].of \cup {made + 1} OBVIOUS
<1>6. PICK w : w = write(h, content) OBVIOUS
<1>7. r.ok /\ files' = [files EXCEPT !["main"] = w] BY <1>3, <1>4, <1>5, <1>6 DEF ForeignEdit
<1>8. made < MaxEdits /\ synced' = synced \cup {"main"} /\ UNCHANGED <<mem, op, backed>> BY DEF ForeignEdit
<1>9. IsMainHeader(r.header) /\ IsContent(r.data[1].of) BY <1>1, <1>2, <1>3, <1>7, ReadKnown DEF Files
<1>10. IsMainHeader(h) BY <1>4, <1>9, ResetHeader
<1>11. IsContent(content)
  <2>1. made \in 0 .. MaxEdits /\ MaxEdits \in Nat BY <1>1, SavesAssumption DEF TypeOK
  <2>2. made + 1 \in 0 .. MaxEdits BY <1>8, <2>1
  <2>3. QED BY <1>5, <1>9, <2>2 DEF IsContent
<1>12. read(w).ok BY <1>6, <1>10, <1>11, SaveReads
<1>13. files'["main"] = w BY <1>2, <1>7 DEF SavesOK, Files
<1>14. Good("main")' /\ read(files'["main"]).ok BY <1>8, <1>12, <1>13 DEF Good
<1>15. ASSUME Good("backup") PROVE Good("backup")'
  <2>1. synced \ {"main"} \subseteq synced' BY <1>8
  <2>2. QED BY <1>7, <1>15, <2>1, OtherStaysGood DEF Files
<1>16. QED BY <1>8, <1>14, <1>15 DEF RecInv

LEMMA CrashRec == ASSUME RecInv, Crash PROVE RecInv'
<1>1. mem' = Closed /\ op' = Idle /\ UNCHANGED <<files, synced, backed>> BY DEF Crash
<1>2. op'.at = "idle" BY <1>1 DEF Idle
<1>3. backed # {} => Good("main") \/ Good("backup") BY DEF RecInv
<1>4. backed' # {} => Good("main")' \/ Good("backup")' BY <1>1, <1>3 DEF Good
<1>5. QED BY <1>1, <1>2, <1>4 DEF RecInv

LEMMA PowerLossRec == ASSUME RecInv, PowerLoss PROVE RecInv'
<1>1. mem' = Closed /\ op' = Idle /\ synced' = Files /\ backed' = backed BY DEF PowerLoss
<1>2. PICK torn : files' = [x \in Files |-> IF x \in synced THEN files[x] ELSE torn[x]] BY DEF PowerLoss
<1>3. op'.at = "idle" BY <1>1 DEF Idle
<1>4. ASSUME NEW x \in Files, Good(x) PROVE Good(x)'
  <2>1. x \in synced /\ read(files[x]).ok BY <1>4 DEF Good
  <2>2. files'[x] = files[x] BY <1>2, <2>1
  <2>3. QED BY <1>1, <2>1, <2>2 DEF Good
<1>5. backed # {} => Good("main") \/ Good("backup") BY DEF RecInv
<1>6. backed' # {} => Good("main")' \/ Good("backup")' BY <1>1, <1>4, <1>5 DEF Files
<1>7. QED BY <1>1, <1>3, <1>6 DEF RecInv

LEMMA StepRec == ASSUME WrittenBack PROVE SavesInv /\ RecInv /\ [Next]_vars => RecInv'
<1>1. ASSUME SavesInv, RecInv, Open PROVE RecInv'
  <2>1. UNCHANGED <<files, op, backed>> /\ synced' = synced /\ read(files["main"]).ok BY <1>1 DEF Open
  <2>2. QED BY <1>1, <2>1, SameRec
<1>2. ASSUME SavesInv, RecInv, Edit PROVE RecInv'
  <2>1. UNCHANGED <<files, op, backed>> /\ synced' = synced /\ mem.open BY <1>2 DEF Edit
  <2>2. mem # Closed BY <2>1 DEF Closed
  <2>3. QED BY <1>2, <2>1, <2>2, SameRec
<1>3. ASSUME SavesInv, RecInv, WriteBack PROVE RecInv'
  <2>1. UNCHANGED <<files, op, backed>> /\ synced' = Files /\ mem' = mem BY <1>3 DEF WriteBack
  <2>2. synced \subseteq synced' BY <1>3, <2>1 DEF SavesInv, TypeOK
  <2>3. QED BY <1>3, <2>1, <2>2, SameRec
<1>4. ASSUME SavesInv, RecInv, UNCHANGED vars PROVE RecInv'
  <2>1. UNCHANGED <<files, op, backed>> /\ synced' = synced /\ mem' = mem BY <1>4 DEF vars
  <2>2. QED BY <1>4, <2>1, SameRec
<1>5. QED
  BY <1>1, <1>2, <1>3, <1>4, BeginBackupRec, BeginInPlaceRec, BeginWriterRec, WriteRec, WriteFailsRec,
     EndBackupRec, CopyRec, EndCopyRec, EndInPlaceRec, EndWriterRec, ChecksumRec, ForeignEditRec,
     CrashRec, PowerLossRec
  DEF Next

\* Wherever a save, the program or the power stops, and however many saves come after it, what the
\* last save through the backup wrote is in a file that reads back, until a save that goes past the
\* backup begins when the backup cannot be read. It takes a system that writes the copy back before
\* the next save begins, which the core does not ask of it, and a disk that the database file fits on.
THEOREM BackupRecovers == ASSUME CopyReachesDisk, "main" \notin Failing PROVE Spec => []Recoverable
<1>1. WrittenBack BY DEF WrittenBack
<1>2. SavesInv /\ RecInv => Recoverable
  <2>1. SUFFICES ASSUME SavesInv, RecInv, backed # {}
                 PROVE  \E x \in Files : read(files[x]).ok /\ backed \subseteq Stored(files[x])
    BY DEF Recoverable
  <2>2. PICK x \in Files : read(files[x]).ok BY <2>1 DEF RecInv, Good, Files
  <2>3. TypeOK /\ \E saves : SavesOK(saves) BY <2>1 DEF SavesInv
  <2>4. backed \subseteq read(files[x]).data[1].of BY <2>2, <2>3, ReadKnown
  <2>5. QED BY <2>2, <2>4 DEF Stored
<1>3. Init => RecInv BY InitRec
<1>4. SavesInv /\ RecInv /\ [Next]_vars => RecInv' BY <1>1, StepRec
<1>5. QED BY <1>2, <1>3, <1>4, SavesInvariant, PTL DEF Spec
-----------------------------------------------------------------------------
(* What other programs wrote *)

\* What another program wrote is there after a step of a save that must not overwrite it, unless it
\* came after the verification, or came with a checksum.
EditsKept == Stored(files["main"]) \subseteq
               Stored(files'["main"]) \cup Stored(files'["backup"]) \cup mem'.edits \cup window' \cup adopted'

LEMMA CoveredIsRead ==
    ASSUME SavesInv, ChecksumCells >= 2, MainIsCovered
    PROVE  Stored(files["main"]) \subseteq mem.edits \cup window \cup adopted
<1>1. TypeOK BY DEF SavesInv
<1>2. PICK saves : SavesOK(saves) BY DEF SavesInv
<1>3. Covers(Seen, files["main"], saves) BY <1>2 DEF SavesOK, Covered
<1>4. PICK edits : edits = Seen OBVIOUS
<1>5. ASSUME read(files["main"]).ok PROVE Stored(files["main"]) \subseteq edits
  <2>1. read(files["main"]).data[1].of \subseteq edits BY <1>1, <1>2, <1>3, <1>4, <1>5, ReadCovered
  <2>2. QED BY <1>4, <1>5, <2>1 DEF Stored
<1>6. ~read(files["main"]).ok => Stored(files["main"]) \subseteq edits BY DEF Stored
<1>7. QED BY <1>4, <1>5, <1>6 DEF Seen, Known

LEMMA SetPos ==
    ASSUME NEW o, o = [at |-> o.at, path |-> o.path, file |-> o.file, pos |-> o.pos,
                       overwrite |-> o.overwrite, cells |-> o.cells],
           NEW n, n = [o EXCEPT !.pos = @ + 1]
    PROVE  n.overwrite = o.overwrite
<1>1. PICK at : at = o.at OBVIOUS
<1>2. PICK path : path = o.path OBVIOUS
<1>3. PICK file : file = o.file OBVIOUS
<1>4. PICK pos : pos = o.pos OBVIOUS
<1>5. PICK overwrite : overwrite = o.overwrite OBVIOUS
<1>6. PICK cells : cells = o.cells OBVIOUS
<1>7. PICK next : next = o.pos + 1 OBVIOUS
<1>8. o = [at |-> at, path |-> path, file |-> file, pos |-> pos, overwrite |-> overwrite, cells |-> cells]
  BY <1>1, <1>2, <1>3, <1>4, <1>5, <1>6
<1>9. n = [o EXCEPT !.pos = next] BY <1>7
<1>10. n = [at |-> at, path |-> path, file |-> file, pos |-> next, overwrite |-> overwrite, cells |-> cells]
  BY <1>8, <1>9
<1>11. QED BY <1>5, <1>10

LEMMA WriteKeeps ==
    ASSUME SavesInv, ChecksumCells >= 2, Write, ~op.overwrite
    PROVE  EditsKept
<1>1. /\ op.at = "write" /\ mem' = mem /\ op # Idle
      /\ window' = window /\ adopted' = adopted
  BY DEF Write, Idle
<1>2. op.file \in Files BY <1>1 DEF SavesInv, OpOK
<1>3. CASE op.file = "main"
  <2>1. MainIsCovered BY <1>1, <1>3 DEF MainIsCovered
  <2>2. QED BY <1>1, <2>1, CoveredIsRead DEF EditsKept
<1>4. CASE op.file = "backup"
  <2>1. PICK saves : SavesOK(saves) BY DEF SavesInv
  <2>2. PICK new : files' = [files EXCEPT !["backup"] = new] BY <1>4 DEF Write
  <2>3. files'["main"] = files["main"] BY <2>1, <2>2 DEF SavesOK, Files
  <2>4. QED BY <2>3 DEF EditsKept
<1>5. QED BY <1>2, <1>3, <1>4 DEF Files

LEMMA CopyKeeps ==
    ASSUME SavesInv, ChecksumCells >= 2, Copy, ~op.overwrite
    PROVE  EditsKept
<1>1. op.at = "copy" /\ mem' = mem /\ window' = window /\ adopted' = adopted BY DEF Copy
<1>2. MainIsCovered BY <1>1 DEF MainIsCovered
<1>3. QED BY <1>1, <1>2, CoveredIsRead DEF EditsKept

LEMMA EndInPlaceKeeps ==
    ASSUME SavesInv, ChecksumCells >= 2, EndInPlace, ~op.overwrite
    PROVE  EditsKept
<1>1. PICK file : file = op.file OBVIOUS
<1>2. Written("in place") BY DEF EndInPlace
<1>3. IsWritten("in place", file) BY <1>1, <1>2, WrittenWhole
<1>4. file = "main" /\ mem # Closed BY <1>3 DEF IsWritten, Files
<1>5. op.at = "write" BY <1>2 DEF Written
<1>6. MainIsCovered BY <1>1, <1>4, <1>5 DEF MainIsCovered
<1>7. PICK sum : mem' = [mem EXCEPT !.checksum = sum] BY DEF EndInPlace
<1>8. mem = [open |-> TRUE, edits |-> mem.edits, header |-> mem.header, checksum |-> mem.checksum]
  BY <1>4 DEF SavesInv, MemOK
<1>9. mem' = [open |-> TRUE, edits |-> mem.edits, header |-> mem.header, checksum |-> sum]
  BY <1>7, <1>8, SetChecksum, Zenon
<1>10. mem'.edits = mem.edits /\ window' = window /\ adopted' = adopted BY <1>9 DEF EndInPlace
<1>11. QED BY <1>6, <1>10, CoveredIsRead DEF EditsKept

LEMMA ForeignEditKeeps ==
    ASSUME SavesInv, ForeignEdit
    PROVE  EditsKept
<1>1. TypeOK BY DEF SavesInv
<1>2. PICK saves : SavesOK(saves) BY DEF SavesInv
<1>3. PICK r : r = read(files["main"]) OBVIOUS
<1>4. PICK h : h = [reset_random_values(r.header, fresh) EXCEPT !.compression_flag = 1] OBVIOUS
<1>5. PICK content : content = r.data[1].of \cup {made + 1} OBVIOUS
<1>6. PICK w : w = write(h, content) OBVIOUS
<1>7. r.ok /\ files' = [files EXCEPT !["main"] = w] BY <1>3, <1>4, <1>5, <1>6 DEF ForeignEdit
<1>8. made < MaxEdits BY DEF ForeignEdit
<1>9. IsMainHeader(r.header) /\ IsContent(r.data[1].of) BY <1>1, <1>2, <1>3, <1>7, ReadKnown DEF Files
<1>10. IsMainHeader(h) BY <1>4, <1>9, ResetHeader
<1>11. IsContent(content)
  <2>1. made \in 0 .. MaxEdits /\ MaxEdits \in Nat BY <1>1, SavesAssumption DEF TypeOK
  <2>2. made + 1 \in 0 .. MaxEdits BY <1>8, <2>1
  <2>3. QED BY <1>5, <1>9, <2>2 DEF IsContent
<1>12. Stored(w) = content BY <1>6, <1>10, <1>11, SaveReads
<1>13. files'["main"] = w BY <1>2, <1>7 DEF SavesOK, Files
<1>14. Stored(files["main"]) = r.data[1].of BY <1>3, <1>7 DEF Stored
<1>15. Stored(files["main"]) \subseteq Stored(files'["main"]) BY <1>5, <1>12, <1>13, <1>14
<1>16. QED BY <1>15 DEF EditsKept

LEMMA BeginInPlaceKeeps ==
    ASSUME BeginInPlace
    PROVE  EditsKept
<1>1. files' = files BY DEF BeginInPlace
<1>2. QED BY <1>1 DEF EditsKept

LEMMA BeginBackupKeeps ==
    ASSUME SavesInv, BeginBackup
    PROVE  EditsKept
<1>1. files' = [files EXCEPT !["backup"] = <<>>] BY DEF BeginBackup
<1>2. PICK saves : SavesOK(saves) BY DEF SavesInv
<1>3. files'["main"] = files["main"] BY <1>1, <1>2 DEF SavesOK, Files
<1>4. QED BY <1>3 DEF EditsKept

\* The caller's writer may truncate the file when it is verified.
LEMMA BeginWriterKeeps ==
    ASSUME SavesInv, ChecksumCells >= 2, BeginWriter, ~op'.overwrite
    PROVE  EditsKept
<1>1. PICK overwrite \in BOOLEAN :
        verify_db_file_checksum(overwrite) /\ Begin("writer", "main", overwrite) /\ adopted' = adopted
  BY DEF BeginWriter
<1>2. /\ mem.open /\ op'.overwrite = overwrite
      /\ mem' = [mem EXCEPT !.header = reset_random_values(mem.header, fresh)]
  BY <1>1 DEF Begin
<1>3. mem # Closed BY <1>2 DEF Closed
<1>4. Checksum(files["main"]) = mem.checksum BY <1>1, <1>2 DEF verify_db_file_checksum
<1>5. mem = [open |-> TRUE, edits |-> mem.edits, header |-> mem.header, checksum |-> mem.checksum]
  BY <1>3 DEF SavesInv, MemOK
<1>6. mem'.edits = mem.edits
  <2>1. PICK h : h = reset_random_values(mem.header, fresh) OBVIOUS
  <2>2. PICK edits : edits = mem.edits OBVIOUS
  <2>3. mem = [open |-> TRUE, edits |-> edits, header |-> mem.header, checksum |-> mem.checksum] BY <1>5, <2>2
  <2>4. mem' = [mem EXCEPT !.header = h] BY <1>2, <2>1
  <2>5. mem'.edits = edits BY <2>3, <2>4
  <2>6. QED BY <2>2, <2>5
<1>7. TypeOK BY DEF SavesInv
<1>8. PICK saves : SavesOK(saves) BY DEF SavesInv
<1>9. Covers(Known, files["main"], saves) BY <1>3, <1>4, <1>8, VerifiedCovers
<1>10. PICK edits : edits = Known OBVIOUS
<1>11. Stored(files["main"]) \subseteq edits
  <2>1. read(files["main"]).ok => read(files["main"]).data[1].of \subseteq edits
    BY <1>7, <1>8, <1>9, <1>10, ReadCovered
  <2>2. QED BY <2>1 DEF Stored
<1>12. QED BY <1>1, <1>6, <1>10, <1>11 DEF EditsKept, Known

LEMMA StepKeeps ==
    ASSUME SavesInv, ChecksumCells >= 2, Next, mem'.open, mem.open, MustNotOverwrite
    PROVE  EditsKept
<1>1. mem # Closed /\ mem' # Closed BY DEF Closed
<1>2. ASSUME files' = files PROVE EditsKept BY <1>2 DEF EditsKept
<1>3. CASE Open BY <1>2, <1>3 DEF Open
<1>4. CASE Edit BY <1>2, <1>4 DEF Edit
<1>5. CASE BeginBackup BY <1>5, BeginBackupKeeps
<1>6. CASE BeginInPlace BY <1>6, BeginInPlaceKeeps
<1>7. CASE BeginWriter
  <2>1. op.at = "idle" BY <1>7 DEF BeginWriter, Begin, Idle
  <2>2. ~op'.overwrite BY <2>1 DEF MustNotOverwrite
  <2>3. QED BY <1>7, <2>2, BeginWriterKeeps
<1>8. CASE Write
  <2>1. ~op.overwrite
    <3>1. op.at = "write" /\ op' = [op EXCEPT !.pos = @ + 1] BY <1>8 DEF Write
    <3>2. op # Idle BY <3>1 DEF Idle
    <3>3. op = [at |-> op.at, path |-> op.path, file |-> op.file, pos |-> op.pos,
                overwrite |-> op.overwrite, cells |-> op.cells]
      BY <3>2 DEF SavesInv, OpOK
    <3>4. op'.overwrite = op.overwrite BY <3>1, <3>3, SetPos
    <3>5. QED BY <3>4 DEF MustNotOverwrite
  <2>2. QED BY <1>8, <2>1, WriteKeeps
<1>9. CASE Copy
  <2>1. ~op.overwrite
    <3>1. op.at = "copy" /\ op' = [op EXCEPT !.pos = @ + 1] BY <1>9 DEF Copy
    <3>2. op # Idle BY <3>1 DEF Idle
    <3>3. op = [at |-> op.at, path |-> op.path, file |-> op.file, pos |-> op.pos,
                overwrite |-> op.overwrite, cells |-> op.cells]
      BY <3>2 DEF SavesInv, OpOK
    <3>4. op'.overwrite = op.overwrite BY <3>1, <3>3, SetPos
    <3>5. QED BY <3>4 DEF MustNotOverwrite
  <2>2. QED BY <1>9, <2>1, CopyKeeps
<1>10. CASE EndInPlace
  <2>1. op' = Idle BY <1>10 DEF EndInPlace
  <2>2. op'.at = "idle" BY <2>1 DEF Idle
  <2>3. ~op.overwrite BY <2>2 DEF MustNotOverwrite
  <2>4. QED BY <1>10, <2>3, EndInPlaceKeeps
<1>11. CASE WriteFails BY <1>2, <1>11 DEF WriteFails
<1>12. CASE EndBackup BY <1>2, <1>12 DEF EndBackup
<1>13. CASE EndCopy BY <1>2, <1>13 DEF EndCopy
<1>14. CASE EndWriter BY <1>2, <1>14 DEF EndWriter
<1>15. CASE calculate_and_set_db_file_checksum BY <1>2, <1>15 DEF calculate_and_set_db_file_checksum
<1>16. CASE ForeignEdit BY <1>16, ForeignEditKeeps
<1>17. CASE WriteBack BY <1>2, <1>17 DEF WriteBack
<1>18. CASE Crash \/ PowerLoss BY <1>1, <1>18 DEF Crash, PowerLoss
<1>19. QED
  BY <1>3, <1>4, <1>5, <1>6, <1>7, <1>8, <1>9, <1>10, <1>11, <1>12, <1>13, <1>14, <1>15, <1>16, <1>17, <1>18
  DEF Next

\* No step of a save that must not overwrite loses what another program had put into the file, however
\* many of them write and in whatever order, but for what came after the verification of that save,
\* or came with the checksum that an earlier save through a writer took from the file: the checksum
\* covers the header of the file, whose random seed no two saves share.
THEOREM NobodyOverwritten == ASSUME ChecksumCells >= 2 PROVE Spec => ForeignEditsKept
<1>1. SavesInv /\ [Next]_vars =>
        [mem'.open /\ mem.open /\ MustNotOverwrite =>
           Stored(files["main"]) \subseteq
             Stored(files'["main"]) \cup Stored(files'["backup"]) \cup mem'.edits
               \cup window' \cup adopted']_vars
  BY StepKeeps DEF EditsKept
<1>2. QED BY <1>1, SavesInvariant, PTL DEF Spec, ForeignEditsKept
=============================================================================
