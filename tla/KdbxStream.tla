----------------------------- MODULE KdbxStream -----------------------------
(* The bytes of a database file (src/db/reader_writer.rs and the headers in *)
(* src/db/kdbx_file.rs): a sequence of cells, each a piece that the writer  *)
(* writes whole and that a crash may leave written or not. The fields of    *)
(* the main header are one cell: a part of them has no valid hash.          *)
EXTENDS Integers, Sequences, FiniteSets, SequencesExt

CONSTANTS PAYLOAD_BLOCK_SIZE,  \* cells of payload in a block
          ChecksumCells,       \* cells in the first 1000 bytes
          SizeOf(_)            \* cells of a payload with this content
ASSUME StreamAssumption == PAYLOAD_BLOCK_SIZE \in Nat \ {0} /\ ChecksumCells \in Nat

Signature == [kind |-> "signature"]
Zero == [kind |-> "zero"]
Header(fields) == [kind |-> "header", fields |-> fields]
Field(id, val) == [id |-> id, val |-> val]
Hash(data) == [kind |-> "hash", data |-> data]
Hmac(key, data) == [kind |-> "hmac", key |-> key, data |-> data]
Size(n) == [kind |-> "size", n |-> n]

-----------------------------------------------------------------------------
(* The key derivation parameters: a dictionary of typed values.             *)
Item(type, name, val) == [type |-> type, name |-> name, val |-> val]
DefaultArgon2(variant) == [variant |-> variant, iterations |-> 10, memory |-> 64, parallelism |-> 2,
                           version |-> 19, salt |-> 0]
NoKdf == [variant |-> "NoValidKdfAvailable"]
Variants == {"Argon2d", "Argon2id"}

\* What is read later replaces what was read before.
LastOf(places, items, default) == IF places = {} THEN default ELSE items[Max(places)].val

update_argon2_with_vds(vds, kdf) ==
  LET value(type, name, default) ==
        LastOf({i \in DOMAIN vds : vds[i].type = type /\ vds[i].name = name}, vds, default)
  IN [variant     |-> kdf.variant,
      iterations  |-> value("UInt64", "I", kdf.iterations),
      memory      |-> value("UInt64", "M", kdf.memory),
      parallelism |-> value("UInt32", "P", kdf.parallelism),
      version     |-> value("UInt32", "V", kdf.version),
      salt        |-> value("ByteArray", "S", kdf.salt)]

extract_kdf_parameters(vds) ==
  LET uuids == {i \in DOMAIN vds : /\ vds[i].type = "ByteArray" /\ vds[i].name = "$UUID"
                                   /\ vds[i].val \in Variants}
  IN IF uuids = {} THEN NoKdf
     ELSE update_argon2_with_vds(vds, DefaultArgon2(vds[Max(uuids)].val))

kdf_parameters_to_bytes(kdf) ==
  << Item("ByteArray", "$UUID", kdf.variant), Item("UInt64", "I", kdf.iterations),
     Item("UInt64", "M", kdf.memory), Item("UInt32", "P", kdf.parallelism),
     Item("ByteArray", "S", kdf.salt), Item("UInt32", "V", kdf.version) >>

-----------------------------------------------------------------------------
(* The main header.                                                         *)
IsKdf(kdf) ==
  /\ kdf = [variant |-> kdf.variant, iterations |-> kdf.iterations, memory |-> kdf.memory,
            parallelism |-> kdf.parallelism, version |-> kdf.version, salt |-> kdf.salt]
  /\ kdf.variant \in Variants
IsMainHeader(h) ==
  /\ h = [cipher_id |-> h.cipher_id, compression_flag |-> h.compression_flag,
          master_seed |-> h.master_seed, encryption_iv |-> h.encryption_iv,
          public_custom_data |-> h.public_custom_data, comment |-> h.comment,
          kdf_algorithm |-> h.kdf_algorithm]
  /\ IsKdf(h.kdf_algorithm)

write_bytes_NoComment(h) ==
  << Field("CIPHER_ID", h.cipher_id), Field("COMPRESSION_FLAGS", h.compression_flag),
     Field("MASTER_SEED", h.master_seed), Field("KDF_PARAMETERS", kdf_parameters_to_bytes(h.kdf_algorithm)),
     Field("ENCRYPTION_IV", h.encryption_iv), Field("END_OF_HEADER", "") >>
write_bytes(h) ==
  << Field("CIPHER_ID", h.cipher_id), Field("COMPRESSION_FLAGS", h.compression_flag),
     Field("MASTER_SEED", h.master_seed), Field("KDF_PARAMETERS", kdf_parameters_to_bytes(h.kdf_algorithm)),
     Field("ENCRYPTION_IV", h.encryption_iv) >>
  \o (IF h.comment = "" THEN <<>> ELSE <<Field("COMMENT", h.comment)>>)
  \o (IF h.public_custom_data = "" THEN <<>> ELSE <<Field("PUBLIC_CUSTOM_DATA", h.public_custom_data)>>)
  \o <<Field("END_OF_HEADER", "")>>

(* compute_all_keys: every save gets a new seed, vector and salt, from which*)
(* the master key and the keys of the hashes follow. The user's credentials *)
(* stay as they are.                                                        *)
reset_random_values_Never(h, fresh) == h
reset_random_values(h, fresh) ==
  [h EXCEPT !.master_seed = fresh, !.encryption_iv = fresh, !.kdf_algorithm.salt = fresh]
compute_keys(h) == [seed |-> h.master_seed, kdf |-> h.kdf_algorithm]

-----------------------------------------------------------------------------
(* Writing. The payload is compressed, if the header says so, and encrypted *)
(* as a whole; part i of a content decrypts only with its key and vector.   *)
Payload(h, content) ==
  [i \in 1..SizeOf(content) |->
     [kind |-> "data", key |-> compute_keys(h), iv |-> h.encryption_iv,
      of |-> content, part |-> i, last |-> i = SizeOf(content)]]

BlockMac(key, idx, data) == [kind |-> "mac", key |-> key, idx |-> idx, data |-> data]
Block(key, idx, data) == <<BlockMac(key, idx, data), Size(Len(data))>> \o data

\* Block idx of a payload; behind the last one, no data, which ends the blocks.
BlockData(payload, idx) ==
  LET next == (idx + 1) * PAYLOAD_BLOCK_SIZE
  IN SubSeq(payload, idx * PAYLOAD_BLOCK_SIZE + 1, IF next < Len(payload) THEN next ELSE Len(payload))

write_hmac_data_blocks(key, payload) ==
  LET blocks[idx \in Nat] ==
        LET data == BlockData(payload, idx)
        IN Block(key, idx, data) \o (IF data = <<>> THEN <<>> ELSE blocks[idx + 1])
  IN blocks[0]

(* write, for the header of the save (after reset_random_values).           *)
write(h, content) ==
  LET start == <<Signature, Header(write_bytes(h))>>
  IN start \o <<Hash(start), Hmac(compute_keys(h), start)>>
     \o write_hmac_data_blocks(compute_keys(h), Payload(h, content))

-----------------------------------------------------------------------------
(* Reading. Cells that are not what the reader expects at their place are   *)
(* bytes that fail some check.                                              *)
At(f, p, kind) == p \in DOMAIN f /\ f[p].kind = kind
read_file_signature(f) == At(f, 1, "signature")

\* Unknown fields are skipped, and never written.
read_header(f) ==
  LET value(id, default) == LastOf({i \in DOMAIN f[2].fields : f[2].fields[i].id = id}, f[2].fields, default)
  IN [cipher_id          |-> value("CIPHER_ID", ""),
      compression_flag   |-> value("COMPRESSION_FLAGS", 0),
      master_seed        |-> value("MASTER_SEED", 0),
      encryption_iv      |-> value("ENCRYPTION_IV", 0),
      public_custom_data |-> value("PUBLIC_CUSTOM_DATA", ""),
      comment            |-> value("COMMENT", ""),
      kdf_algorithm      |-> extract_kdf_parameters(value("KDF_PARAMETERS", <<>>))]

verify_stored_hash(f) == At(f, 3, "hash") /\ f[3].data = SubSeq(f, 1, 2)
verify_header_hmac(f, key) == At(f, 4, "hmac") /\ f[4] = Hmac(key, SubSeq(f, 1, 2))

(* The blocks from cell p on, the first with index idx. The block without   *)
(* data is the end: its hash is not looked at.                              *)
Unreadable == [ok |-> FALSE, data |-> <<>>]
read_hmac_data_blocks(f, start, key) ==
  LET blocks[at \in Nat \X Nat] ==
        LET idx == at[1]
            p == at[2]
            size == IF At(f, p + 1, "size") THEN f[p + 1].n ELSE 0
            end == IF p + 1 + size < Len(f) THEN p + 1 + size ELSE Len(f)
            data == SubSeq(f, p + 2, end)
            rest == blocks[<<idx + 1, p + 2 + size>>]
        IN IF ~At(f, p + 1, "size") /\ ~At(f, p + 1, "zero") THEN Unreadable
           ELSE IF size = 0 THEN [ok |-> TRUE, data |-> <<>>]
           ELSE IF f[p] # BlockMac(key, idx, data) THEN Unreadable
           ELSE [ok |-> rest.ok, data |-> data \o rest.data]
  IN blocks[<<0, start>>]

(* decrypt_data and what follows it: a compressed payload has a checksum of *)
(* its own; the XML reader wants the end of the document.                   *)
decrypt_data(h, data) == \A i \in DOMAIN data : data[i].key = compute_keys(h) /\ data[i].iv = h.encryption_iv
decompress(h, data) ==
  h.compression_flag = 1 => \A i \in DOMAIN data : data[i].of = data[1].of /\ data[i].part = i
read_xml_content(data) == data # <<>> /\ data[1].part = 1 /\ Last(data).last

NotRead == [ok |-> FALSE]
read(f) ==
  LET h == read_header(f)
      key == compute_keys(h)
      blocks == read_hmac_data_blocks(f, 5, key)
  IN IF /\ read_file_signature(f) /\ At(f, 2, "header")
        /\ verify_stored_hash(f)
        /\ h.kdf_algorithm # NoKdf
        /\ verify_header_hmac(f, key)
        /\ blocks.ok /\ decrypt_data(h, blocks.data)
        /\ decompress(h, blocks.data) /\ read_xml_content(blocks.data)
     THEN [ok |-> TRUE, header |-> h, data |-> blocks.data]
     ELSE NotRead

(* calculate_db_file_checksum                                               *)
Checksum(f) == SubSeq(f, 1, IF Len(f) < ChecksumCells THEN Len(f) ELSE ChecksumCells)
=============================================================================
