---------------------------- MODULE Attachments -----------------------------
(* Attachments: the inner header of a file holds their bytes one after the  *)
(* other, and an entry refers to one by its position there; in memory the   *)
(* bytes are found by their hash. A hash is taken to be the bytes, which    *)
(* begin with the flag that asks for their protection.                      *)
EXTENDS Naturals, Sequences, SequencesExt, FiniteSets

CONSTANT NoHash   \* the hash of a reference that was not found

\* AttachmentSet: bytes known, hash of every position read, position of every hash written
NoAttachments == [attachments |-> {}, index_ref_hash |-> <<>>, hash_index_ref |-> <<>>]

(* Called for every binary of the inner header, in their order.             *)
add(set, data) ==
  LET known == set.attachments \cup {data}
      index == Cardinality(known) - 1
  IN [set EXCEPT !.attachments = known,
                 !.index_ref_hash = [i \in DOMAIN @ \cup {index} |-> IF i = index THEN data ELSE @[i]]]

(* The binaries of the inner header one after the other.                    *)
read_binaries(set, binaries) ==
  LET after[n \in 0 .. Len(binaries)] == IF n = 0 THEN set ELSE add(after[n - 1], binaries[n])
  IN after[Len(binaries)]

insert(set, data) == [set EXCEPT !.attachments = @ \cup {data}]
insert_or_update_with_attachmentset(set, other) ==
  [set EXCEPT !.attachments = @ \cup other.attachments]

(* An operation on the references of an entry and of its versions, which    *)
(* have no versions of their own.                                           *)
OnReferences(e, Op(_)) ==
  LET bins(v) == [v EXCEPT !.bins = [i \in DOMAIN v.bins |-> Op(v.bins[i])]]
  IN [bins(e) EXCEPT !.history = [i \in DOMAIN e.history |-> bins(e.history[i])]]

(* After reading: a reference to a position that is not there stays as read. *)
set_attachment_hashes(e, index_ref_hash) ==
  OnReferences(e, LAMBDA b : IF b.index_ref \in DOMAIN index_ref_hash
                             THEN [b EXCEPT !.data_hash = index_ref_hash[b.index_ref]] ELSE b)

set_attachment_index_refs_EntryOnly(e, hash_index_ref) ==
  [e EXCEPT !.bins = [i \in DOMAIN @ |-> [@[i] EXCEPT !.index_ref = hash_index_ref[e.bins[i].data_hash]]]]

(* Before writing.                                                          *)
set_attachment_index_refs(e, hash_index_ref) ==
  OnReferences(e, LAMBDA b : IF b.data_hash \in DOMAIN hash_index_ref
                             THEN [b EXCEPT !.index_ref = hash_index_ref[b.data_hash]] ELSE b)

get_attachment_hashes(e) ==
  LET own(v) == [i \in DOMAIN v.bins |-> v.bins[i].data_hash]
  IN own(e) \o FlattenSeq([i \in DOMAIN e.history |-> own(e.history[i])])

(* InnerHeader::write_all_bytes: every hash once, at the position at which  *)
(* it is met first; one whose bytes are not known takes a position too.     *)
write_bytes(set, w, h) ==
  IF h \in DOMAIN w.index_refs THEN w
  ELSE [binaries |-> IF h \in set.attachments THEN Append(w.binaries, h) ELSE w.binaries,
        index_refs |-> [k \in DOMAIN w.index_refs \cup {h} |-> IF k = h THEN w.written ELSE w.index_refs[k]],
        written |-> w.written + 1]

write_all_bytes(set, hashes) ==
  LET nothing == [binaries |-> <<>>, index_refs |-> <<>>, written |-> 0]
      after[n \in 0 .. Len(hashes)] == IF n = 0 THEN nothing ELSE write_bytes(set, after[n - 1], hashes[n])
      w == after[Len(hashes)]
  IN [binaries |-> w.binaries, set |-> [set EXCEPT !.hash_index_ref = w.index_refs]]

(* The bytes of a document, for viewing or saving it elsewhere.             *)
get_bytes_content(set, data_hash) ==
  IF data_hash \in set.attachments THEN <<data_hash>> ELSE <<>>
=============================================================================
