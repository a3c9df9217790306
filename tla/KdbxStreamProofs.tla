-------------------------- MODULE KdbxStreamProofs --------------------------
(* What is written to a file reads back, and what reads back was written,   *)
(* for every content, every header and every size of the blocks.            *)
EXTENDS KdbxStream, WellFoundedInduction, SequenceTheorems, TLAPS

\* A set that holds 0, and with every number the next, holds all numbers.
LEMMA AllNumbers ==
    ASSUME NEW S, 0 \in S, \A n \in Nat : n \in S => n + 1 \in S
    PROVE  \A n \in Nat : n \in S
<1> DEFINE T == Nat \ S
<1>1. SUFFICES ASSUME T # {} PROVE FALSE
  OBVIOUS
<1>2. T \subseteq Nat OBVIOUS
<1>3. PICK x \in T : \A y \in T : ~(<<y, x>> \in OpToRel(<, Nat))
  <2> HIDE DEF T
  <2>1. QED BY <1>1, <1>2, WFMin, NatLessThanWellFounded
<1>4. x # 0 /\ x \in Nat OBVIOUS
<1>5. x - 1 \in Nat /\ x - 1 < x BY <1>4
<1>6. <<x - 1, x>> \in OpToRel(<, Nat) BY <1>4, <1>5 DEF OpToRel
<1>7. x - 1 \in S BY <1>3, <1>5, <1>6
<1>8. (x - 1) + 1 = x BY <1>4
<1>9. QED BY <1>5, <1>7, <1>8

-----------------------------------------------------------------------------
(* Sequences *)

LEMMA Concatenation ==
    ASSUME NEW S, NEW s \in Seq(S), NEW t \in Seq(S)
    PROVE  /\ s \o t \in Seq(S) /\ Len(s \o t) = Len(s) + Len(t) /\ DOMAIN (s \o t) = 1 .. (Len(s) + Len(t))
           /\ \A i \in 1 .. Len(s) : (s \o t)[i] = s[i]
           /\ \A i \in 1 .. Len(t) : (s \o t)[Len(s) + i] = t[i]
  OBVIOUS

\* What equals a sequence up to its end, and has one element more, is that sequence with the element.
LEMMA AppendedTo ==
    ASSUME NEW S, NEW s \in Seq(S), NEW t \in Seq(S), NEW u \in Seq(S), Len(t) = 1, Len(u) = Len(s) + 1,
           \A i \in 1 .. Len(s) : u[i] = s[i], u[Len(s) + 1] = t[1]
    PROVE  s \o t = u
<1>0. Len(s) \in Nat OBVIOUS
<1>1. s \o t \in Seq(S) /\ Len(s \o t) = Len(u)
  <2>1. s \o t \in Seq(S) /\ Len(s \o t) = Len(s) + Len(t) BY ConcatProperties
  <2>2. QED BY <2>1
<1>2. ASSUME NEW i \in 1 .. Len(u) PROVE (s \o t)[i] = u[i]
  <2>1. i \in 1 .. (Len(s) + Len(t)) OBVIOUS
  <2>2. (s \o t)[i] = IF i <= Len(s) THEN s[i] ELSE t[i - Len(s)] BY <2>1, ConcatProperties
  <2>3. CASE i <= Len(s) BY <1>0, <2>2, <2>3
  <2>4. CASE ~(i <= Len(s))
    <3>1. i = Len(s) + 1 /\ i - Len(s) = 1 BY <1>0, <2>4
    <3>2. (s \o t)[i] = t[1] BY <2>2, <2>4, <3>1
    <3>3. QED BY <3>1, <3>2
  <2>5. QED BY <2>3, <2>4
<1>3. QED BY <1>1, <1>2, SeqEqual

LEMMA Tuple5 ==
    ASSUME NEW f1, NEW f2, NEW f3, NEW f4, NEW f5, NEW f6
    PROVE  <<f1, f2, f3, f4, f5>> \o <<f6>> = <<f1, f2, f3, f4, f5, f6>> /\ <<f1, f2, f3, f4, f5>> \o <<>> = <<f1, f2, f3, f4, f5>>
<1>1. PICK S : S = {f1, f2, f3, f4, f5, f6} OBVIOUS
<1>2. PICK s : s = <<f1, f2, f3, f4, f5>> OBVIOUS
<1>3. PICK t : t = <<f6>> OBVIOUS
<1>4. PICK u : u = <<f1, f2, f3, f4, f5, f6>> OBVIOUS
<1>5. s \in Seq(S) /\ Len(s) = 5 BY <1>1, <1>2
<1>6. t \in Seq(S) /\ Len(t) = 1 BY <1>1, <1>3
<1>7. u \in Seq(S) /\ Len(u) = 6 BY <1>1, <1>4
<1>8. \A i \in 1 .. 5 : u[i] = s[i] BY <1>2, <1>4
<1>9. Len(u) = Len(s) + 1 /\ \A i \in 1 .. Len(s) : u[i] = s[i] BY <1>5, <1>7, <1>8
<1>10. u[6] = t[1] BY <1>3, <1>4
<1>11. u[Len(s) + 1] = t[1] BY <1>5, <1>10
<1>12. s \o t = u BY <1>5, <1>6, <1>7, <1>9, <1>11, AppendedTo
<1>13. s \o <<>> = s BY <1>5
<1>14. QED BY <1>2, <1>3, <1>4, <1>12, <1>13

LEMMA Tuple6 ==
    ASSUME NEW f1, NEW f2, NEW f3, NEW f4, NEW f5, NEW f6, NEW f7
    PROVE  <<f1, f2, f3, f4, f5, f6>> \o <<f7>> = <<f1, f2, f3, f4, f5, f6, f7>> /\ <<f1, f2, f3, f4, f5, f6>> \o <<>> = <<f1, f2, f3, f4, f5, f6>>
<1>1. PICK S : S = {f1, f2, f3, f4, f5, f6, f7} OBVIOUS
<1>2. PICK s : s = <<f1, f2, f3, f4, f5, f6>> OBVIOUS
<1>3. PICK t : t = <<f7>> OBVIOUS
<1>4. PICK u : u = <<f1, f2, f3, f4, f5, f6, f7>> OBVIOUS
<1>5. s \in Seq(S) /\ Len(s) = 6 BY <1>1, <1>2
<1>6. t \in Seq(S) /\ Len(t) = 1 BY <1>1, <1>3
<1>7. u \in Seq(S) /\ Len(u) = 7 BY <1>1, <1>4
<1>8. \A i \in 1 .. 6 : u[i] = s[i] BY <1>2, <1>4
<1>9. Len(u) = Len(s) + 1 /\ \A i \in 1 .. Len(s) : u[i] = s[i] BY <1>5, <1>7, <1>8
<1>10. u[7] = t[1] BY <1>3, <1>4
<1>11. u[Len(s) + 1] = t[1] BY <1>5, <1>10
<1>12. s \o t = u BY <1>5, <1>6, <1>7, <1>9, <1>11, AppendedTo
<1>13. s \o <<>> = s BY <1>5
<1>14. QED BY <1>2, <1>3, <1>4, <1>12, <1>13

LEMMA Tuple7 ==
    ASSUME NEW f1, NEW f2, NEW f3, NEW f4, NEW f5, NEW f6, NEW f7, NEW f8
    PROVE  <<f1, f2, f3, f4, f5, f6, f7>> \o <<f8>> = <<f1, f2, f3, f4, f5, f6, f7, f8>> /\ <<f1, f2, f3, f4, f5, f6, f7>> \o <<>> = <<f1, f2, f3, f4, f5, f6, f7>>
<1>1. PICK S : S = {f1, f2, f3, f4, f5, f6, f7, f8} OBVIOUS
<1>2. PICK s : s = <<f1, f2, f3, f4, f5, f6, f7>> OBVIOUS
<1>3. PICK t : t = <<f8>> OBVIOUS
<1>4. PICK u : u = <<f1, f2, f3, f4, f5, f6, f7, f8>> OBVIOUS
<1>5. s \in Seq(S) /\ Len(s) = 7 BY <1>1, <1>2
<1>6. t \in Seq(S) /\ Len(t) = 1 BY <1>1, <1>3
<1>7. u \in Seq(S) /\ Len(u) = 8 BY <1>1, <1>4
<1>8. \A i \in 1 .. 7 : u[i] = s[i] BY <1>2, <1>4
<1>9. Len(u) = Len(s) + 1 /\ \A i \in 1 .. Len(s) : u[i] = s[i] BY <1>5, <1>7, <1>8
<1>10. u[8] = t[1] BY <1>3, <1>4
<1>11. u[Len(s) + 1] = t[1] BY <1>5, <1>10
<1>12. s \o t = u BY <1>5, <1>6, <1>7, <1>9, <1>11, AppendedTo
<1>13. s \o <<>> = s BY <1>5
<1>14. QED BY <1>2, <1>3, <1>4, <1>12, <1>13

-----------------------------------------------------------------------------
(* The main header *)

\* The fields of a written header: the comment and the custom data are there when they are not empty.
LEMMA WrittenFields ==
    ASSUME NEW h
    PROVE  LET f1 == Field("CIPHER_ID", h.cipher_id)
               f2 == Field("COMPRESSION_FLAGS", h.compression_flag)
               f3 == Field("MASTER_SEED", h.master_seed)
               f4 == Field("KDF_PARAMETERS", kdf_parameters_to_bytes(h.kdf_algorithm))
               f5 == Field("ENCRYPTION_IV", h.encryption_iv)
               f6 == Field("COMMENT", h.comment)
               f7 == Field("PUBLIC_CUSTOM_DATA", h.public_custom_data)
               f8 == Field("END_OF_HEADER", "")
           IN write_bytes(h) =
                IF h.comment = ""
                  THEN IF h.public_custom_data = "" THEN <<f1, f2, f3, f4, f5, f8>>
                       ELSE <<f1, f2, f3, f4, f5, f7, f8>>
                  ELSE IF h.public_custom_data = "" THEN <<f1, f2, f3, f4, f5, f6, f8>>
                       ELSE <<f1, f2, f3, f4, f5, f6, f7, f8>>
<1> DEFINE f1 == Field("CIPHER_ID", h.cipher_id)
           f2 == Field("COMPRESSION_FLAGS", h.compression_flag)
           f3 == Field("MASTER_SEED", h.master_seed)
           f4 == Field("KDF_PARAMETERS", kdf_parameters_to_bytes(h.kdf_algorithm))
           f5 == Field("ENCRYPTION_IV", h.encryption_iv)
           f6 == Field("COMMENT", h.comment)
           f7 == Field("PUBLIC_CUSTOM_DATA", h.public_custom_data)
           f8 == Field("END_OF_HEADER", "")
           c == IF h.comment = "" THEN <<>> ELSE <<f6>>
           d == IF h.public_custom_data = "" THEN <<>> ELSE <<f7>>
<1>1. write_bytes(h) = <<f1, f2, f3, f4, f5>> \o c \o d \o <<f8>>
  BY DEF write_bytes
<1> HIDE DEF f1, f2, f3, f4, f5, f6, f7, f8
<1>2. /\ <<f1, f2, f3, f4, f5>> \o <<>> = <<f1, f2, f3, f4, f5>>
      /\ <<f1, f2, f3, f4, f5>> \o <<f8>> = <<f1, f2, f3, f4, f5, f8>>
      /\ <<f1, f2, f3, f4, f5>> \o <<f7>> = <<f1, f2, f3, f4, f5, f7>>
      /\ <<f1, f2, f3, f4, f5>> \o <<f6>> = <<f1, f2, f3, f4, f5, f6>>
  BY Tuple5, Zenon
<1>3. /\ <<f1, f2, f3, f4, f5, f6>> \o <<>> = <<f1, f2, f3, f4, f5, f6>>
      /\ <<f1, f2, f3, f4, f5, f6>> \o <<f8>> = <<f1, f2, f3, f4, f5, f6, f8>>
      /\ <<f1, f2, f3, f4, f5, f6>> \o <<f7>> = <<f1, f2, f3, f4, f5, f6, f7>>
      /\ <<f1, f2, f3, f4, f5, f7>> \o <<f8>> = <<f1, f2, f3, f4, f5, f7, f8>>
  BY Tuple6, Zenon
<1>4. <<f1, f2, f3, f4, f5, f6, f7>> \o <<f8>> = <<f1, f2, f3, f4, f5, f6, f7, f8>>
  BY Tuple7, Zenon
<1>5. h.comment = "" /\ h.public_custom_data = "" => write_bytes(h) = <<f1, f2, f3, f4, f5, f8>>
  BY <1>1, <1>2, Zenon
<1>6. h.comment = "" /\ h.public_custom_data # "" => write_bytes(h) = <<f1, f2, f3, f4, f5, f7, f8>>
  BY <1>1, <1>2, <1>3, Zenon
<1>7. h.comment # "" /\ h.public_custom_data = "" => write_bytes(h) = <<f1, f2, f3, f4, f5, f6, f8>>
  BY <1>1, <1>2, <1>3, Zenon
<1>8. h.comment # "" /\ h.public_custom_data # "" => write_bytes(h) = <<f1, f2, f3, f4, f5, f6, f7, f8>>
  BY <1>1, <1>2, <1>3, <1>4, Zenon
<1>9. QED BY <1>5, <1>6, <1>7, <1>8 DEF f1, f2, f3, f4, f5, f6, f7, f8

\* The only value with a name is the one that is read.
LEMMA OnlyPlace ==
    ASSUME NEW places, NEW items, NEW default, NEW k, places = {k}
    PROVE  LastOf(places, items, default) = items[k].val
<1>1. places # {} OBVIOUS
<1>2. Max(places) = k BY DEF Max
<1>3. QED BY <1>1, <1>2 DEF LastOf
LEMMA NoPlace ==
    ASSUME NEW items, NEW default PROVE LastOf({}, items, default) = default
  BY DEF LastOf

\* The parameters of the key derivation read back.
LEMMA KdfReadsBack ==
    ASSUME NEW kdf, IsKdf(kdf)
    PROVE  extract_kdf_parameters(kdf_parameters_to_bytes(kdf)) = kdf
<1>1. PICK vds : vds = kdf_parameters_to_bytes(kdf) OBVIOUS
<1>2. /\ DOMAIN vds = 1 .. 6
      /\ vds[1] = Item("ByteArray", "$UUID", kdf.variant)
      /\ vds[2] = Item("UInt64", "I", kdf.iterations)
      /\ vds[3] = Item("UInt64", "M", kdf.memory)
      /\ vds[4] = Item("UInt32", "P", kdf.parallelism)
      /\ vds[5] = Item("ByteArray", "S", kdf.salt)
      /\ vds[6] = Item("UInt32", "V", kdf.version)
  BY <1>1 DEF kdf_parameters_to_bytes
<1>3. 1 .. 6 = {1, 2, 3, 4, 5, 6} OBVIOUS
<1>4. /\ {i \in DOMAIN vds : vds[i].type = "UInt64" /\ vds[i].name = "I"} = {2}
      /\ {i \in DOMAIN vds : vds[i].type = "UInt64" /\ vds[i].name = "M"} = {3}
      /\ {i \in DOMAIN vds : vds[i].type = "UInt32" /\ vds[i].name = "P"} = {4}
      /\ {i \in DOMAIN vds : vds[i].type = "ByteArray" /\ vds[i].name = "S"} = {5}
      /\ {i \in DOMAIN vds : vds[i].type = "UInt32" /\ vds[i].name = "V"} = {6}
  BY <1>2, <1>3 DEF Item
<1>5. {i \in DOMAIN vds : /\ vds[i].type = "ByteArray" /\ vds[i].name = "$UUID"
                          /\ vds[i].val \in Variants} = {1}
  BY <1>2, <1>3 DEF Item, IsKdf
<1>6. Max({1}) = 1 BY DEF Max
<1>7. extract_kdf_parameters(vds) = update_argon2_with_vds(vds, DefaultArgon2(kdf.variant))
  BY <1>2, <1>5, <1>6 DEF extract_kdf_parameters, Item
<1>8. \A default :
        /\ LastOf({2}, vds, default) = kdf.iterations
        /\ LastOf({3}, vds, default) = kdf.memory
        /\ LastOf({4}, vds, default) = kdf.parallelism
        /\ LastOf({5}, vds, default) = kdf.salt
        /\ LastOf({6}, vds, default) = kdf.version
  BY <1>2, OnlyPlace DEF Item
<1>9. update_argon2_with_vds(vds, DefaultArgon2(kdf.variant)) =
        [variant |-> kdf.variant, iterations |-> kdf.iterations, memory |-> kdf.memory,
         parallelism |-> kdf.parallelism, version |-> kdf.version, salt |-> kdf.salt]
  BY <1>4, <1>8 DEF update_argon2_with_vds, DefaultArgon2
<1>10. QED BY <1>1, <1>7, <1>9 DEF IsKdf

\* A field is there once, or not at all.
Once(fields, id, val) ==
  \E k \in DOMAIN fields : /\ fields[k] = Field(id, val)
                           /\ \A i \in DOMAIN fields : fields[i].id = id => i = k
Never(fields, id) == \A i \in DOMAIN fields : fields[i].id # id
Value(fields, id, default) == LastOf({i \in DOMAIN fields : fields[i].id = id}, fields, default)

LEMMA OnceRead ==
    ASSUME NEW fields, NEW id, NEW val, Once(fields, id, val), NEW default
    PROVE  Value(fields, id, default) = val
<1>1. PICK k \in DOMAIN fields : /\ fields[k] = Field(id, val)
                                 /\ \A i \in DOMAIN fields : fields[i].id = id => i = k
  BY DEF Once
<1>2. {i \in DOMAIN fields : fields[i].id = id} = {k} BY <1>1 DEF Field
<1>3. fields[k].val = val BY <1>1 DEF Field
<1>4. QED BY <1>2, <1>3, OnlyPlace DEF Value

LEMMA NeverRead ==
    ASSUME NEW fields, NEW id, Never(fields, id), NEW default
    PROVE  Value(fields, id, default) = default
<1>1. {i \in DOMAIN fields : fields[i].id = id} = {} BY DEF Never
<1>2. QED BY <1>1, NoPlace DEF Value

\* The fields of a header
Holds(b, h) ==
  /\ Once(b, "CIPHER_ID", h.cipher_id)
  /\ Once(b, "COMPRESSION_FLAGS", h.compression_flag)
  /\ Once(b, "MASTER_SEED", h.master_seed)
  /\ Once(b, "KDF_PARAMETERS", kdf_parameters_to_bytes(h.kdf_algorithm))
  /\ Once(b, "ENCRYPTION_IV", h.encryption_iv)
  /\ h.comment = "" => Never(b, "COMMENT")
  /\ h.comment # "" => Once(b, "COMMENT", h.comment)
  /\ h.public_custom_data = "" => Never(b, "PUBLIC_CUSTOM_DATA")
  /\ h.public_custom_data # "" => Once(b, "PUBLIC_CUSTOM_DATA", h.public_custom_data)

LEMMA FieldsWritten ==
    ASSUME NEW h, NEW b, b = write_bytes(h)
    PROVE  Holds(b, h)
<1>1. PICK f1 : f1 = Field("CIPHER_ID", h.cipher_id) OBVIOUS
<1>2. PICK f2 : f2 = Field("COMPRESSION_FLAGS", h.compression_flag) OBVIOUS
<1>3. PICK f3 : f3 = Field("MASTER_SEED", h.master_seed) OBVIOUS
<1>4. PICK f4 : f4 = Field("KDF_PARAMETERS", kdf_parameters_to_bytes(h.kdf_algorithm)) OBVIOUS
<1>5. PICK f5 : f5 = Field("ENCRYPTION_IV", h.encryption_iv) OBVIOUS
<1>6. PICK f6 : f6 = Field("COMMENT", h.comment) OBVIOUS
<1>7. PICK f7 : f7 = Field("PUBLIC_CUSTOM_DATA", h.public_custom_data) OBVIOUS
<1>8. PICK f8 : f8 = Field("END_OF_HEADER", "") OBVIOUS
<1>9. b = IF h.comment = ""
            THEN IF h.public_custom_data = "" THEN <<f1, f2, f3, f4, f5, f8>>
                 ELSE <<f1, f2, f3, f4, f5, f7, f8>>
            ELSE IF h.public_custom_data = "" THEN <<f1, f2, f3, f4, f5, f6, f8>>
                 ELSE <<f1, f2, f3, f4, f5, f6, f7, f8>>
  BY <1>1, <1>2, <1>3, <1>4, <1>5, <1>6, <1>7, <1>8, WrittenFields, Zenon
<1>10. /\ f1.id = "CIPHER_ID" /\ f2.id = "COMPRESSION_FLAGS" /\ f3.id = "MASTER_SEED"
       /\ f4.id = "KDF_PARAMETERS" /\ f5.id = "ENCRYPTION_IV" /\ f6.id = "COMMENT"
       /\ f7.id = "PUBLIC_CUSTOM_DATA" /\ f8.id = "END_OF_HEADER"
  BY <1>1, <1>2, <1>3, <1>4, <1>5, <1>6, <1>7, <1>8 DEF Field
<1>11. 1 .. 6 = {1, 2, 3, 4, 5, 6} /\ 1 .. 7 = {1, 2, 3, 4, 5, 6, 7} /\ 1 .. 8 = {1, 2, 3, 4, 5, 6, 7, 8}
  OBVIOUS
<1>12. CASE h.comment = "" /\ h.public_custom_data = ""
  <2>1. b = <<f1, f2, f3, f4, f5, f8>> BY <1>9, <1>12, Zenon
  <2>2. DOMAIN b = {1, 2, 3, 4, 5, 6} BY <2>1, <1>11
  <2>3. /\ b[1] = f1 /\ b[2] = f2 /\ b[3] = f3 /\ b[4] = f4
        /\ b[5] = f5 /\ b[6] = f8
    BY <2>1
  <2>4. Once(b, "CIPHER_ID", h.cipher_id)
    <3>1. \A i \in DOMAIN b : b[i].id = "CIPHER_ID" => i = 1 BY <2>2, <2>3, <1>10
    <3>2. 1 \in DOMAIN b /\ b[1] = Field("CIPHER_ID", h.cipher_id) BY <2>2, <2>3, <1>1
    <3>3. QED BY <3>1, <3>2 DEF Once
  <2>5. Once(b, "COMPRESSION_FLAGS", h.compression_flag)
    <3>1. \A i \in DOMAIN b : b[i].id = "COMPRESSION_FLAGS" => i = 2 BY <2>2, <2>3, <1>10
    <3>2. 2 \in DOMAIN b /\ b[2] = Field("COMPRESSION_FLAGS", h.compression_flag) BY <2>2, <2>3, <1>2
    <3>3. QED BY <3>1, <3>2 DEF Once
  <2>6. Once(b, "MASTER_SEED", h.master_seed)
    <3>1. \A i \in DOMAIN b : b[i].id = "MASTER_SEED" => i = 3 BY <2>2, <2>3, <1>10
    <3>2. 3 \in DOMAIN b /\ b[3] = Field("MASTER_SEED", h.master_seed) BY <2>2, <2>3, <1>3
    <3>3. QED BY <3>1, <3>2 DEF Once
  <2>7. Once(b, "KDF_PARAMETERS", kdf_parameters_to_bytes(h.kdf_algorithm))
    <3>1. \A i \in DOMAIN b : b[i].id = "KDF_PARAMETERS" => i = 4 BY <2>2, <2>3, <1>10
    <3>2. 4 \in DOMAIN b /\ b[4] = Field("KDF_PARAMETERS", kdf_parameters_to_bytes(h.kdf_algorithm)) BY <2>2, <2>3, <1>4
    <3>3. QED BY <3>1, <3>2 DEF Once
  <2>8. Once(b, "ENCRYPTION_IV", h.encryption_iv)
    <3>1. \A i \in DOMAIN b : b[i].id = "ENCRYPTION_IV" => i = 5 BY <2>2, <2>3, <1>10
    <3>2. 5 \in DOMAIN b /\ b[5] = Field("ENCRYPTION_IV", h.encryption_iv) BY <2>2, <2>3, <1>5
    <3>3. QED BY <3>1, <3>2 DEF Once
  <2>9. Never(b, "COMMENT") BY <2>2, <2>3, <1>10 DEF Never
  <2>10. Never(b, "PUBLIC_CUSTOM_DATA") BY <2>2, <2>3, <1>10 DEF Never
  <2>11. QED BY <2>4, <2>5, <2>6, <2>7, <2>8, <2>9, <2>10, <1>12 DEF Holds
<1>13. CASE h.comment = "" /\ h.public_custom_data # ""
  <2>1. b = <<f1, f2, f3, f4, f5, f7, f8>> BY <1>9, <1>13, Zenon
  <2>2. DOMAIN b = {1, 2, 3, 4, 5, 6, 7} BY <2>1, <1>11
  <2>3. /\ b[1] = f1 /\ b[2] = f2 /\ b[3] = f3 /\ b[4] = f4
        /\ b[5] = f5 /\ b[6] = f7 /\ b[7] = f8
    BY <2>1
  <2>4. Once(b, "CIPHER_ID", h.cipher_id)
    <3>1. \A i \in DOMAIN b : b[i].id = "CIPHER_ID" => i = 1 BY <2>2, <2>3, <1>10
    <3>2. 1 \in DOMAIN b /\ b[1] = Field("CIPHER_ID", h.cipher_id) BY <2>2, <2>3, <1>1
    <3>3. QED BY <3>1, <3>2 DEF Once
  <2>5. Once(b, "COMPRESSION_FLAGS", h.compression_flag)
    <3>1. \A i \in DOMAIN b : b[i].id = "COMPRESSION_FLAGS" => i = 2 BY <2>2, <2>3, <1>10
    <3>2. 2 \in DOMAIN b /\ b[2] = Field("COMPRESSION_FLAGS", h.compression_flag) BY <2>2, <2>3, <1>2
    <3>3. QED BY <3>1, <3>2 DEF Once
  <2>6. Once(b, "MASTER_SEED", h.master_seed)
    <3>1. \A i \in DOMAIN b : b[i].id = "MASTER_SEED" => i = 3 BY <2>2, <2>3, <1>10
    <3>2. 3 \in DOMAIN b /\ b[3] = Field("MASTER_SEED", h.master_seed) BY <2>2, <2>3, <1>3
    <3>3. QED BY <3>1, <3>2 DEF Once
  <2>7. Once(b, "KDF_PARAMETERS", kdf_parameters_to_bytes(h.kdf_algorithm))
    <3>1. \A i \in DOMAIN b : b[i].id = "KDF_PARAMETERS" => i = 4 BY <2>2, <2>3, <1>10
    <3>2. 4 \in DOMAIN b /\ b[4] = Field("KDF_PARAMETERS", kdf_parameters_to_bytes(h.kdf_algorithm)) BY <2>2, <2>3, <1>4
    <3>3. QED BY <3>1, <3>2 DEF Once
  <2>8. Once(b, "ENCRYPTION_IV", h.encryption_iv)
    <3>1. \A i \in DOMAIN b : b[i].id = "ENCRYPTION_IV" => i = 5 BY <2>2, <2>3, <1>10
    <3>2. 5 \in DOMAIN b /\ b[5] = Field("ENCRYPTION_IV", h.encryption_iv) BY <2>2, <2>3, <1>5
    <3>3. QED BY <3>1, <3>2 DEF Once
  <2>9. Once(b, "PUBLIC_CUSTOM_DATA", h.public_custom_data)
    <3>1. \A i \in DOMAIN b : b[i].id = "PUBLIC_CUSTOM_DATA" => i = 6 BY <2>2, <2>3, <1>10
    <3>2. 6 \in DOMAIN b /\ b[6] = Field("PUBLIC_CUSTOM_DATA", h.public_custom_data) BY <2>2, <2>3, <1>7
    <3>3. QED BY <3>1, <3>2 DEF Once
  <2>10. Never(b, "COMMENT") BY <2>2, <2>3, <1>10 DEF Never
  <2>11. QED BY <2>4, <2>5, <2>6, <2>7, <2>8, <2>9, <2>10, <1>13 DEF Holds
<1>14. CASE h.comment # "" /\ h.public_custom_data = ""
  <2>1. b = <<f1, f2, f3, f4, f5, f6, f8>> BY <1>9, <1>14, Zenon
  <2>2. DOMAIN b = {1, 2, 3, 4, 5, 6, 7} BY <2>1, <1>11
  <2>3. /\ b[1] = f1 /\ b[2] = f2 /\ b[3] = f3 /\ b[4] = f4
        /\ b[5] = f5 /\ b[6] = f6 /\ b[7] = f8
    BY <2>1
  <2>4. Once(b, "CIPHER_ID", h.cipher_id)
    <3>1. \A i \in DOMAIN b : b[i].id = "CIPHER_ID" => i = 1 BY <2>2, <2>3, <1>10
    <3>2. 1 \in DOMAIN b /\ b[1] = Field("CIPHER_ID", h.cipher_id) BY <2>2, <2>3, <1>1
    <3>3. QED BY <3>1, <3>2 DEF Once
  <2>5. Once(b, "COMPRESSION_FLAGS", h.compression_flag)
    <3>1. \A i \in DOMAIN b : b[i].id = "COMPRESSION_FLAGS" => i = 2 BY <2>2, <2>3, <1>10
    <3>2. 2 \in DOMAIN b /\ b[2] = Field("COMPRESSION_FLAGS", h.compression_flag) BY <2>2, <2>3, <1>2
    <3>3. QED BY <3>1, <3>2 DEF Once
  <2>6. Once(b, "MASTER_SEED", h.master_seed)
    <3>1. \A i \in DOMAIN b : b[i].id = "MASTER_SEED" => i = 3 BY <2>2, <2>3, <1>10
    <3>2. 3 \in DOMAIN b /\ b[3] = Field("MASTER_SEED", h.master_seed) BY <2>2, <2>3, <1>3
    <3>3. QED BY <3>1, <3>2 DEF Once
  <2>7. Once(b, "KDF_PARAMETERS", kdf_parameters_to_bytes(h.kdf_algorithm))
    <3>1. \A i \in DOMAIN b : b[i].id = "KDF_PARAMETERS" => i = 4 BY <2>2, <2>3, <1>10
    <3>2. 4 \in DOMAIN b /\ b[4] = Field("KDF_PARAMETERS", kdf_parameters_to_bytes(h.kdf_algorithm)) BY <2>2, <2>3, <1>4
    <3>3. QED BY <3>1, <3>2 DEF Once
  <2>8. Once(b, "ENCRYPTION_IV", h.encryption_iv)
    <3>1. \A i \in DOMAIN b : b[i].id = "ENCRYPTION_IV" => i = 5 BY <2>2, <2>3, <1>10
    <3>2. 5 \in DOMAIN b /\ b[5] = Field("ENCRYPTION_IV", h.encryption_iv) BY <2>2, <2>3, <1>5
    <3>3. QED BY <3>1, <3>2 DEF Once
  <2>9. Once(b, "COMMENT", h.comment)
    <3>1. \A i \in DOMAIN b : b[i].id = "COMMENT" => i = 6 BY <2>2, <2>3, <1>10
    <3>2. 6 \in DOMAIN b /\ b[6] = Field("COMMENT", h.comment) BY <2>2, <2>3, <1>6
    <3>3. QED BY <3>1, <3>2 DEF Once
  <2>10. Never(b, "PUBLIC_CUSTOM_DATA") BY <2>2, <2>3, <1>10 DEF Never
  <2>11. QED BY <2>4, <2>5, <2>6, <2>7, <2>8, <2>9, <2>10, <1>14 DEF Holds
<1>15. CASE h.comment # "" /\ h.public_custom_data # ""
  <2>1. b = <<f1, f2, f3, f4, f5, f6, f7, f8>> BY <1>9, <1>15, Zenon
  <2>2. DOMAIN b = {1, 2, 3, 4, 5, 6, 7, 8} BY <2>1, <1>11
  <2>3. /\ b[1] = f1 /\ b[2] = f2 /\ b[3] = f3 /\ b[4] = f4
        /\ b[5] = f5 /\ b[6] = f6 /\ b[7] = f7 /\ b[8] = f8
    BY <2>1
  <2>4. Once(b, "CIPHER_ID", h.cipher_id)
    <3>1. \A i \in DOMAIN b : b[i].id = "CIPHER_ID" => i = 1 BY <2>2, <2>3, <1>10
    <3>2. 1 \in DOMAIN b /\ b[1] = Field("CIPHER_ID", h.cipher_id) BY <2>2, <2>3, <1>1
    <3>3. QED BY <3>1, <3>2 DEF Once
  <2>5. Once(b, "COMPRESSION_FLAGS", h.compression_flag)
    <3>1. \A i \in DOMAIN b : b[i].id = "COMPRESSION_FLAGS" => i = 2 BY <2>2, <2>3, <1>10
    <3>2. 2 \in DOMAIN b /\ b[2] = Field("COMPRESSION_FLAGS", h.compression_flag) BY <2>2, <2>3, <1>2
    <3>3. QED BY <3>1, <3>2 DEF Once
  <2>6. Once(b, "MASTER_SEED", h.master_seed)
    <3>1. \A i \in DOMAIN b : b[i].id = "MASTER_SEED" => i = 3 BY <2>2, <2>3, <1>10
    <3>2. 3 \in DOMAIN b /\ b[3] = Field("MASTER_SEED", h.master_seed) BY <2>2, <2>3, <1>3
    <3>3. QED BY <3>1, <3>2 DEF Once
  <2>7. Once(b, "KDF_PARAMETERS", kdf_parameters_to_bytes(h.kdf_algorithm))
    <3>1. \A i \in DOMAIN b : b[i].id = "KDF_PARAMETERS" => i = 4 BY <2>2, <2>3, <1>10
    <3>2. 4 \in DOMAIN b /\ b[4] = Field("KDF_PARAMETERS", kdf_parameters_to_bytes(h.kdf_algorithm)) BY <2>2, <2>3, <1>4
    <3>3. QED BY <3>1, <3>2 DEF Once
  <2>8. Once(b, "ENCRYPTION_IV", h.encryption_iv)
    <3>1. \A i \in DOMAIN b : b[i].id = "ENCRYPTION_IV" => i = 5 BY <2>2, <2>3, <1>10
    <3>2. 5 \in DOMAIN b /\ b[5] = Field("ENCRYPTION_IV", h.encryption_iv) BY <2>2, <2>3, <1>5
    <3>3. QED BY <3>1, <3>2 DEF Once
  <2>9. Once(b, "COMMENT", h.comment)
    <3>1. \A i \in DOMAIN b : b[i].id = "COMMENT" => i = 6 BY <2>2, <2>3, <1>10
    <3>2. 6 \in DOMAIN b /\ b[6] = Field("COMMENT", h.comment) BY <2>2, <2>3, <1>6
    <3>3. QED BY <3>1, <3>2 DEF Once
  <2>10. Once(b, "PUBLIC_CUSTOM_DATA", h.public_custom_data)
    <3>1. \A i \in DOMAIN b : b[i].id = "PUBLIC_CUSTOM_DATA" => i = 7 BY <2>2, <2>3, <1>10
    <3>2. 7 \in DOMAIN b /\ b[7] = Field("PUBLIC_CUSTOM_DATA", h.public_custom_data) BY <2>2, <2>3, <1>7
    <3>3. QED BY <3>1, <3>2 DEF Once
  <2>11. QED BY <2>4, <2>5, <2>6, <2>7, <2>8, <2>9, <2>10, <1>15 DEF Holds
<1>16. QED BY <1>12, <1>13, <1>14, <1>15

\* A written header reads back.
LEMMA HeaderReadsBack ==
    ASSUME NEW h, IsMainHeader(h), NEW f, f[2] = Header(write_bytes(h))
    PROVE  read_header(f) = h
<1>1. PICK b : b = write_bytes(h) OBVIOUS
<1>2. f[2].fields = b BY <1>1 DEF Header
<1>3. Holds(b, h) BY <1>1, FieldsWritten
<1>4. /\ Once(b, "CIPHER_ID", h.cipher_id) => Value(b, "CIPHER_ID", "") = h.cipher_id
      /\ Once(b, "COMPRESSION_FLAGS", h.compression_flag)
           => Value(b, "COMPRESSION_FLAGS", 0) = h.compression_flag
      /\ Once(b, "MASTER_SEED", h.master_seed) => Value(b, "MASTER_SEED", 0) = h.master_seed
      /\ Once(b, "KDF_PARAMETERS", kdf_parameters_to_bytes(h.kdf_algorithm))
           => Value(b, "KDF_PARAMETERS", <<>>) = kdf_parameters_to_bytes(h.kdf_algorithm)
      /\ Once(b, "ENCRYPTION_IV", h.encryption_iv) => Value(b, "ENCRYPTION_IV", 0) = h.encryption_iv
      /\ Once(b, "COMMENT", h.comment) => Value(b, "COMMENT", "") = h.comment
      /\ Once(b, "PUBLIC_CUSTOM_DATA", h.public_custom_data)
           => Value(b, "PUBLIC_CUSTOM_DATA", "") = h.public_custom_data
  BY OnceRead, Zenon
<1>5. /\ Never(b, "COMMENT") => Value(b, "COMMENT", "") = ""
      /\ Never(b, "PUBLIC_CUSTOM_DATA") => Value(b, "PUBLIC_CUSTOM_DATA", "") = ""
  BY NeverRead, Zenon
<1>6. /\ Value(b, "CIPHER_ID", "") = h.cipher_id
      /\ Value(b, "COMPRESSION_FLAGS", 0) = h.compression_flag
      /\ Value(b, "MASTER_SEED", 0) = h.master_seed
      /\ Value(b, "KDF_PARAMETERS", <<>>) = kdf_parameters_to_bytes(h.kdf_algorithm)
      /\ Value(b, "ENCRYPTION_IV", 0) = h.encryption_iv
      /\ Value(b, "COMMENT", "") = h.comment
      /\ Value(b, "PUBLIC_CUSTOM_DATA", "") = h.public_custom_data
  BY <1>3, <1>4, <1>5 DEF Holds
<1>7. extract_kdf_parameters(kdf_parameters_to_bytes(h.kdf_algorithm)) = h.kdf_algorithm
  BY KdfReadsBack DEF IsMainHeader
<1>8. read_header(f) =
        [cipher_id          |-> Value(b, "CIPHER_ID", ""),
         compression_flag   |-> Value(b, "COMPRESSION_FLAGS", 0),
         master_seed        |-> Value(b, "MASTER_SEED", 0),
         encryption_iv      |-> Value(b, "ENCRYPTION_IV", 0),
         public_custom_data |-> Value(b, "PUBLIC_CUSTOM_DATA", ""),
         comment            |-> Value(b, "COMMENT", ""),
         kdf_algorithm      |-> extract_kdf_parameters(Value(b, "KDF_PARAMETERS", <<>>))]
  BY <1>2 DEF read_header, Value
<1>9. QED BY <1>6, <1>7, <1>8 DEF IsMainHeader

-----------------------------------------------------------------------------
(* The two loops over blocks *)

\* One round of read_hmac_data_blocks, and all of them
ReadRound(f, key, blocks, at) ==
  LET idx == at[1]
      p == at[2]
      size == IF At(f, p + 1, "size") THEN f[p + 1].n ELSE 0
      end == IF p + 1 + size < Len(f) THEN p + 1 + size ELSE Len(f)
      data == SubSeq(f, p + 2, end)
      rest == blocks[<<idx + 1, p + 2 + size>>]
  IN IF ~At(f, p + 1, "size") /\ ~At(f, p + 1, "zero") THEN Unreadable
     ELSE IF size = 0 THEN [ok |-> TRUE, data |-> <<>>]
     ELSE IF f[p] # BlockMac(key, idx, data) THEN Unreadable
     ELSE [ok |-> rest.ok, data |-> data \o rest.data]
Rounds(f, key) == CHOOSE blocks : blocks = [at \in Nat \X Nat |-> ReadRound(f, key, blocks, at)]

\* The sizes in a file are numbers.
Sized(f) == /\ Len(f) \in Nat /\ DOMAIN f = 1 .. Len(f)
            /\ \A p \in DOMAIN f : f[p].kind = "size" => f[p].n \in Nat

\* A round depends on the next one only, which begins behind it, and on none at the end.
LEMMA ReadRoundDepends ==
    ASSUME NEW f, Sized(f), NEW key, NEW g, NEW h, NEW at \in Nat \X Nat,
           \A next \in Nat \X Nat : next[2] > at[2] /\ at[2] < Len(f) => g[next] = h[next]
    PROVE  ReadRound(f, key, g, at) = ReadRound(f, key, h, at)
<1>0. at[1] \in Nat /\ at[2] \in Nat OBVIOUS
<1> DEFINE size == IF At(f, at[2] + 1, "size") THEN f[at[2] + 1].n ELSE 0
           next == <<at[1] + 1, at[2] + 2 + size>>
<1>1. CASE at[2] < Len(f)
  <2>1. size \in Nat BY DEF Sized, At
  <2>2. next \in Nat \X Nat /\ next[2] > at[2]
    <3> HIDE DEF size
    <3>1. QED BY <1>0, <2>1
  <2>3. g[next] = h[next]
    <3> HIDE DEF next
    <3>1. QED BY <1>1, <2>2
  <2>4. QED BY <2>3 DEF ReadRound
<1>2. CASE ~(at[2] < Len(f))
  <2>1. at[2] + 1 \notin DOMAIN f BY <1>0, <1>2 DEF Sized
  <2>2. ~At(f, at[2] + 1, "size") /\ ~At(f, at[2] + 1, "zero") BY <2>1 DEF At
  <2>3. QED BY <2>2 DEF ReadRound
<1>3. QED BY <1>1, <1>2

\* The loop over the blocks is what its rounds are.
LEMMA RoundsExist ==
    ASSUME NEW f, Sized(f), NEW key
    PROVE  /\ \A at \in Nat \X Nat : Rounds(f, key)[at] = ReadRound(f, key, Rounds(f, key), at)
           /\ \A start : read_hmac_data_blocks(f, start, key) = Rounds(f, key)[<<0, start>>]
<1> DEFINE Solved(g, m) == \A at \in Nat \X Nat : at[2] + m > Len(f) => g[at] = ReadRound(f, key, g, at)
           S == {m \in Nat : \E g : Solved(g, m)}
<1>0. Len(f) \in Nat BY DEF Sized
<1>1. 0 \in S
  <2> DEFINE g == [at \in Nat \X Nat |-> Unreadable]
  <2>1. ASSUME NEW at \in Nat \X Nat, at[2] + 0 > Len(f)
        PROVE  g[at] = ReadRound(f, key, g, at)
    <3>1. at[2] \in Nat OBVIOUS
    <3>2. at[2] + 1 \notin DOMAIN f BY <2>1, <3>1 DEF Sized
    <3>3. ~At(f, at[2] + 1, "size") /\ ~At(f, at[2] + 1, "zero") BY <3>2 DEF At
    <3>4. QED BY <3>3 DEF ReadRound
  <2> HIDE DEF g
  <2>2. Solved(g, 0) BY <2>1
  <2> HIDE DEF Solved
  <2>3. QED BY <2>2
<1>2. ASSUME NEW m \in Nat, m \in S PROVE m + 1 \in S
  <2>1. PICK g : Solved(g, m) BY <1>2
  <2> DEFINE h == [at \in Nat \X Nat |-> IF at[2] + m > Len(f) THEN g[at] ELSE ReadRound(f, key, g, at)]
  <2>2. ASSUME NEW at \in Nat \X Nat, at[2] + (m + 1) > Len(f)
        PROVE  h[at] = ReadRound(f, key, h, at)
    <3>1. h[at] = ReadRound(f, key, g, at) BY <2>1
    <3>2. \A next \in Nat \X Nat : next[2] > at[2] /\ at[2] < Len(f) => g[next] = h[next]
      <4>1. TAKE next \in Nat \X Nat
      <4>2. HAVE next[2] > at[2]
      <4>3. at[2] \in Nat /\ next[2] \in Nat OBVIOUS
      <4>4. next[2] + m > Len(f) BY <4>2, <4>3, <2>2, <1>0
      <4>5. QED BY <4>4
    <3> HIDE DEF h
    <3>3. QED BY <3>1, <3>2, ReadRoundDepends
  <2> HIDE DEF h
  <2>3. Solved(h, m + 1) BY <2>2
  <2> HIDE DEF Solved
  <2>4. QED BY <2>3
<1>3. Len(f) + 1 \in S
  <2> HIDE DEF S
  <2>1. \A m \in Nat : m \in S BY <1>1, <1>2, AllNumbers
  <2>2. QED BY <2>1, <1>0
<1>4. PICK g : Solved(g, Len(f) + 1)
  BY <1>3
<1> DEFINE h == [at \in Nat \X Nat |-> g[at]]
<1>5. h = [at \in Nat \X Nat |-> ReadRound(f, key, h, at)]
  <2>1. ASSUME NEW at \in Nat \X Nat
        PROVE  g[at] = ReadRound(f, key, h, at)
    <3>1. at[2] + (Len(f) + 1) > Len(f) BY <1>0
    <3>2. g[at] = ReadRound(f, key, g, at) BY <1>4, <3>1
    <3>3. \A next \in Nat \X Nat : next[2] > at[2] /\ at[2] < Len(f) => g[next] = h[next]
      OBVIOUS
    <3> HIDE DEF h
    <3>4. QED BY <3>2, <3>3, ReadRoundDepends
  <2>2. QED BY <2>1
<1> HIDE DEF h, Solved, S
<1>6. Rounds(f, key) = [at \in Nat \X Nat |-> ReadRound(f, key, Rounds(f, key), at)]
  BY <1>5 DEF Rounds
<1>7. \A start : read_hmac_data_blocks(f, start, key) = Rounds(f, key)[<<0, start>>]
  BY DEF read_hmac_data_blocks, Rounds, ReadRound
<1>8. QED BY <1>6, <1>7

-----------------------------------------------------------------------------
(* The blocks of a payload *)

LEMMA LengthOfPart ==
    ASSUME NEW from \in Nat, NEW size \in Nat, NEW len \in Nat, NEW n,
           n = IF from + size < len THEN from + size ELSE len
    PROVE  (IF from <= n THEN n - from ELSE 0) =
             IF len <= from THEN 0 ELSE IF from + size < len THEN size ELSE len - from
  OBVIOUS

\* Block idx has the cells of the payload behind the blocks before it.
IsBlockData(data, payload, from, S) ==
  /\ data \in Seq(S)
  /\ Len(data) = IF Len(payload) <= from THEN 0
                 ELSE IF from + PAYLOAD_BLOCK_SIZE < Len(payload) THEN PAYLOAD_BLOCK_SIZE
                 ELSE Len(payload) - from
  /\ \A i \in 1 .. Len(data) : from + i \in 1 .. Len(payload) /\ data[i] = payload[from + i]
LEMMA BlockDataCells ==
    ASSUME NEW S, NEW payload \in Seq(S), NEW idx \in Nat, NEW from, from = idx * PAYLOAD_BLOCK_SIZE
    PROVE  /\ from \in Nat /\ (idx + 1) * PAYLOAD_BLOCK_SIZE = from + PAYLOAD_BLOCK_SIZE
           /\ IsBlockData(BlockData(payload, idx), payload, from, S)
<1>1. /\ PAYLOAD_BLOCK_SIZE \in Nat \ {0}
      /\ from \in Nat /\ (idx + 1) * PAYLOAD_BLOCK_SIZE = from + PAYLOAD_BLOCK_SIZE
  BY StreamAssumption
<1>2. PICK n : n = IF from + PAYLOAD_BLOCK_SIZE < Len(payload) THEN from + PAYLOAD_BLOCK_SIZE ELSE Len(payload)
  OBVIOUS
<1>3. BlockData(payload, idx) = SubSeq(payload, from + 1, n) BY <1>1, <1>2 DEF BlockData
<1>4. Len(payload) \in Nat OBVIOUS
<1>5. n \in Nat /\ n <= Len(payload) BY <1>1, <1>2, <1>4
<1>6. /\ SubSeq(payload, from + 1, n) \in Seq(S)
      /\ Len(SubSeq(payload, from + 1, n)) = IF from <= n THEN n - from ELSE 0
  BY <1>1, <1>5
<1>7. ASSUME NEW i \in 1 .. (n - from)
      PROVE  from + i \in 1 .. Len(payload) /\ SubSeq(payload, from + 1, n)[i] = payload[from + i]
  BY <1>1, <1>5
<1>8. Len(BlockData(payload, idx)) =
        IF Len(payload) <= from THEN 0
        ELSE IF from + PAYLOAD_BLOCK_SIZE < Len(payload) THEN PAYLOAD_BLOCK_SIZE
        ELSE Len(payload) - from
  <2>1. (IF from <= n THEN n - from ELSE 0) =
          IF Len(payload) <= from THEN 0
          ELSE IF from + PAYLOAD_BLOCK_SIZE < Len(payload) THEN PAYLOAD_BLOCK_SIZE
          ELSE Len(payload) - from
    BY <1>1, <1>2, <1>4, LengthOfPart
  <2>2. QED BY <1>3, <1>6, <2>1
<1>9. \A i \in 1 .. Len(BlockData(payload, idx)) : i \in 1 .. (n - from)
  BY <1>1, <1>3, <1>5, <1>6
<1>10. QED BY <1>1, <1>3, <1>6, <1>7, <1>8, <1>9 DEF IsBlockData

\* One round of write_hmac_data_blocks, and all of them
WriteRound(key, payload, blocks, idx) ==
  LET data == BlockData(payload, idx)
  IN Block(key, idx, data) \o (IF data = <<>> THEN <<>> ELSE blocks[idx + 1])
WriteRounds(key, payload) ==
  CHOOSE blocks : blocks = [idx \in Nat |-> WriteRound(key, payload, blocks, idx)]

LEMMA NoDataBehindEnd ==
    ASSUME NEW S, NEW payload \in Seq(S), NEW idx \in Nat, idx >= Len(payload)
    PROVE  BlockData(payload, idx) = <<>>
<1>1. idx * PAYLOAD_BLOCK_SIZE >= idx BY StreamAssumption
<1>2. PICK from : from = idx * PAYLOAD_BLOCK_SIZE OBVIOUS
<1>3. from \in Nat /\ Len(payload) \in Nat BY <1>2, BlockDataCells
<1>4. Len(payload) <= from BY <1>1, <1>2, <1>3
<1>5. BlockData(payload, idx) \in Seq(S) /\ Len(BlockData(payload, idx)) = 0
  BY <1>2, <1>4, BlockDataCells DEF IsBlockData
<1>6. QED BY <1>5, EmptySeq

LEMMA WriteRoundsExist ==
    ASSUME NEW S, NEW payload \in Seq(S), NEW key
    PROVE  /\ \A idx \in Nat :
                WriteRounds(key, payload)[idx] = WriteRound(key, payload, WriteRounds(key, payload), idx)
           /\ write_hmac_data_blocks(key, payload) = WriteRounds(key, payload)[0]
<1> DEFINE Solved(g, m) == \A idx \in Nat : idx + m >= Len(payload) => g[idx] = WriteRound(key, payload, g, idx)
           M == {m \in Nat : \E g : Solved(g, m)}
<1>0. Len(payload) \in Nat OBVIOUS
<1>1. ASSUME NEW g, NEW h, NEW idx \in Nat, idx < Len(payload) => g[idx + 1] = h[idx + 1]
      PROVE  WriteRound(key, payload, g, idx) = WriteRound(key, payload, h, idx)
  <2>1. CASE idx < Len(payload) BY <1>1, <2>1 DEF WriteRound
  <2>2. CASE ~(idx < Len(payload))
    <3>1. BlockData(payload, idx) = <<>> BY <1>0, <2>2, NoDataBehindEnd
    <3>2. QED BY <3>1 DEF WriteRound
  <2>3. QED BY <2>1, <2>2
<1>2. 0 \in M
  <2> DEFINE g == [idx \in Nat |-> Block(key, idx, <<>>) \o <<>>]
  <2>1. ASSUME NEW idx \in Nat, idx + 0 >= Len(payload)
        PROVE  g[idx] = WriteRound(key, payload, g, idx)
    <3>1. BlockData(payload, idx) = <<>> BY <1>0, <2>1, NoDataBehindEnd
    <3>2. QED BY <3>1 DEF WriteRound
  <2> HIDE DEF g
  <2>2. Solved(g, 0) BY <2>1
  <2> HIDE DEF Solved
  <2>3. QED BY <2>2
<1>3. ASSUME NEW m \in Nat, m \in M PROVE m + 1 \in M
  <2>1. PICK g : Solved(g, m) BY <1>3
  <2> DEFINE h == [idx \in Nat |-> IF idx + m >= Len(payload) THEN g[idx] ELSE WriteRound(key, payload, g, idx)]
  <2>2. ASSUME NEW idx \in Nat, idx + (m + 1) >= Len(payload)
        PROVE  h[idx] = WriteRound(key, payload, h, idx)
    <3>1. h[idx] = WriteRound(key, payload, g, idx) BY <2>1
    <3>2. (idx + 1) + m >= Len(payload) /\ idx + 1 \in Nat BY <1>0, <2>2
    <3>3. g[idx + 1] = h[idx + 1] BY <3>2
    <3> HIDE DEF h
    <3>4. QED BY <1>1, <3>1, <3>3
  <2> HIDE DEF h
  <2>3. Solved(h, m + 1) BY <2>2
  <2> HIDE DEF Solved
  <2>4. QED BY <2>3
<1>4. Len(payload) \in M
  <2> HIDE DEF M
  <2>1. \A m \in Nat : m \in M BY <1>2, <1>3, AllNumbers
  <2>2. QED BY <2>1, <1>0
<1>5. PICK g : Solved(g, Len(payload)) BY <1>4
<1> DEFINE h == [idx \in Nat |-> g[idx]]
<1>6. h = [idx \in Nat |-> WriteRound(key, payload, h, idx)]
  <2>1. ASSUME NEW idx \in Nat
        PROVE  g[idx] = WriteRound(key, payload, h, idx)
    <3>1. idx + Len(payload) >= Len(payload) /\ idx + 1 \in Nat BY <1>0
    <3>2. g[idx] = WriteRound(key, payload, g, idx) BY <1>5, <3>1
    <3>3. g[idx + 1] = h[idx + 1] BY <3>1
    <3> HIDE DEF h
    <3>4. QED BY <1>1, <3>2, <3>3
  <2>2. QED BY <2>1
<1> HIDE DEF h, Solved, M
<1>7. WriteRounds(key, payload) = [idx \in Nat |-> WriteRound(key, payload, WriteRounds(key, payload), idx)]
  BY <1>6 DEF WriteRounds
<1>8. write_hmac_data_blocks(key, payload) = WriteRounds(key, payload)[0]
  BY DEF write_hmac_data_blocks, WriteRounds, WriteRound
<1>9. QED BY <1>7, <1>8

\* What a sequence joined of two others is
Joined(w, s, t, S) ==
  /\ w \in Seq(S) /\ Len(w) = Len(s) + Len(t)
  /\ \A i \in 1 .. Len(s) : w[i] = s[i]
  /\ \A i \in 1 .. Len(t) : w[Len(s) + i] = t[i]
LEMMA Joins ==
    ASSUME NEW S, NEW s \in Seq(S), NEW t \in Seq(S), NEW w, w = s \o t
    PROVE  Joined(w, s, t, S)
  BY Concatenation DEF Joined

\* A block: its hash, its size and its data
IsBlock(block, key, idx, data, C) ==
  /\ block \in Seq(C) /\ Len(block) = 2 + Len(data)
  /\ block[1] = BlockMac(key, idx, data) /\ block[2] = Size(Len(data))
  /\ \A i \in 1 .. Len(data) : block[2 + i] = data[i]
LEMMA BlockCells ==
    ASSUME NEW C, NEW key, NEW idx \in Nat, NEW data \in Seq(C),
           BlockMac(key, idx, data) \in C, Size(Len(data)) \in C
    PROVE  IsBlock(Block(key, idx, data), key, idx, data, C)
<1>1. PICK start : start = <<BlockMac(key, idx, data), Size(Len(data))>> OBVIOUS
<1>2. start \in Seq(C) /\ Len(start) = 2 BY <1>1
<1>3. start[1] = BlockMac(key, idx, data) /\ start[2] = Size(Len(data)) BY <1>1
<1>4. PICK block : block = Block(key, idx, data) OBVIOUS
<1>5. block = start \o data BY <1>1, <1>4 DEF Block
<1>6. Joined(block, start, data, C) BY <1>2, <1>5, Joins
<1>7. block \in Seq(C) BY <1>6 DEF Joined
<1>8. Len(block) = 2 + Len(data) BY <1>2, <1>6 DEF Joined
<1>9. block[1] = start[1] /\ block[2] = start[2] BY <1>2, <1>6 DEF Joined
<1>10. \A i \in 1 .. Len(data) : block[2 + i] = data[i] BY <1>2, <1>6 DEF Joined
<1>11. QED BY <1>3, <1>4, <1>7, <1>8, <1>9, <1>10 DEF IsBlock

\* All blocks from a number on: one block, and behind it the next ones
LEMMA WriteRoundsCells ==
    ASSUME NEW S, NEW payload \in Seq(S), NEW key, NEW C, S \subseteq C,
           \A n \in Nat : Size(n) \in C,
           \A i \in Nat : BlockMac(key, i, BlockData(payload, i)) \in C
    PROVE  \A idx \in Nat : WriteRounds(key, payload)[idx] \in Seq(C)
<1> DEFINE M == {m \in Nat : \A idx \in Nat : idx + m >= Len(payload) => WriteRounds(key, payload)[idx] \in Seq(C)}
<1>0. Len(payload) \in Nat OBVIOUS
<1>1. ASSUME NEW idx \in Nat
      PROVE  /\ BlockData(payload, idx) \in Seq(C)
             /\ Block(key, idx, BlockData(payload, idx)) \in Seq(C)
             /\ BlockData(payload, idx) = <<>> =>
                  WriteRounds(key, payload)[idx] = Block(key, idx, BlockData(payload, idx)) \o <<>>
             /\ BlockData(payload, idx) # <<>> =>
                  WriteRounds(key, payload)[idx] =
                    Block(key, idx, BlockData(payload, idx)) \o WriteRounds(key, payload)[idx + 1]
  <2>1. BlockData(payload, idx) \in Seq(S) BY BlockDataCells DEF IsBlockData
  <2>2. BlockData(payload, idx) \in Seq(C) BY <2>1, SeqMonotonic
  <2>3. Len(BlockData(payload, idx)) \in Nat BY <2>2, LenProperties
  <2>4. Block(key, idx, BlockData(payload, idx)) \in Seq(C) BY <2>2, <2>3, BlockCells DEF IsBlock
  <2>5. WriteRounds(key, payload)[idx] = WriteRound(key, payload, WriteRounds(key, payload), idx)
    BY WriteRoundsExist
  <2>6. QED BY <2>2, <2>4, <2>5 DEF WriteRound
<1>2. ASSUME NEW idx \in Nat, BlockData(payload, idx) = <<>>
      PROVE  WriteRounds(key, payload)[idx] \in Seq(C)
  <2>1. PICK block \in Seq(C) : block = Block(key, idx, BlockData(payload, idx)) BY <1>1
  <2>2. block \o <<>> = block OBVIOUS
  <2>3. QED BY <1>1, <1>2, <2>1, <2>2
<1>3. 0 \in M
  <2>1. ASSUME NEW idx \in Nat, idx + 0 >= Len(payload)
        PROVE  WriteRounds(key, payload)[idx] \in Seq(C)
    <3>1. BlockData(payload, idx) = <<>> BY <1>0, <2>1, NoDataBehindEnd
    <3>2. QED BY <1>2, <3>1
  <2>2. QED BY <2>1
<1>4. ASSUME NEW m \in Nat, m \in M PROVE m + 1 \in M
  <2>1. ASSUME NEW idx \in Nat, idx + (m + 1) >= Len(payload)
        PROVE  WriteRounds(key, payload)[idx] \in Seq(C)
    <3>1. idx + 1 \in Nat /\ (idx + 1) + m >= Len(payload) BY <1>0, <2>1
    <3>2. WriteRounds(key, payload)[idx + 1] \in Seq(C) BY <1>4, <3>1
    <3>3. CASE BlockData(payload, idx) = <<>> BY <1>2, <3>3
    <3>4. CASE BlockData(payload, idx) # <<>>
      <4>1. PICK block \in Seq(C) : block = Block(key, idx, BlockData(payload, idx)) BY <1>1
      <4>2. PICK rest \in Seq(C) : rest = WriteRounds(key, payload)[idx + 1] BY <3>2
      <4>3. PICK all : all = block \o rest OBVIOUS
      <4>4. Joined(all, block, rest, C) BY <4>3, Joins
      <4>5. WriteRounds(key, payload)[idx] = all BY <1>1, <3>4, <4>1, <4>2, <4>3
      <4>6. QED BY <4>4, <4>5 DEF Joined
    <3>5. QED BY <3>3, <3>4
  <2>2. QED BY <2>1
<1>5. Len(payload) \in M
  <2> HIDE DEF M
  <2>1. \A m \in Nat : m \in M BY <1>3, <1>4, AllNumbers
  <2>2. QED BY <2>1, <1>0
<1>6. \A idx \in Nat : idx + Len(payload) >= Len(payload) BY <1>0
<1>7. QED BY <1>5, <1>6

-----------------------------------------------------------------------------
(* The cells of a saved file *)

Parts(h, content) ==
  {[kind |-> "data", key |-> compute_keys(h), iv |-> h.encryption_iv,
    of |-> content, part |-> i, last |-> i = SizeOf(content)] : i \in 1 .. SizeOf(content)}
Start(h) == <<Signature, Header(write_bytes(h))>>
WrittenCells(h, content) ==
  {Signature, Header(write_bytes(h)), Hash(Start(h)), Hmac(compute_keys(h), Start(h))}
  \cup Parts(h, content) \cup {Size(n) : n \in Nat}
  \cup {BlockMac(compute_keys(h), idx, BlockData(Payload(h, content), idx)) : idx \in Nat}

LEMMA PayloadParts ==
    ASSUME NEW h, NEW content, SizeOf(content) \in Nat
    PROVE  /\ Payload(h, content) \in Seq(Parts(h, content)) /\ Len(Payload(h, content)) = SizeOf(content)
           /\ \A i \in 1 .. SizeOf(content) :
                Payload(h, content)[i] =
                  [kind |-> "data", key |-> compute_keys(h), iv |-> h.encryption_iv,
                   of |-> content, part |-> i, last |-> i = SizeOf(content)]
<1>1. PICK n : n = SizeOf(content) OBVIOUS
<1>2. PICK part : part = [i \in 1 .. n |-> [kind |-> "data", key |-> compute_keys(h), iv |-> h.encryption_iv,
                                             of |-> content, part |-> i, last |-> i = n]]
  OBVIOUS
<1>3. part \in [1 .. n -> Parts(h, content)] BY <1>1, <1>2 DEF Parts
<1>4. part \in Seq(Parts(h, content)) /\ Len(part) = n BY <1>1, <1>3
<1>5. Payload(h, content) = part BY <1>1, <1>2 DEF Payload
<1>6. QED BY <1>1, <1>2, <1>4, <1>5

LEMMA CellsWritten ==
    ASSUME NEW h, NEW content, SizeOf(content) \in Nat
    PROVE  LET w == write(h, content)
               blocks == WriteRounds(compute_keys(h), Payload(h, content))[0]
           IN /\ w \in Seq(WrittenCells(h, content))
              /\ blocks \in Seq(WrittenCells(h, content))
              /\ Len(w) = 4 + Len(blocks)
              /\ w[1] = Signature /\ w[2] = Header(write_bytes(h))
              /\ w[3] = Hash(Start(h)) /\ w[4] = Hmac(compute_keys(h), Start(h))
              /\ \A i \in 1 .. Len(blocks) : w[4 + i] = blocks[i]
<1>1. PICK C : C = WrittenCells(h, content) OBVIOUS
<1>2. PICK blocks : blocks = WriteRounds(compute_keys(h), Payload(h, content))[0] OBVIOUS
<1>3. blocks \in Seq(C)
  <2>1. Payload(h, content) \in Seq(Parts(h, content)) BY PayloadParts
  <2>2. /\ Parts(h, content) \subseteq C /\ \A n \in Nat : Size(n) \in C
        /\ \A i \in Nat : BlockMac(compute_keys(h), i, BlockData(Payload(h, content), i)) \in C
    BY <1>1 DEF WrittenCells
  <2>3. QED BY <1>2, <2>1, <2>2, WriteRoundsCells
<1>4. PICK a : a = <<Signature, Header(write_bytes(h))>> OBVIOUS
<1>5. PICK b : b = <<Hash(a), Hmac(compute_keys(h), a)>> OBVIOUS
<1>6. a = Start(h) BY <1>4 DEF Start
<1>7. a \in Seq(C) /\ Len(a) = 2 /\ a[1] = Signature /\ a[2] = Header(write_bytes(h))
  BY <1>1, <1>4 DEF WrittenCells
<1>8. b \in Seq(C) /\ Len(b) = 2 /\ b[1] = Hash(Start(h)) /\ b[2] = Hmac(compute_keys(h), Start(h))
  BY <1>1, <1>5, <1>6 DEF WrittenCells
<1>9. write(h, content) = a \o b \o blocks
  BY <1>2, <1>4, <1>5, PayloadParts, WriteRoundsExist DEF write
<1>10. PICK ab : ab = a \o b OBVIOUS
<1>11. Joined(ab, a, b, C) BY <1>7, <1>8, <1>10, Joins
<1>12. /\ ab \in Seq(C) /\ Len(ab) = 4 /\ ab[1] = a[1] /\ ab[2] = a[2]
       /\ ab[2 + 1] = b[1] /\ ab[2 + 2] = b[2]
  BY <1>7, <1>8, <1>11 DEF Joined
<1>13. PICK w : w = write(h, content) OBVIOUS
<1>14. Joined(w, ab, blocks, C) BY <1>3, <1>9, <1>10, <1>12, <1>13, Joins
<1>15. /\ w \in Seq(C) /\ Len(w) = 4 + Len(blocks)
       /\ w[1] = a[1] /\ w[2] = a[2] /\ w[3] = b[1] /\ w[4] = b[2]
       /\ \A i \in 1 .. Len(blocks) : w[4 + i] = blocks[i]
  BY <1>12, <1>14 DEF Joined
<1>16. QED BY <1>1, <1>2, <1>3, <1>7, <1>8, <1>13, <1>15

-----------------------------------------------------------------------------
(* What a reader gets from the blocks *)

\* Some first cells of a payload behind a place, and all of them
CellsBehind(payload, from) == IF Len(payload) <= from THEN 0 ELSE Len(payload) - from
PartOf(data, payload, from, S) ==
  /\ data \in Seq(S) /\ Len(data) <= CellsBehind(payload, from)
  /\ \A i \in 1 .. Len(data) : data[i] = payload[from + i]
AllOf(data, payload, from, S) ==
  PartOf(data, payload, from, S) /\ Len(data) = CellsBehind(payload, from)

LEMMA LengthOfParts ==
    ASSUME NEW from \in Nat, NEW size \in Nat, NEW len \in Nat, NEW n \in Nat, NEW m \in Nat,
           n = IF len <= from THEN 0 ELSE IF from + size < len THEN size ELSE len - from,
           m <= IF len <= from + size THEN 0 ELSE len - (from + size)
    PROVE  /\ n + m <= IF len <= from THEN 0 ELSE len - from
           /\ m = (IF len <= from + size THEN 0 ELSE len - (from + size))
                => n + m = IF len <= from THEN 0 ELSE len - from
           /\ m > 0 => n = size
  OBVIOUS

\* A block before a part of what follows it is a part, and before all of it, all.
LEMMA PartsJoin ==
    ASSUME NEW S, NEW payload \in Seq(S), NEW idx \in Nat, NEW rest,
           PartOf(rest, payload, (idx + 1) * PAYLOAD_BLOCK_SIZE, S)
    PROVE  /\ PartOf(BlockData(payload, idx) \o rest, payload, idx * PAYLOAD_BLOCK_SIZE, S)
           /\ AllOf(rest, payload, (idx + 1) * PAYLOAD_BLOCK_SIZE, S)
                => AllOf(BlockData(payload, idx) \o rest, payload, idx * PAYLOAD_BLOCK_SIZE, S)
<1>1. PICK from : from = idx * PAYLOAD_BLOCK_SIZE OBVIOUS
<1>2. PICK size : size = PAYLOAD_BLOCK_SIZE OBVIOUS
<1>3. PICK data : data = BlockData(payload, idx) OBVIOUS
<1>4. PICK len : len = Len(payload) OBVIOUS
<1>5. from \in Nat /\ size \in Nat /\ len \in Nat /\ (idx + 1) * PAYLOAD_BLOCK_SIZE = from + size
  BY <1>1, <1>2, <1>4, BlockDataCells, StreamAssumption
<1>6. /\ data \in Seq(S)
      /\ Len(data) = IF len <= from THEN 0 ELSE IF from + size < len THEN size ELSE len - from
      /\ \A i \in 1 .. Len(data) : data[i] = payload[from + i]
  <2>1. IsBlockData(data, payload, from, S) BY <1>1, <1>3, BlockDataCells
  <2>2. QED BY <1>2, <1>4, <2>1 DEF IsBlockData
<1>7. /\ rest \in Seq(S)
      /\ Len(rest) <= IF len <= from + size THEN 0 ELSE len - (from + size)
      /\ \A i \in 1 .. Len(rest) : rest[i] = payload[(from + size) + i]
  BY <1>4, <1>5 DEF PartOf, CellsBehind
<1>8. Len(data) \in Nat /\ Len(rest) \in Nat BY <1>6, <1>7
<1>9. /\ Len(data) + Len(rest) <= IF len <= from THEN 0 ELSE len - from
      /\ Len(rest) = (IF len <= from + size THEN 0 ELSE len - (from + size))
           => Len(data) + Len(rest) = IF len <= from THEN 0 ELSE len - from
      /\ Len(rest) > 0 => Len(data) = size
  <2>1. PICK n : n = Len(data) OBVIOUS
  <2>2. PICK m : m = Len(rest) OBVIOUS
  <2>3. n \in Nat /\ m \in Nat BY <1>8, <2>1, <2>2
  <2>4. n = IF len <= from THEN 0 ELSE IF from + size < len THEN size ELSE len - from BY <1>6, <2>1
  <2>5. m <= IF len <= from + size THEN 0 ELSE len - (from + size) BY <1>7, <2>2
  <2>6. /\ n + m <= IF len <= from THEN 0 ELSE len - from
        /\ m = (IF len <= from + size THEN 0 ELSE len - (from + size))
             => n + m = IF len <= from THEN 0 ELSE len - from
        /\ m > 0 => n = size
    BY <1>5, <2>3, <2>4, <2>5, LengthOfParts
  <2>7. QED BY <2>1, <2>2, <2>6
<1>10. PICK all : all = data \o rest OBVIOUS
<1>11. Joined(all, data, rest, S) BY <1>6, <1>7, <1>10, Joins
<1>12. all \in Seq(S) /\ Len(all) = Len(data) + Len(rest) BY <1>11 DEF Joined
<1>13. ASSUME NEW i \in 1 .. Len(all) PROVE all[i] = payload[from + i]
  <2>1. CASE i <= Len(data)
    <3>1. i \in 1 .. Len(data) BY <1>8, <2>1
    <3>2. all[i] = data[i] BY <1>11, <3>1 DEF Joined
    <3>3. QED BY <1>6, <3>1, <3>2
  <2>2. CASE i > Len(data)
    <3>1. PICK j : j = i - Len(data) OBVIOUS
    <3>2. j \in 1 .. Len(rest) /\ i = Len(data) + j BY <1>8, <1>12, <2>2, <3>1
    <3>3. Len(data) = size BY <1>8, <1>9, <3>2
    <3>4. all[i] = rest[j] BY <1>11, <3>2 DEF Joined
    <3>5. rest[j] = payload[(from + size) + j] BY <1>7, <3>2
    <3>6. (from + size) + j = from + i BY <1>5, <3>2, <3>3
    <3>7. QED BY <3>4, <3>5, <3>6
  <2>3. QED BY <1>8, <1>12, <2>1, <2>2
<1>14. PartOf(all, payload, from, S) BY <1>4, <1>9, <1>12, <1>13 DEF PartOf, CellsBehind
<1>15. AllOf(rest, payload, from + size, S) => AllOf(all, payload, from, S)
  BY <1>4, <1>9, <1>12, <1>14 DEF AllOf, CellsBehind
<1>16. QED BY <1>1, <1>3, <1>5, <1>10, <1>14, <1>15

\* The blocks hashed with the key are those of one payload.
Genuine(f, key, payload) ==
  \A p \in DOMAIN f : f[p].kind = "mac" /\ f[p].key = key
                        => f[p].idx \in Nat /\ f[p].data = BlockData(payload, f[p].idx)

\* Then what is read is the first part of that payload, wherever the reader begins.
LEMMA GenuineBlocks ==
    ASSUME NEW S, NEW payload \in Seq(S), NEW f, Sized(f), NEW key, Genuine(f, key, payload)
    PROVE  \A idx \in Nat : \A p \in Nat \ {0} :
             Rounds(f, key)[<<idx, p>>].ok
               => PartOf(Rounds(f, key)[<<idx, p>>].data, payload, idx * PAYLOAD_BLOCK_SIZE, S)
<1> DEFINE Good(idx, p) == Rounds(f, key)[<<idx, p>>].ok
                             => PartOf(Rounds(f, key)[<<idx, p>>].data, payload, idx * PAYLOAD_BLOCK_SIZE, S)
           M == {m \in Nat : \A idx \in Nat : \A p \in Nat \ {0} : p + m > Len(f) => Good(idx, p)}
<1>0. Len(f) \in Nat /\ Len(payload) \in Nat BY DEF Sized
<1>1. ASSUME NEW idx \in Nat, NEW p \in Nat \ {0},
             p < Len(f) => \A q \in Nat \ {0} : q > p => Good(idx + 1, q)
      PROVE  Good(idx, p)
  <2>1. <<idx, p>> \in Nat \X Nat /\ <<idx, p>>[1] = idx /\ <<idx, p>>[2] = p OBVIOUS
  <2>2. PICK r : r = Rounds(f, key)[<<idx, p>>] OBVIOUS
  <2>3. r = ReadRound(f, key, Rounds(f, key), <<idx, p>>) BY <2>1, <2>2, RoundsExist
  <2>4. SUFFICES ASSUME r.ok PROVE PartOf(r.data, payload, idx * PAYLOAD_BLOCK_SIZE, S)
    BY <2>2
  <2>5. PICK size : size = IF At(f, p + 1, "size") THEN f[p + 1].n ELSE 0 OBVIOUS
  <2>6. PICK data : data = SubSeq(f, p + 2, IF p + 1 + size < Len(f) THEN p + 1 + size ELSE Len(f)) OBVIOUS
  <2>7. PICK rest : rest = Rounds(f, key)[<<idx + 1, p + 2 + size>>] OBVIOUS
  <2>8. r = IF ~At(f, p + 1, "size") /\ ~At(f, p + 1, "zero") THEN Unreadable
            ELSE IF size = 0 THEN [ok |-> TRUE, data |-> <<>>]
            ELSE IF f[p] # BlockMac(key, idx, data) THEN Unreadable
            ELSE [ok |-> rest.ok, data |-> data \o rest.data]
    BY <2>1, <2>3, <2>5, <2>6, <2>7 DEF ReadRound
  <2>9. idx * PAYLOAD_BLOCK_SIZE \in Nat BY StreamAssumption
  <2>10. CASE size = 0
    <3>1. r.data = <<>> BY <2>4, <2>8, <2>10 DEF Unreadable
    <3>2. CellsBehind(payload, idx * PAYLOAD_BLOCK_SIZE) >= 0 BY <1>0, <2>9 DEF CellsBehind
    <3>3. <<>> \in Seq(S) /\ Len(<<>>) = 0 OBVIOUS
    <3>4. QED BY <3>1, <3>2, <3>3 DEF PartOf
  <2>11. CASE size # 0
    <3>1. At(f, p + 1, "size") BY <2>5, <2>11
    <3>2. p + 1 \in 1 .. Len(f) /\ size \in Nat BY <3>1, <2>5 DEF At, Sized
    <3>3. p < Len(f) /\ p \in DOMAIN f BY <1>0, <3>2 DEF Sized
    <3>4. /\ f[p] = BlockMac(key, idx, data) /\ rest.ok
          /\ r.data = data \o rest.data
      BY <2>4, <2>8, <2>11, <3>1 DEF Unreadable
    <3>5. data = BlockData(payload, idx)
      <4>1. f[p].kind = "mac" /\ f[p].key = key /\ f[p].idx = idx /\ f[p].data = data
        BY <3>4 DEF BlockMac
      <4>2. QED BY <3>3, <4>1 DEF Genuine
    <3>6. p + 2 + size \in Nat \ {0} /\ p + 2 + size > p BY <3>2
    <3>7. Good(idx + 1, p + 2 + size) BY <1>1, <3>3, <3>6
    <3>8. PartOf(rest.data, payload, (idx + 1) * PAYLOAD_BLOCK_SIZE, S) BY <2>7, <3>4, <3>7
    <3>9. QED BY <3>4, <3>5, <3>8, PartsJoin
  <2>12. QED BY <2>10, <2>11
<1>2. 0 \in M
  <2>1. ASSUME NEW idx \in Nat, NEW p \in Nat \ {0}, p + 0 > Len(f)
        PROVE  Good(idx, p)
    <3>1. ~(p < Len(f)) BY <1>0, <2>1
    <3> HIDE DEF Good
    <3>2. QED BY <1>1, <3>1
  <2> HIDE DEF Good
  <2>2. QED BY <2>1
<1>3. ASSUME NEW m \in Nat, m \in M PROVE m + 1 \in M
  <2>1. ASSUME NEW idx \in Nat, NEW p \in Nat \ {0}, p + (m + 1) > Len(f)
        PROVE  Good(idx, p)
    <3>1. \A q \in Nat \ {0} : q > p => q + m > Len(f) BY <1>0, <2>1
    <3> HIDE DEF Good
    <3>2. \A q \in Nat \ {0} : q > p => Good(idx + 1, q) BY <1>3, <3>1
    <3>3. QED BY <1>1, <3>2
  <2> HIDE DEF Good
  <2>2. QED BY <2>1
<1>4. Len(f) \in M
  <2> HIDE DEF M
  <2>1. \A m \in Nat : m \in M BY <1>2, <1>3, AllNumbers
  <2>2. QED BY <2>1, <1>0
<1>5. \A p \in Nat \ {0} : p + Len(f) > Len(f) BY <1>0
<1>6. QED
  <2> HIDE DEF Good
  <2>1. \A idx \in Nat : \A p \in Nat \ {0} : Good(idx, p) BY <1>4, <1>5
  <2>2. QED BY <2>1 DEF Good

\* The cells are in the file behind cell q.
Follows(f, q, cells) == \A i \in 1 .. Len(cells) : q + i \in DOMAIN f /\ f[q + i] = cells[i]

LEMMA FollowsJoined ==
    ASSUME NEW C, NEW f, NEW q \in Nat, NEW s \in Seq(C), NEW t \in Seq(C), NEW w,
           Joined(w, s, t, C), Follows(f, q, w)
    PROVE  Follows(f, q, s) /\ Follows(f, q + Len(s), t)
<1>1. Len(s) \in Nat /\ Len(t) \in Nat OBVIOUS
<1>2. Len(w) = Len(s) + Len(t) BY DEF Joined
<1>3. ASSUME NEW i \in 1 .. Len(s) PROVE q + i \in DOMAIN f /\ f[q + i] = s[i]
  <2>1. i \in 1 .. Len(w) BY <1>1, <1>2
  <2>2. w[i] = s[i] BY DEF Joined
  <2>3. QED BY <2>1, <2>2 DEF Follows
<1>4. ASSUME NEW i \in 1 .. Len(t) PROVE (q + Len(s)) + i \in DOMAIN f /\ f[(q + Len(s)) + i] = t[i]
  <2>1. Len(s) + i \in 1 .. Len(w) BY <1>1, <1>2
  <2>2. w[Len(s) + i] = t[i] BY DEF Joined
  <2>3. PICK j : j = Len(s) + i OBVIOUS
  <2>4. q + j \in DOMAIN f /\ f[q + j] = w[j] BY <2>1, <2>3 DEF Follows
  <2>5. q + j = (q + Len(s)) + i BY <1>1, <2>3
  <2>6. QED BY <2>2, <2>3, <2>4, <2>5
<1>5. QED BY <1>3, <1>4 DEF Follows

\* What follows a cell is what the reader takes from there.
LEMMA FollowsRead ==
    ASSUME NEW F, NEW f \in Seq(F), NEW q \in Nat, NEW S, NEW data \in Seq(S), Follows(f, q, data),
           Len(data) # 0
    PROVE  SubSeq(f, q + 1, IF q + Len(data) < Len(f) THEN q + Len(data) ELSE Len(f)) = data
<1>1. Len(data) \in Nat OBVIOUS
<1>2. PICK n : n = Len(data) OBVIOUS
<1>3. n \in Nat \ {0} BY <1>1, <1>2
<1>4. Len(f) \in Nat /\ DOMAIN f = 1 .. Len(f) OBVIOUS
<1>5. n \in 1 .. Len(data) BY <1>2, <1>3
<1>6. q + n <= Len(f)
  <2>1. q + n \in 1 .. Len(f) BY <1>4, <1>5 DEF Follows
  <2>2. QED BY <1>3, <1>4, <2>1
<1>7. (IF q + n < Len(f) THEN q + n ELSE Len(f)) = q + n BY <1>3, <1>4, <1>6
<1>8. PICK sub : sub = SubSeq(f, q + 1, q + n) OBVIOUS
<1>9. sub \in Seq(F) /\ Len(sub) = n
  <2>1. PICK e : e = q + n OBVIOUS
  <2>2. e \in Nat /\ e <= Len(f) /\ q <= e /\ e - q = n BY <1>3, <1>6, <2>1
  <2>3. SubSeq(f, q + 1, e) \in Seq(F) /\ Len(SubSeq(f, q + 1, e)) = e - q BY <2>2
  <2>4. QED BY <1>8, <2>1, <2>2, <2>3
<1>10. ASSUME NEW i \in 1 .. n PROVE sub[i] = data[i]
  <2>1. PICK e : e = q + n OBVIOUS
  <2>2. e \in Nat /\ e <= Len(f) /\ q <= e /\ i \in 1 .. (e - q) BY <1>3, <1>6, <2>1
  <2>3. SubSeq(f, q + 1, e)[i] = f[q + i] BY <2>2
  <2>4. f[q + i] = data[i] BY <1>2 DEF Follows
  <2>5. QED BY <1>8, <2>1, <2>3, <2>4
<1>11. sub \in Seq(F \cup S) /\ data \in Seq(F \cup S) BY <1>9, SeqMonotonic
<1>12. sub = data BY <1>2, <1>9, <1>10, <1>11, SeqEqual
<1>13. QED BY <1>2, <1>7, <1>8, <1>12

\* The blocks of a payload read back, wherever they are in the file.
LEMMA BlocksReadBack ==
    ASSUME NEW S, NEW payload \in Seq(S), NEW F, NEW f \in Seq(F), Sized(f), NEW key
    PROVE  \A idx \in Nat : \A q \in Nat :
             Follows(f, q, WriteRounds(key, payload)[idx])
               => /\ Rounds(f, key)[<<idx, q + 1>>].ok
                  /\ AllOf(Rounds(f, key)[<<idx, q + 1>>].data, payload, idx * PAYLOAD_BLOCK_SIZE, S)
<1> DEFINE Good(idx, q) ==
             Follows(f, q, WriteRounds(key, payload)[idx])
               => /\ Rounds(f, key)[<<idx, q + 1>>].ok
                  /\ AllOf(Rounds(f, key)[<<idx, q + 1>>].data, payload, idx * PAYLOAD_BLOCK_SIZE, S)
           M == {m \in Nat : \A idx \in Nat : idx + m >= Len(payload) => \A q \in Nat : Good(idx, q)}
<1>0. Len(payload) \in Nat OBVIOUS
<1>1. PICK C : C = S \cup {Size(n) : n \in Nat} \cup {BlockMac(key, i, BlockData(payload, i)) : i \in Nat}
  OBVIOUS
<1>2. /\ S \subseteq C /\ \A n \in Nat : Size(n) \in C
      /\ \A i \in Nat : BlockMac(key, i, BlockData(payload, i)) \in C
  BY <1>1
<1>3. \A idx \in Nat : WriteRounds(key, payload)[idx] \in Seq(C) BY <1>2, WriteRoundsCells
<1>4. ASSUME NEW idx \in Nat, NEW q \in Nat,
             BlockData(payload, idx) # <<>> => \A r \in Nat : Good(idx + 1, r)
      PROVE  Good(idx, q)
  <2>1. SUFFICES ASSUME Follows(f, q, WriteRounds(key, payload)[idx])
                 PROVE  /\ Rounds(f, key)[<<idx, q + 1>>].ok
                        /\ AllOf(Rounds(f, key)[<<idx, q + 1>>].data, payload, idx * PAYLOAD_BLOCK_SIZE, S)
    OBVIOUS
  <2>2. PICK data : data = BlockData(payload, idx) OBVIOUS
  <2>3. IsBlockData(data, payload, idx * PAYLOAD_BLOCK_SIZE, S) BY <2>2, BlockDataCells
  <2>4. data \in Seq(S) /\ data \in Seq(C) BY <1>2, <2>3, SeqMonotonic DEF IsBlockData
  <2>5. PICK n : n = Len(data) OBVIOUS
  <2>6. n \in Nat BY <2>4, <2>5
  <2>7. PICK block : block = Block(key, idx, data) OBVIOUS
  <2>8. /\ block \in Seq(C) /\ Len(block) = 2 + n
        /\ block[1] = BlockMac(key, idx, data) /\ block[2] = Size(n)
        /\ \A i \in 1 .. n : block[2 + i] = data[i]
    <3>1. BlockMac(key, idx, data) \in C /\ Size(Len(data)) \in C BY <1>2, <2>2, <2>5, <2>6
    <3>2. IsBlock(block, key, idx, data, C) BY <2>4, <2>7, <3>1, BlockCells
    <3>3. QED BY <2>5, <3>2 DEF IsBlock
  <2>9. PICK w : w = WriteRounds(key, payload)[idx] OBVIOUS
  <2>10. w \in Seq(C) /\ Follows(f, q, w) BY <1>3, <2>1, <2>9
  <2>11. w = block \o (IF data = <<>> THEN <<>> ELSE WriteRounds(key, payload)[idx + 1])
    BY <2>2, <2>7, <2>9, WriteRoundsExist DEF WriteRound
  <2>12. PICK tail : tail = IF data = <<>> THEN <<>> ELSE WriteRounds(key, payload)[idx + 1] OBVIOUS
  <2>13. tail \in Seq(C) BY <1>3, <2>12
  <2>14. Joined(w, block, tail, C) BY <2>8, <2>11, <2>12, <2>13, Joins
  <2>15. Follows(f, q, block) /\ Follows(f, q + Len(block), tail)
    BY <2>8, <2>10, <2>13, <2>14, FollowsJoined
  <2>16. /\ q + 1 \in DOMAIN f /\ f[q + 1] = BlockMac(key, idx, data)
         /\ q + 2 \in DOMAIN f /\ f[q + 2] = Size(n)
    <3>1. 1 \in 1 .. Len(block) /\ 2 \in 1 .. Len(block) BY <2>6, <2>8
    <3>2. QED BY <2>8, <2>15, <3>1 DEF Follows
  <2>17. Follows(f, q + 2, data)
    <3>1. ASSUME NEW i \in 1 .. Len(data) PROVE (q + 2) + i \in DOMAIN f /\ f[(q + 2) + i] = data[i]
      <4>1. PICK j : j = 2 + i OBVIOUS
      <4>2. j \in 1 .. Len(block) BY <2>5, <2>6, <2>8, <4>1
      <4>3. q + j \in DOMAIN f /\ f[q + j] = block[j] BY <2>15, <4>2 DEF Follows
      <4>4. block[j] = data[i] BY <2>5, <2>8, <4>1
      <4>5. q + j = (q + 2) + i BY <4>1
      <4>6. QED BY <4>3, <4>4, <4>5
    <3>2. QED BY <3>1 DEF Follows
  <2>18. PICK at : at = <<idx, q + 1>> OBVIOUS
  <2>19. at \in Nat \X Nat /\ at[1] = idx /\ at[2] = q + 1 BY <2>18
  <2>20. PICK r : r = Rounds(f, key)[at] OBVIOUS
  <2>21. r = ReadRound(f, key, Rounds(f, key), at) BY <2>19, <2>20, RoundsExist
  <2>22. (q + 1) + 1 = q + 2 /\ (q + 1) + 2 = (q + 2) + 1 /\ (q + 1) + 1 + n = (q + 2) + n
         /\ (q + 1) + 2 + n = (q + Len(block)) + 1
    BY <2>6, <2>8
  <2>23. /\ At(f, (q + 1) + 1, "size")
         /\ (IF At(f, (q + 1) + 1, "size") THEN f[(q + 1) + 1].n ELSE 0) = n
    BY <2>16, <2>22 DEF At, Size
  <2>24. PICK rest : rest = Rounds(f, key)[<<idx + 1, (q + Len(block)) + 1>>] OBVIOUS
  <2>25. PICK sub : sub = SubSeq(f, (q + 2) + 1, IF (q + 2) + n < Len(f) THEN (q + 2) + n ELSE Len(f))
    OBVIOUS
  <2>26. r = IF n = 0 THEN [ok |-> TRUE, data |-> <<>>]
             ELSE IF f[q + 1] # BlockMac(key, idx, sub) THEN Unreadable
             ELSE [ok |-> rest.ok, data |-> sub \o rest.data]
    <3>1. PICK p : p = q + 1 OBVIOUS
    <3>2. PICK size : size = IF At(f, p + 1, "size") THEN f[p + 1].n ELSE 0 OBVIOUS
    <3>3. PICK taken : taken = SubSeq(f, p + 2, IF p + 1 + size < Len(f) THEN p + 1 + size ELSE Len(f)) OBVIOUS
    <3>4. PICK next : next = Rounds(f, key)[<<idx + 1, p + 2 + size>>] OBVIOUS
    <3>5. r = IF ~At(f, p + 1, "size") /\ ~At(f, p + 1, "zero") THEN Unreadable
              ELSE IF size = 0 THEN [ok |-> TRUE, data |-> <<>>]
              ELSE IF f[p] # BlockMac(key, idx, taken) THEN Unreadable
              ELSE [ok |-> next.ok, data |-> taken \o next.data]
      BY <2>19, <2>21, <3>1, <3>2, <3>3, <3>4 DEF ReadRound
    <3>6. size = n /\ At(f, p + 1, "size") BY <2>23, <3>1, <3>2
    <3>7. p + 2 = (q + 2) + 1 /\ p + 1 + size = (q + 2) + n /\ p + 2 + size = (q + Len(block)) + 1
      BY <2>22, <3>1, <3>6
    <3>8. taken = sub BY <2>25, <3>3, <3>7
    <3>9. next = rest BY <2>24, <3>4, <3>7
    <3>10. QED BY <3>1, <3>5, <3>6, <3>8, <3>9
  <2>27. idx * PAYLOAD_BLOCK_SIZE \in Nat /\ PAYLOAD_BLOCK_SIZE \in Nat \ {0} BY StreamAssumption
  <2>28. CASE data = <<>>
    <3>1. n = 0 BY <2>5, <2>28
    <3>2. r.ok /\ r.data = <<>> BY <2>26, <3>1
    <3>3. PICK from : from = idx * PAYLOAD_BLOCK_SIZE OBVIOUS
    <3>4. 0 = IF Len(payload) <= from THEN 0
              ELSE IF from + PAYLOAD_BLOCK_SIZE < Len(payload) THEN PAYLOAD_BLOCK_SIZE
              ELSE Len(payload) - from
      BY <2>3, <2>5, <3>1, <3>3 DEF IsBlockData
    <3>5. Len(payload) <= from BY <1>0, <2>27, <3>3, <3>4
    <3>6. CellsBehind(payload, from) = 0 BY <3>5 DEF CellsBehind
    <3>7. <<>> \in Seq(S) /\ Len(<<>>) = 0 OBVIOUS
    <3>8. AllOf(<<>>, payload, from, S) BY <3>6, <3>7 DEF AllOf, PartOf
    <3>9. QED BY <2>18, <2>20, <3>2, <3>3, <3>8
  <2>29. CASE data # <<>>
    <3>1. n # 0 BY <2>4, <2>5, <2>29, EmptySeq
    <3>2. sub = data BY <2>4, <2>5, <2>17, <2>25, <3>1, FollowsRead
    <3>3. r = [ok |-> rest.ok, data |-> data \o rest.data] BY <2>16, <2>26, <3>1, <3>2
    <3>4. q + Len(block) \in Nat BY <2>6, <2>8
    <3>5. Follows(f, q + Len(block), WriteRounds(key, payload)[idx + 1]) BY <2>12, <2>15, <2>29
    <3>6. /\ rest.ok
          /\ AllOf(rest.data, payload, (idx + 1) * PAYLOAD_BLOCK_SIZE, S)
      BY <1>4, <2>2, <2>24, <2>29, <3>4, <3>5
    <3>7. AllOf(data \o rest.data, payload, idx * PAYLOAD_BLOCK_SIZE, S)
      BY <2>2, <3>6, PartsJoin DEF AllOf
    <3>8. QED BY <2>18, <2>20, <3>3, <3>6, <3>7
  <2>30. QED BY <2>28, <2>29
<1>5. 0 \in M
  <2>1. ASSUME NEW idx \in Nat, idx + 0 >= Len(payload), NEW q \in Nat
        PROVE  Good(idx, q)
    <3>1. BlockData(payload, idx) = <<>> BY <1>0, <2>1, NoDataBehindEnd
    <3> HIDE DEF Good
    <3>2. QED BY <1>4, <3>1
  <2> HIDE DEF Good
  <2>2. QED BY <2>1
<1>6. ASSUME NEW m \in Nat, m \in M PROVE m + 1 \in M
  <2>1. ASSUME NEW idx \in Nat, idx + (m + 1) >= Len(payload), NEW q \in Nat
        PROVE  Good(idx, q)
    <3>1. idx + 1 \in Nat /\ (idx + 1) + m >= Len(payload) BY <1>0, <2>1
    <3> HIDE DEF Good
    <3>2. \A r \in Nat : Good(idx + 1, r) BY <1>6, <3>1
    <3>3. QED BY <1>4, <3>2
  <2> HIDE DEF Good
  <2>2. QED BY <2>1
<1>7. Len(payload) \in M
  <2> HIDE DEF M
  <2>1. \A m \in Nat : m \in M BY <1>5, <1>6, AllNumbers
  <2>2. QED BY <2>1, <1>0
<1>8. \A idx \in Nat : idx + Len(payload) >= Len(payload) BY <1>0
<1>9. QED
  <2> HIDE DEF Good
  <2>1. \A idx \in Nat : \A q \in Nat : Good(idx, q) BY <1>7, <1>8
  <2>2. QED BY <2>1 DEF Good

-----------------------------------------------------------------------------
(* Files *)

\* Saves, each with the seed of its own
AreSaves(saves) ==
  \A seed \in DOMAIN saves : /\ IsMainHeader(saves[seed].header)
                             /\ saves[seed].header.master_seed = seed
                             /\ SizeOf(saves[seed].content) \in Nat \ {0}
KnownCells(saves) ==
  {Signature, Zero} \cup UNION {WrittenCells(saves[seed].header, saves[seed].content) : seed \in DOMAIN saves}

LEMMA KnownKinds ==
    ASSUME NEW saves, AreSaves(saves), NEW cell \in KnownCells(saves)
    PROVE  /\ cell.kind = "size" => cell.n \in Nat
           /\ cell.kind = "header" =>
                \E seed \in DOMAIN saves : cell = Header(write_bytes(saves[seed].header))
           /\ cell.kind = "mac" =>
                \E seed \in DOMAIN saves : \E idx \in Nat :
                  cell = BlockMac(compute_keys(saves[seed].header), idx,
                                  BlockData(Payload(saves[seed].header, saves[seed].content), idx))
<1>1. CASE cell \in {Signature, Zero} BY <1>1 DEF Signature, Zero
<1>2. CASE cell \notin {Signature, Zero}
  <2>1. PICK seed \in DOMAIN saves : cell \in WrittenCells(saves[seed].header, saves[seed].content)
    BY <1>2 DEF KnownCells
  <2>2. PICK h : h = saves[seed].header OBVIOUS
  <2>3. PICK c : c = saves[seed].content OBVIOUS
  <2>4. CASE cell \in {Header(write_bytes(h))} BY <2>2, <2>4 DEF Header
  <2>5. CASE cell \in {Hash(Start(h)), Hmac(compute_keys(h), Start(h))} BY <2>5 DEF Hash, Hmac
  <2>6. CASE cell \in Parts(h, c)
    <3>1. cell.kind = "data" BY <2>6 DEF Parts
    <3>2. QED BY <3>1
  <2>7. CASE cell \in {Size(n) : n \in Nat} BY <2>7 DEF Size
  <2>8. CASE cell \in {BlockMac(compute_keys(h), idx, BlockData(Payload(h, c), idx)) : idx \in Nat}
    <3>1. PICK idx \in Nat : cell = BlockMac(compute_keys(h), idx, BlockData(Payload(h, c), idx)) BY <2>8
    <3>2. cell.kind = "mac" BY <3>1 DEF BlockMac
    <3>3. QED BY <2>2, <2>3, <3>1, <3>2
  <2>9. QED BY <1>2, <2>1, <2>2, <2>3, <2>4, <2>5, <2>6, <2>7, <2>8 DEF WrittenCells
<1>3. QED BY <1>1, <1>2

LEMMA KnownSized ==
    ASSUME NEW saves, AreSaves(saves), NEW f \in Seq(KnownCells(saves))
    PROVE  Sized(f) /\ \A p \in DOMAIN f : f[p] \in KnownCells(saves)
<1>1. Len(f) \in Nat /\ DOMAIN f = 1 .. Len(f) BY LenProperties
<1>2. \A p \in DOMAIN f : f[p] \in KnownCells(saves) BY <1>1, ElementOfSeq
<1>3. QED BY <1>1, <1>2, KnownKinds DEF Sized

\* The blocks in a file with cells of saves only: those hashed with the key of a save are its own.
LEMMA KnownGenuine ==
    ASSUME NEW saves, AreSaves(saves), NEW f \in Seq(KnownCells(saves)), NEW seed \in DOMAIN saves
    PROVE  Genuine(f, compute_keys(saves[seed].header), Payload(saves[seed].header, saves[seed].content))
<1>1. SUFFICES ASSUME NEW p \in DOMAIN f, f[p].kind = "mac", f[p].key = compute_keys(saves[seed].header)
               PROVE  /\ f[p].idx \in Nat
                      /\ f[p].data = BlockData(Payload(saves[seed].header, saves[seed].content), f[p].idx)
  BY DEF Genuine
<1>2. f[p] \in KnownCells(saves) BY KnownSized
<1>3. PICK other \in DOMAIN saves, idx \in Nat :
        f[p] = BlockMac(compute_keys(saves[other].header), idx,
                        BlockData(Payload(saves[other].header, saves[other].content), idx))
  BY <1>1, <1>2, KnownKinds
<1>4. f[p].key = compute_keys(saves[other].header) /\ f[p].idx = idx
      /\ f[p].data = BlockData(Payload(saves[other].header, saves[other].content), idx)
  BY <1>3 DEF BlockMac
<1>5. compute_keys(saves[other].header).seed = other /\ compute_keys(saves[seed].header).seed = seed
  BY DEF compute_keys, AreSaves
<1>6. other = seed BY <1>1, <1>4, <1>5
<1>7. QED BY <1>4, <1>6

\* A payload that ends is whole.
LEMMA EndOfPayload ==
    ASSUME NEW h, NEW content, SizeOf(content) \in Nat \ {0}, NEW data,
           PartOf(data, Payload(h, content), 0, Parts(h, content)), read_xml_content(data)
    PROVE  data = Payload(h, content)
<1>1. PICK payload : payload = Payload(h, content) OBVIOUS
<1>2. PICK S : S = Parts(h, content) OBVIOUS
<1>3. /\ payload \in Seq(S) /\ Len(payload) = SizeOf(content)
      /\ \A i \in 1 .. SizeOf(content) : payload[i].last = (i = SizeOf(content))
  <2>1. payload \in Seq(S) /\ Len(payload) = SizeOf(content) BY <1>1, <1>2, PayloadParts
  <2>2. ASSUME NEW i \in 1 .. SizeOf(content) PROVE payload[i].last = (i = SizeOf(content))
    <3>1. payload[i] = [kind |-> "data", key |-> compute_keys(h), iv |-> h.encryption_iv,
                        of |-> content, part |-> i, last |-> i = SizeOf(content)]
      BY <1>1, PayloadParts
    <3>2. QED BY <3>1
  <2>3. QED BY <2>1, <2>2
<1>4. /\ data \in Seq(S) /\ Len(data) <= CellsBehind(payload, 0)
      /\ \A i \in 1 .. Len(data) : data[i] = payload[0 + i]
  BY <1>1, <1>2 DEF PartOf
<1>5. data # <<>> /\ data[Len(data)].last BY DEF read_xml_content, Last
<1>6. PICK n : n = Len(data) OBVIOUS
<1>7. n \in Nat /\ n # 0 BY <1>4, <1>5, <1>6, EmptySeq
<1>8. n <= SizeOf(content) BY <1>3, <1>4, <1>6 DEF CellsBehind
<1>9. n \in 1 .. SizeOf(content) /\ n \in 1 .. n BY <1>7, <1>8
<1>10. \A i \in 1 .. n : data[i] = payload[i] BY <1>4, <1>6
<1>11. data[n].last = (n = SizeOf(content)) BY <1>3, <1>9, <1>10
<1>12. n = SizeOf(content) BY <1>5, <1>6, <1>11
<1>13. Len(data) = Len(payload) /\ \A i \in 1 .. Len(data) : data[i] = payload[i]
  BY <1>3, <1>6, <1>10, <1>12
<1>14. data = payload BY <1>3, <1>4, <1>13, SeqEqual
<1>15. QED BY <1>1, <1>14

\* What reads back was written: the header and the whole content of one save.
THEOREM OnlyWholeSavesRead ==
    ASSUME NEW saves, AreSaves(saves), NEW f \in Seq(KnownCells(saves)), read(f).ok
    PROVE  \E seed \in DOMAIN saves :
             /\ read(f).header = saves[seed].header
             /\ read(f).data = Payload(saves[seed].header, saves[seed].content)
<1>1. PICK h : h = read_header(f) OBVIOUS
<1>2. PICK key : key = compute_keys(h) OBVIOUS
<1>3. PICK blocks : blocks = read_hmac_data_blocks(f, 5, key) OBVIOUS
<1>4. /\ At(f, 2, "header") /\ blocks.ok /\ read_xml_content(blocks.data)
      /\ read(f) = [ok |-> TRUE, header |-> h, data |-> blocks.data]
  BY <1>1, <1>2, <1>3 DEF read, NotRead
<1>5. Sized(f) /\ f[2] \in KnownCells(saves) BY <1>4, KnownSized DEF At
<1>6. PICK seed \in DOMAIN saves : f[2] = Header(write_bytes(saves[seed].header))
  BY <1>4, <1>5, KnownKinds DEF At
<1>7. IsMainHeader(saves[seed].header) /\ SizeOf(saves[seed].content) \in Nat \ {0} BY DEF AreSaves
<1>8. h = saves[seed].header BY <1>1, <1>6, <1>7, HeaderReadsBack
<1>9. PICK payload : payload = Payload(h, saves[seed].content) OBVIOUS
<1>10. PICK S : S = Parts(h, saves[seed].content) OBVIOUS
<1>11. payload \in Seq(S) BY <1>7, <1>9, <1>10, PayloadParts
<1>12. Genuine(f, key, payload) BY <1>2, <1>8, <1>9, KnownGenuine
<1>13. blocks = Rounds(f, key)[<<0, 5>>] BY <1>3, <1>5, RoundsExist
<1>14. PartOf(blocks.data, payload, 0 * PAYLOAD_BLOCK_SIZE, S)
  BY <1>4, <1>5, <1>11, <1>12, <1>13, GenuineBlocks
<1>15. 0 * PAYLOAD_BLOCK_SIZE = 0 BY StreamAssumption
<1>16. blocks.data = Payload(h, saves[seed].content)
  BY <1>4, <1>7, <1>9, <1>10, <1>14, <1>15, EndOfPayload
<1>17. QED BY <1>4, <1>8, <1>16

\* A file that begins with a save reads back, whatever stands behind it.
THEOREM SavesReadBack ==
    ASSUME NEW h, IsMainHeader(h), NEW content, SizeOf(content) \in Nat \ {0},
           NEW F, NEW f \in Seq(F), Sized(f), Follows(f, 0, write(h, content))
    PROVE  read(f) = [ok |-> TRUE, header |-> h, data |-> Payload(h, content)]
<1>1. PICK key : key = compute_keys(h) OBVIOUS
<1>2. PICK payload : payload = Payload(h, content) OBVIOUS
<1>3. PICK S : S = Parts(h, content) OBVIOUS
<1>4. /\ payload \in Seq(S) /\ Len(payload) = SizeOf(content)
      /\ \A i \in 1 .. SizeOf(content) :
           payload[i] = [kind |-> "data", key |-> key, iv |-> h.encryption_iv,
                         of |-> content, part |-> i, last |-> i = SizeOf(content)]
  BY <1>1, <1>2, <1>3, PayloadParts
<1>5. PICK w : w = write(h, content) OBVIOUS
<1>6. PICK cells : cells = WriteRounds(key, payload)[0] OBVIOUS
<1>7. PICK C : C = WrittenCells(h, content) OBVIOUS
<1>8. /\ w \in Seq(C) /\ cells \in Seq(C) /\ Len(w) = 4 + Len(cells)
      /\ w[1] = Signature /\ w[2] = Header(write_bytes(h))
      /\ w[3] = Hash(Start(h)) /\ w[4] = Hmac(key, Start(h))
      /\ \A i \in 1 .. Len(cells) : w[4 + i] = cells[i]
  BY <1>1, <1>2, <1>5, <1>6, <1>7, CellsWritten
<1>9. Len(cells) \in Nat BY <1>8
<1>10. \A i \in 1 .. Len(w) : i \in DOMAIN f /\ f[i] = w[i]
  <2>1. ASSUME NEW i \in 1 .. Len(w) PROVE i \in DOMAIN f /\ f[i] = w[i]
    <3>1. 0 + i \in DOMAIN f /\ f[0 + i] = w[i] BY <1>5 DEF Follows
    <3>2. 0 + i = i OBVIOUS
    <3>3. QED BY <3>1, <3>2
  <2>2. QED BY <2>1
<1>11. /\ 1 \in DOMAIN f /\ 2 \in DOMAIN f /\ 3 \in DOMAIN f /\ 4 \in DOMAIN f
       /\ f[1] = Signature /\ f[2] = Header(write_bytes(h))
       /\ f[3] = Hash(Start(h)) /\ f[4] = Hmac(key, Start(h))
  <2>1. 1 \in 1 .. Len(w) /\ 2 \in 1 .. Len(w) /\ 3 \in 1 .. Len(w) /\ 4 \in 1 .. Len(w) BY <1>8, <1>9
  <2>2. QED BY <1>8, <1>10, <2>1
<1>12. read_header(f) = h BY <1>11, HeaderReadsBack
<1>13. SubSeq(f, 1, 2) = Start(h)
  <2>1. PICK start : start = Start(h) OBVIOUS
  <2>2. start \in Seq({Signature, Header(write_bytes(h))}) /\ Len(start) = 2
        /\ start[1] = Signature /\ start[2] = Header(write_bytes(h))
    BY <2>1 DEF Start
  <2>3. Follows(f, 0, start)
    <3>1. ASSUME NEW i \in 1 .. Len(start) PROVE 0 + i \in DOMAIN f /\ f[0 + i] = start[i]
      <4>1. i = 1 \/ i = 2 BY <2>2
      <4>2. QED BY <4>1, <2>2, <1>11
    <3>2. QED BY <3>1 DEF Follows
  <2>4. SubSeq(f, 0 + 1, IF 0 + Len(start) < Len(f) THEN 0 + Len(start) ELSE Len(f)) = start
    <3>1. PICK T : start \in Seq(T) BY <2>2
    <3>2. Len(start) # 0 BY <2>2
    <3>3. QED BY <2>3, <3>1, <3>2, FollowsRead, Zenon
  <2>6. Len(f) \in Nat /\ 2 <= Len(f) BY <1>11 DEF Sized
  <2>7. (IF 0 + Len(start) < Len(f) THEN 0 + Len(start) ELSE Len(f)) = 2 BY <2>2, <2>6
  <2>8. 0 + 1 = 1 OBVIOUS
  <2>9. QED BY <2>1, <2>4, <2>7, <2>8
<1>14. Follows(f, 4, cells)
  <2>1. ASSUME NEW i \in 1 .. Len(cells) PROVE 4 + i \in DOMAIN f /\ f[4 + i] = cells[i]
    <3>1. 4 + i \in 1 .. Len(w) BY <1>8, <1>9
    <3>2. QED BY <1>8, <1>10, <3>1
  <2>2. QED BY <2>1 DEF Follows
<1>15. PICK blocks : blocks = read_hmac_data_blocks(f, 5, key) OBVIOUS
<1>16. blocks.ok /\ AllOf(blocks.data, payload, 0 * PAYLOAD_BLOCK_SIZE, S)
  <2>1. /\ Rounds(f, key)[<<0, 4 + 1>>].ok
        /\ AllOf(Rounds(f, key)[<<0, 4 + 1>>].data, payload, 0 * PAYLOAD_BLOCK_SIZE, S)
    BY <1>4, <1>6, <1>14, BlocksReadBack
  <2>2. blocks = Rounds(f, key)[<<0, 5>>] BY <1>15, RoundsExist
  <2>3. 4 + 1 = 5 OBVIOUS
  <2>4. QED BY <2>1, <2>2, <2>3
<1>17. blocks.data = payload
  <2>1. PICK data : data = blocks.data OBVIOUS
  <2>2. 0 * PAYLOAD_BLOCK_SIZE = 0 BY StreamAssumption
  <2>3. /\ data \in Seq(S) /\ Len(data) = CellsBehind(payload, 0)
        /\ \A i \in 1 .. Len(data) : data[i] = payload[0 + i]
    BY <1>16, <2>1, <2>2 DEF AllOf, PartOf
  <2>4. Len(data) = Len(payload) BY <1>4, <2>3 DEF CellsBehind
  <2>5. \A i \in 1 .. Len(data) : data[i] = payload[i] BY <2>3
  <2>6. QED BY <1>4, <2>1, <2>3, <2>4, <2>5, SeqEqual
<1>18. 1 \in 1 .. SizeOf(content) /\ SizeOf(content) \in 1 .. SizeOf(content) /\ DOMAIN payload = 1 .. SizeOf(content)
  BY <1>4
<1>19. /\ decrypt_data(h, payload) /\ decompress(h, payload)
  BY <1>1, <1>4, <1>18 DEF decrypt_data, decompress
<1>20. read_xml_content(payload)
  <2>1. payload # <<>> BY <1>4, <1>18
  <2>2. payload[1].part = 1 BY <1>4, <1>18
  <2>3. payload[Len(payload)].last
    <3>1. payload[SizeOf(content)].last = (SizeOf(content) = SizeOf(content)) BY <1>4, <1>18
    <3>2. QED BY <1>4, <3>1
  <2>4. QED BY <2>1, <2>2, <2>3 DEF read_xml_content, Last
<1>21. h.kdf_algorithm # NoKdf
  <2>1. h.kdf_algorithm.variant \in Variants BY DEF IsMainHeader, IsKdf
  <2>2. NoKdf.variant \notin Variants BY DEF NoKdf, Variants
  <2>3. QED BY <2>1, <2>2
<1>22. /\ read_file_signature(f) /\ At(f, 2, "header")
       /\ verify_stored_hash(f) /\ verify_header_hmac(f, key)
  BY <1>11, <1>13 DEF read_file_signature, At, verify_stored_hash, verify_header_hmac,
                      Signature, Header, Hash, Hmac
<1>23. QED BY <1>1, <1>2, <1>12, <1>15, <1>16, <1>17, <1>19, <1>20, <1>21, <1>22 DEF read
=============================================================================
