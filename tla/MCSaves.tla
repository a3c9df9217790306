------------------------------ MODULE MCSaves -------------------------------
(* The second edit empties the database: contents grow and shrink.          *)
EXTENDS Saves
MCSizeOf(content) == IF 2 \in content THEN 1 ELSE 2 + Cardinality(content)
MCHeader(flag) ==
  [cipher_id |-> "Aes256", compression_flag |-> flag, master_seed |-> 0, encryption_iv |-> 0,
   public_custom_data |-> "plugin", comment |-> "text",
   kdf_algorithm |-> [variant |-> "Argon2d", iterations |-> 2, memory |-> 1, parallelism |-> 4, version |-> 19,
                      salt |-> 0]]
MCForeignHeaders == {MCHeader(0)}
=============================================================================
