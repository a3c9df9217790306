----------------------------- MODULE MCDbStore -----------------------------
(* Instances of DbStore for TLC: sets of calls and a symmetry. *)
EXTENDS DbStore, TLC

Unlocking == {"unlock_kdbx", "unlock_kdbx_on_biometric_authentication"}

\* A desktop client that follows the conventions of the user interface
DesktopCalls ==
    {"edit", "set_db_settings", "load_kdbx", "create_kdbx", "save_kdbx", "save_overwrite",
     "save_all", "save_to_db_file", "save_as_kdbx", "close_kdbx", "close_all_databases",
     "lock_kdbx", "reload_kdbx", "merge_kdbx_with_disk_version", "merge_databases"}
      \cup Unlocking

\* What that client still does while a database is locked
DesktopLockedCalls ==
    {"edit", "save_kdbx", "save_overwrite", "save_all", "load_kdbx", "close_kdbx",
     "close_all_databases", "lock_kdbx"} \cup Unlocking

\* Calls on one database that several threads make at the same time
SharedCalls ==
    DesktopCalls \ {"save_as_kdbx", "save_to_db_file", "create_kdbx", "merge_databases"}

\* Calls that the user interface does not make on a locked database, or with the
\* name of a database that is open
RawCalls ==
    {"edit", "load_kdbx", "save_kdbx", "rename_db_key", "lock_kdbx", "set_db_locked",
     "reload_kdbx", "merge_kdbx_with_disk_version", "merge_databases"} \cup Unlocking

Symmetry == Permutations(Keys) \cup Permutations(Edits) \cup Permutations(EncKeys)
              \cup Permutations(Threads)
=============================================================================
