----------------------------- MODULE MCReplicas -----------------------------
(* Instances of Replicas for TLC: who may call what.                       *)
EXTENDS Replicas

Groupings == {"insert_group", "clone_group", "sort_sub_groups", "move_group",
              "move_group_to_recycle_bin", "remove_group_permanently"}

Entering == {"insert_entry", "clone_entry", "move_entry",
             "move_entry_to_recycle_bin", "remove_entry_permanently"}

\* One device that does everything but edit: without times and histories the
\* contents are few enough to see all of them.
OneDevice == {"a"}
EverythingButEdits == [d \in OneDevice |-> Groupings \cup Entering \cup {"empty_trash"}]

\* Two devices with a copy each. Both edit, discard and delete entries and
\* merge; groups are made, discarded and deleted on one of them and edited on
\* the other, where entries are moved and older versions deleted.
TwoDevices == {"a", "b"}
EditAndMerge ==
    LET both == {"update_entry", "move_entry_to_recycle_bin", "remove_entry_permanently", "merge"}
    IN  [d \in TwoDevices |->
            both \cup IF d = "a"
                      THEN {"insert_group", "move_group_to_recycle_bin",
                            "remove_group_permanently"}
                      ELSE {"update_group", "move_entry", "empty_trash",
                            "delete_history_entry_by_index", "delete_history_entries"}]

\* The value of history_max_items for a history without a limit.
NoLimit == -1
=============================================================================
