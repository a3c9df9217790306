---------------------------- MODULE MCMetaMerge ----------------------------
(* Instances of MetaMerge for TLC.                                          *)
EXTENDS MetaMerge

\* A database with one entry and one icon that it shows.
OneIcon ==
    [icons    |-> <<[uuid |-> 1, data |-> "x"]>>,
     settings |-> "old", settings_changed |-> 0,
     group    |-> [mod |-> 0, icon |-> Nil],
     entries  |-> [e \in {"e1"} |-> [mod |-> 0, icon |-> 1, history |-> <<>>]]]

BothDevices == {"here", "there"}
IconCalls == [here  |-> {"add", "remove", "save", "merge"},
              there |-> {"add", "set", "edit", "settings", "save", "merge"}]
=============================================================================
