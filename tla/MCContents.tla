----------------------------- MODULE MCContents -----------------------------
(* Instances of Contents for TLC.                                           *)
EXTENDS Contents

Section(name, defs) == [name |-> name, defs |-> defs]
BuiltIn == "login" :> <<Section("Login", <<"user">>)>>
Custom == "custom" :> <<Section("Main", <<"pin">>), Section("More", <<"code">>)>>

Login == [id |-> "login", sections |-> BuiltIn["login"]]
LoginWithField == [id |-> "login", sections |-> <<Section("Login", <<"user", "extra">>)>>]
LoginWithSection == [id |-> "login", sections |-> <<Section("Login", <<"user">>), Section("Own", <<"extra">>)>>]
CustomWithField == [id |-> "custom", sections |-> <<Section("Main", <<"pin">>), Section("More", <<"code", "extra">>)>>]

\* A login with one attachment and two versions, each with a type of its own.
Version(type, time, cd) ==
  [type |-> type, cd |-> cd, time |-> time, history |-> <<>>, share |-> Own,
   bins |-> <<[index_ref |-> 0, data_hash |-> NoHash]>>, was |-> [type |-> type, docs |-> <<"a">>, known |-> TRUE]]
OfIndex(i) == [NoTypeData EXCEPT !.index = i]
LoginWithVersions ==
  LET types == <<LoginWithField, LoginWithSection>>
      stored == [i \in 1 .. 2 |-> encode_entry_type(types[i], <<>>)]
  IN [Version(Login, 2, [NoTypeData EXCEPT !.list = stored])
        EXCEPT !.history = [i \in 1 .. 2 |-> Version(types[i], i - 1, OfIndex(i - 1))]]

TwoVersions == [items |-> 2, size |-> -1]
Small == [items |-> -1, size |-> 3]
OneAttached == [binaries |-> <<"a">>,
                db |-> [customs |-> <<>>, type_map |-> <<>>, limits |-> [items |-> 3, size |-> -1],
                        entry |-> LoginWithVersions]]
AllLimits == {TwoVersions, Small}

\* One device edits and merges the other's file, the other reads its own again
\* and locks, with the one attachment the file came with.
BothDevices == {"here", "there"}
EditsAndMerges == [here |-> {"upload", "update", "delete_history", "set_limits", "insert_type", "delete_type", "merge"},
                   there |-> {"update", "reload", "lock", "merge_disk"}]
FormsOfBoth == [here |-> {LoginWithField, CustomWithField}, there |-> {LoginWithSection}]
DocumentsOfBoth == [here |-> {<<>>, <<"b", "a">>}, there |-> {<<>>}]

\* One device that reads its own file again.
OneDevice == {"here"}
EditsAndReloads == [here |-> {"upload", "update", "reload"}]
=============================================================================
