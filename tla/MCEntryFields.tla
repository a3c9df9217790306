---------------------------- MODULE MCEntryFields ----------------------------
(* Instances of EntryFields for TLC: entries, csv files and settings.         *)
EXTENDS EntryFields

Def(f, protected, otp) == [name |-> f, protected |-> protected, otp |-> otp]
Login ==
    << [name |-> "Login Details",
        defs |-> <<Def("UserName", FALSE, FALSE), Def("Password", TRUE, FALSE),
                   Def(OTP, TRUE, TRUE)>>],
       [name |-> ADDITIONAL_ONE_TIME_PASSWORDS, defs |-> <<>>] >>
Card == << [name |-> "Card Details", defs |-> <<Def("Number", TRUE, FALSE)>>] >>
MCTypeSections == [Login |-> Login, CreditCard |-> Card]

Text(x) == << <<"text", x>> >>
Plain(x) == [value |-> x, protected |-> FALSE]
Secret(x) == [value |-> x, protected |-> TRUE]
Basic == (TITLE :> Plain(Text("t"))) @@ (NOTES :> Plain(<<>>))
           @@ ("UserName" :> Plain(Text("u"))) @@ ("Password" :> Secret(Text("p")))
Entry(fields) == [fields |-> fields @@ Basic, sections |-> Login]

\* Of KeePass with one secret and with two; of KeePassXC, in a database that protects
\* titles and notes, with a protected field that no type defines
MCForeign ==
    { Entry(("TimeOtp-Secret" :> Secret(<< <<"Plain", "s1">> >>))
              @@ (ALGORITHM :> Plain(<< <<"alg", "SHA256", "uri">> >>))),
      Entry(("TimeOtp-Secret-Base64" :> Secret(<< <<"Base64", "s1">> >>))
              @@ ("TimeOtp-Secret" :> Secret(<< <<"Plain", "s2">> >>))),
      Entry(OTP :> Secret(<< <<"url", "totp", <<"Co", ":", "me">>,
                             << <<"secret", "s1">>, <<"digits", 8>> >> >> >>)
              @@ (TITLE :> Secret(Text("t"))) @@ (NOTES :> Secret(Text("n")))
              @@ ("pin" :> Secret(Text("1")))) }

Key(s, p) == [secret_or_url |-> << <<"Base32", s>> >>, period |-> p, digits |-> None,
              hash_algorithm |-> Some("SHA256")]
Url(host, s) == [secret_or_url |-> << <<"url", host, <<"Co", ":", "me">>,
                    << <<"secret", s>>, <<"algorithm", "SHA256">>, <<"issuer", <<"Co">> >>,
                       <<"period", 45>> >> >> >>,
                 period |-> None, digits |-> None, hash_algorithm |-> None]
\* One that cannot be used among them, one that has no plain text form
MCSettings == {Key("s1", Some(60)), Key("s1", Some(61)), Url("totp", "s2"), Url("hotp", "s2")}
\* With a period that is the default, which is not written
DefaultPeriod == {Key("s1", Some(30)), Key("s1", Some(60))}

\* A cycle between Title and UserName, a reference that refers back
MCEdits ==
    { <<TITLE, << <<"text", "a">>, <<"field", "UserName">> >> >>,
      <<"UserName", << <<"field", TITLE>> >> >>,
      <<"UserName", << <<"own", "Password">>, <<"text", "b">> >> >>,
      <<"Password", << <<"ref", "Password", "I", "o">> >> >> }
TitleEdit == {<<TITLE, Text("a")>>}
MCOthers ==
    "o" :> (("UserName" :> Plain(<< <<"ref", TITLE, "I", E>> >>))
              @@ ("Password" :> Secret(<< <<"text", "q">>, <<"field", "UserName">> >>)))
MCOrders == {<<TITLE, "UserName", "Password">>, <<"Password", "UserName", TITLE>>}

\* One exporter packs fields, one has kinds of items, one writes its root group
MCProfiles ==
    << [NoProfile EXCEPT
          !.signature = {"name", "login_password", "fields"},
          !.mapping = << <<TITLE, "name">>, <<"Password", "login_password">>, <<OTP, "totp">>,
                         <<GROUP, "folder">> >>,
          !.folder_separator = TRUE, !.favourite_column = Some("favorite"),
          !.packed_fields_column = Some("fields")],
       [NoProfile EXCEPT
          !.signature = {"name", "cardnumber"},
          !.mapping = << <<TITLE, "name">>, <<"Password", "login_password">>, <<GROUP, "folder">> >>,
          !.type_column = Some("type"),
          !.type_values = << <<"text", "card">> >> :> "CreditCard" @@ Text("password") :> "Login",
          !.extra_fields = {<<"CreditCard", "Number", "cardnumber">>}],
       [NoProfile EXCEPT
          !.signature = {"name", "Icon"},
          !.mapping = << <<TITLE, "name">>, <<GROUP, "folder">>, <<TAGS, "tags">> >>,
          !.folder_separator = TRUE, !.strip_root_folder = TRUE, !.skip_folders = {"Bin"},
          !.icon_column = Some("Icon"), !.ignored_columns = {"Created"}] >>

Cells(path) == << <<"path", path>> >>
MCTables ==
    { [headers |-> <<"name", "login_password", "totp", "folder", "favorite", "fields", "pin">>,
       record |-> << Text("t"), Text("p"), << <<"Base32", "s1">> >>, Cells(<<"A", "B">>),
                     << <<"flag", TRUE>> >>,
                     << <<"packed", << <<"Password", Text("x")>>, <<"q", Text("y")>>,
                                       <<"pin", Text("z")>> >> >> >>, Text("1") >>,
       by_hand |-> << <<TITLE, "name">>, <<"Password", "login_password">>, <<OTP, "totp">> >>],
      [headers |-> <<"name", "type", "cardnumber", "login_password", "folder">>,
       record |-> << Text("t"), Text("card"), Text("n"), <<>> >>,
       by_hand |-> << <<TITLE, "name">>, <<"UserName", "cardnumber">> >>],
      [headers |-> <<"name", "folder", "Icon", "tags", "Created">>,
       record |-> << Text("t"), Cells(<<"Root", "Bin", "C">>), << <<"num", 3>> >>,
                     << <<"tags", {"x"}>> >>, Text("d") >>,
       by_hand |-> << <<TITLE, "name">>, <<GROUP, "folder">>, <<TAGS, "tags">> >>] }
=============================================================================
