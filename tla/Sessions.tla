----------------------------- MODULE Sessions -----------------------------
(***************************************************************************)
(* What the store of open databases promises one client: an editor of      *)
(* documents that live in files another program may edit too.  There are   *)
(* no keys, locks, ciphertexts or pending flags here, and every operation  *)
(* is one step: DbStore shows that the code gets away with all of those.   *)
(***************************************************************************)
CONSTANTS
    Names,   \* file names
    Edits,   \* edits that can ever be made
    Absent   \* no document, no file, no known version

VARIABLES
    doc,     \* name -> edits the open document holds
    seen,    \* name -> edits of the file's version that the editor knows
    file     \* name -> edits in the file

vars == <<doc, seen, file>>

Content == SUBSET Edits

Opened(f) == doc[f] # Absent

Put(f, d, s) == doc' = [doc EXCEPT ![f] = d] /\ seen' = [seen EXCEPT ![f] = s]

Init ==
    /\ doc = [f \in Names |-> Absent]
    /\ seen = [f \in Names |-> Absent]
    /\ file \in [Names -> {{}, Absent}]

New(f) == Put(f, {}, Absent) /\ UNCHANGED file

\* A version the file has or had: another program may have changed it since
OpenFile(f) ==
    /\ file[f] # Absent
    /\ \E d \in SUBSET file[f] : Put(f, d, d)
    /\ UNCHANGED file

Change(f) ==
    /\ Opened(f)
    /\ \E d \in Content : doc[f] \subseteq d /\ doc' = [doc EXCEPT ![f] = d]
    /\ UNCHANGED <<seen, file>>

\* Only over the version that the editor knows
Save(f) ==
    /\ Opened(f) /\ file[f] # Absent /\ file[f] = seen[f]
    /\ file' = [file EXCEPT ![f] = doc[f]]
    /\ seen' = [seen EXCEPT ![f] = doc[f]]
    /\ UNCHANGED doc

Overwrite(f) ==
    /\ Opened(f)
    /\ file' = [file EXCEPT ![f] = doc[f]]
    /\ seen' = [seen EXCEPT ![f] = doc[f]]
    /\ UNCHANGED doc

\* The document moves to the new name, together with what is known of its file
SaveAs(f, g) ==
    /\ Opened(f) /\ ~Opened(g)
    /\ doc' = [[doc EXCEPT ![f] = Absent] EXCEPT ![g] = doc[f]]
    /\ seen' = [[seen EXCEPT ![f] = Absent] EXCEPT ![g] = doc[f]]
    /\ file' = [file EXCEPT ![g] = doc[f]]

\* A copy goes to a file; what is known of that file does not change
Export(f, g) ==
    /\ Opened(f)
    /\ file' = [file EXCEPT ![g] = doc[f]]
    /\ UNCHANGED <<doc, seen>>

Refresh(f) == Opened(f) /\ file[f] # Absent /\ Put(f, file[f], file[f]) /\ UNCHANGED file

TakeIn(f) ==
    /\ Opened(f) /\ file[f] # Absent
    /\ Put(f, doc[f] \cup file[f], file[f])
    /\ UNCHANGED file

Close(f) == Opened(f) /\ Put(f, Absent, Absent) /\ UNCHANGED file

\* Another program adds an edit
Outside(f) ==
    /\ file[f] # Absent
    /\ \E e \in Edits : file' = [file EXCEPT ![f] = @ \cup {e}]
    /\ UNCHANGED <<doc, seen>>

Next ==
    \E f \in Names :
        \/ New(f) \/ OpenFile(f) \/ Change(f) \/ Save(f) \/ Overwrite(f)
        \/ Refresh(f) \/ TakeIn(f) \/ Close(f) \/ Outside(f)
        \/ \E g \in Names : SaveAs(f, g) \/ Export(f, g)

Spec == Init /\ [][Next]_vars
=============================================================================
