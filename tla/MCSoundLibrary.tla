---------------------------- MODULE MCSoundLibrary ----------------------------
(* Small instances of SoundLibrary: folders are interchangeable.           *)
EXTENDS SoundLibrary

\* At the desk every choice is made; with the web server on, the star of one sound, or
\* three sounds and no edits.
Desk == [web |-> FALSE, customs |-> Customs, stars |-> Ids, most |-> MaxId]
Logins == [web |-> TRUE, customs |-> {}, stars |-> {}, most |-> MaxId]
Stars == [web |-> TRUE, customs |-> {Default}, stars |-> {1}, most |-> 1]
AllUses == {Desk, Logins, Stars}

Symmetry == Permutations(Folders)
================================================================================
