------------------------------ MODULE ConfigStore ------------------------------
(***************************************************************************)
(* Config::save (src/core/config/config.cpp): the configuration is dumped, *)
(* written to path + ".tmp", and renamed to path; if the rename fails, it  *)
(* is copied over path and the temporary file removed.  Every thread that  *)
(* saves uses the same two names, and no lock; a save may fail, and the    *)
(* program may end between any two steps.                                  *)
(*                                                                         *)
(* Names and files are kept apart: who has a file open goes on with it     *)
(* after its name is given to another or removed.  A file has a part of a  *)
(* text, or the whole text of a value.                                     *)
(***************************************************************************)
EXTENDS Naturals

CONSTANTS
  Savers,  \* threads that save
  Values,  \* what is saved
  NoValue, \* and none of that
  Inodes,  \* bound: files that have a name or are open at a time
  NoInode, \* what a name stands for that no file has
  MayFail  \* TRUE: opening, writing, renaming, copying, removing files may fail

ASSUME ValuesAssumption == NoValue \notin Values
ASSUME InodesAssumption == NoInode \notin Inodes
ASSUME ModeAssumption == MayFail \in BOOLEAN

VARIABLES
  path,     \* the file called path
  temp,     \* the file called path + ".tmp"
  text,     \* text[f]: what is in file f
  saver,    \* saver[t] = [at, value, file, from]: where t is in save, what it
            \* dumped, the file it writes and the one it copies from
  crossing, \* history: the threads whose save overlaps another one
  marred    \* history: path's text is what saves that overlapped made of it, or
            \* a copy in place that has not come to its end

stored == <<path, temp, text, marred>>
storeVars == <<stored, saver, crossing>>

Absent == [text |-> "absent", value |-> NoValue]
Partial == [text |-> "partial", value |-> NoValue]
Whole(v) == [text |-> "whole", value |-> v]
Texts == {Partial} \cup {Whole(v) : v \in Values}

PathText == IF path = NoInode THEN Absent ELSE text[path]

Idle == [at |-> "idle", value |-> NoValue, file |-> NoInode, from |-> NoInode]

StoreTypeOK ==
  /\ {path, temp} \subseteq Inodes \cup {NoInode}
  /\ text \in [Inodes -> Texts]
  /\ saver \in [Savers -> [at : {"idle", "asked", "dumped", "opened", "written", "unrenamed",
                                 "copying", "copied", "uncopied", "saved", "failed"},
                           value : Values \cup {NoValue},
                           file : Inodes \cup {NoInode},
                           from : Inodes \cup {NoInode}]]
  /\ \A t \in Savers : /\ saver[t].value = NoValue <=> saver[t].at \in {"idle", "asked"}
                       /\ saver[t].file = NoInode <=> saver[t].at \notin {"opened", "copying"}
                       /\ saver[t].from = NoInode <=> saver[t].at # "copying"
  /\ crossing \subseteq Savers
  /\ marred \in BOOLEAN

StoreInit ==
  /\ path = NoInode /\ temp = NoInode
  /\ text = [f \in Inodes |-> Partial]
  /\ saver = [t \in Savers |-> Idle]
  /\ crossing = {} /\ marred = FALSE

-------------------------------------------------------------------------------

SaverAt(t, at) == saver[t].at = at
SaverGoes(t, at) == saver' = [saver EXCEPT ![t].at = at]
UnderWay == {t \in Savers : ~SaverAt(t, "idle")}

\* A file that no name stands for and nobody has open is no more.
Used == {path, temp} \cup {saver[t].file : t \in Savers} \cup {saver[t].from : t \in Savers}
Kept(texts) == [f \in Inodes |-> IF f \in Used' THEN texts[f] ELSE Partial]

\* The file a name stands for, or a new one.
Created(name) ==
  IF name # NoInode THEN {name}
  ELSE LET unused == Inodes \ Used IN IF unused = {} THEN {} ELSE {CHOOSE f \in unused : TRUE}

\* The call of save.
Ask(t) ==
  /\ SaverAt(t, "idle")
  /\ SaverGoes(t, "asked")
  /\ crossing' = IF UnderWay = {} THEN crossing ELSE crossing \cup UnderWay \cup {t}
  /\ UNCHANGED stored

\* The copy of the settings into gConfig, and the dump of gConfig.
Dump(t, v) ==
  /\ SaverAt(t, "asked")
  /\ saver' = [saver EXCEPT ![t].at = "dumped", ![t].value = v]
  /\ UNCHANGED <<stored, crossing>>

\* Mutant: writes to path itself.
WriteInPlace(t) ==
  /\ SaverAt(t, "dumped")
  /\ \E f \in Created(path) :
       /\ path' = f
       /\ text' = [text EXCEPT ![f] = Partial]
       /\ saver' = [saver EXCEPT ![t].at = "opened", ![t].file = f]
  /\ UNCHANGED <<temp, crossing, marred>>

\* The temporary file is created, or emptied if it is there.
OpenTemp(t) ==
  /\ SaverAt(t, "dumped")
  /\ \E f \in Created(temp) :
       /\ temp' = f
       /\ text' = [text EXCEPT ![f] = Partial]
       /\ saver' = [saver EXCEPT ![t].at = "opened", ![t].file = f]
  /\ UNCHANGED <<path, crossing, marred>>

\* A text over an empty file; over another text, of whatever length, the result
\* may be neither.
Overwritten(old, new) == {new} \cup (IF old \in {Partial, new} THEN {} ELSE {Partial})

\* Written, flushed and closed.
WriteTemp(t) ==
  /\ SaverAt(t, "opened")
  /\ saver' = [saver EXCEPT ![t].at = "written", ![t].file = NoInode]
  /\ UNCHANGED <<path, temp, crossing, marred>>
  /\ \E x \in Overwritten(text[saver[t].file], Whole(saver[t].value)) :
       text' = Kept([text EXCEPT ![saver[t].file] = x])

RenameTemp(t) ==
  /\ SaverAt(t, "written") /\ temp # NoInode
  /\ path' = temp /\ temp' = NoInode
  /\ SaverGoes(t, "saved")
  /\ marred' = (t \in crossing)
  /\ UNCHANGED crossing
  /\ text' = Kept(text)

RenameFails(t) ==
  /\ SaverAt(t, "written")
  /\ temp = NoInode \/ MayFail
  /\ SaverGoes(t, "unrenamed")
  /\ UNCHANGED <<stored, crossing>>

\* copy_file opens both files and empties path.
CopyBegins(t) ==
  /\ SaverAt(t, "unrenamed") /\ temp # NoInode
  /\ \E f \in Created(path) :
       /\ path' = f
       /\ text' = [text EXCEPT ![f] = Partial]
       /\ saver' = [saver EXCEPT ![t].at = "copying", ![t].file = f, ![t].from = temp]
  /\ marred' = TRUE
  /\ UNCHANGED <<temp, crossing>>

CopyEnds(t) ==
  /\ SaverAt(t, "copying")
  /\ saver' = [saver EXCEPT ![t].at = "copied", ![t].file = NoInode, ![t].from = NoInode]
  /\ marred' = (t \in crossing)
  /\ UNCHANGED <<path, temp, crossing>>
  /\ \E x \in Overwritten(text[saver[t].file], text[saver[t].from]) :
       text' = Kept([text EXCEPT ![saver[t].file] = x])

\* Before it opened path, or amidst the copy.  The error is overwritten by that of
\* remove, and save says that the config was written.
CopyFails(t) ==
  /\ \/ SaverAt(t, "unrenamed") /\ (temp = NoInode \/ MayFail)
     \/ SaverAt(t, "copying") /\ MayFail
  /\ saver' = [saver EXCEPT ![t].at = "uncopied", ![t].file = NoInode, ![t].from = NoInode]
  /\ UNCHANGED <<path, temp, crossing, marred>>
  /\ text' = Kept(text)

\* Whichever file the name stands for by now.
RemoveTemp(t) ==
  /\ saver[t].at \in {"copied", "uncopied"}
  /\ temp' \in {NoInode} \cup (IF MayFail THEN {temp} ELSE {})
  /\ SaverGoes(t, IF SaverAt(t, "copied") THEN "saved" ELSE "failed")
  /\ UNCHANGED <<path, crossing, marred>>
  /\ text' = Kept(text)

\* Opening or writing throws; save catches and logs it, and the file is closed.
SaveFails(t) ==
  /\ MayFail
  /\ saver[t].at \in {"dumped", "opened"}
  /\ saver' = [saver EXCEPT ![t].at = "failed", ![t].file = NoInode]
  /\ UNCHANGED <<path, temp, crossing, marred>>
  /\ text' = Kept(text)

SaveStep(t) ==
  \/ OpenTemp(t) \/ WriteTemp(t) \/ RenameTemp(t) \/ RenameFails(t)
  \/ CopyBegins(t) \/ CopyEnds(t) \/ CopyFails(t) \/ RemoveTemp(t)
  \/ SaveFails(t)

\* The return of save, which does not say whether it failed.
SaveReturned(t) == saver[t].at \in {"saved", "failed"}
SaveReturns(t) ==
  /\ SaveReturned(t)
  /\ saver' = [saver EXCEPT ![t] = Idle]
  /\ crossing' = crossing \ {t}
  /\ UNCHANGED stored

\* The program ends: no thread is left.
SaversGone ==
  /\ saver' = [t \in Savers |-> Idle]
  /\ crossing' = {}
  /\ UNCHANGED <<path, temp, marred>>
  /\ text' = Kept(text)

===============================================================================
