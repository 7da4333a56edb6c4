---------------------------- MODULE WebServer_proofs ----------------------------
(***************************************************************************)
(* Proofs about what the web server answers from: the logins and sounds of *)
(* the config file, and what plays.                                        *)
(*                                                                         *)
(* RemoteSessions, for any threads, devices and number of logins: the      *)
(* types, and, leaving aside what overlapping saves and unfinished copies  *)
(* make of the file, that it is never seen in part, that an answered login *)
(* survives a crash, and that the exit saves what it should.               *)
(*                                                                         *)
(* SoundLibrary, for any folders, files, choices and number of ids: the    *)
(* types, the maps that find the sounds by their ids, that an id keeps its *)
(* file, and that the choices made at the desk are what the file holds.    *)
(*                                                                         *)
(* RemotePage, for any sounds, requests under way and number of ids: what  *)
(* a page shows as playing belongs to what it tracks.                      *)
(***************************************************************************)
EXTENDS RemoteSessions, SoundLibrary, RemotePage, FiniteSetTheorems, SequenceTheorems,
        WellFoundedInduction, TLAPS

LEMMA LoadsTyped ==
  ASSUME StoreTypeOK
  PROVE  /\ Loads \in SUBSET Tokens
         /\ PathText \in {Absent} \cup Texts
         /\ \A v \in Values : PathText = Whole(v) => Loads = v
<1>1. PathText \in {Absent} \cup Texts
  BY DEF StoreTypeOK, PathText
<1>2. CASE PathText \in {Absent, Partial}
  BY <1>1, <1>2 DEF Absent, Partial, Whole, Loads
<1>3. ASSUME NEW v \in Values, PathText = Whole(v)
      PROVE  Loads = v
  BY <1>3 DEF Whole, Loads
<1> QED BY <1>1, <1>2, <1>3, TokensAssumption DEF Texts, Tokens

LEMMA PhaseOrder ==
  ASSUME phase \in {"off", "on", "closing", "ending", "stopped"}
  PROVE  /\ NextSave[phase] \subseteq {"closing", "ending", "stopped"}
         /\ phase \in {"off", "stopped"} => NextSave[phase] = {}
<1>1. /\ NextSave["off"] = {} /\ NextSave["stopped"] = {} /\ NextSave["on"] = {"closing", "ending"}
      /\ NextSave["closing"] = {"ending"} /\ NextSave["ending"] = {"stopped"}
  BY DEF NextSave
<1> QED BY <1>1

-------------------------------------------------------------------------------
(* The types *)

LEMMA TypeInit == Init => TypeOK
<1> SUFFICES ASSUME Init PROVE TypeOK
  OBVIOUS
<1>1. StoreTypeOK
  BY DEF Init, StoreInit, StoreTypeOK, Texts, Idle
<1> QED BY <1>1, TokensAssumption DEF Init, TypeOK, NoLogin, NoToken

LEMMA CreatedIs ==
  ASSUME NEW name \in Inodes \cup {NoInode}, NEW f \in Created(name)
  PROVE  f \in Inodes /\ IF name = NoInode THEN f \notin Used ELSE f = name
<1>1. CASE name # NoInode
  BY <1>1 DEF Created
<1>2. CASE name = NoInode
  <2>1. Inodes \ Used # {} /\ f = CHOOSE x \in Inodes \ Used : TRUE
    BY <1>2 DEF Created
  <2> QED BY <1>2, <2>1
<1> QED BY <1>1, <1>2

\* What is kept is what is used, and that are at least the files of the names and of
\* those who have them open.
LEMMA KeptIs ==
  ASSUME NEW texts \in [Inodes -> Texts], text' = Kept(texts)
  PROVE  /\ text' \in [Inodes -> Texts]
         /\ \A f \in Inodes : f \in {path', temp'} => text'[f] = texts[f]
<1>1. {path', temp'} \subseteq Used'
  BY DEF Used
<1> QED BY <1>1 DEF Kept, Texts

\* The texts that may be written are texts.
LEMMA OverwrittenIs ==
  ASSUME NEW old, NEW new \in Texts, NEW x \in Overwritten(old, new)
  PROVE  x \in Texts /\ (old = Partial => x = new)
BY DEF Overwritten, Texts

\* A step of a save, whatever the others do.
LEMMA SaveStepTyped ==
  ASSUME StoreTypeOK, NEW t \in Savers, SaveStep(t)
  PROVE  /\ StoreTypeOK'
         /\ crossing' = crossing
         /\ \A u \in Savers \ {t} : saver'[u] = saver[u]
         /\ saver'[t].value = saver[t].value
         /\ saver[t].at \notin {"idle", "asked", "saved", "failed"}
         /\ saver'[t].at \notin {"idle", "asked", "dumped"}
         /\ saver'[t].file # saver[t].file =>
              saver'[t].file = NoInode \/ saver'[t].file = IF saver'[t].at = "opened" THEN temp' ELSE path'
<1> USE DEF StoreTypeOK, SaverAt, SaverGoes
<1>1. CASE OpenTemp(t)
  <2>1. PICK f \in Created(temp) :
          /\ temp' = f
          /\ text' = [text EXCEPT ![f] = Partial]
          /\ saver' = [saver EXCEPT ![t].at = "opened", ![t].file = f]
    BY <1>1 DEF OpenTemp
  <2>2. f \in Inodes /\ f # NoInode
    BY CreatedIs, InodesAssumption
  <2> QED BY <1>1, <2>1, <2>2 DEF OpenTemp, Texts
<1>2. CASE WriteTemp(t)
  <2>1. saver[t].at = "opened" /\ saver[t].file \in Inodes /\ saver[t].value \in Values
    BY <1>2 DEF WriteTemp
  <2>2. PICK x \in Overwritten(text[saver[t].file], Whole(saver[t].value)) :
          text' = Kept([text EXCEPT ![saver[t].file] = x])
    BY <1>2 DEF WriteTemp
  <2>3. x \in Texts
    BY <2>1, <2>2, OverwrittenIs DEF Texts
  <2>4. text' \in [Inodes -> Texts]
    BY <2>1, <2>2, <2>3, KeptIs
  <2>5. saver' = [saver EXCEPT ![t].at = "written", ![t].file = NoInode] /\ UNCHANGED <<path, temp, crossing, marred>>
    BY <1>2 DEF WriteTemp
  <2> HIDE DEF WriteTemp
  <2> QED BY <2>1, <2>4, <2>5
<1>3. CASE RenameTemp(t)
  <2>1. text' \in [Inodes -> Texts]
    BY <1>3, KeptIs DEF RenameTemp
  <2> QED BY <1>3, <2>1 DEF RenameTemp
<1>4. CASE RenameFails(t)
  BY <1>4 DEF RenameFails, stored
<1>5. CASE CopyBegins(t)
  <2>1. PICK f \in Created(path) :
          /\ path' = f
          /\ text' = [text EXCEPT ![f] = Partial]
          /\ saver' = [saver EXCEPT ![t].at = "copying", ![t].file = f, ![t].from = temp]
    BY <1>5 DEF CopyBegins
  <2>2. f \in Inodes /\ f # NoInode
    BY CreatedIs, InodesAssumption
  <2> QED BY <1>5, <2>1, <2>2 DEF CopyBegins, Texts
<1>6. CASE CopyEnds(t)
  <2>1. saver[t].at = "copying" /\ saver[t].file \in Inodes /\ saver[t].from \in Inodes
    BY <1>6 DEF CopyEnds
  <2>2. PICK x \in Overwritten(text[saver[t].file], text[saver[t].from]) :
          text' = Kept([text EXCEPT ![saver[t].file] = x])
    BY <1>6 DEF CopyEnds
  <2>3. x \in Texts
    BY <2>1, <2>2, OverwrittenIs
  <2>4. text' \in [Inodes -> Texts]
    BY <2>1, <2>2, <2>3, KeptIs
  <2>5. /\ saver' = [saver EXCEPT ![t].at = "copied", ![t].file = NoInode, ![t].from = NoInode]
        /\ marred' = (t \in crossing) /\ UNCHANGED <<path, temp, crossing>>
    BY <1>6 DEF CopyEnds
  <2> QED BY <2>1, <2>4, <2>5
<1>7. CASE CopyFails(t)
  <2>1. text' \in [Inodes -> Texts]
    BY <1>7, KeptIs DEF CopyFails
  <2>2. /\ saver' = [saver EXCEPT ![t].at = "uncopied", ![t].file = NoInode, ![t].from = NoInode]
        /\ UNCHANGED <<path, temp, crossing, marred>>
        /\ saver[t].at \in {"unrenamed", "copying"} /\ saver[t].value \in Values
    BY <1>7 DEF CopyFails
  <2>3. CASE saver[t].at = "unrenamed"
    BY <2>1, <2>2, <2>3
  <2>4. CASE saver[t].at = "copying"
    BY <2>1, <2>2, <2>4
  <2> QED BY <2>2, <2>3, <2>4
<1>8. CASE RemoveTemp(t)
  <2>1. text' \in [Inodes -> Texts]
    BY <1>8, KeptIs DEF RemoveTemp
  <2> QED BY <1>8, <2>1 DEF RemoveTemp
<1>9. CASE SaveFails(t)
  <2>1. text' \in [Inodes -> Texts]
    BY <1>9, KeptIs DEF SaveFails
  <2> QED BY <1>9, <2>1 DEF SaveFails
<1> QED BY <1>1, <1>2, <1>3, <1>4, <1>5, <1>6, <1>7, <1>8, <1>9 DEF SaveStep

LEMMA TypeSaves ==
  ASSUME TypeOK, NEW t \in Savers, Saves(t)
  PROVE  TypeOK'
<1>1. StoreTypeOK' /\ saver[t].at \notin {"idle", "asked"}
  BY SaveStepTyped DEF Saves, TypeOK
<1>2. saver[t].value \in Values
  BY <1>1 DEF TypeOK, StoreTypeOK
<1>3. saver[t].value \ Loads \in SUBSET Tokens
  BY <1>2, TokensAssumption
<1> QED BY <1>1, <1>3 DEF Saves, TypeOK

LEMMA TypeNext == TypeOK /\ [Next]_vars => TypeOK'
<1> SUFFICES ASSUME TypeOK, [Next]_vars PROVE TypeOK'
  OBVIOUS
<1> USE DEF TypeOK, StoreTypeOK
<1>1. CASE Start
  BY <1>1, LoadsTyped DEF Start, storeVars, stored
<1>2. CASE Crash \/ Exit
  <2>1. Gone
    BY <1>2 DEF Crash, Exit
  <2>2. text' \in [Inodes -> Texts]
    BY <2>1, KeptIs DEF Gone, SaversGone
  <2> QED BY <2>1, <2>2 DEF Gone, SaversGone, Idle, NoLogin, NoToken
<1>3. CASE ExitSave
  <2>1. phase' \in {"closing", "ending", "stopped"}
    BY <1>3, PhaseOrder DEF ExitSave
  <2> QED BY <1>3, <2>1, MainAssumption DEF ExitSave, Ask, SaverAt, SaverGoes, UnderWay, stored
<1>4. ASSUME NEW t \in Pool, NEW d \in Devices, GenerateToken(t, d) PROVE TypeOK'
  BY <1>4, TokensAssumption DEF GenerateToken, Ask, SaverAt, SaverGoes, Tokens, Pool, UnderWay, stored
<1>5. ASSUME NEW t \in Savers, SaveSettings(t) PROVE TypeOK'
  BY <1>5, TokensAssumption, ValuesAssumption DEF SaveSettings, Dump, SaverAt, sessionVars, Tokens, stored
<1>6. ASSUME NEW t \in Savers, Saves(t) PROVE TypeOK'
  BY <1>6, TypeSaves
<1>7. ASSUME NEW t \in Savers, Answer(t) PROVE TypeOK'
  BY <1>7 DEF Answer, SaveReturns, Idle, NoLogin, NoToken, stored
<1>8. ASSUME NEW d \in Devices, Logout(d) PROVE TypeOK'
  BY <1>8 DEF Logout, storeVars, NoToken, stored
<1>9. CASE ClearAllTokens
  BY <1>9, MainAssumption DEF ClearAllTokens, Ask, SaverAt, SaverGoes, UnderWay, stored
<1>10. CASE ChangeSettings \/ OnSettingsChanged
  BY <1>10 DEF ChangeSettings, OnSettingsChanged, storeVars, stored
<1>11. CASE MainReturns
  BY <1>11 DEF MainReturns, SaveReturns, Idle, sessionVars, stored
<1>12. CASE UNCHANGED vars
  BY <1>12 DEF vars, storeVars, sessionVars, stored
<1> QED BY <1>1, <1>2, <1>3, <1>4, <1>5, <1>6, <1>7, <1>8, <1>9, <1>10, <1>11, <1>12 DEF Next

\* However saves overlap, every variable has its type, and a thread has a file open
\* only between opening and writing it.
THEOREM TypeCorrect == Spec => []TypeOK
BY TypeInit, TypeNext, PTL DEF Spec

-------------------------------------------------------------------------------
(* What the files hold *)

\* Saves that do not overlap another one are alone.
Crossings ==
  /\ crossing \subseteq UnderWay
  /\ \A t, u \in UnderWay : t = u \/ t \in crossing

\* What path has a part of, or may get from others, is marred; unless it is, the
\* saves that ended well wrote what it has.
Marring ==
  /\ PathText = Partial => marred
  /\ \A t \in Savers : saver[t].file # NoInode /\ saver[t].file = path => marred
  /\ \A t \in Savers : saver[t].at \in {"copied", "saved"} => marred \/ PathText = Whole(saver[t].value)

\* The temporary file is what its one saver made of it.
AloneOK(t) ==
  /\ SaverAt(t, "opened") => /\ temp # NoInode /\ saver[t].file = temp
                             /\ text[temp] = Partial
  /\ saver[t].at \in {"written", "unrenamed"} => temp # NoInode /\ text[temp] = Whole(saver[t].value)
  /\ SaverAt(t, "copying") => /\ temp # NoInode /\ saver[t].from = temp
                              /\ path # NoInode /\ saver[t].file = path
                              /\ text[temp] = Whole(saver[t].value) /\ text[path] = Partial
  /\ saver[t].at \in {"copied", "saved"} => ~marred

StoreInv ==
  /\ Crossings
  /\ temp # NoInode => temp # path
  /\ Marring
  /\ \A t \in Savers \ crossing : AloneOK(t)

\* How the text of path comes to be unmarred: it was, and is the same; or a save that
\* was alone ended well.
Unmarred(t) ==
  ~marred' => \/ ~marred /\ PathText' = PathText
              \/ t \notin crossing /\ saver'[t].at \in {"copied", "saved"}

LEMMA StoreOnInit ==
  ASSUME StoreInit
  PROVE  StoreInv
BY DEF StoreInit, StoreInv, Crossings, Marring, AloneOK, UnderWay, SaverAt, PathText, Absent, Partial, Idle

\* A thread comes to save: the files are as they were.
LEMMA StoreAsks ==
  ASSUME StoreTypeOK, StoreInv, NEW t \in Savers, Ask(t)
  PROVE  StoreInv' /\ UnderWay' = UnderWay \cup {t} /\ PathText' = PathText
<1> USE DEF StoreTypeOK, SaverAt
<1>1. /\ saver' = [saver EXCEPT ![t].at = "asked"] /\ saver[t].at = "idle"
      /\ UNCHANGED <<path, temp, text, marred>>
      /\ crossing' = IF UnderWay = {} THEN crossing ELSE crossing \cup UnderWay \cup {t}
  BY DEF Ask, SaverGoes, stored
<1>2. UnderWay' = UnderWay \cup {t} /\ t \notin UnderWay /\ PathText' = PathText
  BY <1>1 DEF UnderWay, PathText
<1>3. /\ saver'[t].at = "asked" /\ saver'[t].file = NoInode
      /\ \A u \in Savers \ {t} : saver'[u] = saver[u]
      /\ crossing \subseteq crossing'
  BY <1>1
<1>4. Crossings'
  BY <1>1, <1>2 DEF StoreInv, Crossings
<1>5. Marring'
  BY <1>1, <1>2, <1>3 DEF StoreInv, Marring
<1>6. \A u \in Savers \ crossing' : AloneOK(u)'
  BY <1>1, <1>2, <1>3 DEF StoreInv, AloneOK
<1> QED BY <1>1, <1>2, <1>4, <1>5, <1>6 DEF StoreInv

LEMMA StoreDumps ==
  ASSUME StoreTypeOK, StoreInv, NEW t \in Savers, NEW v, Dump(t, v)
  PROVE  StoreInv' /\ UnderWay' = UnderWay /\ PathText' = PathText
<1> USE DEF StoreTypeOK, SaverAt
<1>1. /\ saver' = [saver EXCEPT ![t].at = "dumped", ![t].value = v] /\ saver[t].at = "asked"
      /\ UNCHANGED <<path, temp, text, marred, crossing>>
  BY DEF Dump, stored
<1>2. UnderWay' = UnderWay /\ PathText' = PathText
  BY <1>1 DEF UnderWay, PathText
<1>3. /\ saver'[t].at = "dumped" /\ saver'[t].file = saver[t].file
      /\ \A u \in Savers \ {t} : saver'[u] = saver[u]
  BY <1>1
<1>4. Crossings' /\ Marring'
  BY <1>1, <1>2, <1>3 DEF StoreInv, Crossings, Marring
<1>6. \A u \in Savers \ crossing' : AloneOK(u)'
  BY <1>1, <1>2, <1>3 DEF StoreInv, AloneOK
<1> QED BY <1>1, <1>2, <1>4, <1>6 DEF StoreInv

LEMMA StoreReturns ==
  ASSUME StoreTypeOK, StoreInv, NEW t \in Savers, SaveReturns(t)
  PROVE  StoreInv' /\ UnderWay' = UnderWay \ {t} /\ PathText' = PathText
<1> USE DEF StoreTypeOK, SaverAt
<1>1. /\ saver' = [saver EXCEPT ![t] = Idle] /\ saver[t].at \in {"saved", "failed"}
      /\ UNCHANGED <<path, temp, text, marred>> /\ crossing' = crossing \ {t}
  BY DEF SaveReturns, SaveReturned, stored
<1>2. UnderWay' = UnderWay \ {t} /\ PathText' = PathText
  BY <1>1 DEF UnderWay, PathText, Idle
<1>3. /\ saver'[t].at = "idle" /\ saver'[t].file = NoInode
      /\ \A u \in Savers \ {t} : saver'[u] = saver[u]
  BY <1>1 DEF Idle
<1>4. Crossings' /\ Marring'
  BY <1>1, <1>2, <1>3 DEF StoreInv, Crossings, Marring
<1>6. \A u \in Savers \ crossing' : AloneOK(u)'
  BY <1>1, <1>2, <1>3 DEF StoreInv, AloneOK
<1> QED BY <1>1, <1>2, <1>4, <1>6 DEF StoreInv

LEMMA StoreGone ==
  ASSUME StoreTypeOK, StoreInv, SaversGone
  PROVE  StoreInv' /\ UnderWay' = {} /\ PathText' = PathText
<1> USE DEF StoreTypeOK, SaverAt
<1>1. /\ \A t \in Savers : saver'[t] = Idle
      /\ UNCHANGED <<path, temp, marred>> /\ crossing' = {} /\ text' = Kept(text)
  BY DEF SaversGone
<1>2. UnderWay' = {} /\ PathText' = PathText
  BY <1>1, KeptIs DEF UnderWay, PathText, Idle
<1>3. Crossings' /\ Marring'
  BY <1>1, <1>2 DEF StoreInv, Crossings, Marring, Idle
<1>4. \A u \in Savers \ crossing' : AloneOK(u)'
  BY <1>1, <1>2 DEF StoreInv, AloneOK, Idle
<1> QED BY <1>1, <1>2, <1>3, <1>4 DEF StoreInv

\* A step of a save: what it takes for the rest of the invariant.
LEMMA StoreSteps ==
  ASSUME StoreTypeOK, StoreInv, NEW t \in Savers, SaveStep(t),
         temp' # NoInode => temp' # path',
         Marring',
         t \notin crossing => AloneOK(t)'
  PROVE  StoreInv' /\ UnderWay' = UnderWay
<1>1. /\ crossing' = crossing
      /\ \A u \in Savers \ {t} : saver'[u] = saver[u]
      /\ saver[t].at # "idle" /\ saver'[t].at # "idle"
  BY SaveStepTyped
<1>2. UnderWay' = UnderWay /\ t \in UnderWay
  BY <1>1 DEF UnderWay, SaverAt
<1>3. Crossings'
  BY <1>1, <1>2 DEF StoreInv, Crossings
<1>4. \A u \in Savers \ crossing' : u # t => AloneOK(u)'
  <2> SUFFICES ASSUME NEW u \in Savers \ crossing, u # t PROVE AloneOK(u)'
    BY <1>1
  <2>1. saver'[u].at = "idle"
    BY <1>1, <1>2 DEF StoreInv, Crossings, UnderWay, SaverAt
  <2> QED BY <2>1 DEF AloneOK, SaverAt
<1> QED BY <1>1, <1>2, <1>3, <1>4 DEF StoreInv

LEMMA StoreSaves ==
  ASSUME StoreTypeOK, StoreInv, NEW t \in Savers, SaveStep(t)
  PROVE  StoreInv' /\ UnderWay' = UnderWay /\ Unmarred(t)
<1>0. /\ StoreTypeOK'
      /\ crossing' = crossing
      /\ \A u \in Savers \ {t} : saver'[u] = saver[u]
      /\ saver'[t].value = saver[t].value
      /\ t \in UnderWay
  BY SaveStepTyped DEF UnderWay, SaverAt
<1>a. t \notin crossing => \A u \in Savers \ {t} : saver[u].at = "idle" /\ saver[u].file = NoInode
  BY <1>0 DEF StoreInv, Crossings, UnderWay, SaverAt, StoreTypeOK
<1> SUFFICES /\ temp' # NoInode => temp' # path'
             /\ Marring'
             /\ t \notin crossing => AloneOK(t)'
             /\ Unmarred(t)
  BY StoreSteps
<1> USE DEF StoreTypeOK, SaverAt
<1>1. CASE OpenTemp(t)
  <2>1. PICK f \in Created(temp) :
          /\ temp' = f
          /\ text' = [text EXCEPT ![f] = Partial]
          /\ saver' = [saver EXCEPT ![t].at = "opened", ![t].file = f]
    BY <1>1 DEF OpenTemp
  <2>2. f \in Inodes /\ f # NoInode /\ f # path
    BY CreatedIs, InodesAssumption DEF StoreInv, Used
  <2>3. path' = path /\ marred' = marred /\ PathText' = PathText
    BY <1>1, <2>1, <2>2 DEF OpenTemp, PathText
  <2>4. saver'[t].at = "opened" /\ saver'[t].file = temp'
    BY <2>1
  <2>5. Marring'
    BY <1>0, <2>1, <2>2, <2>3, <2>4 DEF StoreInv, Marring
  <2> QED BY <2>1, <2>2, <2>3, <2>4, <2>5 DEF AloneOK, Unmarred
<1>2. CASE WriteTemp(t)
  <2>1. /\ saver[t].at = "opened" /\ saver[t].file \in Inodes /\ saver[t].value \in Values
        /\ saver'[t].at = "written" /\ saver'[t].file = NoInode
        /\ UNCHANGED <<path, temp, marred>>
    BY <1>2 DEF WriteTemp
  <2>2. PICK x \in Overwritten(text[saver[t].file], Whole(saver[t].value)) :
          text' = Kept([text EXCEPT ![saver[t].file] = x])
    BY <1>2 DEF WriteTemp
  <2>3. x \in Texts /\ (text[saver[t].file] = Partial => x = Whole(saver[t].value))
    BY <2>1, <2>2, OverwrittenIs DEF Texts
  <2> DEFINE texts == [text EXCEPT ![saver[t].file] = x]
  <2>4. texts \in [Inodes -> Texts]
    BY <2>1, <2>3
  <2>5. \A f \in Inodes : f \in {path, temp} => text'[f] = IF f = saver[t].file THEN x ELSE text[f]
    <3> HIDE DEF texts
    <3>1. text' = Kept(texts)
      BY <2>2 DEF texts
    <3>2. \A f \in Inodes : f \in {path', temp'} => text'[f] = texts[f]
      BY <2>4, <3>1, KeptIs
    <3> QED BY <2>1, <3>2 DEF texts
  <2>6. path # saver[t].file => PathText' = PathText
    BY <2>1, <2>5 DEF PathText
  <2>7. path = saver[t].file => marred
    BY <2>1, InodesAssumption DEF StoreInv, Marring
  <2>8. Marring'
    BY <1>0, <2>1, <2>6, <2>7 DEF StoreInv, Marring
  <2>9. t \notin crossing => AloneOK(t)'
    <3> SUFFICES ASSUME t \notin crossing PROVE AloneOK(t)'
      OBVIOUS
    <3>1. temp # NoInode /\ saver[t].file = temp /\ text[temp] = Partial
      BY <2>1 DEF StoreInv, AloneOK
    <3>2. text'[temp] = Whole(saver[t].value)
      BY <2>1, <2>3, <2>5, <3>1
    <3> QED BY <1>0, <2>1, <3>1, <3>2 DEF AloneOK
  <2> QED BY <2>1, <2>6, <2>7, <2>8, <2>9 DEF StoreInv, Unmarred
<1>3. CASE RenameTemp(t)
  <2>1. /\ saver[t].at = "written" /\ saver'[t].at = "saved" /\ saver'[t].file = saver[t].file
        /\ saver[t].file = NoInode
        /\ temp \in Inodes /\ path' = temp /\ temp' = NoInode /\ marred' = (t \in crossing)
    BY <1>3 DEF RenameTemp, SaverGoes
  <2>2. text'[temp] = text[temp]
    BY <1>3, <2>1, KeptIs DEF RenameTemp
  <2>3. t \notin crossing => PathText' = Whole(saver[t].value)
    BY <2>1, <2>2, InodesAssumption DEF StoreInv, AloneOK, PathText
  <2>4. Marring'
    <3>1. CASE t \in crossing
      BY <2>1, <3>1 DEF Marring
    <3>2. CASE t \notin crossing
      BY <1>0, <1>a, <2>1, <2>3, <3>2 DEF Marring, Whole, Partial
    <3> QED BY <3>1, <3>2
  <2> QED BY <2>1, <2>4 DEF AloneOK, Unmarred
<1>4. CASE RenameFails(t)
  <2>1. /\ saver[t].at = "written" /\ saver'[t].at = "unrenamed" /\ saver'[t].file = saver[t].file
        /\ UNCHANGED <<path, temp, text, marred>> /\ PathText' = PathText
    BY <1>4 DEF RenameFails, SaverGoes, stored, PathText
  <2>2. Marring'
    BY <1>0, <2>1 DEF StoreInv, Marring
  <2> QED BY <1>0, <2>1, <2>2 DEF StoreInv, AloneOK, Unmarred
<1>5. CASE CopyBegins(t)
  <2>1. PICK f \in Created(path) :
          /\ path' = f
          /\ text' = [text EXCEPT ![f] = Partial]
          /\ saver' = [saver EXCEPT ![t].at = "copying", ![t].file = f, ![t].from = temp]
    BY <1>5 DEF CopyBegins
  <2>2. f \in Inodes /\ f # NoInode /\ f # temp
    BY CreatedIs, InodesAssumption, <1>5 DEF StoreInv, Used, CopyBegins
  <2>3. saver[t].at = "unrenamed" /\ temp \in Inodes /\ temp' = temp /\ marred' = TRUE
    BY <1>5 DEF CopyBegins
  <2>4. saver'[t].at = "copying" /\ saver'[t].file = path' /\ saver'[t].from = temp
    BY <2>1
  <2>5. text'[path'] = Partial /\ text'[temp] = text[temp]
    BY <2>1, <2>2, <2>3
  <2>6. Marring'
    BY <2>3 DEF Marring
  <2>7. t \notin crossing => AloneOK(t)'
    BY <1>0, <2>1, <2>2, <2>3, <2>4, <2>5, InodesAssumption DEF StoreInv, AloneOK
  <2> QED BY <2>1, <2>2, <2>3, <2>6, <2>7 DEF Unmarred
<1>6. CASE CopyEnds(t)
  <2>1. /\ saver[t].at = "copying" /\ saver[t].file \in Inodes /\ saver[t].from \in Inodes
        /\ saver'[t].at = "copied" /\ saver'[t].file = NoInode
        /\ UNCHANGED <<path, temp>> /\ marred' = (t \in crossing)
    BY <1>6 DEF CopyEnds
  <2>2. PICK x \in Overwritten(text[saver[t].file], text[saver[t].from]) :
          text' = Kept([text EXCEPT ![saver[t].file] = x])
    BY <1>6 DEF CopyEnds
  <2>3. x \in Texts /\ (text[saver[t].file] = Partial => x = text[saver[t].from])
    BY <2>1, <2>2, OverwrittenIs
  <2> DEFINE texts == [text EXCEPT ![saver[t].file] = x]
  <2>4. texts \in [Inodes -> Texts]
    BY <2>1, <2>3
  <2>5. path = saver[t].file => text'[path] = x
    <3> HIDE DEF texts
    <3>1. text' = Kept(texts)
      BY <2>2 DEF texts
    <3>2. \A f \in Inodes : f \in {path', temp'} => text'[f] = texts[f]
      BY <2>4, <3>1, KeptIs
    <3> QED BY <2>1, <3>2 DEF texts
  <2>6. t \notin crossing => PathText' = Whole(saver[t].value)
    BY <2>1, <2>3, <2>5, InodesAssumption DEF StoreInv, AloneOK, PathText
  <2>7. Marring'
    <3>1. CASE t \in crossing
      BY <2>1, <3>1 DEF Marring
    <3>2. CASE t \notin crossing
      BY <1>0, <1>a, <2>1, <2>6, <3>2 DEF Marring, Whole, Partial
    <3> QED BY <3>1, <3>2
  <2>8. temp' # NoInode => temp' # path'
    BY <2>1 DEF StoreInv
  <2> QED BY <2>1, <2>7, <2>8 DEF AloneOK, Unmarred
<1>7. CASE CopyFails(t) \/ SaveFails(t)
  <2>1. /\ saver'[t].at \in {"uncopied", "failed"} /\ saver'[t].file = NoInode
        /\ UNCHANGED <<path, temp, marred>> /\ text' = Kept(text)
    BY <1>7 DEF CopyFails, SaveFails
  <2>2. PathText' = PathText
    BY <2>1, KeptIs DEF PathText
  <2>3. Marring'
    <3>1. /\ \A u \in Savers : saver'[u].file # NoInode => u # t
          /\ \A u \in Savers : saver'[u].at \in {"copied", "saved"} => u # t
      BY <2>1
    <3> QED BY <1>0, <2>1, <2>2, <3>1 DEF StoreInv, Marring
  <2> QED BY <2>1, <2>2, <2>3 DEF StoreInv, AloneOK, Unmarred
<1>8. CASE RemoveTemp(t)
  <2>1. /\ saver'[t].at = "saved" => saver[t].at = "copied"
        /\ saver'[t].at \in {"saved", "failed"} /\ saver'[t].file = NoInode
        /\ UNCHANGED <<path, marred>> /\ text' = Kept(text) /\ temp' \in {NoInode, temp}
    BY <1>8 DEF RemoveTemp, SaverGoes
  <2>2. PathText' = PathText
    BY <2>1, KeptIs DEF PathText
  <2>3. Marring'
    BY <1>0, <2>1, <2>2 DEF StoreInv, Marring
  <2> QED BY <2>1, <2>2, <2>3 DEF StoreInv, AloneOK, Unmarred
<1> QED BY <1>1, <1>2, <1>3, <1>4, <1>5, <1>6, <1>7, <1>8 DEF SaveStep

-------------------------------------------------------------------------------
(* What the devices were given *)

\* A token is safe in a set if it is there, or may be forgotten.
Safe(token, set) == token \in set \/ token \in Forgotten

Dumped(t) == saver[t].at \notin {"idle", "asked"}

\* The cookies' tokens are in the file, unless it is marred, in the settings, and in
\* what a save that is alone is to write.
CookiesSafe ==
  \A d \in Devices :
    /\ phase = "off" \/ ~marred => Safe(cookie[d], Loads)
    /\ phase # "off" => Safe(cookie[d], authorized)
    /\ \A t \in Savers \ crossing : Dumped(t) => Safe(cookie[d], saver[t].value)

\* The token of a login under way gets as far as its save does.
LoginsSafe ==
  \A t \in Pool :
    /\ ~SaverAt(t, "idle") => Safe(login[t].token, authorized)
    /\ Dumped(t) => Safe(login[t].token, saver[t].value)
    /\ SaveReturned(t) /\ ~marred => Safe(login[t].token, Loads)

\* During the last save nothing else happens.
LastSave ==
  phase = "stopped" =>
    /\ UnderWay = {"main"} /\ crossing = {}
    /\ Dumped("main") => saver["main"].value = authorized

SessionInv ==
  /\ TypeOK /\ StoreInv
  /\ phase = "off" => UnderWay = {}
  /\ CookiesSafe /\ LoginsSafe /\ LastSave

LEMMA SessionInit == Init => SessionInv
<1> SUFFICES ASSUME Init PROVE SessionInv
  OBVIOUS
<1>1. TypeOK /\ StoreInv
  BY TypeInit, StoreOnInit DEF Init
<1>2. \A t \in Savers : saver[t].at = "idle"
  BY DEF Init, StoreInit, Idle
<1>3. UnderWay = {} /\ CookiesSafe /\ LoginsSafe /\ LastSave
  BY <1>2 DEF Init, UnderWay, CookiesSafe, LoginsSafe, LastSave, Safe, Dumped, SaveReturned, SaverAt, Forgotten, Pool
<1> QED BY <1>1, <1>3 DEF SessionInv

\* A thread begins to save: what it is to save is safe.
LEMMA SessionAsks ==
  ASSUME SessionInv, NEW t \in Savers, Ask(t), phase \notin {"off", "stopped"}, UNCHANGED cookie,
         phase' \notin {"off", "stopped"} \/ (phase' = "stopped" /\ t = "main" /\ UnderWay = {}),
         TypeOK',
         Forgotten \subseteq Forgotten',
         authorized \subseteq authorized' \cup Forgotten',
         \A u \in Pool : u # t => login'[u] = login[u],
         t \in Pool => login'[t].token \in authorized'
  PROVE  SessionInv'
<1>1. StoreInv' /\ UnderWay' = UnderWay \cup {t} /\ PathText' = PathText
  BY StoreAsks DEF SessionInv, TypeOK
<1>2. /\ saver'[t].at = "asked" /\ \A u \in Savers \ {t} : saver'[u] = saver[u]
      /\ marred' = marred /\ crossing \subseteq crossing'
      /\ UnderWay = {} => crossing' = crossing
  BY DEF Ask, SaverGoes, stored, SessionInv, TypeOK, StoreTypeOK
<1>3. Loads' = Loads
  BY <1>1 DEF Loads
<1>4. CookiesSafe'
  BY <1>2, <1>3 DEF SessionInv, CookiesSafe, Safe, Dumped
<1>5. LoginsSafe'
  BY <1>2, <1>3 DEF SessionInv, LoginsSafe, Safe, Dumped, SaveReturned, SaverAt, Pool
<1>6. LastSave'
  BY <1>1, <1>2 DEF SessionInv, LastSave, Dumped, StoreInv, Crossings
<1> QED BY <1>1, <1>4, <1>5, <1>6 DEF SessionInv

\* The settings, the logins or the cookies change, and no thread moves.
LEMMA SessionChanges ==
  ASSUME SessionInv, UNCHANGED storeVars, phase = phase', phase \notin {"off", "stopped"},
         TypeOK', UNCHANGED login,
         Forgotten \subseteq Forgotten',
         authorized \subseteq authorized' \cup Forgotten',
         \A d \in Devices : cookie'[d] \in {cookie[d], NoToken}
  PROVE  SessionInv'
<1>1. UNCHANGED <<path, temp, text, marred, saver, crossing>>
  BY DEF storeVars, stored
<1>2. Loads' = Loads /\ UnderWay' = UnderWay
  BY <1>1 DEF Loads, PathText, UnderWay, SaverAt
<1>3. StoreInv'
  BY <1>1 DEF SessionInv, StoreInv, Crossings, Marring, AloneOK, UnderWay, SaverAt, PathText
<1>4. NoToken \in Forgotten'
  BY DEF Forgotten
<1>5. CookiesSafe'
  BY <1>1, <1>2, <1>4 DEF SessionInv, CookiesSafe, Safe, Dumped
<1>6. LoginsSafe'
  BY <1>1, <1>2 DEF SessionInv, LoginsSafe, Safe, Dumped, SaverAt, SaveReturned
<1>7. LastSave'
  BY DEF LastSave
<1> QED BY <1>3, <1>5, <1>6, <1>7 DEF SessionInv

LEMMA SessionEnds ==
  ASSUME SessionInv, Gone, phase # "off", TypeOK'
  PROVE  SessionInv'
<1>1. StoreInv' /\ UnderWay' = {} /\ PathText' = PathText
  BY StoreGone DEF SessionInv, TypeOK, Gone
<1>2. Loads' = Loads /\ Forgotten \subseteq Forgotten' /\ marred => authorized \subseteq Loads \cup Forgotten'
  BY <1>1 DEF Gone, Loads, Forgotten
<1>3. Loads' = Loads /\ Forgotten \subseteq Forgotten'
  BY <1>1 DEF Gone, Loads, Forgotten
<1>4. \A t \in Savers : saver'[t].at = "idle"
  BY DEF Gone, SaversGone, Idle
<1>5. marred' = marred /\ cookie' = cookie /\ phase' = "off"
  BY DEF Gone, SaversGone
<1>6. CookiesSafe'
  BY <1>2, <1>3, <1>4, <1>5 DEF SessionInv, CookiesSafe, Safe, Dumped
<1>7. LoginsSafe' /\ LastSave'
  BY <1>4, <1>5 DEF LoginsSafe, LastSave, SaverAt, Dumped, SaveReturned, Pool
<1> QED BY <1>1, <1>6, <1>7 DEF SessionInv

LEMMA SessionStart ==
  ASSUME SessionInv, Start, TypeOK'
  PROVE  SessionInv'
<1>1. UNCHANGED <<path, temp, text, marred, saver, crossing>> /\ phase = "off" /\ phase' = "on"
  BY DEF Start, storeVars, stored
<1>2. Loads' = Loads /\ Forgotten' = Forgotten /\ UnderWay' = UnderWay
  BY <1>1 DEF Start, Loads, Forgotten, PathText, UnderWay, SaverAt
<1>3. StoreInv'
  BY <1>1 DEF SessionInv, StoreInv, Crossings, Marring, AloneOK, UnderWay, SaverAt, PathText
<1>4. \A t \in Savers : saver'[t].at = "idle"
  BY <1>1 DEF SessionInv, UnderWay, SaverAt
<1>5. CookiesSafe'
  BY <1>1, <1>2, <1>4 DEF SessionInv, CookiesSafe, Safe, Dumped, Start
<1>6. LoginsSafe' /\ LastSave'
  BY <1>1, <1>4 DEF LoginsSafe, LastSave, SaverAt, Dumped, SaveReturned, Pool
<1> QED BY <1>1, <1>3, <1>5, <1>6 DEF SessionInv

\* A save returns; its login is answered.
LEMMA SessionReturns ==
  ASSUME SessionInv, NEW t \in Savers, SaveReturns(t), TypeOK', UNCHANGED <<phase, authorized, reset, lost>>,
         phase = "stopped" => t \in Pool,
         \A u \in Pool : u # t => login'[u] = login[u],
         \A d \in Devices : cookie'[d] = cookie[d] \/ (t \in Pool /\ cookie'[d] = login[t].token)
  PROVE  SessionInv'
<1>1. StoreInv' /\ UnderWay' = UnderWay \ {t} /\ PathText' = PathText
  BY StoreReturns DEF SessionInv, TypeOK
<1>2. Loads' = Loads /\ Forgotten' = Forgotten
  BY <1>1 DEF Loads, Forgotten
<1>3. /\ saver'[t].at = "idle" /\ saver[t].at \in {"saved", "failed"}
      /\ \A u \in Savers \ {t} : saver'[u] = saver[u]
      /\ marred' = marred /\ crossing' = crossing \ {t} /\ t \in UnderWay
  BY DEF SaveReturns, SaveReturned, stored, Idle, SessionInv, TypeOK, StoreTypeOK, UnderWay, SaverAt
<1>4. phase # "off" /\ phase # "stopped"
  BY <1>3 DEF SessionInv, LastSave, Pool
<1>5. \A u \in Savers \ crossing' : ~Dumped(u)'
  BY <1>3 DEF SessionInv, StoreInv, Crossings, UnderWay, SaverAt, Dumped
<1>6. \A d \in Devices : /\ ~marred => Safe(cookie'[d], Loads)
                         /\ Safe(cookie'[d], authorized)
  BY <1>3, <1>4 DEF SessionInv, CookiesSafe, LoginsSafe, SaverAt, SaveReturned
<1>7. CookiesSafe'
  BY <1>2, <1>3, <1>4, <1>5, <1>6 DEF CookiesSafe, Safe
<1>8. LoginsSafe'
  BY <1>2, <1>3 DEF SessionInv, LoginsSafe, Safe, Dumped, SaverAt, SaveReturned, Pool
<1> QED BY <1>1, <1>4, <1>7, <1>8 DEF SessionInv, LastSave

LEMMA SessionDumps ==
  ASSUME SessionInv, NEW t \in Savers, SaveSettings(t), TypeOK'
  PROVE  SessionInv'
<1>1. Dump(t, authorized) /\ phase # "off" /\ UNCHANGED <<phase, authorized, reset, lost, cookie, login>>
  BY DEF SaveSettings, sessionVars
<1>2. StoreInv' /\ UnderWay' = UnderWay /\ PathText' = PathText
  BY <1>1, StoreDumps DEF SessionInv, TypeOK
<1>3. Loads' = Loads /\ Forgotten' = Forgotten
  BY <1>1, <1>2 DEF Loads, Forgotten
<1>4. /\ saver[t].at = "asked" /\ saver'[t].at = "dumped" /\ saver'[t].value = authorized
      /\ \A u \in Savers \ {t} : saver'[u] = saver[u]
      /\ UNCHANGED <<marred, crossing>>
  BY <1>1 DEF Dump, stored, SessionInv, SaverAt, TypeOK, StoreTypeOK
<1>5. CookiesSafe'
  BY <1>1, <1>3, <1>4 DEF SessionInv, CookiesSafe, Safe, Dumped
<1>6. LoginsSafe'
  BY <1>1, <1>3, <1>4 DEF SessionInv, LoginsSafe, Safe, Dumped, SaverAt, SaveReturned, Pool
<1>7. LastSave'
  <2>1. UnderWay = {"main"} => t = "main"
    BY <1>4 DEF UnderWay, SaverAt
  <2> QED BY <1>1, <1>2, <1>4, <2>1 DEF SessionInv, LastSave, Dumped
<1> QED BY <1>1, <1>2, <1>5, <1>6, <1>7 DEF SessionInv

LEMMA SessionSaves ==
  ASSUME SessionInv, NEW t \in Savers, Saves(t), TypeOK'
  PROVE  SessionInv'
<1>1. UNCHANGED <<phase, authorized, login, cookie>> /\ SaveStep(t)
  BY DEF Saves
<1>2. StoreInv' /\ UnderWay' = UnderWay /\ Unmarred(t)
  BY <1>1, StoreSaves DEF SessionInv, TypeOK
<1>3. /\ crossing' = crossing
      /\ \A u \in Savers \ {t} : saver'[u] = saver[u]
      /\ saver'[t].value = saver[t].value /\ saver[t].value \in Values
      /\ saver[t].at \notin {"idle", "asked", "saved", "failed"}
      /\ saver'[t].at \notin {"idle", "asked"}
      /\ t \in UnderWay
  BY <1>1, SaveStepTyped DEF SessionInv, TypeOK, StoreTypeOK, UnderWay, SaverAt
<1>4. phase # "off"
  BY <1>3 DEF SessionInv
<1> DEFINE v == saver[t].value
<1>5. Forgotten \subseteq Forgotten' /\ (saver'[t].at = "failed" /\ ~marred => v \subseteq Loads \cup Forgotten')
  BY DEF Saves, Forgotten
<1>6. ~marred' => \/ ~marred /\ Loads' = Loads
                  \/ t \notin crossing /\ saver'[t].at \in {"copied", "saved"}
  BY <1>2 DEF Unmarred, Loads
<1>7. ~marred' /\ saver'[t].at \in {"copied", "saved"} => Loads' = v
  BY <1>2, <1>3 DEF StoreInv, Marring, Loads, Whole
<1>8. CookiesSafe'
  <2> SUFFICES ASSUME NEW d \in Devices
               PROVE  /\ ~marred' => Safe(cookie[d], Loads)'
                      /\ Safe(cookie[d], authorized)'
                      /\ \A u \in Savers \ crossing : Dumped(u)' => Safe(cookie[d], saver[u].value)'
    BY <1>1, <1>3, <1>4 DEF CookiesSafe
  <2>1. ~marred' => Safe(cookie[d], Loads)'
    BY <1>1, <1>3, <1>5, <1>6, <1>7 DEF SessionInv, CookiesSafe, Safe, Dumped
  <2>2. Safe(cookie[d], authorized)'
    BY <1>1, <1>4, <1>5 DEF SessionInv, CookiesSafe, Safe
  <2>3. \A u \in Savers \ crossing : Dumped(u)' => Safe(cookie[d], saver[u].value)'
    BY <1>1, <1>3, <1>5 DEF SessionInv, CookiesSafe, Safe, Dumped
  <2> QED BY <2>1, <2>2, <2>3
<1>9. LoginsSafe'
  <2> SUFFICES ASSUME NEW u \in Pool
               PROVE  /\ ~SaverAt(u, "idle")' => Safe(login[u].token, authorized)'
                      /\ Dumped(u)' => Safe(login[u].token, saver[u].value)'
                      /\ SaveReturned(u)' /\ ~marred' => Safe(login[u].token, Loads)'
    BY DEF LoginsSafe
  <2>1. u \in Savers
    BY DEF Pool
  <2>2. ~SaverAt(u, "idle")' => Safe(login[u].token, authorized)'
    BY <1>1, <1>3, <1>5, <2>1 DEF SessionInv, LoginsSafe, Safe, SaverAt
  <2>3. Dumped(u)' => Safe(login[u].token, saver[u].value)'
    BY <1>1, <1>3, <1>5, <2>1 DEF SessionInv, LoginsSafe, Safe, Dumped
  <2>4. SaveReturned(u)' /\ ~marred' => Safe(login[u].token, Loads)'
    <3> SUFFICES ASSUME SaveReturned(u)', ~marred' PROVE Safe(login[u].token, Loads)'
      OBVIOUS
    <3>1. CASE u = t
      <4>1. Safe(login[t].token, v)
        BY <1>3, <3>1 DEF SessionInv, LoginsSafe, Dumped
      <4>2. saver'[t].at \in {"saved", "failed"}
        BY <3>1 DEF SaveReturned
      <4> QED BY <1>1, <1>5, <1>6, <1>7, <3>1, <4>1, <4>2 DEF Safe
    <3>2. CASE u # t
      <4>1. u \in UnderWay /\ t \in crossing
        BY <1>3, <2>1, <3>2 DEF SessionInv, StoreInv, Crossings, UnderWay, SaverAt, SaveReturned
      <4>2. ~marred /\ Loads' = Loads
        BY <1>6, <4>1
      <4> QED BY <1>1, <1>3, <1>5, <2>1, <3>2, <4>2 DEF SessionInv, LoginsSafe, Safe, SaveReturned
    <3> QED BY <3>1, <3>2
  <2> QED BY <2>2, <2>3, <2>4
<1>10. LastSave'
  BY <1>1, <1>2, <1>3 DEF SessionInv, LastSave, Dumped
<1> QED BY <1>2, <1>4, <1>1, <1>8, <1>9, <1>10 DEF SessionInv

LEMMA SessionNext ==
  ASSUME SessionInv, [Next]_vars
  PROVE  SessionInv'
<1>0. TypeOK' /\ TypeOK
  BY TypeNext DEF SessionInv
<1>1. CASE Start
  BY <1>0, <1>1, SessionStart
<1>2. CASE Crash \/ Exit
  BY <1>0, <1>2, SessionEnds DEF Crash, Exit
<1>3. CASE ExitSave
  <2>1. NextSave[phase] \subseteq {"closing", "ending", "stopped"} /\ phase \notin {"off", "stopped"}
    BY <1>0, <1>3, PhaseOrder DEF TypeOK, ExitSave
  <2>2. "main" \notin Pool /\ (phase' = "stopped" => UnderWay = {})
    BY <1>3 DEF Pool, ExitSave, Ask, UnderWay, SaverAt
  <2> QED BY <1>0, <1>3, <2>1, <2>2, SessionAsks, MainAssumption DEF ExitSave, Forgotten
<1>4. ASSUME NEW t \in Pool, NEW d \in Devices, GenerateToken(t, d) PROVE SessionInv'
  <2>1. login'[t].token \in authorized' /\ \A u \in Pool : u # t => login'[u] = login[u]
    BY <1>0, <1>4 DEF GenerateToken, TypeOK
  <2> QED BY <1>0, <1>4, <2>1, SessionAsks DEF GenerateToken, Serving, Forgotten, Pool
<1>5. ASSUME NEW t \in Savers, SaveSettings(t) PROVE SessionInv'
  BY <1>0, <1>5, SessionDumps
<1>6. ASSUME NEW t \in Savers, Saves(t) PROVE SessionInv'
  BY <1>0, <1>6, SessionSaves
<1>7. ASSUME NEW t \in Savers, Answer(t) PROVE SessionInv'
  <2>1. /\ \A d \in Devices : cookie'[d] = cookie[d] \/ cookie'[d] = login[t].token
        /\ \A u \in Pool : u # t => login'[u] = login[u]
    BY <1>0, <1>7 DEF Answer, TypeOK
  <2> QED BY <1>0, <1>7, <2>1, SessionReturns DEF Answer
<1>8. ASSUME NEW d \in Devices, Logout(d) PROVE SessionInv'
  <2>1. \A e \in Devices : cookie'[e] \in {cookie[e], NoToken}
    BY <1>0, <1>8 DEF Logout, TypeOK
  <2> QED BY <1>0, <1>8, <2>1, SessionChanges DEF Logout, Serving, Forgotten
<1>9. CASE ClearAllTokens
  BY <1>0, <1>9, SessionAsks, MainAssumption DEF ClearAllTokens, Forgotten, Pool
<1>10. CASE ChangeSettings \/ OnSettingsChanged
  BY <1>0, <1>10, SessionChanges DEF ChangeSettings, OnSettingsChanged, Serving, Forgotten
<1>11. CASE MainReturns
  BY <1>0, <1>11, SessionReturns, MainAssumption DEF MainReturns, sessionVars
<1>12. CASE UNCHANGED vars
  <2>1. Loads' = Loads /\ Forgotten' = Forgotten /\ UnderWay' = UnderWay /\ PathText' = PathText
    BY <1>12 DEF vars, storeVars, stored, sessionVars, Loads, Forgotten, PathText, UnderWay, SaverAt
  <2>2. StoreInv'
    BY <1>12, <2>1 DEF vars, storeVars, stored, SessionInv, StoreInv, Crossings, Marring, AloneOK, SaverAt
  <2>3. CookiesSafe' /\ LoginsSafe' /\ LastSave'
    BY <1>12, <2>1 DEF vars, storeVars, stored, sessionVars, SessionInv, CookiesSafe, LoginsSafe, LastSave,
       Safe, Dumped, SaverAt, SaveReturned
  <2> QED BY <1>0, <1>12, <2>1, <2>2, <2>3 DEF vars, sessionVars, SessionInv
<1> QED BY <1>1, <1>2, <1>3, <1>4, <1>5, <1>6, <1>7, <1>8, <1>9, <1>10, <1>11, <1>12 DEF Next

\* However saves overlap, fail, or are cut off: the temporary file of a save that is
\* alone is what it made of it, and every answered token is in the settings, in what
\* such a save is to write, and in the file unless that is marred.
THEOREM SessionInvariant == Spec => []SessionInv
BY SessionInit, SessionNext, PTL DEF Spec

\* The config file is never seen in part, whenever the program ends, but for saves
\* that overlapped and copies in place that were cut off.
THEOREM FileStaysWhole == Spec => []ConfigWhole
<1>1. SessionInv => ConfigWhole
  BY DEF SessionInv, StoreInv, Marring, ConfigWhole
<1> QED BY <1>1, SessionInvariant, PTL

\* The token of an answered login is in the file, unless it was reset or lost, or the
\* file is marred.
THEOREM LoginsAreDurable == Spec => []LoginIsDurable
<1>1. ASSUME SessionInv PROVE LoginIsDurable
  BY <1>1 DEF SessionInv, CookiesSafe, Safe, LoginIsDurable, Loads
<1> QED BY <1>1, SessionInvariant, PTL

\* A device that was answered is accepted, also after a crash and restart and however
\* saves overlap, unless its login was reset or lost.
THEOREM DevicesAreRemembered == Spec => []SessionsAccepted
<1>1. SessionInv => SessionsAccepted
  BY DEF SessionInv, CookiesSafe, Safe, SessionsAccepted, IsValid
<1> QED BY <1>1, SessionInvariant, PTL

\* An exit whose last save did not fail leaves the tokens of the settings in the file,
\* whatever overlapped before.
THEOREM ExitIsSaved == Spec => ExitSavesSessions
<1>1. SessionInv /\ [Next]_vars =>
        [phase = "stopped" /\ phase' = "off" /\ SaverAt("main", "saved")
           => PathText.text = "whole" /\ PathText.value = authorized]_vars
  <2> SUFFICES ASSUME SessionInv, phase = "stopped", SaverAt("main", "saved")
               PROVE  PathText.text = "whole" /\ PathText.value = authorized
    OBVIOUS
  <2>1. "main" \in Savers \ crossing /\ saver["main"].value = authorized
    BY MainAssumption DEF SessionInv, LastSave, Dumped, SaverAt
  <2>2. ~marred /\ PathText = Whole(authorized)
    BY <2>1 DEF SessionInv, StoreInv, AloneOK, Marring, SaverAt
  <2> QED BY <2>2 DEF Whole
<1> QED BY <1>1, SessionInvariant, PTL DEF Spec, ExitSavesSessions

-------------------------------------------------------------------------------
(* The sound library: lemmas about its data *)

\* The members of a finite set, in some order.
LEMMA SetToSeqOf ==
  ASSUME NEW S, IsFiniteSet(S)
  PROVE  /\ SetToSeq(S) \in [1..Cardinality(S) -> S]
         /\ Cardinality(S) \in Nat /\ Len(SetToSeq(S)) = Cardinality(S)
<1>1. Cardinality(S) \in Nat /\ ExistsBijection(1..Cardinality(S), S)
  BY FS_CardinalityType
<1>2. PICK f \in Bijection(1..Cardinality(S), S) : TRUE
  BY <1>1 DEF ExistsBijection
<1>3. f \in [1..Cardinality(S) -> S] /\ IsInjective(f)
  BY <1>2 DEF Bijection, Injection
<1>4. SetToSeq(S) \in [1..Cardinality(S) -> S]
  BY <1>3 DEF SetToSeq
<1>5. SetToSeq(S) \in Seq(S)
  BY <1>1, <1>4
<1> QED  BY <1>1, <1>4, <1>5

TabSet == [folder : Folders, ids : SUBSET Ids]

\* What is known of a copy of the data: its ids are those of its tabs.
LEMMA DataParts ==
  ASSUME NEW d, DataOK(d)
  PROVE  /\ d.tabs \in Seq(TabSet) /\ Len(d.tabs) \in Nat
         /\ d.sound \in [IdsOf(d) -> SoundSet] /\ d.counter \in 0..MaxId
         /\ IdsOf(d) \subseteq Ids
         /\ \A n \in 1..Len(d.tabs) : d.tabs[n] \in TabSet /\ d.tabs[n].ids \subseteq IdsOf(d)
         /\ \A i \in IdsOf(d) : \E n \in 1..Len(d.tabs) : i \in d.tabs[n].ids
         /\ \A m, n \in 1..Len(d.tabs) : m # n => d.tabs[m].ids \cap d.tabs[n].ids = {}
<1>1. d.tabs \in Seq(TabSet) /\ d.sound \in [IdsOf(d) -> SoundSet] /\ d.counter \in 0..MaxId
  BY DEF DataOK, TabSet
<1>2. Len(d.tabs) \in Nat /\ \A n \in 1..Len(d.tabs) : d.tabs[n] \in TabSet
  BY <1>1
<1>3. \A n \in 1..Len(d.tabs) : d.tabs[n].ids \subseteq Ids
  BY <1>2 DEF TabSet
<1> QED BY <1>1, <1>2, <1>3 DEF IdsOf, DataOK

\* Every tab has some of the ids of all, every one of them is in a tab, and only in one.
TabsOf(ts, all) ==
  /\ \A n \in 1..Len(ts) : ts[n].ids \subseteq all
  /\ \A i \in all : \E n \in 1..Len(ts) : i \in ts[n].ids
  /\ \A m, n \in 1..Len(ts) : m # n => ts[m].ids \cap ts[n].ids = {}

\* Data put together from its parts.
LEMMA DataFrom ==
  ASSUME NEW ts, NEW all, NEW snd, NEW k, TabsOf(ts, all),
         ts \in Seq(TabSet), snd \in [all -> SoundSet], k \in 0..MaxId
  PROVE  LET e == [tabs |-> ts, sound |-> snd, counter |-> k] IN DataOK(e) /\ IdsOf(e) = all
<1> DEFINE e == [tabs |-> ts, sound |-> snd, counter |-> k]
<1>1. e.tabs = ts /\ e.sound = snd /\ e.counter = k
  OBVIOUS
<1>2. IdsOf(e) = all
  BY <1>1 DEF IdsOf, TabsOf
<1>3. e \in [tabs : Seq([folder : Folders, ids : SUBSET Ids]),
            sound : [IdsOf(e) -> SoundSet], counter : 0..MaxId]
  BY <1>2 DEF TabSet
<1> QED BY <1>1, <1>2, <1>3 DEF DataOK, TabsOf

LEMMA OverlaidOf ==
  ASSUME NEW S, NEW T, NEW V, NEW f \in [S -> V], NEW g \in [T -> V]
  PROVE  /\ Overlaid(f, g) \in [S \cup T -> V]
         /\ \A x \in S : Overlaid(f, g)[x] = f[x]
         /\ \A x \in T \ S : Overlaid(f, g)[x] = g[x]
BY DEF Overlaid

LEMMA ErasedOf ==
  ASSUME NEW T, NEW V, NEW g \in [T -> V], NEW S
  PROVE  Erased(g, S) \in [T \ S -> V] /\ \A x \in T \ S : Erased(g, S)[x] = g[x]
BY DEF Erased

Numbered(d) == IdsOf(d) \subseteq 1..d.counter

-------------------------------------------------------------------------------
(* The content of a tab *)

LEMMA ContentIs ==
  ASSUME NEW d, DataOK(d), Numbered(d), files \subseteq Folders \X Names,
         NEW tab, tab.folder \in Folders, tab.ids \subseteq IdsOf(d),
         NEW c, c = Content(tab, d), NEW most \in 0..MaxId, c.counter <= most
  PROVE  /\ c.counter \in d.counter..MaxId /\ c.ids \subseteq 1..c.counter
         /\ c.ids \cap IdsOf(d) \subseteq tab.ids
         /\ c.sound \in [c.ids -> SoundSet]
         /\ \A i \in c.ids \cap IdsOf(d) : c.sound[i] = d.sound[i]
         /\ \A i \in c.ids \ IdsOf(d) : Chosen(c.sound[i]) = Unset
<1> DEFINE F == FilesOf(tab.folder) \ Known(tab, d)
           fresh == Fresh(tab, d)
           kept == {i \in tab.ids : d.sound[i].file \in files}
           new == d.counter + 1 .. d.counter + Len(fresh)
<1>1. IsFiniteSet(F) /\ F \subseteq Folders \X Names
  <2>1. F \in SUBSET (Folders \X Names)
    BY DEF FilesOf
  <2>2. IsFiniteSet(Folders \X Names)
    BY FilesAssumption, FS_Product
  <2> QED BY <2>1, <2>2, FS_Subset
<1>2. fresh = SetToSeq(F)
  BY DEF Fresh
<1> HIDE DEF F, fresh
<1>3. /\ fresh \in [1..Len(fresh) -> Folders \X Names] /\ Len(fresh) \in Nat
  BY <1>1, <1>2, SetToSeqOf
<1>4. c = [ids |-> kept \cup new,
           sound |-> [i \in kept \cup new |-> IF i \in new THEN NewSound(fresh[i - d.counter])
                                              ELSE d.sound[i]],
           counter |-> d.counter + Len(fresh)]
  BY DEF Content, fresh
<1>5. /\ c.ids = kept \cup new /\ c.counter = d.counter + Len(fresh)
      /\ c.sound = [i \in kept \cup new |-> IF i \in new THEN NewSound(fresh[i - d.counter])
                                            ELSE d.sound[i]]
  BY <1>4
<1>6. /\ d.sound \in [IdsOf(d) -> SoundSet] /\ d.counter \in 0..MaxId
      /\ IdsOf(d) \subseteq 1..d.counter
  BY DataParts DEF Numbered
<1>7. \A i \in new : i - d.counter \in 1..Len(fresh) /\ i \notin IdsOf(d) /\ i \in Nat \ {0}
  BY <1>3, <1>6
<1>8. \A i \in new : /\ NewSound(fresh[i - d.counter]) \in SoundSet
                     /\ Chosen(NewSound(fresh[i - d.counter])) = Unset
  BY <1>3, <1>7, CustomsAssumption DEF NewSound, SoundSet, Chosen, Unset
<1>9. kept \subseteq tab.ids
  OBVIOUS
<1> HIDE DEF kept
<1>10. /\ \A i \in new : c.sound[i] = NewSound(fresh[i - d.counter])
       /\ \A i \in kept : c.sound[i] = d.sound[i]
  <2>1. \A i \in kept : i \notin new
    BY <1>7, <1>9
  <2> HIDE DEF new
  <2> QED BY <1>5, <2>1
<1>11. c.sound \in [c.ids -> SoundSet]
  <2> HIDE DEF new
  <2>1. \A i \in kept \cup new : c.sound[i] \in SoundSet
    BY <1>10, <1>8, <1>6, <1>9
  <2> QED BY <1>5, <2>1
<1>12. c.counter \in d.counter..MaxId /\ c.ids \subseteq 1..c.counter
  <2>1. c.counter \in d.counter..MaxId
    BY <1>5, <1>6, <1>3, BoundAssumption
  <2>2. kept \subseteq 1..d.counter
    BY <1>6, <1>9
  <2>3. new \subseteq 1..(d.counter + Len(fresh))
    BY <1>3, <1>6
  <2>4. 1..d.counter \subseteq 1..(d.counter + Len(fresh))
    BY <1>3, <1>6
  <2> HIDE DEF new
  <2> QED BY <2>1, <2>2, <2>3, <2>4, <1>5
<1>13. \A i \in c.ids : IF i \in IdsOf(d) THEN i \in kept ELSE i \in new
  <2> HIDE DEF new
  <2> QED BY <1>5, <1>7, <1>9
<1> HIDE DEF new
<1> QED BY <1>8, <1>9, <1>10, <1>11, <1>12, <1>13

-------------------------------------------------------------------------------
(* The tabs of a copy *)

\* A tab is added at the end.
LEMMA TabAdded ==
  ASSUME NEW d, DataOK(d), Numbered(d), NEW folder \in Folders,
         NEW c, c.counter \in d.counter..MaxId, c.ids \subseteq 1..c.counter,
         c.sound \in [c.ids -> SoundSet], c.ids \cap IdsOf(d) = {}
  PROVE  /\ DataOK(Added(d, folder, c)) /\ Numbered(Added(d, folder, c))
         /\ IdsOf(Added(d, folder, c)) = IdsOf(d) \cup c.ids
         /\ \A i \in c.ids : Added(d, folder, c).sound[i] = c.sound[i]
         /\ \A i \in IdsOf(d) : Added(d, folder, c).sound[i] = d.sound[i]
<1> DEFINE e == Added(d, folder, c)
           tab == [folder |-> folder, ids |-> c.ids]
           ts == Append(d.tabs, tab)
           snd == Overlaid(c.sound, d.sound)
           all == IdsOf(d) \cup c.ids
<1>1. /\ d.tabs \in Seq(TabSet) /\ d.counter \in 0..MaxId /\ d.sound \in [IdsOf(d) -> SoundSet]
      /\ Len(d.tabs) \in Nat /\ MaxId \in Nat
  BY DataParts, BoundAssumption
<1>2. c.counter \in 0..MaxId /\ c.ids \in SUBSET Ids
  BY <1>1 DEF Ids
<1>3. tab \in TabSet /\ tab.ids = c.ids
  BY <1>2 DEF TabSet
<1> HIDE DEF tab
<1>4. /\ ts \in Seq(TabSet) /\ Len(ts) = Len(d.tabs) + 1 /\ ts[Len(d.tabs) + 1] = tab
      /\ \A n \in 1..Len(d.tabs) : ts[n] = d.tabs[n]
  BY <1>1, <1>3, AppendProperties
<1>5. /\ snd \in [all -> SoundSet] /\ \A i \in c.ids : snd[i] = c.sound[i]
      /\ \A i \in IdsOf(d) : snd[i] = d.sound[i]
  <2>1. /\ snd \in [c.ids \cup IdsOf(d) -> SoundSet] /\ \A i \in c.ids : snd[i] = c.sound[i]
        /\ \A i \in IdsOf(d) \ c.ids : snd[i] = d.sound[i]
    BY <1>1 DEF Overlaid
  <2> QED BY <2>1
<1> HIDE DEF ts, snd, all
<1>6. \A n \in 1..Len(ts) : n \in 1..Len(d.tabs) \/ n = Len(d.tabs) + 1
  BY <1>1, <1>4
<1>7. \A n \in 1..Len(ts) : ts[n].ids \subseteq all
  BY <1>3, <1>4, <1>6, DataParts DEF all
<1>8. \A i \in all : \E n \in 1..Len(ts) : i \in ts[n].ids
  <2>1. 1..Len(d.tabs) \subseteq 1..Len(ts) /\ Len(d.tabs) + 1 \in 1..Len(ts)
    BY <1>1, <1>4
  <2>2. \A i \in IdsOf(d) : \E n \in 1..Len(ts) : i \in ts[n].ids
    BY <2>1, <1>4, DataParts
  <2>3. \A i \in c.ids : \E n \in 1..Len(ts) : i \in ts[n].ids
    BY <2>1, <1>3, <1>4
  <2> QED BY <2>2, <2>3 DEF all
<1>9. \A m, n \in 1..Len(ts) : m # n => ts[m].ids \cap ts[n].ids = {}
  <2> SUFFICES ASSUME NEW m \in 1..Len(ts), NEW n \in 1..Len(ts), m # n
               PROVE  ts[m].ids \cap ts[n].ids = {}
    OBVIOUS
  <2>1. CASE m \in 1..Len(d.tabs) /\ n \in 1..Len(d.tabs)
    BY <2>1, <1>4, DataParts
  <2>2. CASE m \in 1..Len(d.tabs) /\ n = Len(d.tabs) + 1
    BY <2>2, <1>3, <1>4, DataParts
  <2>3. CASE n \in 1..Len(d.tabs) /\ m = Len(d.tabs) + 1
    BY <2>3, <1>3, <1>4, DataParts
  <2> QED BY <2>1, <2>2, <2>3, <1>6
<1>10. e = [tabs |-> ts, sound |-> snd, counter |-> c.counter]
  BY DEF e, ts, snd, tab, Added
<1> HIDE DEF e
<1>15. TabsOf(ts, all)
  BY <1>7, <1>8, <1>9 DEF TabsOf
<1>11. DataOK(e) /\ IdsOf(e) = all
  <2>1. DataOK([tabs |-> ts, sound |-> snd, counter |-> c.counter])
        /\ IdsOf([tabs |-> ts, sound |-> snd, counter |-> c.counter]) = all
    BY <1>2, <1>4, <1>5, <1>15, DataFrom
  <2> QED BY <2>1, <1>10
<1>12. e.tabs = ts /\ e.sound = snd /\ e.counter = c.counter
  BY <1>10
<1>13. 1..d.counter \subseteq 1..c.counter
  BY <1>1
<1>14. Numbered(e)
  BY <1>11, <1>12, <1>13 DEF Numbered, all
<1> QED BY <1>4, <1>5, <1>11, <1>12, <1>14 DEF all, e

LEMMA RemoveAtOf ==
  ASSUME NEW S, NEW s \in Seq(S), NEW n \in 1..Len(s)
  PROVE  /\ RemoveAt(s, n) \in Seq(S) /\ Len(RemoveAt(s, n)) = Len(s) - 1
         /\ \A m \in 1..Len(s) - 1 : RemoveAt(s, n)[m] = IF m < n THEN s[m] ELSE s[m + 1]
<1> DEFINE a == SubSeq(s, 1, n - 1)
           b == SubSeq(s, n + 1, Len(s))
<1>0. Len(s) \in Nat /\ n \in Nat /\ \A m \in 1..Len(s) : s[m] \in S
  OBVIOUS
<1>1. a \in Seq(S) /\ Len(a) = n - 1 /\ \A i \in 1..n - 1 : a[i] = s[i]
  BY <1>0
<1>2. b \in Seq(S) /\ Len(b) = Len(s) - n /\ \A i \in 1..Len(s) - n : b[i] = s[n + i]
  BY <1>0
<1> HIDE DEF a, b
<1>3. /\ a \o b \in Seq(S) /\ Len(a \o b) = Len(a) + Len(b)
      /\ \A i \in 1 .. Len(a) + Len(b) : (a \o b)[i] = IF i <= Len(a) THEN a[i] ELSE b[i - Len(a)]
  BY <1>1, <1>2, ConcatProperties
<1>4. RemoveAt(s, n) = a \o b
  BY DEF RemoveAt, a, b
<1>5. ASSUME NEW m \in 1..Len(s) - 1
      PROVE  (a \o b)[m] = IF m < n THEN s[m] ELSE s[m + 1]
  <2>1. CASE m < n
    BY <2>1, <1>0, <1>1, <1>2, <1>3
  <2>2. CASE m >= n
    <3>1. m - (n - 1) \in 1..Len(s) - n
      BY <2>2, <1>0
    <3>2. (a \o b)[m] = b[m - (n - 1)]
      BY <2>2, <1>0, <1>1, <1>2, <1>3
    <3>3. b[m - (n - 1)] = s[n + (m - (n - 1))]
      BY <3>1, <1>2
    <3>4. n + (m - (n - 1)) = m + 1
      BY <1>0
    <3>5. (a \o b)[m] = s[m + 1] /\ ~(m < n)
      BY <2>2, <3>2, <3>3, <3>4, <1>0
    <3> QED BY <3>5
  <2>3. m < n \/ m >= n
    BY <1>0
  <2> QED BY <2>1, <2>2, <2>3
<1>6. Len(a \o b) = Len(s) - 1
  BY <1>0, <1>1, <1>2, <1>3
<1> QED BY <1>3, <1>4, <1>5, <1>6

\* A tab is dropped.
LEMMA TabDropped ==
  ASSUME NEW d, DataOK(d), Numbered(d), NEW n \in 1..Len(d.tabs)
  PROVE  /\ DataOK(Dropped(d, n)) /\ Numbered(Dropped(d, n))
         /\ IdsOf(Dropped(d, n)) = IdsOf(d) \ d.tabs[n].ids
         /\ \A i \in IdsOf(d) \ d.tabs[n].ids : Dropped(d, n).sound[i] = d.sound[i]
<1> DEFINE e == Dropped(d, n)
           ts == RemoveAt(d.tabs, n)
           snd == Erased(d.sound, d.tabs[n].ids)
           all == IdsOf(d) \ d.tabs[n].ids
<1>1. /\ d.tabs \in Seq(TabSet) /\ d.counter \in 0..MaxId /\ d.sound \in [IdsOf(d) -> SoundSet]
      /\ Len(d.tabs) \in Nat /\ n \in Nat
  BY DataParts
<1>2. /\ ts \in Seq(TabSet) /\ Len(ts) = Len(d.tabs) - 1
      /\ \A m \in 1..Len(d.tabs) - 1 : ts[m] = IF m < n THEN d.tabs[m] ELSE d.tabs[m + 1]
  BY <1>1, RemoveAtOf
<1>3. snd \in [all -> SoundSet] /\ \A i \in all : snd[i] = d.sound[i]
  BY <1>1 DEF Erased
<1>4. e = [tabs |-> ts, sound |-> snd, counter |-> d.counter]
  BY DEF Dropped
<1> HIDE DEF e, ts, snd
<1> DEFINE at(m) == IF m < n THEN m ELSE m + 1
<1>5. \A m \in 1..Len(ts) : at(m) \in 1..Len(d.tabs) \ {n} /\ ts[m] = d.tabs[at(m)]
  BY <1>1, <1>2
<1>6. \A m, k \in 1..Len(ts) : m # k => at(m) # at(k)
  BY <1>1, <1>2
<1>7. \A m \in 1..Len(d.tabs) \ {n} : \E k \in 1..Len(ts) : at(k) = m
  <2> SUFFICES ASSUME NEW m \in 1..Len(d.tabs) \ {n}
               PROVE  \E k \in 1..Len(ts) : at(k) = m
    OBVIOUS
  <2>1. CASE m < n
    <3>1. m \in 1..Len(ts) /\ at(m) = m
      BY <2>1, <1>1, <1>2
    <3> QED BY <3>1
  <2>2. CASE m > n
    <3>1. m - 1 \in 1..Len(ts) /\ at(m - 1) = m
      BY <2>2, <1>1, <1>2
    <3> QED BY <3>1
  <2> QED BY <2>1, <2>2, <1>1
<1> HIDE DEF at
<1>8. \A m \in 1..Len(ts) : ts[m].ids \subseteq all
  BY <1>5, DataParts
<1>9. \A i \in all : \E m \in 1..Len(ts) : i \in ts[m].ids
  <2> TAKE i \in all
  <2>1. PICK k \in 1..Len(d.tabs) : i \in d.tabs[k].ids
    BY DataParts
  <2>2. PICK m \in 1..Len(ts) : at(m) = k
    BY <2>1, <1>7
  <2> QED BY <2>1, <2>2, <1>5
<1>10. \A m, k \in 1..Len(ts) : m # k => ts[m].ids \cap ts[k].ids = {}
  <2> SUFFICES ASSUME NEW m \in 1..Len(ts), NEW k \in 1..Len(ts), m # k
               PROVE  ts[m].ids \cap ts[k].ids = {}
    OBVIOUS
  <2>1. \A a, b \in 1..Len(d.tabs) : a # b => d.tabs[a].ids \cap d.tabs[b].ids = {}
    BY DataParts
  <2>2. at(m) \in 1..Len(d.tabs) /\ at(k) \in 1..Len(d.tabs) /\ at(m) # at(k)
    BY <1>5, <1>6
  <2>3. d.tabs[at(m)].ids \cap d.tabs[at(k)].ids = {}
    BY <2>1, <2>2
  <2> QED BY <2>3, <1>5
<1> HIDE DEF all
<1>14. TabsOf(ts, all)
  BY <1>8, <1>9, <1>10 DEF TabsOf
<1>11. DataOK(e) /\ IdsOf(e) = all
  BY <1>1, <1>2, <1>3, <1>4, <1>14, DataFrom
<1>12. e.sound = snd /\ e.counter = d.counter
  BY <1>4
<1>13. Numbered(e)
  BY <1>11, <1>12 DEF Numbered, all
<1> QED BY <1>3, <1>11, <1>12, <1>13 DEF e, all

\* A tab is given other content.
LEMMA TabPlaced ==
  ASSUME NEW d, DataOK(d), Numbered(d), NEW n \in 1..Len(d.tabs),
         NEW c, c.ids \subseteq 1..d.counter, c.sound \in [c.ids -> SoundSet],
         c.ids \cap IdsOf(d) \subseteq d.tabs[n].ids
  PROVE  /\ DataOK(Placed(d, n, c)) /\ Numbered(Placed(d, n, c))
         /\ IdsOf(Placed(d, n, c)) = (IdsOf(d) \ d.tabs[n].ids) \cup c.ids
         /\ \A i \in c.ids : Placed(d, n, c).sound[i] = c.sound[i]
         /\ \A i \in IdsOf(d) \ d.tabs[n].ids : Placed(d, n, c).sound[i] = d.sound[i]
<1> DEFINE e == Placed(d, n, c)
           ts == [d.tabs EXCEPT ![n].ids = c.ids]
           snd == Overlaid(c.sound, Erased(d.sound, d.tabs[n].ids))
           rest == IdsOf(d) \ d.tabs[n].ids
           all == rest \cup c.ids
<1>1. /\ d.tabs \in Seq(TabSet) /\ d.counter \in 0..MaxId /\ d.sound \in [IdsOf(d) -> SoundSet]
      /\ Len(d.tabs) \in Nat /\ n \in Nat /\ MaxId \in Nat
  BY DataParts, BoundAssumption
<1>2. e = [tabs |-> ts, sound |-> snd, counter |-> d.counter]
  BY DEF Placed
<1>3. c.ids \in SUBSET Ids
  BY <1>1 DEF Ids
<1>4. /\ ts \in Seq(TabSet) /\ Len(ts) = Len(d.tabs) /\ ts[n].ids = c.ids
      /\ \A m \in 1..Len(d.tabs) \ {n} : ts[m] = d.tabs[m]
  <2> DEFINE tab == [d.tabs[n] EXCEPT !.ids = c.ids]
  <2>1. d.tabs[n] \in TabSet
    BY <1>1
  <2>2. tab \in TabSet /\ tab.ids = c.ids
    BY <1>3, <2>1 DEF TabSet
  <2>3. ts = [d.tabs EXCEPT ![n] = tab]
    OBVIOUS
  <2> HIDE DEF tab, ts
  <2> QED BY <1>1, <2>2, <2>3, ExceptSeq
<1> HIDE DEF e, ts
<1>5. c.ids \cap rest = {}
  OBVIOUS
<1>6. Erased(d.sound, d.tabs[n].ids) \in [rest -> SoundSet]
      /\ \A i \in rest : Erased(d.sound, d.tabs[n].ids)[i] = d.sound[i]
  BY <1>1 DEF Erased
<1> HIDE DEF rest
<1>7. /\ snd \in [all -> SoundSet] /\ \A i \in c.ids : snd[i] = c.sound[i]
      /\ \A i \in rest : snd[i] = d.sound[i]
  <2> DEFINE f == Erased(d.sound, d.tabs[n].ids)
  <2>1. f \in [rest -> SoundSet] /\ \A i \in rest : f[i] = d.sound[i]
    BY <1>6
  <2> HIDE DEF f
  <2>2. /\ Overlaid(c.sound, f) \in [all -> SoundSet]
        /\ \A i \in c.ids : Overlaid(c.sound, f)[i] = c.sound[i]
        /\ \A i \in rest : Overlaid(c.sound, f)[i] = d.sound[i]
    BY <2>1, <1>5 DEF Overlaid
  <2> QED BY <2>2 DEF f
<1> HIDE DEF snd
<1>8. \A m \in 1..Len(ts) : ts[m].ids \subseteq all
  BY <1>4, DataParts DEF rest
<1>9. \A i \in all : \E m \in 1..Len(ts) : i \in ts[m].ids
  <2> TAKE i \in all
  <2>1. CASE i \in c.ids
    BY <2>1, <1>4
  <2>2. CASE i \in rest
    <3>1. PICK m \in 1..Len(d.tabs) : i \in d.tabs[m].ids
      BY <2>2, DataParts DEF rest
    <3> QED BY <3>1, <2>2, <1>4 DEF rest
  <2> QED BY <2>1, <2>2
<1>10. \A m \in 1..Len(ts) \ {n} : ts[m].ids \cap c.ids = {}
  BY <1>4, DataParts
<1>11. \A m, k \in 1..Len(ts) : m # k => ts[m].ids \cap ts[k].ids = {}
  BY <1>4, <1>10, DataParts
<1> HIDE DEF all
<1>12. TabsOf(ts, all)
  BY <1>8, <1>9, <1>11 DEF TabsOf
<1>13. DataOK(e) /\ IdsOf(e) = all
  BY <1>1, <1>2, <1>4, <1>7, <1>12, DataFrom
<1>14. e.sound = snd /\ e.counter = d.counter
  BY <1>2
<1>15. Numbered(e)
  BY <1>13, <1>14 DEF Numbered, all, rest
<1> QED BY <1>7, <1>13, <1>14, <1>15 DEF e, all, rest

\* Two neighbouring tabs change places.
LEMMA TabsSwapped ==
  ASSUME NEW d, DataOK(d), Numbered(d), NEW n \in 1..Len(d.tabs) - 1,
         NEW e, e = [tabs |-> [d.tabs EXCEPT ![n] = d.tabs[n + 1], ![n + 1] = d.tabs[n]],
                     sound |-> d.sound, counter |-> d.counter]
  PROVE  DataOK(e) /\ Numbered(e) /\ IdsOf(e) = IdsOf(d) /\ e.sound = d.sound
<1> DEFINE ts == [d.tabs EXCEPT ![n] = d.tabs[n + 1], ![n + 1] = d.tabs[n]]
           at(m) == IF m = n THEN n + 1 ELSE IF m = n + 1 THEN n ELSE m
           all == IdsOf(d)
<1>1. /\ d.tabs \in Seq(TabSet) /\ d.counter \in 0..MaxId /\ d.sound \in [all -> SoundSet]
      /\ Len(d.tabs) \in Nat /\ n \in Nat /\ {n, n + 1} \subseteq 1..Len(d.tabs)
  BY DataParts
<1>2. e = [tabs |-> ts, sound |-> d.sound, counter |-> d.counter]
  OBVIOUS
<1>3. /\ ts \in Seq(TabSet) /\ Len(ts) = Len(d.tabs)
      /\ \A m \in 1..Len(d.tabs) : ts[m] = d.tabs[at(m)]
  <2>1. d.tabs[n] \in TabSet /\ d.tabs[n + 1] \in TabSet
    BY <1>1
  <2> DEFINE s == [d.tabs EXCEPT ![n] = d.tabs[n + 1]]
  <2>2. /\ s \in Seq(TabSet) /\ Len(s) = Len(d.tabs)
        /\ \A j \in 1..Len(d.tabs) : s[j] = IF j = n THEN d.tabs[n + 1] ELSE d.tabs[j]
    BY <1>1, <2>1, ExceptSeq
  <2>3. ts = [s EXCEPT ![n + 1] = d.tabs[n]]
    OBVIOUS
  <2> HIDE DEF s, ts
  <2>4. /\ ts \in Seq(TabSet) /\ Len(ts) = Len(d.tabs)
        /\ \A j \in 1..Len(d.tabs) : ts[j] = IF j = n + 1 THEN d.tabs[n] ELSE s[j]
    BY <1>1, <2>1, <2>2, <2>3, ExceptSeq
  <2> QED BY <1>1, <2>2, <2>4
<1> HIDE DEF ts
<1>4. \A m \in 1..Len(d.tabs) : at(m) \in 1..Len(d.tabs) /\ at(at(m)) = m
  BY <1>1
<1> HIDE DEF at, all
<1>5. TabsOf(ts, all)
  <2>1. \A m \in 1..Len(ts) : ts[m].ids \subseteq all
    BY <1>3, <1>4, DataParts DEF all
  <2>2. \A i \in all : \E m \in 1..Len(ts) : i \in ts[m].ids
    <3> TAKE i \in all
    <3>1. PICK m \in 1..Len(d.tabs) : i \in d.tabs[m].ids
      BY DataParts DEF all
    <3>2. at(m) \in 1..Len(ts) /\ ts[at(m)] = d.tabs[m]
      BY <3>1, <1>3, <1>4
    <3> QED BY <3>1, <3>2
  <2>3. \A m, k \in 1..Len(ts) : m # k => ts[m].ids \cap ts[k].ids = {}
    <3>1. \A m, k \in 1..Len(d.tabs) : m # k => at(m) # at(k)
      BY <1>4
    <3>2. \A a, b \in 1..Len(d.tabs) : a # b => d.tabs[a].ids \cap d.tabs[b].ids = {}
      BY DataParts
    <3> SUFFICES ASSUME NEW m \in 1..Len(d.tabs), NEW k \in 1..Len(d.tabs), m # k
                 PROVE  ts[m].ids \cap ts[k].ids = {}
      BY <1>3
    <3>3. at(m) \in 1..Len(d.tabs) /\ at(k) \in 1..Len(d.tabs) /\ at(m) # at(k)
      BY <3>1, <1>4
    <3>4. d.tabs[at(m)].ids \cap d.tabs[at(k)].ids = {}
      BY <3>2, <3>3
    <3> QED BY <3>4, <1>3
  <2> QED BY <2>1, <2>2, <2>3 DEF TabsOf
<1>6. DataOK(e) /\ IdsOf(e) = all
  <2> DEFINE r == [tabs |-> ts, sound |-> d.sound, counter |-> d.counter]
  <2>1. DataOK(r) /\ IdsOf(r) = all
    BY <1>1, <1>3, <1>5, DataFrom
  <2> QED BY <2>1, <1>2
<1>7. e.sound = d.sound /\ e.counter = d.counter
  BY <1>2
<1> QED BY <1>6, <1>7 DEF Numbered, all

\* The choices of one sound change.
EditedData(d, i, v) == [d EXCEPT !.sound[i] = v]

LEMMA SoundEdited ==
  ASSUME NEW d, DataOK(d), Numbered(d), NEW i \in IdsOf(d), NEW v \in SoundSet
  PROVE  /\ DataOK(EditedData(d, i, v)) /\ Numbered(EditedData(d, i, v))
         /\ IdsOf(EditedData(d, i, v)) = IdsOf(d)
         /\ EditedData(d, i, v).tabs = d.tabs /\ EditedData(d, i, v).counter = d.counter
         /\ \A j \in IdsOf(d) : EditedData(d, i, v).sound[j] = IF j = i THEN v ELSE d.sound[j]
<1> DEFINE e == EditedData(d, i, v)
<1>1. d \in [tabs : Seq(TabSet), sound : [IdsOf(d) -> SoundSet], counter : 0..MaxId]
  BY DEF DataOK, TabSet
<1>2. /\ e \in [tabs : Seq(TabSet), sound : [IdsOf(d) -> SoundSet], counter : 0..MaxId]
      /\ e.tabs = d.tabs /\ e.counter = d.counter
      /\ \A j \in IdsOf(d) : e.sound[j] = IF j = i THEN v ELSE d.sound[j]
  BY <1>1 DEF EditedData
<1> HIDE DEF e
<1>3. IdsOf(e) = IdsOf(d)
  BY <1>2 DEF IdsOf
<1>4. DataOK(e) /\ Numbered(e)
  BY <1>2, <1>3 DEF DataOK, Numbered, TabSet
<1> QED BY <1>2, <1>3, <1>4 DEF e

-------------------------------------------------------------------------------
(* The inductive invariant *)

Gdata == data["gData"]

\* Ids in use have been handed out.
AllNumbered == Numbered(Gdata) /\ Numbered(data["gConfig"]) /\ Numbered(saved)

\* What refreshTab holds can take the place of the tab: no other tab has one of its
\* sounds, and a sound the tab already had is the same file.  At the desk nobody has
\* edited a sound since the copy was made.
RefreshOK ==
  refreshing # <<>> =>
    /\ refreshing[1] \in 1..Len(Gdata.tabs)
    /\ refreshing[2].ids \subseteq 1..Gdata.counter
    /\ refreshing[2].sound \in [refreshing[2].ids -> SoundSet]
    /\ refreshing[2].ids \cap IdsOf(Gdata) \subseteq Gdata.tabs[refreshing[1]].ids
    /\ \A i \in refreshing[2].ids \cap IdsOf(Gdata) :
         refreshing[2].sound[i].file = Gdata.sound[i].file
    /\ ~use.web => \A i \in refreshing[2].ids : Chosen(refreshing[2].sound[i]) = wanted[i]

\* The file holds what the program ended with.
ClosedOK ==
  program = "closed" => refreshing = <<>> /\ saved = Gdata /\ data["gConfig"] = Gdata

\* At the desk a new sound has no choices, and every sound has the last ones.
WantedOK ==
  ~use.web =>
    /\ \A i \in Ids \ IdsOf(Gdata) : wanted[i] = Unset
    /\ \A i \in IdsOf(Gdata) : Chosen(Gdata.sound[i]) = wanted[i]

\* Without logins the maps refer to gData while the program runs.
DeskOK == ~use.web /\ program = "running" => \A i \in DOMAIN index : index[i] = "gData"

\* The sounds gSounds will hold once the save under way, if any, has entered them.
Awaited == IF setting.at = "copied" THEN IdsOf(data["gConfig"]) ELSE DOMAIN index \cup setting.left

\* A save enters sounds of the copy it has made; what gSounds will hold is what is shown
\* but for the sounds that crossed it.
SavingOK ==
  /\ setting # NoSave => use.web /\ program = "running"
  /\ setting.at = "none" <=> setting = NoSave
  /\ setting.left \subseteq IdsOf(data["gConfig"])
  /\ ~use.web => crossed = {}
  /\ \A i \in Ids \ crossed : i \in Awaited <=> i \in IdsOf(Gdata)

DataInv == LibraryInv /\ SavingOK /\ AllNumbered /\ RefreshOK /\ ClosedOK /\ WantedOK /\ DeskOK

\* One step of the property about the files of the sounds.
FilesKept ==
  \A i \in IdsOf(Gdata) \cap IdsOf(Gdata') : Gdata'.sound[i].file = Gdata.sound[i].file

-------------------------------------------------------------------------------
(* The tab operations *)

\* What the invariant says of the two copies and of the maps.
LEMMA DataFacts ==
  ASSUME DataInv
  PROVE  /\ DataOK(Gdata) /\ Numbered(Gdata) /\ files \subseteq Folders \X Names
         /\ DataOK(saved) /\ Numbered(saved) /\ use \in Uses /\ use.most \in 0..MaxId
         /\ DOMAIN data = Copies /\ DataOK(data["gConfig"]) /\ Numbered(data["gConfig"])
         /\ DOMAIN index \subseteq Ids /\ IdsOf(Gdata) \subseteq Ids
         /\ IdsOf(data["gConfig"]) \subseteq Ids
         /\ \A i \in DOMAIN index : index[i] \in Copies /\ (i \in IdsOf(data[index[i]]) \/ Stale(i))
         /\ DOMAIN favorites \subseteq Ids /\ \A i \in DOMAIN favorites : favorites[i] \in Copies
         /\ crossed \subseteq Ids /\ wanted \in [Ids -> ChoiceSet]
         /\ ~use.web => setting = NoSave /\ crossed = {} /\ DOMAIN index = IdsOf(Gdata)
         /\ (~use.web /\ program = "running") =>
              /\ \A i \in DOMAIN index : index[i] = "gData"
              /\ DOMAIN favorites = {i \in IdsOf(Gdata) : Gdata.sound[i].fav}
<1>1. /\ DataOK(Gdata) /\ Numbered(Gdata) /\ files \subseteq Folders \X Names
      /\ DataOK(saved) /\ Numbered(saved) /\ use \in Uses
      /\ DOMAIN data = Copies /\ DataOK(data["gConfig"]) /\ Numbered(data["gConfig"])
      /\ DOMAIN index \subseteq Ids
      /\ \A i \in DOMAIN index : index[i] \in Copies /\ (i \in IdsOf(data[index[i]]) \/ Stale(i))
      /\ DOMAIN favorites \subseteq Ids /\ \A i \in DOMAIN favorites : favorites[i] \in Copies
      /\ crossed \subseteq Ids /\ wanted \in [Ids -> ChoiceSet]
  BY DEF DataInv, LibraryInv, LibraryTypeOK, AllNumbered, MapsAgree, Gdata
<1>2. IdsOf(Gdata) \subseteq Ids /\ IdsOf(data["gConfig"]) \subseteq Ids
  BY <1>1, DataParts
<1>3. use.most \in 0..MaxId
  BY <1>1, UsesAssumption
<1>4. ASSUME ~use.web
      PROVE  setting = NoSave /\ crossed = {} /\ DOMAIN index = IdsOf(Gdata)
  <2>1. setting = NoSave /\ crossed = {}
    BY <1>4 DEF DataInv, SavingOK
  <2>2. \A i \in Ids : i \in DOMAIN index <=> i \in IdsOf(Gdata)
    BY <2>1 DEF DataInv, LibraryInv, MapsAgree, Gdata
  <2> QED BY <2>1, <2>2, <1>1, <1>2
<1>5. ASSUME ~use.web, program = "running"
      PROVE  /\ \A i \in DOMAIN index : index[i] = "gData"
             /\ DOMAIN favorites = {i \in IdsOf(Gdata) : Gdata.sound[i].fav}
  <2>1. \A i \in DOMAIN index : index[i] = "gData"
    BY <1>5 DEF DataInv, DeskOK
  <2>2. DOMAIN favorites = {i \in DOMAIN index : data[index[i]].sound[i].fav}
    BY <1>5 DEF DataInv, LibraryInv, MapsAgree, Sound
  <2>3. \A i \in DOMAIN index : data[index[i]].sound[i] = Gdata.sound[i]
    BY <2>1 DEF Gdata
  <2>4. DOMAIN index = IdsOf(Gdata)
    BY <1>4, <1>5
  <2>5. DOMAIN favorites = {i \in DOMAIN index : Gdata.sound[i].fav}
    BY <2>2, <2>3
  <2> QED BY <2>1, <2>4, <2>5
<1> QED BY <1>1, <1>2, <1>3, <1>4, <1>5

\* What the invariant says of the save under way.
LEMMA SavingFacts ==
  ASSUME DataInv
  PROVE  /\ setting \in [at : {"none", "copied", "cleared", "filling"}, left : SUBSET Ids,
                         favorite : 0..MaxId]
         /\ setting # NoSave => use.web /\ program = "running"
         /\ setting.at = "none" <=> setting = NoSave
         /\ setting.left \subseteq IdsOf(data["gConfig"])
         /\ ~use.web => crossed = {}
         /\ \A i \in Ids \ crossed : i \in Awaited <=> i \in IdsOf(Gdata)
BY DEF DataInv, SavingOK, LibraryInv, LibraryTypeOK

NoSaveIs == NoSave.at = "none" /\ NoSave.left = {} /\ NoSave.favorite = 0

LEMMA NoSaveFields == NoSaveIs
BY DEF NoSave, NoSaveIs

\* The maps after a step, from what the save under way will make of them.
LEMMA MapsFrom ==
  ASSUME SavingOK', \A i \in DOMAIN index' : i \in IdsOf(data'[index'[i]]) \/ Stale(i)',
         ~use'.web => DOMAIN favorites' = {i \in DOMAIN index' : data'[index'[i]].sound[i].fav}
  PROVE  MapsAgree'
<1>1. ASSUME setting' = NoSave
      PROVE  \A i \in Ids \ crossed' : i \in DOMAIN index' <=> i \in IdsOf(data'["gData"])
  <2>1. Awaited' = DOMAIN index'
    BY <1>1, NoSaveFields DEF Awaited, NoSaveIs
  <2> QED BY <2>1 DEF SavingOK, Gdata
<1> QED BY <1>1 DEF MapsAgree, Sound

\* The types after a step that only changes gData and the maps.
LEMMA TypeAfter ==
  ASSUME DataInv, NEW e, DataOK(e), Numbered(e), data' = [data EXCEPT !["gData"] = e],
         files' \subseteq Folders \X Names, UNCHANGED <<saved, program, setting, use>>,
         crossed' \subseteq Ids, wanted' \in [Ids -> ChoiceSet],
         DOMAIN index' \subseteq Ids, \A i \in DOMAIN index' : index'[i] \in Copies,
         DOMAIN favorites' \subseteq Ids, \A i \in DOMAIN favorites' : favorites'[i] \in Copies
  PROVE  LibraryTypeOK' /\ AllNumbered' /\ Gdata' = e /\ data'["gConfig"] = data["gConfig"]
<1>1. Gdata' = e /\ data'["gConfig"] = data["gConfig"] /\ DOMAIN data' = Copies
  BY DataFacts DEF Gdata, Copies
<1> QED BY <1>1, DataFacts DEF LibraryTypeOK, AllNumbered, Gdata, DataInv, LibraryInv

\* The maps after a tab operation: sounds have come and gone in gData and in gSounds.
LEMMA MapsAfter ==
  ASSUME DataInv, UNCHANGED <<setting, program, use>>,
         data'["gConfig"] = data["gConfig"],
         NEW came, NEW gone,
         IdsOf(Gdata') = (IdsOf(Gdata) \ gone) \cup came,
         DOMAIN index' = (DOMAIN index \ gone) \cup came,
         \A i \in DOMAIN index' : \/ i \in DOMAIN index \ gone /\ index'[i] = index[i]
                                  \/ i \in came /\ index'[i] = "gData",
         Crosses(gone \cup came)
  PROVE  SavingOK' /\ \A i \in DOMAIN index' : i \in IdsOf(data'[index'[i]]) \/ Stale(i)'
<1>1. ASSUME NEW i \in DOMAIN index'
      PROVE  i \in IdsOf(data'[index'[i]]) \/ Stale(i)'
  <2>1. CASE i \in came /\ index'[i] = "gData"
    BY <2>1 DEF Gdata
  <2>2. CASE i \in DOMAIN index \ gone /\ index'[i] = index[i]
    <3>1. index[i] \in Copies /\ (i \in IdsOf(data[index[i]]) \/ Stale(i))
      BY <2>2, DataFacts
    <3>2. Stale(i) => Stale(i)'
      BY <2>2 DEF Stale
    <3>3. CASE index[i] = "gData"
      BY <3>1, <3>2, <3>3, <2>2 DEF Gdata
    <3>4. CASE index[i] = "gConfig"
      BY <3>1, <3>2, <3>4, <2>2
    <3> QED BY <3>1, <3>3, <3>4 DEF Copies
  <2> QED BY <2>1, <2>2
<1>2. crossed' = IF setting = NoSave THEN crossed ELSE crossed \cup (gone \cup came)
  BY DEF Crosses
<1>3. \A i \in Ids \ crossed' : i \in Awaited' <=> i \in IdsOf(Gdata')
  <2>1. CASE setting = NoSave
    <3>1. Awaited = DOMAIN index /\ Awaited' = DOMAIN index'
      BY <2>1, NoSaveFields DEF Awaited, NoSaveIs
    <3> QED BY <2>1, <3>1, <1>2, SavingFacts
  <2>2. CASE setting # NoSave
    <3>1. \A i \in Ids \ crossed' : i \notin gone /\ i \notin came /\ i \notin crossed
      BY <2>2, <1>2
    <3>2. \A i \in Ids \ crossed' : i \in Awaited' <=> i \in Awaited
      BY <3>1 DEF Awaited
    <3> QED BY <3>1, <3>2, SavingFacts
  <2> QED BY <2>1, <2>2
<1>4. ~use'.web => crossed' = {}
  BY <1>2, SavingFacts
<1> QED BY <1>1, <1>3, <1>4, SavingFacts DEF SavingOK

LEMMA UnsetIs == Unset \in ChoiceSet /\ ~Unset.fav
BY CustomsAssumption DEF Unset, ChoiceSet

LEMMA DataAddTab ==
  ASSUME DataInv, NEW folder \in Folders, AddTab(folder), UNCHANGED use
  PROVE  DataInv' /\ FilesKept
<1> DEFINE d == Gdata
           c == Content([folder |-> folder, ids |-> {}], d)
           e == Added(d, folder, c)
<1>1. /\ program = "running" /\ refreshing = <<>> /\ c.counter <= use.most
      /\ data' = [data EXCEPT !["gData"] = e] /\ index' = Refers(index, c.ids, "gData")
      /\ Crosses(c.ids)
      /\ UNCHANGED <<files, favorites, refreshing, saved, program, setting, wanted, use>>
  BY DEF AddTab, Gui, Gdata
<1>2. /\ DataOK(d) /\ Numbered(d) /\ files \subseteq Folders \X Names /\ use.most \in 0..MaxId
      /\ DOMAIN data = Copies /\ DataOK(data["gConfig"]) /\ Numbered(data["gConfig"])
  BY DataFacts
<1>3. /\ c.counter \in d.counter..MaxId /\ c.ids \subseteq 1..c.counter
      /\ c.ids \cap IdsOf(d) = {} /\ c.sound \in [c.ids -> SoundSet]
      /\ \A i \in c.ids : Chosen(c.sound[i]) = Unset
  <2> DEFINE tab == [folder |-> folder, ids |-> {}]
  <2>1. tab.folder \in Folders /\ tab.ids \subseteq IdsOf(d) /\ tab.ids = {}
    OBVIOUS
  <2>2. c = Content(tab, d)
    OBVIOUS
  <2> HIDE DEF tab, c, d
  <2>3. /\ c.counter \in d.counter..MaxId /\ c.ids \subseteq 1..c.counter
        /\ c.ids \cap IdsOf(d) \subseteq tab.ids
        /\ c.sound \in [c.ids -> SoundSet]
        /\ \A i \in c.ids \ IdsOf(d) : Chosen(c.sound[i]) = Unset
    BY <1>1, <1>2, <2>1, <2>2, ContentIs
  <2> QED BY <2>1, <2>3
<1> HIDE DEF c, d
<1>4. /\ DataOK(e) /\ Numbered(e) /\ IdsOf(e) = IdsOf(d) \cup c.ids
      /\ \A i \in c.ids : e.sound[i] = c.sound[i]
      /\ \A i \in IdsOf(d) : e.sound[i] = d.sound[i]
  BY <1>2, <1>3, TabAdded
<1> HIDE DEF e
<1>5. d = Gdata /\ IdsOf(d) \subseteq Ids /\ IdsOf(e) \subseteq Ids /\ c.ids \subseteq Ids
  BY <1>2, <1>4, DataParts DEF d
<1>6. /\ DOMAIN index' = DOMAIN index \cup c.ids
      /\ \A i \in DOMAIN index : index'[i] = index[i]
      /\ \A i \in c.ids \ DOMAIN index : index'[i] = "gData"
  BY <1>1 DEF Refers
<1>7. DOMAIN index \subseteq Ids /\ \A i \in DOMAIN index : index[i] \in Copies
  BY DataFacts
<1>8. crossed' \subseteq Ids
  BY <1>1, <1>5, DataFacts DEF Crosses
<1>9. LibraryTypeOK' /\ AllNumbered' /\ Gdata' = e /\ data'["gConfig"] = data["gConfig"]
  <2>1. DOMAIN index' \subseteq Ids /\ \A i \in DOMAIN index' : index'[i] \in Copies
    BY <1>5, <1>6, <1>7 DEF Copies
  <2> QED BY <2>1, <1>1, <1>2, <1>4, <1>8, DataFacts, TypeAfter
<1>10. SavingOK' /\ \A i \in DOMAIN index' : i \in IdsOf(data'[index'[i]]) \/ Stale(i)'
  <2> DEFINE none == {}
  <2>1. IdsOf(Gdata') = (IdsOf(Gdata) \ none) \cup c.ids /\ none \cup c.ids = c.ids
    BY <1>4, <1>5, <1>9
  <2>2. /\ DOMAIN index' = (DOMAIN index \ none) \cup c.ids
        /\ \A i \in DOMAIN index' : \/ i \in DOMAIN index \ none /\ index'[i] = index[i]
                                    \/ i \in c.ids /\ index'[i] = "gData"
    BY <1>6
  <2> HIDE DEF none
  <2>3. Crosses(none \cup c.ids)
    BY <1>1, <2>1
  <2> QED BY <2>1, <2>2, <2>3, <1>1, <1>9, MapsAfter
<1>11. ASSUME ~use.web
       PROVE  DOMAIN favorites' = {i \in DOMAIN index' : data'[index'[i]].sound[i].fav}
  <2>1. /\ \A i \in DOMAIN index : index[i] = "gData"
        /\ DOMAIN index = IdsOf(d) /\ DOMAIN favorites = {i \in IdsOf(d) : d.sound[i].fav}
    BY <1>11, <1>1, <1>5, DataFacts
  <2>2. \A i \in c.ids : ~e.sound[i].fav
    BY <1>3, <1>4 DEF Chosen, Unset
  <2>3. \A i \in DOMAIN index' : data'[index'[i]].sound[i] = e.sound[i]
    BY <2>1, <1>3, <1>6, <1>9 DEF Gdata
  <2>4. favorites' = favorites
    BY <1>1
  <2> QED BY <2>1, <2>2, <2>3, <2>4, <1>4, <1>6
<1>12. MapsAgree'
  BY <1>1, <1>10, <1>11, MapsFrom
<1>13. WantedOK'
  BY <1>1, <1>3, <1>4, <1>5, <1>9 DEF DataInv, WantedOK
<1>14. RefreshOK' /\ ClosedOK'
  BY <1>1 DEF RefreshOK, ClosedOK
<1>15. DeskOK'
  BY <1>1, <1>6 DEF DataInv, DeskOK
<1>16. FilesKept
  BY <1>4, <1>5, <1>9 DEF FilesKept
<1> QED BY <1>9, <1>10, <1>12, <1>13, <1>14, <1>15, <1>16 DEF DataInv, LibraryInv

LEMMA DataRemoveTab ==
  ASSUME DataInv, NEW n, RemoveTab(n), UNCHANGED use
  PROVE  DataInv' /\ FilesKept
<1> DEFINE d == Gdata
           old == d.tabs[n].ids
           e == Dropped(d, n)
<1>1. /\ program = "running" /\ refreshing = <<>> /\ n \in 1..Len(d.tabs)
      /\ data' = [data EXCEPT !["gData"] = e] /\ index' = Erased(index, old)
      /\ favorites' = Erased(favorites, FavoriteIds(d, old))
      /\ wanted' = [i \in Ids |-> IF i \in old THEN Unset ELSE wanted[i]]
      /\ Crosses(old)
      /\ UNCHANGED <<files, refreshing, saved, program, setting, use>>
  BY DEF RemoveTab, Gui, Gdata, Forgets
<1>2. DataOK(d) /\ Numbered(d)
  BY DataFacts
<1> HIDE DEF d
<1>3. /\ DataOK(e) /\ Numbered(e) /\ IdsOf(e) = IdsOf(d) \ old
      /\ \A i \in IdsOf(d) \ old : e.sound[i] = d.sound[i]
  BY <1>1, <1>2, TabDropped
<1>14. old \subseteq IdsOf(d)
  BY <1>1, <1>2, DataParts
<1> HIDE DEF e, old
<1>4. /\ d = Gdata /\ DOMAIN index \subseteq Ids /\ IdsOf(d) \subseteq Ids
      /\ \A i \in DOMAIN index : index[i] \in Copies
      /\ DOMAIN favorites \subseteq Ids /\ \A i \in DOMAIN favorites : favorites[i] \in Copies
      /\ wanted \in [Ids -> ChoiceSet] /\ files \subseteq Folders \X Names
  BY DataFacts DEF d
<1>5. /\ DOMAIN index' = DOMAIN index \ old
      /\ \A i \in DOMAIN index \ old : index'[i] = index[i]
  BY <1>1 DEF Erased
<1>6. /\ DOMAIN favorites' = DOMAIN favorites \ FavoriteIds(d, old)
      /\ \A i \in DOMAIN favorites' : favorites'[i] = favorites[i]
  BY <1>1 DEF Erased
<1>7. wanted' \in [Ids -> ChoiceSet] /\ crossed' \subseteq Ids
  BY <1>1, <1>4, <1>14, UnsetIs, DataFacts DEF Crosses
<1>8. LibraryTypeOK' /\ AllNumbered' /\ Gdata' = e /\ data'["gConfig"] = data["gConfig"]
  BY <1>1, <1>3, <1>4, <1>5, <1>6, <1>7, TypeAfter
<1>15. SavingOK' /\ \A i \in DOMAIN index' : i \in IdsOf(data'[index'[i]]) \/ Stale(i)'
  <2>1. IdsOf(Gdata') = (IdsOf(Gdata) \ old) \cup {} /\ Crosses(old \cup {})
    BY <1>1, <1>3, <1>4, <1>8
  <2> QED BY <2>1, <1>1, <1>5, <1>8, MapsAfter
<1>16. ASSUME ~use.web
       PROVE  DOMAIN favorites' = {i \in DOMAIN index' : data'[index'[i]].sound[i].fav}
  <2>1. /\ DOMAIN index = IdsOf(d) /\ \A i \in DOMAIN index : index[i] = "gData"
        /\ DOMAIN favorites = {i \in IdsOf(d) : d.sound[i].fav}
    BY <1>16, <1>1, <1>4, DataFacts
  <2>2. \A i \in DOMAIN index' : data'[index'[i]].sound[i] = d.sound[i]
    BY <2>1, <1>3, <1>4, <1>5, <1>8 DEF Gdata
  <2>3. DOMAIN favorites' = {i \in IdsOf(d) \ old : d.sound[i].fav}
    BY <2>1, <1>6 DEF FavoriteIds
  <2> QED BY <2>1, <2>2, <2>3, <1>4, <1>5
<1>9. MapsAgree'
  BY <1>1, <1>15, <1>16, MapsFrom
<1>10. WantedOK'
  <2>1. \A i \in Ids : wanted'[i] = IF i \in old THEN Unset ELSE wanted[i]
    BY <1>1
  <2> QED BY <2>1, <1>1, <1>3, <1>4, <1>8 DEF DataInv, WantedOK
<1>11. RefreshOK' /\ ClosedOK'
  BY <1>1 DEF RefreshOK, ClosedOK
<1>12. DeskOK'
  BY <1>1, <1>5 DEF DataInv, DeskOK
<1>13. FilesKept
  BY <1>3, <1>4, <1>8 DEF FilesKept
<1> QED BY <1>8, <1>9, <1>10, <1>11, <1>12, <1>13, <1>15 DEF DataInv, LibraryInv

LEMMA DataRefreshTab ==
  ASSUME DataInv, NEW n, RefreshTab(n), UNCHANGED use
  PROVE  DataInv' /\ FilesKept
<1> DEFINE d == Gdata
           c == Content(d.tabs[n], d)
           e == [d EXCEPT !.counter = c.counter]
<1>1. /\ program = "running" /\ refreshing = <<>> /\ n \in 1..Len(d.tabs)
      /\ c.counter <= use.most /\ refreshing' = <<n, c>>
      /\ data' = [data EXCEPT !["gData"] = e]
      /\ UNCHANGED <<files, index, favorites, saved, program, setting, crossed, wanted, use>>
  BY DEF RefreshTab, Gui, Gdata
<1>2. DataOK(d) /\ Numbered(d) /\ files \subseteq Folders \X Names
  BY DataFacts
<1> HIDE DEF d
<1>3. /\ d.tabs[n].folder \in Folders /\ d.tabs[n].ids \subseteq IdsOf(d)
      /\ d.counter \in 0..MaxId /\ IdsOf(d) \subseteq Ids /\ MaxId \in Nat
      /\ use.most \in 0..MaxId
  BY <1>1, <1>2, DataParts, BoundAssumption, DataFacts DEF TabSet
<1>4. /\ c.counter \in d.counter..MaxId /\ c.ids \subseteq 1..c.counter
      /\ c.ids \cap IdsOf(d) \subseteq d.tabs[n].ids
      /\ c.sound \in [c.ids -> SoundSet]
      /\ \A i \in c.ids \cap IdsOf(d) : c.sound[i] = d.sound[i]
      /\ \A i \in c.ids \ IdsOf(d) : Chosen(c.sound[i]) = Unset
  <2>1. c = Content(d.tabs[n], d)
    OBVIOUS
  <2> HIDE DEF c
  <2> QED BY <1>1, <1>2, <1>3, <2>1, ContentIs
<1> HIDE DEF c
<1>5. /\ DataOK(e) /\ Numbered(e) /\ IdsOf(e) = IdsOf(d)
      /\ e.tabs = d.tabs /\ e.sound = d.sound /\ e.counter = c.counter
  <2>1. d \in [tabs : Seq(TabSet), sound : [IdsOf(d) -> SoundSet], counter : 0..MaxId]
    BY <1>2 DEF DataOK, TabSet
  <2>2. c.counter \in 0..MaxId
    BY <1>3, <1>4
  <2>3. /\ e \in [tabs : Seq(TabSet), sound : [IdsOf(d) -> SoundSet], counter : 0..MaxId]
        /\ e.tabs = d.tabs /\ e.sound = d.sound /\ e.counter = c.counter
    BY <2>1, <2>2
  <2> HIDE DEF e
  <2>4. IdsOf(e) = IdsOf(d)
    BY <2>3 DEF IdsOf
  <2>5. DataOK(e)
    BY <2>3, <2>4, <1>2 DEF DataOK, TabSet
  <2>6. 1..d.counter \subseteq 1..c.counter
    BY <1>3, <1>4
  <2> QED BY <2>3, <2>4, <2>5, <2>6, <1>2 DEF Numbered
<1> HIDE DEF e
<1>6. d = Gdata
  BY DEF d
<1>7. LibraryTypeOK' /\ AllNumbered' /\ Gdata' = e /\ data'["gConfig"] = data["gConfig"]
  BY <1>1, <1>5, DataFacts, TypeAfter
<1>13. SavingOK' /\ \A i \in DOMAIN index' : i \in IdsOf(data'[index'[i]]) \/ Stale(i)'
  <2>1. IdsOf(Gdata') = (IdsOf(Gdata) \ {}) \cup {} /\ Crosses({} \cup {})
    BY <1>1, <1>5, <1>6, <1>7 DEF Crosses
  <2>2. DOMAIN index' = (DOMAIN index \ {}) \cup {}
        /\ \A i \in DOMAIN index' : i \in DOMAIN index \ {} /\ index'[i] = index[i]
    BY <1>1
  <2> QED BY <2>1, <2>2, <1>1, <1>7, MapsAfter
<1>8. MapsAgree'
  <2>1. ASSUME ~use.web
        PROVE  DOMAIN favorites' = {i \in DOMAIN index' : data'[index'[i]].sound[i].fav}
    BY <2>1, <1>1, <1>5, <1>6, <1>7, DataFacts DEF Gdata, Copies
  <2> QED BY <2>1, <1>1, <1>13, MapsFrom
<1>9. WantedOK'
  BY <1>1, <1>5, <1>6, <1>7 DEF DataInv, WantedOK
<1>10. RefreshOK'
  <2>1. ASSUME ~use.web, NEW i \in c.ids
        PROVE  Chosen(c.sound[i]) = wanted[i]
    <3>1. i \in Ids
      BY <1>3, <1>4 DEF Ids
    <3>2. CASE i \in IdsOf(d)
      BY <3>2, <2>1, <1>4, <1>6 DEF DataInv, WantedOK
    <3>3. CASE i \notin IdsOf(d)
      BY <3>1, <3>3, <2>1, <1>4, <1>6 DEF DataInv, WantedOK
    <3> QED BY <3>2, <3>3
  <2>2. refreshing'[1] = n /\ refreshing'[2] = c
    BY <1>1
  <2> QED BY <2>1, <2>2, <1>1, <1>4, <1>5, <1>7 DEF RefreshOK
<1>11. ClosedOK' /\ DeskOK'
  BY <1>1 DEF DataInv, ClosedOK, DeskOK
<1>12. FilesKept
  BY <1>5, <1>6, <1>7 DEF FilesKept
<1> QED BY <1>7, <1>8, <1>9, <1>10, <1>11, <1>12, <1>13 DEF DataInv, LibraryInv

LEMMA DataSetTab ==
  ASSUME DataInv, SetTab, UNCHANGED use
  PROVE  DataInv' /\ FilesKept
<1> DEFINE d == Gdata
           n == refreshing[1]
           c == refreshing[2]
           old == d.tabs[n].ids
           e == Placed(d, n, c)
<1>1. /\ program = "running" /\ refreshing # <<>> /\ refreshing' = <<>>
      /\ data' = [data EXCEPT !["gData"] = e]
      /\ index' = Refers(Erased(index, old), c.ids, "gData")
      /\ favorites' = Refers(Erased(favorites, FavoriteIds(d, old)), FavoriteIds(c, c.ids), "gData")
      /\ wanted' = [i \in Ids |-> IF i \in old \ c.ids THEN Unset ELSE wanted[i]]
      /\ Crosses(old \cup c.ids)
      /\ UNCHANGED <<files, saved, program, setting, use>>
  BY DEF SetTab, Gdata, Forgets
<1>2. /\ DataOK(d) /\ Numbered(d)
      /\ DOMAIN index \subseteq Ids /\ IdsOf(d) \subseteq Ids
      /\ \A i \in DOMAIN index : index[i] \in Copies
      /\ DOMAIN favorites \subseteq Ids /\ \A i \in DOMAIN favorites : favorites[i] \in Copies
      /\ wanted \in [Ids -> ChoiceSet] /\ files \subseteq Folders \X Names
  BY DataFacts
<1>3. /\ n \in 1..Len(d.tabs) /\ c.ids \subseteq 1..d.counter
      /\ c.sound \in [c.ids -> SoundSet] /\ c.ids \cap IdsOf(d) \subseteq old
      /\ \A i \in c.ids \cap IdsOf(d) : c.sound[i].file = d.sound[i].file
      /\ ~use.web => \A i \in c.ids : Chosen(c.sound[i]) = wanted[i]
  BY <1>1 DEF DataInv, RefreshOK
<1>4. d = Gdata
  OBVIOUS
<1> HIDE DEF d, n, c
<1>5. /\ DataOK(e) /\ Numbered(e) /\ IdsOf(e) = (IdsOf(d) \ old) \cup c.ids
      /\ \A i \in c.ids : e.sound[i] = c.sound[i]
      /\ \A i \in IdsOf(d) \ old : e.sound[i] = d.sound[i]
  BY <1>2, <1>3, TabPlaced
<1>6. old \subseteq IdsOf(d) /\ c.ids \subseteq Ids
  <2>1. d.counter \in 0..MaxId /\ MaxId \in Nat
    BY <1>2, DataParts, BoundAssumption
  <2> QED BY <2>1, <1>2, <1>3, DataParts DEF Ids
<1> HIDE DEF e, old
<1>7. /\ DOMAIN index' = (DOMAIN index \ old) \cup c.ids
      /\ \A i \in DOMAIN index \ old : index'[i] = index[i]
      /\ \A i \in c.ids \ (DOMAIN index \ old) : index'[i] = "gData"
  <2>1. /\ DOMAIN Erased(index, old) = DOMAIN index \ old
        /\ \A i \in DOMAIN index \ old : Erased(index, old)[i] = index[i]
    BY DEF Erased
  <2> QED BY <2>1, <1>1 DEF Refers
<1>8. /\ DOMAIN favorites' = (DOMAIN favorites \ FavoriteIds(d, old)) \cup FavoriteIds(c, c.ids)
      /\ \A i \in DOMAIN favorites' : favorites'[i] \in Copies
  <2> DEFINE f == Erased(favorites, FavoriteIds(d, old))
  <2>1. /\ DOMAIN f = DOMAIN favorites \ FavoriteIds(d, old)
        /\ \A i \in DOMAIN f : f[i] \in Copies
    BY <1>2 DEF Erased
  <2>2. favorites' = Refers(f, FavoriteIds(c, c.ids), "gData")
    BY <1>1
  <2> HIDE DEF f
  <2> QED BY <2>1, <2>2 DEF Refers, Copies
<1>9. /\ wanted' \in [Ids -> ChoiceSet] /\ FavoriteIds(c, c.ids) \subseteq Ids
      /\ crossed' \subseteq Ids
  BY <1>1, <1>2, <1>6, UnsetIs, DataFacts DEF FavoriteIds, Crosses
<1>10. LibraryTypeOK' /\ AllNumbered' /\ Gdata' = e /\ data'["gConfig"] = data["gConfig"]
  <2>1. DOMAIN index' \subseteq Ids /\ \A i \in DOMAIN index' : index'[i] \in Copies
    BY <1>2, <1>6, <1>7 DEF Copies
  <2>2. DOMAIN favorites' \subseteq Ids
    BY <1>2, <1>8, <1>9
  <2> QED BY <2>1, <2>2, <1>1, <1>2, <1>5, <1>8, <1>9, TypeAfter
<1>16. SavingOK' /\ \A i \in DOMAIN index' : i \in IdsOf(data'[index'[i]]) \/ Stale(i)'
  <2>1. IdsOf(Gdata') = (IdsOf(Gdata) \ old) \cup c.ids
    BY <1>4, <1>5, <1>10
  <2>2. \A i \in DOMAIN index' : \/ i \in DOMAIN index \ old /\ index'[i] = index[i]
                                 \/ i \in c.ids /\ index'[i] = "gData"
    BY <1>7
  <2> QED BY <2>1, <2>2, <1>1, <1>7, <1>10, MapsAfter
<1>17. ASSUME ~use.web
       PROVE  DOMAIN favorites' = {i \in DOMAIN index' : data'[index'[i]].sound[i].fav}
  <2>1. /\ DOMAIN index = IdsOf(d) /\ \A i \in DOMAIN index : index[i] = "gData"
        /\ DOMAIN favorites = {i \in IdsOf(d) : d.sound[i].fav}
    BY <1>17, <1>1, <1>4, DataFacts
  <2>2. \A i \in DOMAIN index' : data'[index'[i]].sound[i] = e.sound[i]
    BY <2>1, <1>7, <1>10 DEF Gdata
  <2>3. DOMAIN favorites' = {i \in IdsOf(d) \ old : d.sound[i].fav} \cup {i \in c.ids : c.sound[i].fav}
    BY <2>1, <1>8 DEF FavoriteIds
  <2> QED BY <2>1, <2>2, <2>3, <1>2, <1>5, <1>7
<1>11. MapsAgree'
  BY <1>1, <1>16, <1>17, MapsFrom
<1>12. WantedOK'
  <2>1. \A i \in Ids : wanted'[i] = IF i \in old \ c.ids THEN Unset ELSE wanted[i]
    BY <1>1
  <2>2. ~use.web => \A i \in Ids \ IdsOf(e) : wanted'[i] = Unset
    BY <2>1, <1>4, <1>5 DEF DataInv, WantedOK
  <2>3. ASSUME ~use.web, NEW i \in IdsOf(e)
        PROVE  Chosen(e.sound[i]) = wanted'[i]
    <3>1. CASE i \in c.ids
      BY <3>1, <2>1, <2>3, <1>3, <1>5, <1>6
    <3>2. CASE i \notin c.ids
      BY <3>2, <2>1, <2>3, <1>2, <1>4, <1>5 DEF DataInv, WantedOK
    <3> QED BY <3>1, <3>2
  <2> QED BY <2>2, <2>3, <1>1, <1>10 DEF WantedOK
<1>13. RefreshOK' /\ ClosedOK'
  BY <1>1 DEF RefreshOK, ClosedOK
<1>14. DeskOK'
  BY <1>1, <1>7 DEF DataInv, DeskOK
<1>15. FilesKept
  BY <1>3, <1>4, <1>5, <1>10 DEF FilesKept
<1> QED BY <1>10, <1>11, <1>12, <1>13, <1>14, <1>15, <1>16 DEF DataInv, LibraryInv

LEMMA DataMoveTab ==
  ASSUME DataInv, NEW n, MoveTab(n), UNCHANGED use
  PROVE  DataInv' /\ FilesKept
<1> DEFINE d == Gdata
           e == [tabs |-> [d.tabs EXCEPT ![n] = d.tabs[n + 1], ![n + 1] = d.tabs[n]],
                 sound |-> d.sound, counter |-> d.counter]
<1>1. /\ program = "running" /\ refreshing = <<>> /\ n \in 1..Len(d.tabs) - 1
      /\ data' = [data EXCEPT !["gData"] = e]
      /\ Rebuilds("gData", e)
      /\ crossed' = IF setting = NoSave THEN {} ELSE crossed
      /\ UNCHANGED <<files, refreshing, saved, program, setting, wanted, use>>
  BY DEF MoveTab, Gui, Gdata
<1>2. /\ DataOK(d) /\ Numbered(d) /\ IdsOf(d) \subseteq Ids
      /\ wanted \in [Ids -> ChoiceSet] /\ files \subseteq Folders \X Names
  BY DataFacts
<1>3. d = Gdata
  OBVIOUS
<1> HIDE DEF d
<1>4. DataOK(e) /\ Numbered(e) /\ IdsOf(e) = IdsOf(d) /\ e.sound = d.sound
  <2>1. e = [tabs |-> [d.tabs EXCEPT ![n] = d.tabs[n + 1], ![n + 1] = d.tabs[n]],
             sound |-> d.sound, counter |-> d.counter]
    OBVIOUS
  <2> HIDE DEF e
  <2> QED BY <2>1, <1>1, <1>2, TabsSwapped
<1> HIDE DEF e
<1>5. /\ DOMAIN index' = IdsOf(e) /\ \A i \in DOMAIN index' : index'[i] = "gData"
      /\ DOMAIN favorites' = {i \in IdsOf(e) : e.sound[i].fav}
      /\ \A i \in DOMAIN favorites' : favorites'[i] = "gData"
  BY <1>1 DEF Rebuilds, Refers, Nothing, FavoriteIds
<1>6. LibraryTypeOK' /\ AllNumbered' /\ Gdata' = e /\ data'["gConfig"] = data["gConfig"]
  <2>1. /\ DOMAIN index' \subseteq Ids /\ \A i \in DOMAIN index' : index'[i] \in Copies
        /\ DOMAIN favorites' \subseteq Ids /\ \A i \in DOMAIN favorites' : favorites'[i] \in Copies
    BY <1>2, <1>4, <1>5 DEF Copies
  <2>2. crossed' \subseteq Ids
    BY <1>1, DataFacts
  <2> QED BY <2>1, <2>2, <1>1, <1>2, <1>4, TypeAfter
<1>11. SavingOK'
  <2>1. \A i \in Ids \ crossed' : i \in Awaited' <=> i \in IdsOf(Gdata')
    <3>1. CASE setting = NoSave
      <4>1. Awaited' = DOMAIN index'
        BY <3>1, <1>1, NoSaveFields DEF Awaited, NoSaveIs
      <4> QED BY <4>1, <1>5, <1>6
    <3>2. CASE setting # NoSave
      <4>1. \A i \in Ids \ crossed : i \in Awaited <=> i \in IdsOf(d)
        BY <1>3, SavingFacts
      <4>2. CASE setting.at = "copied"
        <5>1. Awaited' = Awaited
          BY <4>2, <1>1, <1>6 DEF Awaited
        <5> QED BY <3>2, <4>1, <5>1, <1>1, <1>4, <1>6
      <4>3. CASE setting.at # "copied"
        <5>1. Awaited' = IdsOf(e) \cup setting.left /\ setting.left \subseteq Awaited
          BY <4>3, <1>1, <1>5 DEF Awaited
        <5> QED BY <3>2, <4>1, <5>1, <1>1, <1>4, <1>6
      <4> QED BY <4>2, <4>3
    <3> QED BY <3>1, <3>2
  <2> QED BY <2>1, <1>1, <1>6, SavingFacts DEF SavingOK
<1>7. MapsAgree'
  <2>1. \A i \in DOMAIN index' : i \in IdsOf(data'[index'[i]])
    BY <1>5, <1>6 DEF Gdata
  <2>2. DOMAIN favorites' = {i \in DOMAIN index' : data'[index'[i]].sound[i].fav}
    BY <1>5, <1>6 DEF Gdata
  <2> QED BY <2>1, <2>2, <1>11, MapsFrom
<1>8. WantedOK'
  BY <1>1, <1>3, <1>4, <1>6 DEF DataInv, WantedOK
<1>9. RefreshOK' /\ ClosedOK' /\ DeskOK'
  BY <1>1, <1>5 DEF RefreshOK, ClosedOK, DeskOK
<1>10. FilesKept
  BY <1>3, <1>4, <1>6 DEF FilesKept
<1> QED BY <1>6, <1>7, <1>8, <1>9, <1>10, <1>11 DEF DataInv, LibraryInv

-------------------------------------------------------------------------------
(* Edits, saving and loading *)

\* After an edit of sound id, through gSounds.
LEMMA CopyEdited ==
  ASSUME DataInv, NEW id \in DOMAIN index, ~Stale(id), NEW v \in SoundSet,
         data' = [data EXCEPT ![index[id]] = EditedData(@, id, v)]
  PROVE  /\ index[id] \in Copies /\ DOMAIN data' = Copies
         /\ \A c \in Copies :
              /\ DataOK(data'[c]) /\ Numbered(data'[c])
              /\ IdsOf(data'[c]) = IdsOf(data[c])
              /\ data'[c].tabs = data[c].tabs /\ data'[c].counter = data[c].counter
              /\ \A j \in IdsOf(data[c]) : (j # id \/ c # index[id]) =>
                                            data'[c].sound[j] = data[c].sound[j]
         /\ data'[index[id]].sound[id] = v
<1> DEFINE k == index[id]
           e == EditedData(data[k], id, v)
<1>1. k \in Copies /\ id \in IdsOf(data[k]) /\ DOMAIN data = Copies
  BY DataFacts
<1>2. \A c \in Copies : DataOK(data[c]) /\ Numbered(data[c])
  BY DataFacts DEF Copies, Gdata
<1>3. data' = [data EXCEPT ![k] = e]
  OBVIOUS
<1> HIDE DEF k
<1>4. /\ DataOK(e) /\ Numbered(e) /\ IdsOf(e) = IdsOf(data[k])
      /\ e.tabs = data[k].tabs /\ e.counter = data[k].counter
      /\ \A j \in IdsOf(data[k]) : e.sound[j] = IF j = id THEN v ELSE data[k].sound[j]
  BY <1>1, <1>2, SoundEdited
<1> HIDE DEF e
<1>5. data'[k] = e /\ \A c \in Copies \ {k} : data'[c] = data[c]
  BY <1>1, <1>3
<1>6. DOMAIN data' = Copies
  BY <1>1, <1>3
<1>7. ASSUME NEW c \in Copies
      PROVE  /\ DataOK(data'[c]) /\ Numbered(data'[c])
             /\ IdsOf(data'[c]) = IdsOf(data[c])
             /\ data'[c].tabs = data[c].tabs /\ data'[c].counter = data[c].counter
             /\ \A j \in IdsOf(data[c]) : (j # id \/ c # k) =>
                                            data'[c].sound[j] = data[c].sound[j]
  <2>1. CASE c = k
    <3>1. data'[c] = e /\ data[c] = data[k]
      BY <2>1, <1>5
    <3>2. \A j \in IdsOf(data[c]) : j # id => e.sound[j] = data[c].sound[j]
      BY <3>1, <1>4
    <3> QED BY <3>1, <3>2, <2>1, <1>4
  <2>2. CASE c # k
    <3>1. data'[c] = data[c]
      BY <2>2, <1>5
    <3> QED BY <3>1, <1>2
  <2> QED BY <2>1, <2>2
<1>8. data'[k].sound[id] = v
  BY <1>1, <1>4, <1>5
<1> QED BY <1>1, <1>6, <1>7, <1>8 DEF k

\* An edit that keeps the file of the sound changes nothing the invariant says but the
\* choices and the favorites.
LEMMA EditKeeps ==
  ASSUME DataInv, NEW id, MayEdit(id), ~Stale(id),
         NEW v \in SoundSet, v.file = Sound(id).file,
         data' = [data EXCEPT ![index[id]] = EditedData(@, id, v)],
         wanted' \in [Ids -> ChoiceSet],
         ~use.web => /\ wanted'[id] = Chosen(v)
                     /\ \A j \in Ids \ {id} : wanted'[j] = wanted[j],
         UNCHANGED <<files, index, refreshing, saved, program, setting, crossed, use>>,
         DOMAIN favorites' \subseteq Ids, \A i \in DOMAIN favorites' : favorites'[i] \in Copies,
         ~use.web => DOMAIN favorites' = {i \in DOMAIN index : data'[index[i]].sound[i].fav}
  PROVE  DataInv' /\ FilesKept
<1>1. program = "running" /\ id \in DOMAIN index /\ (use.web \/ refreshing = <<>>)
  BY DEF MayEdit
<1>2. /\ index[id] \in Copies /\ DOMAIN data' = Copies
      /\ \A c \in Copies :
           /\ DataOK(data'[c]) /\ Numbered(data'[c])
           /\ IdsOf(data'[c]) = IdsOf(data[c])
           /\ data'[c].tabs = data[c].tabs /\ data'[c].counter = data[c].counter
           /\ \A j \in IdsOf(data[c]) : (j # id \/ c # index[id]) =>
                                         data'[c].sound[j] = data[c].sound[j]
      /\ data'[index[id]].sound[id] = v
  BY <1>1, CopyEdited
<1>3. /\ IdsOf(Gdata') = IdsOf(Gdata) /\ IdsOf(data'["gConfig"]) = IdsOf(data["gConfig"])
      /\ Gdata'.tabs = Gdata.tabs /\ Gdata'.counter = Gdata.counter
      /\ DataOK(Gdata') /\ Numbered(Gdata')
      /\ DataOK(data'["gConfig"]) /\ Numbered(data'["gConfig"])
  BY <1>2 DEF Copies, Gdata
<1>4. \A j \in IdsOf(Gdata) : Gdata'.sound[j].file = Gdata.sound[j].file
  <2> TAKE j \in IdsOf(Gdata)
  <2>1. CASE j = id /\ index[id] = "gData"
    BY <2>1, <1>2 DEF Sound, Gdata
  <2>2. CASE j # id \/ index[id] # "gData"
    BY <2>2, <1>2 DEF Copies, Gdata
  <2> QED BY <2>1, <2>2
<1>5. LibraryTypeOK' /\ AllNumbered'
  BY <1>2, <1>3, DataFacts DEF LibraryTypeOK, AllNumbered, Gdata, DataInv, LibraryInv
<1>11. SavingOK'
  <2>1. Awaited' = Awaited
    BY <1>3 DEF Awaited
  <2> QED BY <2>1, <1>3, SavingFacts DEF SavingOK
<1>6. MapsAgree'
  <2>1. \A i \in DOMAIN index' : i \in IdsOf(data'[index'[i]]) \/ Stale(i)'
    BY <1>2, DataFacts DEF Stale
  <2> QED BY <2>1, <1>11, MapsFrom
<1>7. WantedOK'
  <2>1. ~use.web => \A i \in Ids \ IdsOf(Gdata') : wanted'[i] = Unset
    BY <1>1, <1>2, <1>3, DataFacts DEF DataInv, WantedOK
  <2>2. ASSUME ~use.web, NEW i \in IdsOf(Gdata)
        PROVE  Chosen(Gdata'.sound[i]) = wanted'[i]
    <3>1. index[id] = "gData" /\ i \in Ids /\ id \in IdsOf(Gdata)
      BY <2>2, <1>1, DataFacts
    <3>2. CASE i = id
      BY <3>1, <3>2, <2>2, <1>2 DEF Gdata
    <3>3. CASE i # id
      <4>1. Gdata'.sound[i] = Gdata.sound[i]
        BY <3>3, <1>2 DEF Gdata, Copies
      <4> QED BY <4>1, <3>1, <3>3, <2>2 DEF DataInv, WantedOK
    <3> QED BY <3>2, <3>3
  <2> QED BY <2>1, <2>2, <1>3 DEF WantedOK
<1>8. RefreshOK'
  <2> SUFFICES ASSUME refreshing' # <<>>
               PROVE  RefreshOK'
    BY DEF RefreshOK
  <2>1. use.web
    BY <1>1
  <2> QED BY <2>1, <1>3, <1>4 DEF DataInv, RefreshOK
<1>9. ClosedOK' /\ DeskOK'
  BY <1>1 DEF DataInv, ClosedOK, DeskOK
<1>10. FilesKept
  BY <1>4 DEF FilesKept
<1> QED BY <1>5, <1>6, <1>7, <1>8, <1>9, <1>10, <1>11 DEF DataInv, LibraryInv

\* The sound an entry of gSounds refers to.
LEMMA SoundOf ==
  ASSUME DataInv, NEW id \in DOMAIN index, ~Stale(id)
  PROVE  /\ id \in Ids /\ Sound(id) \in SoundSet
         /\ (~use.web /\ program = "running") => wanted[id] = Chosen(Sound(id))
         /\ data[index[id]].sound \in [IdsOf(data[index[id]]) -> SoundSet]
<1>1. /\ index[id] \in Copies /\ id \in IdsOf(data[index[id]]) /\ id \in Ids
      /\ ~use.web => id \in IdsOf(Gdata)
  BY DataFacts
<1>2. \A c \in Copies : DataOK(data[c])
  BY DataFacts DEF Copies, Gdata
<1>3. data[index[id]].sound \in [IdsOf(data[index[id]]) -> SoundSet]
  BY <1>1, <1>2, DataParts
<1>4. ASSUME ~use.web, program = "running"
      PROVE  wanted[id] = Chosen(Sound(id))
  <2>1. index[id] = "gData"
    BY <1>4, DataFacts
  <2> QED BY <2>1, <1>1, <1>4 DEF DataInv, WantedOK, Gdata, Sound
<1> QED BY <1>1, <1>3, <1>4 DEF Sound

LEMMA DataSetCustom ==
  ASSUME DataInv, NEW id, NEW custom, SetCustom(id, custom), UNCHANGED use
  PROVE  DataInv' /\ FilesKept
<1> DEFINE s == Sound(id)
           v == [s EXCEPT !.custom = custom]
<1>1. /\ MayEdit(id) /\ program = "running" /\ id \in DOMAIN index /\ ~Stale(id)
      /\ custom \in use.customs
      /\ Wants(id, [wanted[id] EXCEPT !.custom = custom])
      /\ UNCHANGED <<files, index, favorites, refreshing, saved, program, setting, crossed, use>>
  BY DEF SetCustom, MayEdit
<1>2. id \in Ids /\ s \in SoundSet /\ (~use.web => wanted[id] = Chosen(s))
  BY <1>1, SoundOf
<1>3. custom \in Customs
  BY <1>1, DataFacts, UsesAssumption
<1>4. data' = [data EXCEPT ![index[id]] = EditedData(@, id, v)]
  BY DEF SetCustom, EditedData, Sound
<1> HIDE DEF s
<1>5. v \in SoundSet /\ v.file = s.file /\ v.fav = s.fav /\ v.custom = custom
  BY <1>2, <1>3 DEF SoundSet
<1> HIDE DEF v
<1>6. /\ wanted' \in [Ids -> ChoiceSet]
      /\ ~use.web => /\ \A j \in Ids \ {id} : wanted'[j] = wanted[j]
                     /\ wanted'[id] = [wanted[id] EXCEPT !.custom = custom]
  <2>1. wanted \in [Ids -> ChoiceSet] /\ wanted[id] \in ChoiceSet
    BY <1>2, DataFacts
  <2>2. [wanted[id] EXCEPT !.custom = custom] \in ChoiceSet
    BY <2>1, <1>3 DEF ChoiceSet
  <2>3. wanted' = IF use.web THEN wanted
                  ELSE [wanted EXCEPT ![id] = [wanted[id] EXCEPT !.custom = custom]]
    BY <1>1 DEF Wants
  <2> QED BY <2>1, <2>2, <2>3, <1>2
<1>7. ASSUME ~use.web
      PROVE  wanted'[id] = Chosen(v)
  <2>1. wanted'[id] = [Chosen(s) EXCEPT !.custom = custom]
    BY <1>7, <1>2, <1>6
  <2> QED BY <2>1, <1>5 DEF Chosen
<1>8. ASSUME ~use.web
      PROVE  DOMAIN favorites' = {i \in DOMAIN index : data'[index[i]].sound[i].fav}
  <2>1. /\ index[id] \in Copies /\ \A i \in DOMAIN index : index[i] \in Copies
        /\ \A i \in DOMAIN index : i \in IdsOf(data[index[i]])
    <3>1. \A i \in DOMAIN index : index[i] = "gData"
      BY <1>8, <1>1, DataFacts
    <3> QED BY <3>1, <1>1, <1>8, DataFacts DEF Gdata, Copies
  <2>2. /\ \A c \in Copies : \A j \in IdsOf(data[c]) : (j # id \/ c # index[id]) =>
                               data'[c].sound[j] = data[c].sound[j]
        /\ data'[index[id]].sound[id] = v
    BY <1>1, <1>4, <1>5, CopyEdited
  <2>3. DOMAIN favorites = {i \in DOMAIN index : data[index[i]].sound[i].fav}
    BY <1>8 DEF DataInv, LibraryInv, MapsAgree, Sound
  <2>4. \A i \in DOMAIN index : data'[index[i]].sound[i].fav = data[index[i]].sound[i].fav
    BY <2>1, <2>2, <1>5 DEF Sound, s
  <2> QED BY <2>3, <2>4, <1>1
<1>9. /\ DOMAIN favorites' \subseteq Ids /\ \A i \in DOMAIN favorites' : favorites'[i] \in Copies
  BY <1>1, DataFacts
<1>10. v.file = Sound(id).file
  BY <1>5 DEF s
<1> QED BY <1>1, <1>4, <1>5, <1>6, <1>7, <1>8, <1>9, <1>10, EditKeeps

\* The favorites after one was marked or unmarked.
LEMMA MarkedAre ==
  ASSUME NEW id, NEW fav \in BOOLEAN, NEW c \in Copies, Marks(id, fav, c),
         \A i \in DOMAIN favorites : favorites[i] \in Copies
  PROVE  /\ DOMAIN favorites' = IF fav THEN DOMAIN favorites \cup {id} ELSE DOMAIN favorites \ {id}
         /\ \A i \in DOMAIN favorites' : favorites'[i] \in Copies
<1>1. CASE fav
  BY <1>1 DEF Refers, Marks
<1>2. CASE ~fav
  BY <1>2 DEF Erased, Marks
<1> QED BY <1>1, <1>2

LEMMA DataMarkFavorite ==
  ASSUME DataInv, NEW id, MarkFavorite(id), UNCHANGED use
  PROVE  DataInv' /\ FilesKept
<1> DEFINE s == Sound(id)
           fav == ~s.fav
           v == [s EXCEPT !.fav = fav]
<1>1. /\ MayEdit(id) /\ program = "running" /\ id \in DOMAIN index /\ ~Stale(id)
      /\ Wants(id, [wanted[id] EXCEPT !.fav = fav])
      /\ Marks(id, fav, index[id])
      /\ UNCHANGED <<files, index, refreshing, saved, program, setting, crossed, use>>
  BY DEF MarkFavorite, MayEdit
<1>2. id \in Ids /\ s \in SoundSet /\ (~use.web => wanted[id] = Chosen(s))
  BY <1>1, SoundOf
<1>3. fav \in BOOLEAN
  OBVIOUS
<1>4. data' = [data EXCEPT ![index[id]] = EditedData(@, id, v)]
  BY DEF MarkFavorite, EditedData, Sound
<1> HIDE DEF s, fav
<1>5. v \in SoundSet /\ v.file = s.file /\ v.fav = fav /\ v.custom = s.custom
  BY <1>2, <1>3 DEF SoundSet
<1> HIDE DEF v
<1>6. /\ wanted' \in [Ids -> ChoiceSet]
      /\ ~use.web => /\ \A j \in Ids \ {id} : wanted'[j] = wanted[j]
                     /\ wanted'[id] = [wanted[id] EXCEPT !.fav = fav]
  <2>1. wanted \in [Ids -> ChoiceSet] /\ wanted[id] \in ChoiceSet
    BY <1>2, DataFacts
  <2>2. [wanted[id] EXCEPT !.fav = fav] \in ChoiceSet
    BY <2>1, <1>3 DEF ChoiceSet
  <2>3. wanted' = IF use.web THEN wanted
                  ELSE [wanted EXCEPT ![id] = [wanted[id] EXCEPT !.fav = fav]]
    BY <1>1 DEF Wants
  <2> QED BY <2>1, <2>2, <2>3, <1>2
<1>7. ASSUME ~use.web
      PROVE  wanted'[id] = Chosen(v)
  <2>1. wanted'[id] = [Chosen(s) EXCEPT !.fav = fav]
    BY <1>7, <1>2, <1>6
  <2> QED BY <2>1, <1>5 DEF Chosen
<1>8. index[id] \in Copies /\ DOMAIN favorites \subseteq Ids
      /\ \A i \in DOMAIN favorites : favorites[i] \in Copies
  BY <1>1, DataFacts
<1>9. /\ DOMAIN favorites' = IF fav THEN DOMAIN favorites \cup {id} ELSE DOMAIN favorites \ {id}
      /\ \A i \in DOMAIN favorites' : favorites'[i] \in Copies
  BY <1>1, <1>3, <1>8, MarkedAre
<1>10. ASSUME ~use.web
       PROVE  DOMAIN favorites' = {i \in DOMAIN index : data'[index[i]].sound[i].fav}
  <2>1. /\ index[id] \in Copies /\ \A i \in DOMAIN index : index[i] \in Copies
        /\ \A i \in DOMAIN index : i \in IdsOf(data[index[i]])
    <3>1. \A i \in DOMAIN index : index[i] = "gData"
      BY <1>10, <1>1, DataFacts
    <3> QED BY <3>1, <1>1, <1>10, DataFacts DEF Gdata, Copies
  <2>2. /\ \A c \in Copies : \A j \in IdsOf(data[c]) : (j # id \/ c # index[id]) =>
                               data'[c].sound[j] = data[c].sound[j]
        /\ data'[index[id]].sound[id] = v
    BY <1>1, <1>4, <1>5, CopyEdited
  <2>3. DOMAIN favorites = {i \in DOMAIN index : data[index[i]].sound[i].fav}
    BY <1>10 DEF DataInv, LibraryInv, MapsAgree, Sound
  <2>4. \A i \in DOMAIN index \ {id} :
          data'[index[i]].sound[i].fav = data[index[i]].sound[i].fav
    BY <2>1, <2>2
  <2>5. data'[index[id]].sound[id].fav = fav
    BY <2>2, <1>5
  <2> HIDE DEF fav
  <2>6. CASE fav
    BY <2>3, <2>4, <2>5, <2>6, <1>1, <1>9
  <2>7. CASE ~fav
    BY <2>3, <2>4, <2>5, <2>7, <1>1, <1>9
  <2> QED BY <2>6, <2>7
<1>11. DOMAIN favorites' \subseteq Ids
  BY <1>2, <1>8, <1>9
<1>12. v.file = Sound(id).file
  BY <1>5 DEF s
<1> QED BY <1>1, <1>4, <1>5, <1>6, <1>7, <1>9, <1>10, <1>11, <1>12, EditKeeps

\* An edit through a stale entry changes at most one star of gConfig's copy.
LEMMA DataMarkStale ==
  ASSUME DataInv, NEW id, MarkStale(id), UNCHANGED use
  PROVE  DataInv' /\ FilesKept
<1>1. /\ MayEdit(id) /\ program = "running" /\ id \in DOMAIN index /\ setting.at = "copied"
      /\ UNCHANGED <<files, index, refreshing, saved, program, setting, crossed, wanted, use>>
  BY DEF MarkStale, MayEdit, Stale
<1>2. PICK fav \in BOOLEAN :
        /\ \/ \E j \in IdsOf(data["gConfig"]) : data' = [data EXCEPT !["gConfig"].sound[j].fav = fav]
           \/ data' = data
        /\ Marks(id, fav, "gConfig")
  BY DEF MarkStale
<1>3. use.web
  BY <1>1, SavingFacts, NoSaveFields DEF NoSaveIs
<1>4. /\ Gdata' = Gdata /\ DOMAIN data' = Copies /\ IdsOf(data'["gConfig"]) = IdsOf(data["gConfig"])
      /\ DataOK(data'["gConfig"]) /\ Numbered(data'["gConfig"])
  <2>1. CASE data' = data
    BY <2>1, DataFacts DEF Gdata
  <2>2. ASSUME NEW j \in IdsOf(data["gConfig"]),
               data' = [data EXCEPT !["gConfig"].sound[j].fav = fav]
        PROVE  /\ Gdata' = Gdata /\ DOMAIN data' = Copies
               /\ IdsOf(data'["gConfig"]) = IdsOf(data["gConfig"])
               /\ DataOK(data'["gConfig"]) /\ Numbered(data'["gConfig"])
    <3> DEFINE d == data["gConfig"]
               v == [d.sound[j] EXCEPT !.fav = fav]
    <3>1. data' = [data EXCEPT !["gConfig"] = EditedData(d, j, v)]
      BY <2>2 DEF EditedData
    <3>2. d.sound[j] \in SoundSet
      BY <2>2, DataFacts, DataParts
    <3>3. v \in SoundSet
      BY <3>2 DEF SoundSet
    <3>4. DataOK(d) /\ Numbered(d) /\ j \in IdsOf(d) /\ DOMAIN data = Copies
      BY <2>2, DataFacts
    <3>6. d = data["gConfig"]
      OBVIOUS
    <3> HIDE DEF v, d
    <3>5. /\ DataOK(EditedData(d, j, v)) /\ Numbered(EditedData(d, j, v))
          /\ IdsOf(EditedData(d, j, v)) = IdsOf(d)
      BY <3>3, <3>4, SoundEdited
    <3> QED BY <3>1, <3>4, <3>5, <3>6 DEF Gdata, Copies
  <2> QED BY <1>2, <2>1, <2>2
<1>5. /\ DOMAIN favorites' \subseteq Ids /\ \A i \in DOMAIN favorites' : favorites'[i] \in Copies
  <2>1. id \in Ids /\ DOMAIN favorites \subseteq Ids
        /\ \A i \in DOMAIN favorites : favorites[i] \in Copies
    BY <1>1, DataFacts
  <2>2. /\ DOMAIN favorites' = IF fav THEN DOMAIN favorites \cup {id} ELSE DOMAIN favorites \ {id}
        /\ \A i \in DOMAIN favorites' : favorites'[i] \in Copies
    <3>1. "gConfig" \in Copies
      BY DEF Copies
    <3> QED BY <3>1, <2>1, <1>2, MarkedAre
  <2> QED BY <2>1, <2>2
<1>6. LibraryTypeOK' /\ AllNumbered'
  BY <1>1, <1>4, <1>5, DataFacts DEF LibraryTypeOK, AllNumbered, Gdata, DataInv, LibraryInv
<1>7. SavingOK'
  <2>1. Awaited' = Awaited
    BY <1>1, <1>4 DEF Awaited
  <2> QED BY <2>1, <1>1, <1>4, SavingFacts DEF SavingOK
<1>8. MapsAgree'
  <2>1. \A i \in DOMAIN index' : i \in IdsOf(data'[index'[i]]) \/ Stale(i)'
    BY <1>1, <1>4, DataFacts DEF Stale, Gdata, Copies
  <2> QED BY <2>1, <1>1, <1>3, <1>7, MapsFrom
<1>9. RefreshOK' /\ ClosedOK' /\ WantedOK' /\ DeskOK'
  BY <1>1, <1>3, <1>4 DEF DataInv, RefreshOK, ClosedOK, WantedOK, DeskOK
<1>10. FilesKept
  BY <1>4 DEF FilesKept
<1> QED BY <1>6, <1>7, <1>8, <1>9, <1>10 DEF DataInv, LibraryInv

\* What a step of a web request's save leaves of the invariant when gData is as it was.
LEMMA AfterLoginStep ==
  ASSUME DataInv, use.web, program = "running",
         UNCHANGED <<files, refreshing, program, wanted, use>>,
         Gdata' = Gdata, DOMAIN data' = Copies,
         DataOK(data'["gConfig"]), Numbered(data'["gConfig"]),
         DataOK(saved'), Numbered(saved'),
         DOMAIN index' \subseteq Ids, \A i \in DOMAIN index' : index'[i] \in Copies,
         DOMAIN favorites' \subseteq Ids, \A i \in DOMAIN favorites' : favorites'[i] \in Copies,
         setting' \in [at : {"none", "copied", "cleared", "filling"}, left : SUBSET Ids,
                       favorite : 0..MaxId],
         crossed' \subseteq Ids,
         setting'.at = "none" <=> setting' = NoSave,
         setting'.left \subseteq IdsOf(data'["gConfig"]),
         \A i \in Ids \ crossed' : i \in Awaited' <=> i \in IdsOf(Gdata),
         \A i \in DOMAIN index' : i \in IdsOf(data'[index'[i]]) \/ Stale(i)'
  PROVE  DataInv' /\ FilesKept
<1>1. LibraryTypeOK' /\ AllNumbered'
  BY DataFacts DEF LibraryTypeOK, AllNumbered, Gdata
<1>2. SavingOK'
  BY DEF SavingOK
<1>3. MapsAgree'
  BY <1>2, MapsFrom
<1>4. RefreshOK' /\ ClosedOK' /\ WantedOK' /\ DeskOK'
  BY DEF DataInv, RefreshOK, ClosedOK, WantedOK, DeskOK
<1>5. FilesKept
  BY DEF FilesKept
<1> QED BY <1>1, <1>2, <1>3, <1>4, <1>5 DEF DataInv, LibraryInv

LEMMA DataCopyTabs ==
  ASSUME DataInv, CopyTabs, UNCHANGED use
  PROVE  DataInv' /\ FilesKept
<1> DEFINE d == Gdata
<1>1. /\ use.web /\ program = "running" /\ data' = [data EXCEPT !["gConfig"] = d]
      /\ setting' = [at |-> "copied", left |-> {}, favorite |-> 0] /\ crossed' = {}
      /\ UNCHANGED <<files, index, favorites, refreshing, saved, program, wanted, use>>
  BY DEF CopyTabs, SetData, Gdata
<1>2. /\ Gdata' = d /\ data'["gConfig"] = d /\ DOMAIN data' = Copies /\ d = Gdata
  BY <1>1, DataFacts DEF Gdata, Copies
<1> HIDE DEF d
<1>3. /\ setting' \in [at : {"none", "copied", "cleared", "filling"}, left : SUBSET Ids,
                       favorite : 0..MaxId]
      /\ setting'.at = "copied" /\ setting'.left = {} /\ setting' # NoSave
  BY <1>1, BoundAssumption DEF NoSave
<1>4. \A i \in Ids \ crossed' : i \in Awaited' <=> i \in IdsOf(Gdata)
  BY <1>2, <1>3 DEF Awaited
<1>5. \A i \in DOMAIN index' : i \in IdsOf(data'[index'[i]]) \/ Stale(i)'
  <2> SUFFICES ASSUME NEW i \in DOMAIN index
               PROVE  i \in IdsOf(data'[index[i]]) \/ (setting'.at = "copied" /\ index[i] = "gConfig")
    BY <1>1 DEF Stale
  <2>1. index[i] \in Copies /\ (i \in IdsOf(data[index[i]]) \/ Stale(i))
    BY DataFacts
  <2> QED BY <2>1, <1>2, <1>3 DEF Stale, Copies, Gdata
<1> QED BY <1>1, <1>2, <1>3, <1>4, <1>5, DataFacts, AfterLoginStep

LEMMA DataClearSounds ==
  ASSUME DataInv, ClearSounds, UNCHANGED use
  PROVE  DataInv' /\ FilesKept
<1> DEFINE all == IdsOf(data["gConfig"])
<1>1. /\ setting.at = "copied" /\ index' = Nothing
      /\ setting' = [at |-> "cleared", left |-> all, favorite |-> 0]
      /\ UNCHANGED <<files, data, favorites, refreshing, saved, program, crossed, wanted, use>>
  BY DEF ClearSounds
<1>2. use.web /\ program = "running" /\ setting # NoSave
  BY <1>1, SavingFacts, NoSaveFields DEF NoSaveIs
<1>3. Gdata' = Gdata /\ data'["gConfig"] = data["gConfig"] /\ DOMAIN index' = {}
  BY <1>1 DEF Gdata, Nothing
<1>4. all \subseteq Ids
  BY DataFacts
<1>5. Awaited = all
  BY <1>1 DEF Awaited
<1>6. IdsOf(data'["gConfig"]) = all
  BY <1>3
<1> HIDE DEF all
<1>7. /\ setting' \in [at : {"none", "copied", "cleared", "filling"}, left : SUBSET Ids,
                       favorite : 0..MaxId]
      /\ setting'.at = "cleared" /\ setting'.left = all /\ setting' # NoSave
  BY <1>1, <1>4, BoundAssumption DEF NoSave
<1>8. \A i \in Ids \ crossed' : i \in Awaited' <=> i \in IdsOf(Gdata)
  <2>1. Awaited' = all
    BY <1>3, <1>7 DEF Awaited
  <2> QED BY <2>1, <1>1, <1>5, SavingFacts
<1> QED BY <1>1, <1>2, <1>3, <1>6, <1>7, <1>8, DataFacts, AfterLoginStep

\* A step that leaves gSounds and the sounds still to enter as they were.
LEMMA DataClearFavorites ==
  ASSUME DataInv, ClearFavorites, UNCHANGED use
  PROVE  DataInv' /\ FilesKept
<1>1. /\ setting.at = "cleared" /\ favorites' = Nothing
      /\ setting' = [setting EXCEPT !.at = "filling"]
      /\ UNCHANGED <<files, data, index, refreshing, saved, program, crossed, wanted, use>>
  BY DEF ClearFavorites
<1>2. use.web /\ program = "running"
  BY <1>1, SavingFacts, NoSaveFields DEF NoSaveIs
<1>3. /\ setting' \in [at : {"none", "copied", "cleared", "filling"}, left : SUBSET Ids,
                       favorite : 0..MaxId]
      /\ setting'.at = "filling" /\ setting'.left = setting.left
  BY <1>1, SavingFacts
<1>4. setting' # NoSave
  BY <1>3, NoSaveFields DEF NoSaveIs
<1>5. Gdata' = Gdata /\ data'["gConfig"] = data["gConfig"] /\ DOMAIN favorites' = {}
  BY <1>1 DEF Gdata, Nothing
<1>6. \A i \in Ids \ crossed' : i \in Awaited' <=> i \in IdsOf(Gdata)
  <2>1. Awaited' = Awaited
    BY <1>1, <1>3 DEF Awaited
  <2> QED BY <2>1, <1>1, SavingFacts
<1>7. \A i \in DOMAIN index' : i \in IdsOf(data'[index'[i]]) \/ Stale(i)'
  BY <1>1, DataFacts DEF Stale
<1> QED BY <1>1, <1>2, <1>3, <1>4, <1>5, <1>6, <1>7, SavingFacts, DataFacts, AfterLoginStep

LEMMA DataInsertSound ==
  ASSUME DataInv, NEW id \in Ids, InsertSound(id), UNCHANGED use
  PROVE  DataInv' /\ FilesKept
<1>1. /\ setting.at = "filling" /\ id \in setting.left
      /\ index' = Refers(index, {id}, "gConfig")
      /\ setting' = [at |-> "filling", left |-> setting.left \ {id}, favorite |-> id]
      /\ UNCHANGED <<files, data, favorites, refreshing, saved, program, crossed, wanted, use>>
  BY DEF InsertSound
<1>2. /\ use.web /\ program = "running" /\ setting.left \subseteq IdsOf(data["gConfig"])
      /\ setting.left \in SUBSET Ids
  BY <1>1, SavingFacts, NoSaveFields DEF NoSaveIs
<1>3. /\ setting' \in [at : {"none", "copied", "cleared", "filling"}, left : SUBSET Ids,
                       favorite : 0..MaxId]
      /\ setting'.at = "filling" /\ setting'.left = setting.left \ {id}
  BY <1>1, <1>2 DEF Ids
<1>4. setting' # NoSave
  BY <1>3, NoSaveFields DEF NoSaveIs
<1>5. Gdata' = Gdata /\ data'["gConfig"] = data["gConfig"]
  BY <1>1 DEF Gdata
<1>6. /\ DOMAIN index' = DOMAIN index \cup {id}
      /\ \A i \in DOMAIN index' : index'[i] = IF i \in DOMAIN index THEN index[i] ELSE "gConfig"
  BY <1>1 DEF Refers
<1>7. \A i \in Ids \ crossed' : i \in Awaited' <=> i \in IdsOf(Gdata)
  <2>1. Awaited' = Awaited
    BY <1>1, <1>3, <1>6 DEF Awaited
  <2> QED BY <2>1, <1>1, SavingFacts
<1>8. \A i \in DOMAIN index' : index'[i] \in Copies /\ (i \in IdsOf(data'[index'[i]]) \/ Stale(i)')
  <2> TAKE i \in DOMAIN index'
  <2>1. CASE i \in DOMAIN index
    BY <2>1, <1>1, <1>6, DataFacts DEF Stale
  <2>2. CASE i \notin DOMAIN index
    BY <2>2, <1>1, <1>2, <1>6 DEF Copies
  <2> QED BY <2>1, <2>2
<1>9. DOMAIN index' \subseteq Ids
  BY <1>6, DataFacts
<1> QED BY <1>1, <1>2, <1>3, <1>4, <1>5, <1>7, <1>8, <1>9, DataFacts, AfterLoginStep

LEMMA DataInsertFavorite ==
  ASSUME DataInv, InsertFavorite, UNCHANGED use
  PROVE  DataInv' /\ FilesKept
<1> DEFINE fs == FavoriteIds(data["gConfig"], {setting.favorite})
<1>1. /\ setting.favorite # 0 /\ favorites' = Refers(favorites, fs, "gConfig")
      /\ setting' = [setting EXCEPT !.favorite = 0]
      /\ UNCHANGED <<files, data, index, refreshing, saved, program, crossed, wanted, use>>
  BY DEF InsertFavorite
<1>2. use.web /\ program = "running" /\ setting.at # "none" /\ setting.favorite \in Ids
  <2>1. setting # NoSave /\ setting.favorite \in 0..MaxId
    BY <1>1, SavingFacts, NoSaveFields DEF NoSaveIs
  <2> QED BY <2>1, <1>1, SavingFacts, BoundAssumption DEF Ids
<1>3. fs \subseteq Ids
  BY <1>2 DEF FavoriteIds
<1> HIDE DEF fs
<1>4. /\ setting' \in [at : {"none", "copied", "cleared", "filling"}, left : SUBSET Ids,
                       favorite : 0..MaxId]
      /\ setting'.at = setting.at /\ setting'.left = setting.left
  BY <1>1, SavingFacts, BoundAssumption
<1>5. setting' # NoSave
  BY <1>2, <1>4, NoSaveFields DEF NoSaveIs
<1>6. Gdata' = Gdata /\ data'["gConfig"] = data["gConfig"]
  BY <1>1 DEF Gdata
<1>7. DOMAIN favorites' \subseteq Ids /\ \A i \in DOMAIN favorites' : favorites'[i] \in Copies
  BY <1>1, <1>3, DataFacts DEF Refers, Copies
<1>8. \A i \in Ids \ crossed' : i \in Awaited' <=> i \in IdsOf(Gdata)
  <2>1. Awaited' = Awaited
    BY <1>1, <1>4 DEF Awaited
  <2> QED BY <2>1, <1>1, SavingFacts
<1>9. \A i \in DOMAIN index' : i \in IdsOf(data'[index'[i]]) \/ Stale(i)'
  BY <1>1, <1>4, DataFacts DEF Stale
<1> QED BY <1>1, <1>2, <1>4, <1>5, <1>6, <1>7, <1>8, <1>9, SavingFacts, DataFacts, AfterLoginStep

LEMMA DataWriteConfig ==
  ASSUME DataInv, WriteConfig, UNCHANGED use
  PROVE  DataInv' /\ FilesKept
<1>1. /\ setting.at = "filling" /\ setting.left = {}
      /\ saved' = data["gConfig"] /\ setting' = NoSave
      /\ UNCHANGED <<files, data, index, favorites, refreshing, program, crossed, wanted, use>>
  BY DEF WriteConfig
<1>2. use.web /\ program = "running"
  BY <1>1, SavingFacts, NoSaveFields DEF NoSaveIs
<1>3. /\ setting' \in [at : {"none", "copied", "cleared", "filling"}, left : SUBSET Ids,
                       favorite : 0..MaxId]
      /\ setting'.at = "none" /\ setting'.left = {}
  BY <1>1, BoundAssumption DEF NoSave
<1>4. Gdata' = Gdata /\ data'["gConfig"] = data["gConfig"]
  BY <1>1 DEF Gdata
<1>5. \A i \in Ids \ crossed' : i \in Awaited' <=> i \in IdsOf(Gdata)
  <2>1. Awaited' = Awaited
    BY <1>1, <1>3 DEF Awaited
  <2> QED BY <2>1, <1>1, SavingFacts
<1>6. \A i \in DOMAIN index' : i \in IdsOf(data'[index'[i]]) \/ Stale(i)'
  BY <1>1, DataFacts DEF Stale
<1> QED BY <1>1, <1>2, <1>3, <1>4, <1>5, <1>6, DataFacts, AfterLoginStep

LEMMA DataLoginSave ==
  ASSUME DataInv, LoginSave, UNCHANGED use
  PROVE  DataInv' /\ FilesKept
BY DataCopyTabs, DataClearSounds, DataClearFavorites, DataInsertSound, DataInsertFavorite,
   DataWriteConfig DEF LoginSave

\* The maps are rebuilt from one copy, which is gData's.
LEMMA AfterRebuild ==
  ASSUME DataInv, NEW c \in Copies, NEW d, Rebuilds(c, d), DataOK(d),
         Gdata' = d, data'[c] = d, DOMAIN data' = Copies, DataOK(data'["gConfig"]),
         DataOK(saved'), setting' = NoSave, crossed' \subseteq Ids, ~use.web => crossed' = {},
         UNCHANGED <<files, wanted, use>>, program' \in {"running", "closed"}
  PROVE  /\ LibraryTypeOK' /\ MapsAgree' /\ SavingOK'
         /\ \A i \in DOMAIN index' : index'[i] = c
<1>1. /\ DOMAIN index' = IdsOf(d) /\ \A i \in DOMAIN index' : index'[i] = c
      /\ DOMAIN favorites' = {i \in IdsOf(d) : d.sound[i].fav}
      /\ \A i \in DOMAIN favorites' : favorites'[i] = c
  BY DEF Rebuilds, Refers, Nothing, FavoriteIds
<1>2. IdsOf(d) \subseteq Ids
  BY DataParts
<1>3. setting' \in [at : {"none", "copied", "cleared", "filling"}, left : SUBSET Ids,
                    favorite : 0..MaxId]
  BY BoundAssumption DEF NoSave
<1>4. LibraryTypeOK'
  <2>1. /\ DOMAIN index' \subseteq Ids /\ \A i \in DOMAIN index' : index'[i] \in Copies
        /\ DOMAIN favorites' \subseteq Ids /\ \A i \in DOMAIN favorites' : favorites'[i] \in Copies
    BY <1>1, <1>2
  <2> QED BY <2>1, <1>3, DataFacts DEF LibraryTypeOK, Gdata
<1>5. SavingOK'
  <2>1. Awaited' = IdsOf(d)
    BY <1>1, NoSaveFields DEF Awaited, NoSaveIs
  <2> QED BY <2>1, NoSaveFields DEF SavingOK, NoSaveIs
<1>6. MapsAgree'
  <2>1. \A i \in DOMAIN index' : data'[index'[i]] = d
    BY <1>1
  <2> QED BY <2>1, <1>1, <1>5, MapsFrom
<1> QED BY <1>1, <1>4, <1>5, <1>6

LEMMA DataClose ==
  ASSUME DataInv, Close, UNCHANGED use
  PROVE  DataInv' /\ FilesKept
<1> DEFINE d == Gdata
<1>1. /\ program = "running" /\ refreshing = <<>> /\ program' = "closed" /\ setting = NoSave
      /\ data' = [data EXCEPT !["gConfig"] = d] /\ Rebuilds("gConfig", d) /\ saved' = d
      /\ crossed' = {} /\ UNCHANGED <<files, refreshing, setting, wanted, use>>
  BY DEF Close, Gui, SetData, Gdata
<1>2. /\ Gdata' = d /\ data'["gConfig"] = d /\ DOMAIN data' = Copies /\ d = Gdata
      /\ DataOK(d) /\ Numbered(d)
  BY <1>1, DataFacts DEF Gdata, Copies
<1> HIDE DEF d
<1>3. LibraryTypeOK' /\ MapsAgree' /\ SavingOK'
  <2>1. "gConfig" \in Copies
    BY DEF Copies
  <2> QED BY <2>1, <1>1, <1>2, AfterRebuild
<1>4. AllNumbered'
  BY <1>1, <1>2 DEF AllNumbered
<1>5. RefreshOK' /\ WantedOK' /\ FilesKept /\ ClosedOK' /\ DeskOK'
  BY <1>1, <1>2 DEF DataInv, RefreshOK, WantedOK, FilesKept, ClosedOK, DeskOK
<1> QED BY <1>3, <1>4, <1>5 DEF DataInv, LibraryInv

LEMMA DataRestart ==
  ASSUME DataInv, Restart, UNCHANGED use
  PROVE  DataInv' /\ FilesKept
<1> DEFINE d == Gdata
<1>1. /\ program = "closed" /\ program' = "running"
      /\ data' = [c \in Copies |-> saved] /\ Rebuilds("gData", saved)
      /\ UNCHANGED <<files, refreshing, saved, setting, crossed, wanted, use>>
  BY DEF Restart, SetData
<1>2. saved = d /\ refreshing = <<>> /\ setting = NoSave
  BY <1>1, SavingFacts DEF DataInv, ClosedOK
<1>3. /\ Gdata' = d /\ data'["gConfig"] = d /\ DOMAIN data' = Copies /\ d = Gdata
      /\ DataOK(d) /\ Numbered(d) /\ crossed \subseteq Ids /\ (~use.web => crossed = {})
  BY <1>1, <1>2, DataFacts, SavingFacts DEF Gdata, Copies
<1> HIDE DEF d
<1>4. LibraryTypeOK' /\ MapsAgree' /\ SavingOK' /\ \A i \in DOMAIN index' : index'[i] = "gData"
  <2>1. "gData" \in Copies /\ data'["gData"] = d
    BY <1>3 DEF Copies, Gdata
  <2> QED BY <2>1, <1>1, <1>2, <1>3, AfterRebuild
<1>5. AllNumbered'
  BY <1>1, <1>2, <1>3 DEF AllNumbered
<1>6. RefreshOK' /\ WantedOK' /\ FilesKept /\ ClosedOK' /\ DeskOK'
  BY <1>1, <1>2, <1>3, <1>4
     DEF DataInv, RefreshOK, WantedOK, FilesKept, ClosedOK, DeskOK
<1> QED BY <1>4, <1>5, <1>6 DEF DataInv, LibraryInv

LEMMA DataFileChanges ==
  ASSUME DataInv, NEW file \in Folders \X Names, FileChanges(file), UNCHANGED use
  PROVE  DataInv' /\ FilesKept
<1>1. /\ files' \subseteq Folders \X Names
      /\ UNCHANGED <<data, index, favorites, refreshing, saved, program, setting, crossed, wanted, use>>
  BY DataFacts DEF FileChanges
<1>2. Gdata' = Gdata
  BY <1>1 DEF Gdata
<1>3. LibraryTypeOK' /\ MapsAgree' /\ SavingOK'
  BY <1>1, <1>2 DEF DataInv, LibraryInv, LibraryTypeOK, MapsAgree, Sound, Stale, SavingOK, Awaited
<1>4. AllNumbered' /\ RefreshOK' /\ ClosedOK' /\ WantedOK' /\ DeskOK'
  BY <1>1, <1>2 DEF DataInv, AllNumbered, RefreshOK, ClosedOK, WantedOK, DeskOK
<1>5. FilesKept
  BY <1>2 DEF FilesKept
<1> QED BY <1>3, <1>4, <1>5 DEF DataInv, LibraryInv

LEMMA DataStutters ==
  ASSUME DataInv, UNCHANGED <<libraryVars, use>>
  PROVE  DataInv'
<1>1. UNCHANGED <<files, data, index, favorites, refreshing, saved, program, setting, crossed, wanted,
                  use>>
  BY DEF libraryVars
<1>2. Gdata' = Gdata
  BY <1>1 DEF Gdata
<1>3. LibraryTypeOK' /\ MapsAgree' /\ SavingOK'
  BY <1>1, <1>2 DEF DataInv, LibraryInv, LibraryTypeOK, MapsAgree, Sound, Stale, SavingOK, Awaited
<1> QED BY <1>1, <1>2, <1>3
        DEF DataInv, LibraryInv, AllNumbered, RefreshOK, ClosedOK, WantedOK, DeskOK

LEMMA DataInit == LibraryInit => DataInv
<1> SUFFICES ASSUME LibraryInit
             PROVE  DataInv
  OBVIOUS
<1>1. /\ files \subseteq Folders \X Names
      /\ data = [c \in Copies |-> NoData]
      /\ index = Nothing /\ favorites = Nothing /\ refreshing = <<>> /\ saved = NoData
      /\ program = "running" /\ setting = NoSave /\ crossed = {}
      /\ wanted = [i \in Ids |-> Unset] /\ use \in Uses
  BY DEF LibraryInit
<1>2. NoData.tabs = <<>> /\ NoData.counter = 0 /\ NoData.sound = [i \in {} |-> NewSound(<<>>)]
  BY DEF NoData
<1>3. IdsOf(NoData) = {}
  BY <1>2 DEF IdsOf
<1>4. DataOK(NoData)
  <2>1. NoData \in [tabs : Seq([folder : Folders, ids : SUBSET Ids]),
                    sound : [{} -> SoundSet], counter : 0..MaxId]
    BY BoundAssumption DEF NoData
  <2>2. 1..Len(NoData.tabs) = {}
    BY <1>2
  <2> QED BY <1>3, <2>1, <2>2 DEF DataOK
<1>5. Gdata = NoData /\ data["gConfig"] = NoData /\ DOMAIN data = Copies
  BY <1>1 DEF Gdata, Copies
<1>6. DOMAIN index = {} /\ DOMAIN favorites = {}
  BY <1>1 DEF Nothing
<1>7. LibraryTypeOK
  <2>1. DataOK(data["gData"]) /\ DataOK(data["gConfig"]) /\ DataOK(saved)
    BY <1>1, <1>4, <1>5 DEF Gdata
  <2>2. wanted \in [Ids -> ChoiceSet]
    BY <1>1, UnsetIs
  <2>3. setting \in [at : {"none", "copied", "cleared", "filling"}, left : SUBSET Ids,
                     favorite : 0..MaxId]
    BY <1>1, BoundAssumption DEF NoSave
  <2> QED BY <2>1, <2>2, <2>3, <1>1, <1>5, <1>6 DEF LibraryTypeOK
<1>8. MapsAgree /\ SavingOK
  <2>1. Awaited = {}
    BY <1>1, <1>6, NoSaveFields DEF Awaited, NoSaveIs
  <2> QED BY <2>1, <1>1, <1>3, <1>5, <1>6, NoSaveFields DEF MapsAgree, SavingOK, NoSaveIs, Gdata
<1>9. AllNumbered /\ RefreshOK /\ ClosedOK /\ DeskOK
  BY <1>1, <1>3, <1>5, <1>6 DEF AllNumbered, Numbered, RefreshOK, ClosedOK, DeskOK
<1>10. WantedOK
  BY <1>1, <1>3, <1>5 DEF WantedOK
<1> QED BY <1>7, <1>8, <1>9, <1>10 DEF DataInv, LibraryInv

LEMMA DataStep ==
  ASSUME DataInv, LibraryNext
  PROVE  DataInv' /\ FilesKept
<1>1. UNCHANGED use
  BY DEF LibraryNext
<1>2. CASE TabOperation
  BY <1>1, <1>2, DataAddTab, DataRemoveTab, DataRefreshTab, DataMoveTab, DataSetTab DEF TabOperation
<1>3. CASE Edit
  BY <1>1, <1>3, DataSetCustom, DataMarkFavorite, DataMarkStale DEF Edit
<1>4. CASE LoginSave \/ Close \/ Restart
  BY <1>1, <1>4, DataLoginSave, DataClose, DataRestart
<1>5. CASE \E file \in Folders \X Names : FileChanges(file)
  BY <1>1, <1>5, DataFileChanges
<1> QED BY <1>2, <1>3, <1>4, <1>5 DEF LibraryNext

LEMMA DataInvHolds == LibrarySpec => []DataInv
<1>1. DataInv /\ [LibraryNext]_<<libraryVars, use>> => DataInv'
  BY DataStep, DataStutters
<1> QED BY <1>1, DataInit, PTL DEF LibrarySpec

\* The types, and the maps: outside a refresh and a save gSounds holds exactly the sounds
\* of the tabs but those that crossed a web request's save, and each lookup finds a sound
\* that is there; without logins gFavorites holds exactly the starred ones
\* (data.cpp:7-169).
THEOREM LookupsFind == LibrarySpec => []LibraryInv
<1>1. DataInv => LibraryInv
  BY DEF DataInv
<1> QED BY <1>1, DataInvHolds, PTL

\* What the program leaves in the config file is what the user last chose, whatever the
\* edits, refreshes and changes of the files in between, when nobody logs in.
THEOREM ChoicesAreSaved == LibrarySpec => []EditsSurviveAtDesk
<1>1. DataInv => EditsSurviveAtDesk
  BY DEF DataInv, EditsSurviveAtDesk, EditsSurvive, ClosedOK, WantedOK
<1> QED BY <1>1, DataInvHolds, PTL

\* An id names the same file for as long as it names a sound (ui.cpp:77-91).
THEOREM IdsKeepTheirFile == LibrarySpec => IdKeepsFile
<1>1. DataInv /\ [LibraryNext]_<<libraryVars, use>>
        => [\A i \in IdsOf(data["gData"]) \cap IdsOf(data["gData"])' :
              data'["gData"].sound[i].file = data["gData"].sound[i].file]_libraryVars
  <2> SUFFICES ASSUME DataInv, [LibraryNext]_<<libraryVars, use>>
               PROVE  [\A i \in IdsOf(data["gData"]) \cap IdsOf(data["gData"])' :
                         data'["gData"].sound[i].file = data["gData"].sound[i].file]_libraryVars
    OBVIOUS
  <2>1. CASE LibraryNext
    BY <2>1, DataStep DEF FilesKept, Gdata
  <2>2. CASE UNCHANGED <<libraryVars, use>>
    BY <2>2
  <2> QED BY <2>1, <2>2
<1> QED BY <1>1, DataInvHolds, PTL DEF LibrarySpec, IdKeepsFile

-------------------------------------------------------------------------------
(* The page.  An id is given to one sound for good: of says to which.      *)

\* What is told of ids, as it was when they were given.
Agrees(map, of) == \A id \in DOMAIN map : id \in DOMAIN of /\ of[id] = map[id]

\* A request whose answer tells nothing wrong of ids.
Believable(r, of) ==
  r.state = "handled" =>
    IF r.kind = "poll" THEN Agrees(r.answer.playing, of)
    ELSE r.kind \in Sounds /\ r.answer # 0 => r.answer \in DOMAIN of /\ of[r.answer] = r.kind

\* ShownIsTracked of a page.
Shown(p) ==
  /\ \A s \in DOMAIN p.current : p.current[s] \in DOMAIN p.tracked /\ p.tracked[p.current[s]] = s
  /\ DOMAIN p.tracked = {} => ~p.unpaused

\* A page that agrees with the ids given.
Right(p, of) == p \in Pages /\ Agrees(p.tracked, of) /\ Shown(p)

PlayerRight(pl, of) ==
  /\ pl \in [playing : Maps(PlayIds, Sounds), last : 0..case.ids, talk : BOOLEAN]
  /\ of \in [1..pl.last -> Sounds] /\ Agrees(pl.playing, of)

RequestsRight(n, of) ==
  n \in [Slots -> Requests \cup {NoRequest}] /\ \A k \in Slots : Believable(n[k], of)

PageRight(of) ==
  /\ case \in Cases /\ PlayerRight(player, of) /\ RequestsRight(net, of) /\ Right(remote, of)
  /\ finger \in BOOLEAN /\ up \in BOOLEAN

\* The inductive invariant.
PageWholeInv == \E of \in [1..player.last -> Sounds] : PageRight(of)

LEMMA MapsAre ==
  ASSUME NEW D, NEW R, NEW f
  PROVE  f \in Maps(D, R) <=> f = [x \in DOMAIN f |-> f[x]] /\ DOMAIN f \subseteq D
                              /\ \A x \in DOMAIN f : f[x] \in R
<1>1. ASSUME f \in Maps(D, R)
      PROVE  f = [x \in DOMAIN f |-> f[x]] /\ DOMAIN f \subseteq D /\ \A x \in DOMAIN f : f[x] \in R
  <2>1. PICK S \in SUBSET D : f \in [S -> R]
    BY <1>1 DEF Maps
  <2> QED BY <2>1
<1>2. ASSUME f = [x \in DOMAIN f |-> f[x]], DOMAIN f \subseteq D, \A x \in DOMAIN f : f[x] \in R
      PROVE  f \in Maps(D, R)
  <2>1. f \in [DOMAIN f -> R]
    BY <1>2
  <2> QED BY <2>1, <1>2 DEF Maps
<1> QED BY <1>1, <1>2

LEMMA EmptyIs == DOMAIN Empty = {} /\ \A D, R : Empty \in Maps(D, R)
<1>1. DOMAIN Empty = {}
  BY DEF Empty
<1>2. ASSUME NEW D, NEW R PROVE Empty \in Maps(D, R)
  <2>1. Empty \in [{} -> R] /\ {} \in SUBSET D
    BY DEF Empty
  <2> QED BY <2>1 DEF Maps
<1> QED BY <1>1, <1>2

LEMMA WithoutIs ==
  ASSUME NEW f, NEW keys
  PROVE  /\ DOMAIN Without(f, keys) = DOMAIN f \ keys
         /\ \A x \in DOMAIN f \ keys : Without(f, keys)[x] = f[x]
BY DEF Without

LEMMA WithoutTyped ==
  ASSUME NEW D, NEW R, NEW f \in Maps(D, R), NEW keys
  PROVE  Without(f, keys) \in Maps(D, R)
<1>1. DOMAIN f \subseteq D /\ \A x \in DOMAIN f : f[x] \in R
  BY MapsAre
<1>2. Without(f, keys) \in [DOMAIN f \ keys -> R] /\ DOMAIN f \ keys \in SUBSET D
  BY <1>1 DEF Without
<1> QED BY <1>2 DEF Maps

LEMMA WithTyped ==
  ASSUME NEW D, NEW R, NEW f \in Maps(D, R), NEW x \in D, NEW v \in R
  PROVE  With(f, x, v) \in Maps(D, R)
<1>1. DOMAIN f \subseteq D /\ \A y \in DOMAIN f : f[y] \in R
  BY MapsAre
<1>2. With(f, x, v) \in [DOMAIN f \cup {x} -> R] /\ DOMAIN f \cup {x} \in SUBSET D
  BY <1>1 DEF With
<1> QED BY <1>2 DEF Maps

LEMMA LeastPlay ==
  ASSUME NEW S \in SUBSET Nat, S # {}
  PROVE  Min(S) \in S
<1> DEFINE R == OpToRel(<, Nat)
<1>1. IsWellFoundedOn(R, Nat)
  BY NatLessThanWellFounded
<1>2. \A x, y \in Nat : x < y => <<x, y>> \in R
  BY DEF OpToRel
<1> HIDE DEF R
<1>3. PICK x \in S : \A y \in S : ~(<<y, x>> \in R)
  BY <1>1, WFMin
<1>4. ASSUME NEW y \in S PROVE x <= y
  <2>1. ~(y < x) /\ x \in Nat /\ y \in Nat
    BY <1>2, <1>3
  <2> QED BY <2>1
<1> QED BY <1>4 DEF Min

LEMMA AllFinishedRight ==
  ASSUME NEW p, NEW of, Right(p, of)
  PROVE  /\ Right(AllFinished(p), of) /\ AllFinished(p).tracked = p.tracked
         /\ AllFinished(p).current = p.current
BY DEF Right, AllFinished, Pages, Shown

LEMMA StopPollingRight ==
  ASSUME NEW p, NEW of, Right(p, of)
  PROVE  /\ Right(StopPolling(p), of) /\ StopPolling(p).tracked = p.tracked
         /\ StopPolling(p).current = p.current
<1> DEFINE q == [p EXCEPT !.polling = FALSE]
<1>1. Right(q, of) /\ q.tracked = p.tracked /\ q.current = p.current
  BY DEF Right, Pages, Shown
<1>2. StopPolling(p) \in {p, AllFinished(q)}
  BY DEF StopPolling
<1> HIDE DEF q
<1> QED BY <1>1, <1>2, AllFinishedRight

\* A page that tracks nothing, and is not told yet that all is finished.
LEMMA ClearedRight ==
  ASSUME NEW p \in Pages, NEW of
  PROVE  /\ Cleared(p) \in Pages /\ DOMAIN Cleared(p).tracked = {} /\ DOMAIN Cleared(p).current = {}
         /\ Cleared(p).unpaused = p.unpaused
<1>1. Empty \in Maps(PlayIds, Sounds) /\ Empty \in Maps(Sounds, PlayIds) /\ DOMAIN Empty = {}
  BY EmptyIs
<1> QED BY <1>1 DEF Cleared, Pages

\* Whatever a page without sounds was told, it is right once all is finished.
LEMMA NothingLeftRight ==
  ASSUME NEW p \in Pages, NEW of, DOMAIN p.tracked = {}, DOMAIN p.current = {}
  PROVE  Right(AllFinished(p), of)
BY DEF Right, AllFinished, Pages, Shown, Agrees

LEMMA StoppedRight ==
  ASSUME NEW p \in Pages, NEW of
  PROVE  Right(Stopped(p), of)
<1> DEFINE q == Cleared(p)
<1>1. q \in Pages /\ DOMAIN q.tracked = {} /\ DOMAIN q.current = {}
  BY ClearedRight
<1> HIDE DEF q
<1> DEFINE r == [q EXCEPT !.polling = FALSE]
<1>2. r \in Pages /\ DOMAIN r.tracked = {} /\ DOMAIN r.current = {}
  BY <1>1 DEF Pages
<1> HIDE DEF r
<1>3. StopPolling(q) = q \/ StopPolling(q) = AllFinished(r)
  BY DEF StopPolling, r
<1>4. Right(AllFinished(q), of) /\ Right(AllFinished(r), of)
  BY <1>1, <1>2, NothingLeftRight
<1>5. Right(AllFinished(AllFinished(r)), of)
  BY <1>4, AllFinishedRight
<1> QED BY <1>3, <1>4, <1>5 DEF Stopped, q

LEMMA NotPlayedRight ==
  ASSUME NEW p, NEW of, Right(p, of), NEW s
  PROVE  Right(NotPlayed(p, s), of)
<1> DEFINE c == Without(p.current, {s})
<1>1. p.current \in Maps(Sounds, PlayIds)
  BY DEF Right, Pages
<1>2. /\ DOMAIN c = DOMAIN p.current \ {s}
      /\ \A x \in DOMAIN p.current \ {s} : c[x] = p.current[x]
  BY WithoutIs
<1>4. c \in Maps(Sounds, PlayIds)
  BY <1>1, WithoutTyped
<1> HIDE DEF c
<1>3. NotPlayed(p, s) = [p EXCEPT !.current = c]
  BY DEF NotPlayed, c
<1> QED BY <1>2, <1>3, <1>4 DEF Right, Pages, Shown

LEMMA PlayedRight ==
  ASSUME NEW p, NEW of, Right(p, of), NEW s \in Sounds, NEW id \in PlayIds,
         id \in DOMAIN of, of[id] = s
  PROVE  Right(Polls(Played(p, s, id)), of)
<1> DEFINE c == With(p.current, s, id)
           t == With(p.tracked, id, s)
<1>1. p.current \in Maps(Sounds, PlayIds) /\ p.tracked \in Maps(PlayIds, Sounds)
  BY DEF Right, Pages
<1>2. /\ DOMAIN c = DOMAIN p.current \cup {s} /\ c[s] = id
      /\ \A x \in DOMAIN p.current \ {s} : c[x] = p.current[x]
  BY DEF With
<1>3. /\ DOMAIN t = DOMAIN p.tracked \cup {id} /\ t[id] = s
      /\ \A x \in DOMAIN p.tracked \ {id} : t[x] = p.tracked[x]
  BY DEF With
<1>11. c \in Maps(Sounds, PlayIds) /\ t \in Maps(PlayIds, Sounds)
  BY <1>1, WithTyped
<1> HIDE DEF c, t
<1>4. Played(p, s, id) = [p EXCEPT !.current = c, !.tracked = t]
  BY DEF Played, c, t
<1> DEFINE q == [p EXCEPT !.current = c, !.tracked = t]
<1>5. q \in Pages /\ q.current = c /\ q.tracked = t
  BY <1>11 DEF Right, Pages
<1> HIDE DEF q
<1>6. Agrees(t, of)
  BY <1>3 DEF Right, Agrees
<1>7. ASSUME NEW x \in DOMAIN c PROVE c[x] \in DOMAIN t /\ t[c[x]] = x
  <2>1. CASE x = s
    BY <2>1, <1>2, <1>3
  <2>2. CASE x # s
    <3>1. x \in DOMAIN p.current /\ c[x] = p.current[x]
      BY <2>2, <1>2
    <3>2. c[x] \in DOMAIN p.tracked /\ p.tracked[c[x]] = x
      BY <3>1 DEF Right, Shown
    <3>3. c[x] # id
      BY <3>2, <2>2 DEF Right, Agrees
    <3> QED BY <3>2, <3>3, <1>3
  <2> QED BY <2>1, <2>2
<1>8. Right(q, of)
  BY <1>3, <1>5, <1>6, <1>7 DEF Right, Shown
<1>9. 0 \in 0..MaxErrors
  BY PageAssumption
<1>10. Right(Polls(q), of)
  BY <1>8, <1>9 DEF Right, Shown, Polls, Pages
<1> QED BY <1>4, <1>10 DEF q

\* What is heard of: ids that the report names, under their sounds.
LEMMA HeardRight ==
  ASSUME NEW p, NEW of, Right(p, of), NEW playing \in Maps(PlayIds, Sounds), Agrees(playing, of)
  PROVE  Right(Heard(p, playing), of)
<1> DEFINE new == DOMAIN playing \ DOMAIN p.tracked
           named == {playing[id] : id \in new} \ DOMAIN p.current
           First(s) == Min({id \in new : playing[id] = s})
           t == [id \in DOMAIN p.tracked \cup new |-> IF id \in new THEN playing[id] ELSE p.tracked[id]]
           c == [s \in DOMAIN p.current \cup named |-> IF s \in named THEN First(s) ELSE p.current[s]]
<1>1. Heard(p, playing) = [p EXCEPT !.tracked = t, !.current = c]
  BY DEF Heard
<1>2. /\ p.current \in Maps(Sounds, PlayIds) /\ DOMAIN p.current \subseteq Sounds
      /\ \A s \in DOMAIN p.current : p.current[s] \in PlayIds
      /\ p.tracked \in Maps(PlayIds, Sounds) /\ DOMAIN p.tracked \subseteq PlayIds
      /\ \A id \in DOMAIN p.tracked : p.tracked[id] \in Sounds
      /\ DOMAIN playing \subseteq PlayIds
      /\ \A id \in DOMAIN playing : playing[id] \in Sounds
  BY MapsAre DEF Right, Pages
<1>3. PlayIds \subseteq Nat
  BY PageAssumption DEF PlayIds
<1>4. ASSUME NEW s \in named PROVE First(s) \in new /\ playing[First(s)] = s
  <2> DEFINE S == {id \in new : playing[id] = s}
  <2>1. S \in SUBSET Nat /\ S # {}
    BY <1>2, <1>3
  <2> HIDE DEF S
  <2>2. Min(S) \in S
    BY <2>1, LeastPlay
  <2> QED BY <2>2 DEF S
<1>5. /\ DOMAIN t = DOMAIN p.tracked \cup DOMAIN playing
      /\ t \in Maps(PlayIds, Sounds) /\ Agrees(t, of)
  <2>1. DOMAIN t = DOMAIN p.tracked \cup DOMAIN playing
    OBVIOUS
  <2>2. t \in [DOMAIN p.tracked \cup new -> Sounds] /\ DOMAIN p.tracked \cup new \in SUBSET PlayIds
    BY <1>2
  <2>3. t \in Maps(PlayIds, Sounds)
    BY <2>2 DEF Maps
  <2>4. Agrees(t, of)
    BY DEF Agrees, Right
  <2> QED BY <2>1, <2>3, <2>4
<1>6. c \in Maps(Sounds, PlayIds)
  <2> HIDE DEF First
  <2>1. c \in [DOMAIN p.current \cup named -> PlayIds] /\ DOMAIN p.current \cup named \in SUBSET Sounds
    BY <1>2, <1>4
  <2> QED BY <2>1 DEF Maps
<1>7. ASSUME NEW s \in DOMAIN c PROVE c[s] \in DOMAIN t /\ t[c[s]] = s
  <2> HIDE DEF First
  <2>1. CASE s \in named
    BY <2>1, <1>4
  <2>2. CASE s \notin named
    <3>1. c[s] = p.current[s] /\ s \in DOMAIN p.current
      BY <2>2
    <3>2. c[s] \in DOMAIN p.tracked /\ p.tracked[c[s]] = s
      BY <3>1 DEF Right, Shown
    <3> QED BY <3>2
  <2> QED BY <2>1, <2>2
<1> HIDE DEF t, c
<1>8. PICK tr, cu, po, er, un, pr : /\ p = [tracked |-> tr, current |-> cu, polling |-> po,
                                     errors |-> er, unpaused |-> un, pressed |-> pr]
                            /\ po \in BOOLEAN /\ er \in 0..MaxErrors /\ un \in BOOLEAN /\ pr \in BOOLEAN
  BY DEF Right, Pages
<1>9. Heard(p, playing) = [tracked |-> t, current |-> c, polling |-> po,
                           errors |-> er, unpaused |-> un, pressed |-> pr]
  BY <1>1, <1>8
<1>10. DOMAIN t = {} => ~un
  BY <1>5, <1>8 DEF Right, Shown
<1> QED BY <1>5, <1>6, <1>7, <1>8, <1>9, <1>10 DEF Right, Pages, Shown

\* What does not play goes, and what is shown of it.
LEMMA FinishedRight ==
  ASSUME NEW p, NEW of, Right(p, of), NEW playing \in Maps(PlayIds, Sounds), NEW any \in BOOLEAN
  PROVE  LET q == [Finished(p, playing) EXCEPT !.unpaused = any]
         IN  Right(IF DOMAIN q.tracked = {} THEN [q EXCEPT !.unpaused = FALSE] ELSE q, of)
<1> DEFINE gone == DOMAIN p.tracked \ DOMAIN playing
           over == {p.tracked[id] : id \in gone}
           t == Without(p.tracked, gone)
           c == Without(p.current, over)
<1>1. Finished(p, playing) = [p EXCEPT !.tracked = t, !.current = c]
  BY DEF Finished
<1>2. p.current \in Maps(Sounds, PlayIds) /\ p.tracked \in Maps(PlayIds, Sounds)
  BY DEF Right, Pages
<1>3. /\ DOMAIN t = DOMAIN p.tracked \ gone
      /\ \A x \in DOMAIN p.tracked \ gone : t[x] = p.tracked[x]
  BY WithoutIs
<1>4. /\ DOMAIN c = DOMAIN p.current \ over
      /\ \A x \in DOMAIN p.current \ over : c[x] = p.current[x]
  BY WithoutIs
<1>11. c \in Maps(Sounds, PlayIds) /\ t \in Maps(PlayIds, Sounds)
  BY <1>2, WithoutTyped
<1> HIDE DEF t, c
<1>5. Agrees(t, of)
  BY <1>3 DEF Agrees, Right
<1>6. ASSUME NEW s \in DOMAIN c PROVE c[s] \in DOMAIN t /\ t[c[s]] = s
  <2>1. c[s] = p.current[s] /\ s \in DOMAIN p.current /\ s \notin over
    BY <1>4
  <2>2. c[s] \in DOMAIN p.tracked /\ p.tracked[c[s]] = s
    BY <2>1 DEF Right, Shown
  <2>3. c[s] \notin gone
    BY <2>1, <2>2
  <2> QED BY <2>2, <2>3, <1>3
<1>7. PICK tr, cu, po, er, un, pr : /\ p = [tracked |-> tr, current |-> cu, polling |-> po,
                                     errors |-> er, unpaused |-> un, pressed |-> pr]
                            /\ po \in BOOLEAN /\ er \in 0..MaxErrors /\ un \in BOOLEAN /\ pr \in BOOLEAN
  BY DEF Right, Pages
<1>8. Finished(p, playing) = [tracked |-> t, current |-> c, polling |-> po,
                           errors |-> er, unpaused |-> un, pressed |-> pr]
  BY <1>1, <1>7
<1> DEFINE Page(u) == [tracked |-> t, current |-> c, polling |-> po, errors |-> er,
                       unpaused |-> u, pressed |-> pr]
<1>9. /\ [Finished(p, playing) EXCEPT !.unpaused = any] = Page(any)
      /\ [Page(any) EXCEPT !.unpaused = FALSE] = Page(FALSE)
      /\ Page(any).tracked = t
  <2>1. \A u, v : [Page(u) EXCEPT !.unpaused = v] = Page(v) /\ Page(u).tracked = t
    OBVIOUS
  <2>2. Finished(p, playing) = Page(un)
    BY <1>8
  <2> HIDE DEF Page
  <2> QED BY <2>1, <2>2, Zenon
<1>10. Right(Page(FALSE), of) /\ (DOMAIN t # {} => Right(Page(any), of))
  BY <1>3, <1>4, <1>5, <1>6, <1>7, <1>11 DEF Right, Pages, Shown
<1> HIDE DEF Page
<1> QED BY <1>9, <1>10

LEMMA ReportedRight ==
  ASSUME NEW p, NEW of, Right(p, of), NEW r \in Reports, Agrees(r.playing, of)
  PROVE  Right(Reported(p, r), of)
<1> DEFINE zero == [p EXCEPT !.errors = 0]
           heard == Heard(zero, r.playing)
           q == [Finished(heard, r.playing) EXCEPT !.unpaused = r.any]
           told == IF DOMAIN q.tracked = {} THEN [q EXCEPT !.unpaused = FALSE] ELSE q
<1>1. r.playing \in Maps(PlayIds, Sounds) /\ r.any \in BOOLEAN
  BY DEF Reports
<1>2. Right(zero, of)
  <2>1. 0 \in 0..MaxErrors
    BY PageAssumption
  <2> QED BY <2>1 DEF Right, Shown, Pages
<1> HIDE DEF zero
<1>3. Right(heard, of)
  BY <1>1, <1>2, HeardRight
<1> HIDE DEF heard
<1>4. Right(told, of)
  BY <1>1, <1>3, FinishedRight
<1>5. Reported(p, r) = IF DOMAIN q.tracked = {} THEN StopPolling(told) ELSE told
  BY DEF Reported, heard, zero
<1> HIDE DEF told
<1> QED BY <1>4, <1>5, StopPollingRight

LEMMA NotReportedRight ==
  ASSUME NEW p, NEW of, Right(p, of)
  PROVE  Right(NotReported(p), of)
<1> DEFINE q == [p EXCEPT !.errors = IF @ < MaxErrors THEN @ + 1 ELSE @, !.unpaused = FALSE]
           stopped == StopPolling(q)
           cleared == Cleared(stopped)
<1>1. Right(q, of)
  <2>1. p.errors \in 0..MaxErrors /\ MaxErrors \in Nat
    BY PageAssumption DEF Right, Pages
  <2>2. (IF p.errors < MaxErrors THEN p.errors + 1 ELSE p.errors) \in 0..MaxErrors
    BY <2>1
  <2> QED BY <2>2 DEF Right, Shown, Pages
<1>2. NotReported(p) = IF q.errors = MaxErrors THEN AllFinished(cleared) ELSE q
  BY DEF NotReported
<1> HIDE DEF q
<1>3. stopped \in Pages
  BY <1>1, StopPollingRight DEF Right
<1> HIDE DEF stopped
<1>4. cleared \in Pages /\ DOMAIN cleared.tracked = {} /\ DOMAIN cleared.current = {}
  BY <1>3, ClearedRight
<1> HIDE DEF cleared
<1>5. Right(AllFinished(cleared), of)
  BY <1>4, NothingLeftRight
<1> QED BY <1>1, <1>2, <1>5

\* The answer of a request that tells nothing wrong leaves the page right.
LEMMA AnswersRight ==
  ASSUME NEW p, NEW of, Right(p, of), NEW kind \in Kinds, NEW failed \in BOOLEAN, NEW answer,
         ~failed => IF kind = "poll" THEN answer \in Reports /\ Agrees(answer.playing, of)
                    ELSE /\ answer \in PlayIds \cup {0}
                         /\ kind \in Sounds /\ answer # 0 => answer \in DOMAIN of /\ of[answer] = kind
  PROVE  Right(Answers(p, kind, failed, answer), of)
<1> USE PageAssumption
<1>1. CASE kind = "poll"
  <2>1. Answers(p, kind, failed, answer) = IF failed THEN NotReported(p) ELSE Reported(p, answer)
    BY <1>1 DEF Answers
  <2> QED BY <2>1, <1>1, NotReportedRight, ReportedRight
<1>2. CASE kind = "stop"
  <2>1. Answers(p, kind, failed, answer) = Stopped(p)
    BY <1>2 DEF Answers
  <2>2. p \in Pages
    BY DEF Right
  <2> QED BY <2>1, <2>2, StoppedRight
<1>3. CASE kind = "talk"
  <2>1. Answers(p, kind, failed, answer) = IF failed THEN [p EXCEPT !.pressed = FALSE] ELSE p
    BY <1>3 DEF Answers
  <2>2. Right([p EXCEPT !.pressed = FALSE], of)
    BY DEF Right, Shown, Pages
  <2> QED BY <2>1, <2>2
<1>4. CASE kind = "quiet"
  <2>1. Answers(p, kind, failed, answer) = p
    BY <1>4 DEF Answers
  <2> QED BY <2>1
<1>5. CASE kind \in Sounds
  <2>1. kind \notin {"poll", "stop", "talk", "quiet"}
    BY <1>5, PageAssumption
  <2>2. Answers(p, kind, failed, answer) = PlayAnswered(p, kind, failed, answer)
    BY <1>5, <2>1 DEF Answers
  <2>3. Right(NotPlayed(p, kind), of)
    BY NotPlayedRight
  <2>4. ASSUME ~failed, answer # 0 PROVE Right(Polls(Played(p, kind, answer)), of)
    BY <1>5, <2>1, <2>4, PlayedRight
  <2> QED BY <2>2, <2>3, <2>4 DEF PlayAnswered
<1> QED BY <1>1, <1>2, <1>3, <1>4, <1>5 DEF Kinds

-------------------------------------------------------------------------------
(* The requests and the ids *)

LEMMA SendsRight ==
  ASSUME NEW n, NEW of, RequestsRight(n, of), NEW kind \in Kinds, Sends(n, kind)
  PROVE  RequestsRight(net', of)
<1>1. Sent(kind) \in Requests /\ Sent(kind).state = "sent"
  BY DEF Sent, Requests
<1>2. PICK x : net' = [n EXCEPT ![x] = Sent(kind)]
  BY DEF Sends
<1>3. \A k \in Slots : net'[k] = n[k] \/ net'[k] = Sent(kind)
  BY <1>2 DEF RequestsRight
<1>4. net' \in [Slots -> Requests \cup {NoRequest}]
  BY <1>1, <1>2 DEF RequestsRight
<1>5. Believable(Sent(kind), of)
  BY <1>1 DEF Believable
<1> QED BY <1>3, <1>4, <1>5 DEF RequestsRight

LEMMA FreedRight ==
  ASSUME NEW n, NEW of, RequestsRight(n, of), NEW k \in Slots
  PROVE  RequestsRight([n EXCEPT ![k] = NoRequest], of)
<1>1. Believable(NoRequest, of)
  BY DEF Believable, NoRequest
<1> QED BY <1>1 DEF RequestsRight

\* of2 knows more ids than of.
Extends(of2, of) == \A id \in DOMAIN of : id \in DOMAIN of2 /\ of2[id] = of[id]

LEMMA ExtendsKeeps ==
  ASSUME NEW of, NEW of2, Extends(of2, of)
  PROVE  /\ \A map : Agrees(map, of) => Agrees(map, of2)
         /\ \A p : Right(p, of) => Right(p, of2)
         /\ \A n : RequestsRight(n, of) => RequestsRight(n, of2)
<1>1. \A map : Agrees(map, of) => Agrees(map, of2)
  BY DEF Agrees, Extends
<1>2. \A p : Right(p, of) => Right(p, of2)
  BY <1>1 DEF Right
<1>3. \A r : Believable(r, of) => Believable(r, of2)
  BY <1>1 DEF Believable, Extends
<1>4. \A n : RequestsRight(n, of) => RequestsRight(n, of2)
  BY <1>3 DEF RequestsRight
<1> QED BY <1>1, <1>2, <1>4

LEMMA IdsBound == ASSUME case \in Cases PROVE case.ids \in Nat /\ case.ids <= MaxPlay /\ MaxPlay \in Nat
BY PageAssumption

\* A start gives two new ids to its sound.
LEMMA StartsRight ==
  ASSUME NEW of, PageRight(of), case' = case, NEW s \in Sounds, Starts(s)
  PROVE  \E of2 : /\ PlayerRight(player, of2)' /\ Extends(of2, of)
                  /\ player.last + 1 \in PlayIds /\ player.last + 1 \in DOMAIN of2
                  /\ of2[player.last + 1] = s
<1> DEFINE n == player.last
<1>1. /\ player \in [playing : Maps(PlayIds, Sounds), last : 0..case.ids, talk : BOOLEAN]
      /\ of \in [1..n -> Sounds] /\ Agrees(player.playing, of)
  BY DEF PageRight, PlayerRight
<1>2. n \in Nat /\ case.ids \in Nat /\ case.ids <= MaxPlay /\ MaxPlay \in Nat /\ n + 2 <= case.ids
  BY <1>1, IdsBound DEF PageRight, Starts
<1>3. /\ n + 1 \in PlayIds /\ n + 2 \in PlayIds /\ n + 2 \in 0..case.ids
      /\ n + 1 \in 1..(n + 2) /\ n + 2 \in 1..(n + 2) /\ ~(n + 1 <= n) /\ ~(n + 2 <= n)
      /\ \A id \in 1..n : id \in 1..(n + 2) /\ id <= n
  BY <1>2 DEF PlayIds
<1> HIDE DEF n
<1>15. PICK of2 : of2 = [id \in 1..(n + 2) |-> IF id <= n THEN of[id] ELSE s]
  OBVIOUS
<1>4. of2 \in [1..(n + 2) -> Sounds]
  <2>1. ASSUME NEW id \in 1..(n + 2), id <= n PROVE of[id] \in Sounds
    <3>1. id \in 1..n
      BY <2>1, <1>2
    <3> QED BY <3>1, <1>1
  <2> QED BY <2>1, <1>15
<1>5. Extends(of2, of) /\ of2[n + 1] = s /\ of2[n + 2] = s /\ DOMAIN of2 = 1..(n + 2)
  BY <1>1, <1>3, <1>15 DEF Extends
<1>6. PICK before \in {player.playing, Empty} :
        player' = [player EXCEPT !.playing = With(With(before, n + 1, s), n + 2, s), !.last = @ + 2]
  BY DEF Starts, n
<1>7. before \in Maps(PlayIds, Sounds) /\ Agrees(before, of2)
  <2>1. Agrees(player.playing, of2)
    BY <1>1, <1>5, ExtendsKeeps
  <2>2. DOMAIN Empty = {} /\ Empty \in Maps(PlayIds, Sounds)
    BY EmptyIs
  <2> QED BY <1>1, <2>1, <2>2 DEF Agrees
<1> DEFINE one == With(before, n + 1, s)
           two == With(one, n + 2, s)
<1>8. one \in Maps(PlayIds, Sounds)
  BY <1>3, <1>7, WithTyped
<1>9. Agrees(one, of2)
  BY <1>3, <1>5, <1>7 DEF Agrees, With
<1>10. player' = [player EXCEPT !.playing = two, !.last = n + 2]
  BY <1>6, <1>1 DEF n
<1> HIDE DEF one
<1>11. two \in Maps(PlayIds, Sounds)
  BY <1>3, <1>8, WithTyped
<1>12. Agrees(two, of2)
  BY <1>3, <1>5, <1>9 DEF Agrees, With
<1> HIDE DEF two
<1>13. /\ player' \in [playing : Maps(PlayIds, Sounds), last : 0..case.ids, talk : BOOLEAN]
       /\ player'.playing = two /\ player'.last = n + 2
  BY <1>1, <1>3, <1>10, <1>11
<1>14. PlayerRight(player, of2)'
  <2>1. Agrees(player'.playing, of2) /\ of2 \in [1..player'.last -> Sounds]
    BY <1>4, <1>12, <1>13
  <2> QED BY <2>1, <1>13 DEF PlayerRight, Agrees, Maps, PlayIds
<1> QED BY <1>3, <1>5, <1>14 DEF n

-------------------------------------------------------------------------------
(* The steps *)

LEMMA RequestIs ==
  ASSUME NEW r \in Requests \cup {NoRequest}, r.state # "idle"
  PROVE  /\ r \in Requests /\ r.kind \in Kinds /\ r.mine \in BOOLEAN /\ r.state \in {"sent", "handled"}
         /\ r.state = "handled" =>
              IF r.kind = "poll" THEN r.answer \in Reports ELSE r.answer \in PlayIds \cup {0}
<1>1. r \in Requests
  BY DEF NoRequest
<1>2. "poll" \in Kinds
  BY DEF Kinds
<1> QED BY <1>1, <1>2 DEF Requests

\* A step that leaves the program alone.
LEMMA SamePlayerRight ==
  ASSUME NEW of, PageRight(of), case' = case, player' = player,
         RequestsRight(net', of), Right(remote', of), finger' \in BOOLEAN, up' \in BOOLEAN
  PROVE  PageRight(of)'
BY DEF PageRight, PlayerRight, RequestsRight, Right, Believable, Agrees, Shown, Maps,
       Requests, Reports, PlayIds, Kinds, NoRequest, Pages

\* What the handler answers is right, for the ids given with it.
LEMMA TellsRight ==
  ASSUME NEW of, RequestsRight(net, of), NEW k \in Slots, net[k].state = "sent", NEW answer,
         IF net[k].kind = "poll" THEN answer \in Reports /\ Agrees(answer.playing, of)
         ELSE /\ answer \in PlayIds \cup {0}
              /\ net[k].kind \in Sounds /\ answer # 0 => answer \in DOMAIN of /\ of[answer] = net[k].kind,
         net' = [net EXCEPT ![k] = [state |-> "handled", kind |-> @.kind, mine |-> @.mine,
                                    answer |-> answer]]
  PROVE  RequestsRight(net', of)
<1> DEFINE r == net[k]
           told == [state |-> "handled", kind |-> r.kind, mine |-> r.mine, answer |-> answer]
<1>1. r.kind \in Kinds /\ r.mine \in BOOLEAN
  BY RequestIs DEF RequestsRight
<1>2. told \in Requests
  BY <1>1 DEF Requests
<1>3. Believable(told, of)
  BY DEF Believable
<1>4. net' = [net EXCEPT ![k] = told]
  OBVIOUS
<1> HIDE DEF told
<1> QED BY <1>2, <1>3, <1>4 DEF RequestsRight

LEMMA HandleRight ==
  ASSUME NEW of, PageRight(of), case' = case, NEW k \in Slots, Handle(k)
  PROVE  \E of2 : PageRight(of2)'
<1> DEFINE Tells(answer) ==
             net' = [net EXCEPT ![k] = [state |-> "handled", kind |-> @.kind, mine |-> @.mine,
                                        answer |-> answer]]
           kind == net[k].kind
<1>1. /\ net[k].state = "sent" /\ remote' = remote /\ finger' = finger /\ up' = up
      /\ RequestsRight(net, of) /\ Right(remote, of) /\ finger \in BOOLEAN /\ up \in BOOLEAN
      /\ PlayerRight(player, of) /\ case \in Cases
  BY DEF Handle, PageRight
<1>2. kind \in Kinds /\ 0 \in PlayIds \cup {0}
  BY <1>1, RequestIs DEF RequestsRight
<1>3. ASSUME kind # "poll", Tells(0) PROVE RequestsRight(net', of)
  BY <1>1, <1>3, TellsRight
<1>4. CASE kind \in Sounds /\ Starts(kind) /\ Tells(player.last + 1)
  <2>1. PICK of2 : /\ PlayerRight(player, of2)' /\ Extends(of2, of)
                   /\ player.last + 1 \in PlayIds /\ player.last + 1 \in DOMAIN of2
                   /\ of2[player.last + 1] = kind
    BY <1>4, StartsRight
  <2>2. RequestsRight(net, of2) /\ Right(remote, of2)
    BY <1>1, <2>1, ExtendsKeeps
  <2>3. kind # "poll"
    BY <1>4, PageAssumption
  <2>4. RequestsRight(net', of2)
    BY <1>1, <1>4, <2>1, <2>2, <2>3, TellsRight
  <2> QED BY <1>1, <2>1, <2>2, <2>4 DEF PageRight, RequestsRight, Right, Believable, Agrees, Shown,
             Maps, Requests, Reports, PlayIds, Kinds, NoRequest, Pages
<1>5. CASE kind \in Sounds /\ Tells(0) /\ player' = player
  <2>1. RequestsRight(net', of)
    BY <1>3, <1>5, PageAssumption
  <2> QED BY <1>1, <1>5, <2>1, SamePlayerRight
<1>6. CASE kind = "poll"
  <2>1. player' = player
    BY <1>6, PageAssumption DEF Handle
  <2>2. PICK any \in BOOLEAN : Tells([playing |-> player.playing, any |-> any])
    BY <1>6, PageAssumption DEF Handle
  <2>3. player.playing \in Maps(PlayIds, Sounds) /\ Agrees(player.playing, of)
    BY <1>1 DEF PlayerRight
  <2>4. RequestsRight(net', of)
    <3> DEFINE answer == [playing |-> player.playing, any |-> any]
    <3>1. answer \in Reports /\ Agrees(answer.playing, of)
      BY <2>3 DEF Reports
    <3> HIDE DEF answer
    <3>2. Tells(answer)
      BY <2>2 DEF answer
    <3> QED BY <1>1, <1>6, <3>1, <3>2, TellsRight
  <2> QED BY <1>1, <2>1, <2>4, SamePlayerRight
<1>7. ASSUME kind # "poll", Tells(0), NEW playing \in {player.playing, Empty}, NEW on \in BOOLEAN,
             player' = [player EXCEPT !.playing = playing, !.talk = on]
      PROVE  PageRight(of)'
  <2>1. RequestsRight(net', of)
    BY <1>3, <1>7
  <2>2. DOMAIN Empty = {} /\ Empty \in Maps(PlayIds, Sounds)
    BY EmptyIs
  <2>3. Agrees(Empty, of)
    BY <2>2 DEF Agrees
  <2>4. /\ player' \in [playing : Maps(PlayIds, Sounds), last : 0..case.ids, talk : BOOLEAN]
        /\ player'.last = player.last /\ player'.playing = playing
    BY <1>1, <1>7, <2>2 DEF PlayerRight
  <2>5. Agrees(playing, of) /\ of \in [1..player'.last -> Sounds]
    BY <1>1, <2>3, <2>4 DEF PlayerRight
  <2> QED BY <1>1, <2>1, <2>4, <2>5 DEF PageRight, PlayerRight, RequestsRight, Right, Believable, Agrees,
             Shown, Maps, Requests, Reports, PlayIds, Kinds, NoRequest, Pages
<1>8. player \in [playing : Maps(PlayIds, Sounds), last : 0..case.ids, talk : BOOLEAN]
  BY <1>1 DEF PlayerRight
<1>9. CASE kind = "stop"
  <2>1. Tells(0) /\ player' = [player EXCEPT !.playing = Empty]
    BY <1>9, PageAssumption DEF Handle
  <2>2. player' = [player EXCEPT !.playing = Empty, !.talk = player.talk] /\ player.talk \in BOOLEAN
    BY <1>8, <2>1
  <2> QED BY <1>7, <1>9, <2>1, <2>2
<1>10. CASE kind = "talk"
  <2>1. Tells(0) /\ \E on \in {TRUE, player.talk} : player' = [player EXCEPT !.talk = on]
    BY <1>10, PageAssumption DEF Handle
  <2>2. PICK on \in {TRUE, player.talk} : player' = [player EXCEPT !.talk = on]
    BY <2>1
  <2>3. player' = [player EXCEPT !.playing = player.playing, !.talk = on] /\ on \in BOOLEAN
    BY <1>8, <2>2
  <2> QED BY <1>7, <1>10, <2>1, <2>3
<1>11. CASE kind = "quiet"
  <2>1. Tells(0) /\ player' = [player EXCEPT !.talk = FALSE]
    BY <1>11, PageAssumption DEF Handle
  <2>2. player' = [player EXCEPT !.playing = player.playing, !.talk = FALSE]
    BY <1>8, <2>1
  <2> QED BY <1>7, <1>11, <2>1, <2>2
<1>12. CASE kind \in Sounds
  <2>1. kind \notin {"poll", "stop", "talk", "quiet"}
    BY <1>12, PageAssumption
  <2>2. \/ Starts(kind) /\ Tells(player.last + 1)
        \/ Tells(0) /\ player' = player
    BY <2>1 DEF Handle
  <2> QED BY <1>4, <1>5, <1>12, <2>2
<1> QED BY <1>2, <1>6, <1>9, <1>10, <1>11, <1>12 DEF Kinds

LEMMA AnsweredRight ==
  ASSUME NEW of, PageRight(of), case' = case, NEW k \in Slots, Answered(k)
  PROVE  PageRight(of)'
<1> DEFINE r == net[k]
           freed == [net EXCEPT ![k] = NoRequest]
           answer == IF ~up THEN 0 ELSE r.answer
<1>1. /\ player' = player /\ up' = up /\ finger' = finger
      /\ RequestsRight(net, of) /\ Right(remote, of) /\ finger \in BOOLEAN /\ up \in BOOLEAN
  BY DEF Answered, OnlyPage, PageRight
<1>2. r.state # "idle" /\ (up => r.state = "handled")
  BY DEF Answered
<1>3. /\ r.kind \in Kinds
      /\ up => IF r.kind = "poll" THEN r.answer \in Reports ELSE r.answer \in PlayIds \cup {0}
  <2>1. r \in Requests \cup {NoRequest}
    BY <1>1 DEF RequestsRight
  <2> HIDE DEF r
  <2> QED BY <1>2, <2>1, RequestIs
<1>4. up => Believable(r, of)
  BY <1>1 DEF RequestsRight
<1>5. remote' = IF r.mine THEN Answers(remote, r.kind, ~up, answer) ELSE remote
  BY DEF Answered
<1>6. Right(remote', of)
  <2>1. up => answer = r.answer
    OBVIOUS
  <2> HIDE DEF answer
  <2>2. up => IF r.kind = "poll" THEN answer \in Reports /\ Agrees(answer.playing, of)
              ELSE /\ answer \in PlayIds \cup {0}
                   /\ r.kind \in Sounds /\ answer # 0 => answer \in DOMAIN of /\ of[answer] = r.kind
    BY <1>2, <1>3, <1>4, <2>1 DEF Believable
  <2> HIDE DEF r
  <2>3. Right(Answers(remote, r.kind, ~up, answer), of)
    BY <1>1, <1>3, <2>2, AnswersRight
  <2> QED BY <1>1, <1>5, <2>3
<1>7. RequestsRight(freed, of)
  BY <1>1, FreedRight
<1>8. Sends(freed, "poll") \/ net' = freed
  BY DEF Answered
<1> HIDE DEF freed
<1>9. RequestsRight(net', of)
  BY <1>7, <1>8, SendsRight DEF Kinds
<1> QED BY <1>1, <1>6, <1>9, SamePlayerRight

LEMMA FreshRight == ASSUME NEW of PROVE FreshPage \in Pages /\ Right(FreshPage, of)
<1>1. Empty \in Maps(PlayIds, Sounds) /\ Empty \in Maps(Sounds, PlayIds) /\ DOMAIN Empty = {}
  BY EmptyIs
<1> QED BY <1>1, PageAssumption DEF FreshPage, Right, Pages, Shown, Agrees

\* A step of the page that leaves what it tracks and shows.
LEMMA PressedRight ==
  ASSUME NEW p, NEW of, Right(p, of), NEW b \in BOOLEAN
  PROVE  Right([p EXCEPT !.pressed = b], of)
BY DEF Right, Pages, Shown

LEMMA PageStarts == PageInit => PageWholeInv
<1> SUFFICES ASSUME PageInit PROVE PageWholeInv
  OBVIOUS
<1> DEFINE of == [id \in 1..0 |-> CHOOSE s \in Sounds : TRUE]
<1>1. of \in [1..0 -> Sounds]
  OBVIOUS
<1> HIDE DEF of
<1>2. Empty \in Maps(PlayIds, Sounds) /\ DOMAIN Empty = {}
  BY EmptyIs
<1>3. case.ids \in Nat
  BY IdsBound DEF PageInit
<1>4. PlayerRight(player, of)
  BY <1>1, <1>2, <1>3 DEF PageInit, PlayerRight, Agrees
<1>5. RequestsRight(net, of)
  BY DEF PageInit, RequestsRight, Believable, NoRequest
<1>6. Right(remote, of)
  BY FreshRight DEF PageInit
<1>7. player.last = 0
  BY DEF PageInit
<1> QED BY <1>1, <1>4, <1>5, <1>6, <1>7 DEF PageInit, PageWholeInv, PageRight

LEMMA PageSteps ==
  ASSUME PageWholeInv, [PageNext]_<<pageVars, case>>
  PROVE  PageWholeInv'
<1>1. PICK of \in [1..player.last -> Sounds] : PageRight(of)
  BY DEF PageWholeInv
<1>2. case' = case
  BY DEF PageNext
<1>3. /\ RequestsRight(net, of) /\ Right(remote, of) /\ finger \in BOOLEAN /\ up \in BOOLEAN
      /\ PlayerRight(player, of)
  BY <1>1 DEF PageRight
<1> DEFINE Goal == \E of2 : PageRight(of2)'
<1>4. ASSUME NEW s \in Sounds, TapSound(s) PROVE Goal
  <2>1. RequestsRight(net', of)
    BY <1>3, <1>4, SendsRight DEF TapSound, Kinds
  <2> QED BY <1>1, <1>2, <1>3, <1>4, <2>1, SamePlayerRight DEF TapSound, OnlyPage
<1>5. ASSUME TapStop PROVE Goal
  <2>1. RequestsRight(net', of)
    BY <1>3, <1>5, SendsRight DEF TapStop, Kinds
  <2> QED BY <1>1, <1>2, <1>3, <1>5, <2>1, SamePlayerRight DEF TapStop, OnlyPage
<1>6. ASSUME PressTalk PROVE Goal
  <2>1. RequestsRight(net', of) /\ Right(remote', of)
    BY <1>3, <1>6, SendsRight, PressedRight DEF PressTalk, Kinds
  <2> QED BY <1>1, <1>2, <1>3, <1>6, <2>1, SamePlayerRight DEF PressTalk, OnlyPage
<1>7. ASSUME ReleaseTalk PROVE Goal
  <2>1. RequestsRight(net', of) /\ Right(remote', of)
    BY <1>3, <1>7, SendsRight, PressedRight DEF ReleaseTalk, Kinds
  <2> QED BY <1>1, <1>2, <1>3, <1>7, <2>1, SamePlayerRight DEF ReleaseTalk, OnlyPage
<1>8. ASSUME Tick PROVE Goal
  <2>1. RequestsRight(net', of) /\ Right(remote', of)
    BY <1>3, <1>8, SendsRight, StopPollingRight DEF Tick, Kinds
  <2> QED BY <1>1, <1>2, <1>3, <1>8, <2>1, SamePlayerRight DEF Tick, OnlyPage
<1>9. ASSUME Reload PROVE Goal
  <2>1. Right(remote', of)
    <3>1. Right([FreshPage EXCEPT !.polling = TRUE], of)
      BY FreshRight DEF Right, Pages, Shown
    <3> QED BY <1>9, <3>1, StopPollingRight DEF Reload
  <2>2. RequestsRight(net', of)
    <3>1. ASSUME NEW k \in Slots, net[k] # NoRequest
          PROVE  /\ [net[k] EXCEPT !.mine = FALSE] \in Requests
                 /\ Believable([net[k] EXCEPT !.mine = FALSE], of)
      <4>1. net[k] \in Requests /\ Believable(net[k], of)
        BY <1>3, <3>1 DEF RequestsRight
      <4>2. [net[k] EXCEPT !.mine = FALSE] \in Requests
        BY <4>1 DEF Requests
      <4>3. Believable([net[k] EXCEPT !.mine = FALSE], of)
        BY <4>1 DEF Believable, Requests
      <4> QED BY <4>2, <4>3
    <3>2. Believable(NoRequest, of)
      BY DEF Believable, NoRequest
    <3>3. net' = [k \in Slots |-> IF net[k] = NoRequest THEN NoRequest ELSE [net[k] EXCEPT !.mine = FALSE]]
      BY <1>9 DEF Reload
    <3> QED BY <3>1, <3>2, <3>3 DEF RequestsRight
  <2>3. finger' = FALSE /\ player' = player /\ up' = up
    BY <1>9 DEF Reload, OnlyPage
  <2> QED BY <1>1, <1>2, <1>3, <2>1, <2>2, <2>3, SamePlayerRight
<1>10. ASSUME NetworkTurns PROVE Goal
  BY <1>1, <1>2, <1>3, <1>10, SamePlayerRight DEF NetworkTurns
<1>11. ASSUME NEW s \in Sounds, DeskPlays(s) PROVE Goal
  <2>1. PICK of2 : PlayerRight(player, of2)' /\ Extends(of2, of)
    BY <1>1, <1>2, <1>11, StartsRight DEF DeskPlays
  <2>2. RequestsRight(net, of2) /\ Right(remote, of2)
    BY <1>3, <2>1, ExtendsKeeps
  <2>3. net' = net /\ remote' = remote /\ finger' = finger /\ up' = up /\ case \in Cases
    BY <1>1, <1>11 DEF DeskPlays, PageRight
  <2> QED BY <1>2, <1>3, <2>1, <2>2, <2>3 DEF PageRight, RequestsRight, Right, Believable, Agrees, Shown,
             Maps, Requests, Reports, PlayIds, Kinds, NoRequest, Pages
<1>12. ASSUME NEW k \in Slots, Handle(k) PROVE Goal
  BY <1>1, <1>2, <1>12, HandleRight
<1>13. ASSUME NEW k \in Slots, Answered(k) PROVE Goal
  BY <1>1, <1>2, <1>13, AnsweredRight
<1>14. ASSUME NEW id \in PlayIds, SoundEnds(id) PROVE Goal
  <2> DEFINE left == Without(player.playing, {id})
  <2>1. player \in [playing : Maps(PlayIds, Sounds), last : 0..case.ids, talk : BOOLEAN]
    BY <1>3 DEF PlayerRight
  <2>2. left \in Maps(PlayIds, Sounds)
    BY <2>1, WithoutTyped
  <2>3. Agrees(left, of)
    BY <1>3 DEF PlayerRight, Agrees, Without
  <2>4. player' = [player EXCEPT !.playing = left]
    BY <1>14 DEF SoundEnds
  <2> HIDE DEF left
  <2>5. /\ player' \in [playing : Maps(PlayIds, Sounds), last : 0..case.ids, talk : BOOLEAN]
        /\ player'.last = player.last /\ player'.playing = left
    BY <2>1, <2>2, <2>4
  <2>6. net' = net /\ remote' = remote /\ finger' = finger /\ up' = up /\ case \in Cases
    BY <1>1, <1>14 DEF SoundEnds, PageRight
  <2>7. Agrees(player'.playing, of) /\ of \in [1..player'.last -> Sounds]
    BY <1>3, <2>3, <2>5 DEF PlayerRight
  <2>8. PlayerRight(player, of)'
    BY <1>2, <2>5, <2>7 DEF PlayerRight, Agrees, Maps, PlayIds
  <2> HIDE DEF Goal
  <2>9. RequestsRight(net, of)' /\ Right(remote, of)'
    BY <1>3, <2>6 DEF RequestsRight, Right, Believable, Agrees, Shown, Maps, Requests, Reports,
       PlayIds, Kinds, NoRequest, Pages
  <2>10. PageRight(of)'
    BY <1>2, <1>3, <2>6, <2>8, <2>9 DEF PageRight
  <2> QED BY <2>10 DEF Goal
<1>15. ASSUME UNCHANGED <<pageVars, case>> PROVE Goal
  <2>1. player' = player /\ net' = net /\ remote' = remote /\ finger' = finger /\ up' = up
    BY <1>15 DEF pageVars
  <2> QED BY <1>1, <1>2, <1>3, <2>1, SamePlayerRight
<1>16. Goal
  <2>1. CASE PageNext
    BY <2>1, <1>4, <1>5, <1>6, <1>7, <1>8, <1>9, <1>10, <1>11, <1>12, <1>13, <1>14 DEF PageNext
  <2> QED BY <2>1, <1>15
<1>17. PICK of2 : PageRight(of2)'
  BY <1>16
<1>18. of2 \in [1..player'.last -> Sounds]
  BY <1>17 DEF PageRight, PlayerRight
<1> QED BY <1>17, <1>18 DEF PageWholeInv

LEMMA PageImplies == PageWholeInv => PageInv
<1> SUFFICES ASSUME PageWholeInv PROVE PageInv
  OBVIOUS
<1>1. PICK of \in [1..player.last -> Sounds] : PageRight(of)
  BY DEF PageWholeInv
<1>2. DOMAIN player.playing \subseteq 1..player.last /\ DOMAIN remote.tracked \subseteq 1..player.last
  BY <1>1 DEF PageRight, PlayerRight, Right, Agrees
<1>3. PageTypeOK
  BY <1>1, <1>2 DEF PageTypeOK, PageRight, PlayerRight, RequestsRight, Right
<1>4. ShownIsTracked
  BY <1>1 DEF PageRight, Right, Shown, ShownIsTracked
<1> QED BY <1>3, <1>4 DEF PageInv

\* However plays, stops, reports, failures, page loads and the desk cross: a card that is
\* shown as playing belongs to a tracked instance of its sound, and a page that tracks
\* nothing does not show that something goes on (app.js, fetchSoundProgress).
THEOREM ShownCardsAreTracked == PageSpec => []PageInv
<1>1. PageInit => PageWholeInv
  BY PageStarts
<1>2. PageWholeInv /\ [PageNext]_<<pageVars, case>> => PageWholeInv'
  BY PageSteps
<1>3. PageWholeInv => PageInv
  BY PageImplies
<1> QED BY <1>1, <1>2, <1>3, PTL DEF PageSpec
================================================================================
