----------------------------- MODULE SoundLibrary -----------------------------
(***************************************************************************)
(* The tabs and sounds (src/core/objects/data.cpp, the tab operations of   *)
(* src/ui/ui.cpp) and how they are saved and loaded (src/main.cpp).        *)
(*                                                                         *)
(* There are two copies of the library: gData, which the window edits tab  *)
(* by tab, and gConfig.data, which save() writes out.  The global maps     *)
(* gSounds and gFavorites refer to the sounds by id; a single sound is     *)
(* looked up, edited and marked through them only.  Data::set rebuilds the *)
(* maps to refer to the copy it fills, whichever of the two that is.       *)
(*                                                                         *)
(* The window's thread does the tab operations; refreshTab reads the tab   *)
(* and writes it back in two steps.  With the web server on, web requests  *)
(* edit sounds and, by logging in or out, save at any time: such a save    *)
(* copies the tabs and then empties and refills the maps one entry after   *)
(* the other, and the window's operations come in between.  One such save  *)
(* is under way at a time, and none when the window closes.                *)
(***************************************************************************)
EXTENDS Naturals, Sequences, FiniteSets, SequencesExt, TLC

CONSTANTS
  Folders,    \* folders the user may add as tabs
  Names,      \* file names in a folder
  Customs,    \* values of a sound's hotkey and volumes; Default is unset
  Default,
  MaxId,      \* the largest id
  Uses        \* how the program is used: [web : enableWebServer, which lets web
              \* requests edit sounds and logins save; customs : the values chosen;
              \* stars : the sounds whose star is toggled; most : bound on soundIdCounter]

ASSUME BoundAssumption == MaxId \in Nat
\* A folder is a directory with finitely many files.
ASSUME FilesAssumption == IsFiniteSet(Folders) /\ IsFiniteSet(Names)
ASSUME CustomsAssumption == Default \in Customs
ASSUME UsesAssumption == Uses \subseteq [web : BOOLEAN, customs : SUBSET Customs, stars : SUBSET Nat, most : 0..MaxId]

Ids == 1..MaxId
Copies == {"gData", "gConfig"}

VARIABLES
  files,      \* the files that exist: pairs of a folder and a name
  data,       \* data[c] = [tabs : sequence of [folder, ids], sound : id |-> attributes, counter]
  index,      \* gSounds: id |-> the copy whose sound it refers to
  favorites,  \* gFavorites, likewise
  refreshing, \* the tab refreshTab holds a copy of: <<>> or <<tab number, data>>
  saved,      \* the data in the config file
  program,    \* "running", or "closed" once the program has ended
  setting,    \* a web request's save: how far Data::set is, the sounds it has yet to
              \* enter in gSounds, and the one it has yet to look at for gFavorites (or 0)
  crossed,    \* history: the sounds that came or went while a web request saved
  wanted,     \* history: id |-> what the user at the desk last chose for the sound
  use         \* how the program is used: never changes

libraryVars ==
  <<files, data, index, favorites, refreshing, saved, program, setting, crossed, wanted>>

Unset == [fav |-> FALSE, custom |-> Default]
ChoiceSet == [fav : BOOLEAN, custom : Customs]

\* The attributes of a sound: its file and the user's choices.
NewSound(file) == [file |-> file, fav |-> FALSE, custom |-> Default]
Chosen(sound) == [fav |-> sound.fav, custom |-> sound.custom]

IdsOf(d) == UNION {d.tabs[i].ids : i \in 1..Len(d.tabs)}

NoData == [tabs |-> <<>>, sound |-> [i \in {} |-> NewSound(<<>>)], counter |-> 0]

SoundSet == [file : Folders \X Names, fav : BOOLEAN, custom : Customs]
\* A sound belongs to one tab.
DataOK(d) ==
  /\ d \in [tabs : Seq([folder : Folders, ids : SUBSET Ids]),
            sound : [IdsOf(d) -> SoundSet], counter : 0..MaxId]
  /\ \A m, n \in 1..Len(d.tabs) : m # n => d.tabs[m].ids \cap d.tabs[n].ids = {}

NoSave == [at |-> "none", left |-> {}, favorite |-> 0]

LibraryTypeOK ==
  /\ files \subseteq Folders \X Names
  /\ DOMAIN data = Copies /\ DataOK(data["gData"]) /\ DataOK(data["gConfig"]) /\ DataOK(saved)
  /\ DOMAIN index \subseteq Ids /\ \A i \in DOMAIN index : index[i] \in Copies
  /\ DOMAIN favorites \subseteq Ids /\ \A i \in DOMAIN favorites : favorites[i] \in Copies
  /\ program \in {"running", "closed"}
  /\ setting \in [at : {"none", "copied", "cleared", "filling"}, left : SUBSET Ids,
                  favorite : 0..MaxId]
  /\ crossed \subseteq Ids
  /\ wanted \in [Ids -> ChoiceSet]
  /\ use \in Uses

Nothing == [i \in {} |-> "gData"]


LibraryInit ==
  /\ files \in SUBSET (Folders \X Names)
  /\ data = [c \in Copies |-> NoData]
  /\ index = Nothing /\ favorites = Nothing
  /\ refreshing = <<>>
  /\ saved = NoData
  /\ program = "running"
  /\ setting = NoSave /\ crossed = {}
  /\ wanted = [i \in Ids |-> Unset]
  /\ use \in Uses

-------------------------------------------------------------------------------
(* The maps *)

Refers(map, ids, c) == [i \in DOMAIN map \cup ids |-> IF i \in DOMAIN map THEN map[i] ELSE c]
Erased(map, ids) == [i \in DOMAIN map \ ids |-> map[i]]
Overlaid(new, old) == [i \in DOMAIN new \cup DOMAIN old |->
                         IF i \in DOMAIN new THEN new[i] ELSE old[i]]
FavoriteIds(d, ids) == {i \in ids : d.sound[i].fav}

\* Both maps rebuilt from the sounds of copy c: Data::set and setTabs.
Rebuilds(c, d) ==
  /\ index' = Refers(Nothing, IdsOf(d), c)
  /\ favorites' = Refers(Nothing, FavoriteIds(d, IdsOf(d)), c)

\* Sounds come or go: a save that is under way does not know.
Crosses(ids) == crossed' = IF setting = NoSave THEN crossed ELSE crossed \cup ids

\* The sound an entry of gSounds refers to.
Sound(id) == data[index[id]].sound[id]

-------------------------------------------------------------------------------
(* The tab operations of the window *)

Gui == program = "running" /\ refreshing = <<>>

\* getTabContent: a file the tab knew keeps its sound, any other gets the next id.
Known(tab, d) == {d.sound[i].file : i \in tab.ids}
FilesOf(folder) == {f \in files : f[1] = folder}
Fresh(tab, d) == SetToSeq(FilesOf(tab.folder) \ Known(tab, d))

\* Mutant: a known file keeps its id and loses the user's choices.
ContentForgetful(tab, d) ==
  LET fresh == Fresh(tab, d)
      kept == {i \in tab.ids : d.sound[i].file \in files}
      new == d.counter + 1 .. d.counter + Len(fresh) IN
  [ids |-> kept \cup new,
   sound |-> [i \in kept \cup new |-> NewSound(IF i \in new THEN fresh[i - d.counter]
                                               ELSE d.sound[i].file)],
   counter |-> d.counter + Len(fresh)]

Content(tab, d) ==
  LET fresh == Fresh(tab, d)
      kept == {i \in tab.ids : d.sound[i].file \in files}
      new == d.counter + 1 .. d.counter + Len(fresh) IN
  [ids |-> kept \cup new,
   sound |-> [i \in kept \cup new |-> IF i \in new THEN NewSound(fresh[i - d.counter])
                                      ELSE d.sound[i]],
   counter |-> d.counter + Len(fresh)]

\* A tab with content comes after the others.
Added(d, folder, content) ==
  [tabs |-> Append(d.tabs, [folder |-> folder, ids |-> content.ids]),
   sound |-> Overlaid(content.sound, d.sound), counter |-> content.counter]

\* Window::addTab and Data::addTab, for one folder; a folder is added once.
AddTab(folder) ==
  LET d == data["gData"]
      content == Content([folder |-> folder, ids |-> {}], d) IN
  /\ Gui
  /\ \A i \in 1..Len(d.tabs) : d.tabs[i].folder # folder
  /\ content.counter <= use.most
  /\ data' = [data EXCEPT !["gData"] = Added(@, folder, content)]
  /\ index' = Refers(index, content.ids, "gData")
  /\ Crosses(content.ids)
  /\ UNCHANGED <<files, favorites, refreshing, saved, program, setting, wanted>>

\* A tab leaves the library with its sounds.
Dropped(d, n) ==
  [tabs |-> RemoveAt(d.tabs, n), sound |-> Erased(d.sound, d.tabs[n].ids), counter |-> d.counter]
Forgets(ids) == wanted' = [i \in Ids |-> IF i \in ids THEN Unset ELSE wanted[i]]
Wants(id, choice) == wanted' = IF use.web THEN wanted ELSE [wanted EXCEPT ![id] = choice]

\* Mutant: the maps keep the sounds of the removed tab.
RemoveTabOnly(n) ==
  /\ Gui /\ n \in 1..Len(data["gData"].tabs)
  /\ data' = [data EXCEPT !["gData"] = Dropped(@, n)]
  /\ Forgets(data["gData"].tabs[n].ids)
  /\ Crosses(data["gData"].tabs[n].ids)
  /\ UNCHANGED <<files, index, favorites, refreshing, saved, program, setting>>

\* Data::removeTabById: the favorite flags it looks at are those of gData.
RemoveTab(n) ==
  LET d == data["gData"] IN
  /\ Gui /\ n \in 1..Len(d.tabs)
  /\ data' = [data EXCEPT !["gData"] = Dropped(@, n)]
  /\ Forgets(d.tabs[n].ids)
  /\ index' = Erased(index, d.tabs[n].ids)
  /\ favorites' = Erased(favorites, FavoriteIds(d, d.tabs[n].ids))
  /\ Crosses(d.tabs[n].ids)
  /\ UNCHANGED <<files, refreshing, saved, program, setting>>

\* refreshTab and setSortMode: a copy of the tab with its present content ...
RefreshTab(n) ==
  LET d == data["gData"]
      content == Content(d.tabs[n], d) IN
  /\ Gui /\ n \in 1..Len(d.tabs)
  /\ content.counter <= use.most
  /\ refreshing' = <<n, content>>
  /\ data' = [data EXCEPT !["gData"].counter = content.counter]
  /\ UNCHANGED <<files, index, favorites, saved, program, setting, crossed, wanted>>

\* ... which Data::setTab puts in the place of the tab.
Placed(d, n, content) ==
  [tabs |-> [d.tabs EXCEPT ![n].ids = content.ids],
   sound |-> Overlaid(content.sound, Erased(d.sound, d.tabs[n].ids)),
   counter |-> d.counter]

SetTab ==
  LET d == data["gData"]
      n == refreshing[1]
      content == refreshing[2]
      old == d.tabs[n].ids IN
  /\ program = "running" /\ refreshing # <<>>
  /\ data' = [data EXCEPT !["gData"] = Placed(@, n, content)]
  /\ index' = Refers(Erased(index, old), content.ids, "gData")
  /\ favorites' = Refers(Erased(favorites, FavoriteIds(d, old)),
                         FavoriteIds(content, content.ids), "gData")
  /\ Forgets(old \ content.ids)
  /\ Crosses(old \cup content.ids)
  /\ refreshing' = <<>>
  /\ UNCHANGED <<files, saved, program, setting>>

\* changeTabOrder and Data::setTabs; dragging a tab is a sequence of swaps.
MoveTab(n) ==
  LET d == data["gData"]
      swapped == [d.tabs EXCEPT ![n] = d.tabs[n + 1], ![n + 1] = d.tabs[n]]
      moved == [tabs |-> swapped, sound |-> d.sound, counter |-> d.counter] IN
  /\ Gui /\ n \in 1..Len(d.tabs) - 1
  /\ data' = [data EXCEPT !["gData"] = moved]
  /\ Rebuilds("gData", moved)
  /\ crossed' = IF setting = NoSave THEN {} ELSE crossed
  /\ UNCHANGED <<files, refreshing, saved, program, setting, wanted>>

-------------------------------------------------------------------------------
(* Edits of one sound, by the window or by a web request *)

\* Data::set has replaced the sounds this entry refers to, and the entry is still there.
Stale(id) == setting.at = "copied" /\ index[id] = "gConfig"

MayEdit(id) == program = "running" /\ id \in DOMAIN index /\ (use.web \/ refreshing = <<>>)

\* setHotkey, setCustomLocalVolume, setCustomRemoteVolume.
SetCustom(id, custom) ==
  /\ MayEdit(id) /\ ~Stale(id) /\ custom \in use.customs
  /\ data' = [data EXCEPT ![index[id]].sound[id].custom = custom]
  /\ Wants(id, [wanted[id] EXCEPT !.custom = custom])
  /\ UNCHANGED <<files, index, favorites, refreshing, saved, program, setting, crossed>>

\* The entry of a favorite is made or erased.
Marks(id, fav, c) ==
  favorites' = IF fav THEN Refers(favorites, {id}, c) ELSE Erased(favorites, {id})

\* markFavorite: the star is toggled, as toggleFavoriteForWeb does.
MarkFavorite(id) ==
  LET fav == ~Sound(id).fav IN
  /\ MayEdit(id) /\ ~Stale(id) /\ id \in use.stars
  /\ data' = [data EXCEPT ![index[id]].sound[id].fav = fav]
  /\ Marks(id, fav, index[id])
  /\ Wants(id, [wanted[id] EXCEPT !.fav = fav])
  /\ UNCHANGED <<files, index, refreshing, saved, program, setting, crossed>>

\* The star is toggled through a stale entry: what is read there is anything, and what is
\* written reaches some sound of the copy or none.
MarkStale(id) ==
  /\ MayEdit(id) /\ Stale(id) /\ id \in use.stars
  /\ \E fav \in BOOLEAN :
       /\ \/ \E j \in IdsOf(data["gConfig"]) : data' = [data EXCEPT !["gConfig"].sound[j].fav = fav]
          \/ data' = data
       /\ Marks(id, fav, "gConfig")
  /\ UNCHANGED <<files, index, refreshing, saved, program, setting, crossed, wanted>>

-------------------------------------------------------------------------------
(* Saving and loading *)

\* Mutant: Data::set forgets soundIdCounter.
SetDataOnly(to, from) == [data[to] EXCEPT !.tabs = from.tabs, !.sound = from.sound]

\* Data::set of one copy from the other.
SetData(to, from) == from

\* saveSettingsImmediately on a thread of the web server, Data::set first: the tabs ...
CopyTabs ==
  /\ use.web /\ program = "running" /\ setting = NoSave
  /\ data' = [data EXCEPT !["gConfig"] = SetData("gConfig", data["gData"])]
  /\ setting' = [at |-> "copied", left |-> {}, favorite |-> 0]
  /\ crossed' = {}
  /\ UNCHANGED <<files, index, favorites, refreshing, saved, program, wanted>>

\* ... each map is emptied ...
ClearSounds ==
  /\ setting.at = "copied"
  /\ index' = Nothing
  /\ setting' = [at |-> "cleared", left |-> IdsOf(data["gConfig"]), favorite |-> 0]
  /\ UNCHANGED <<files, data, favorites, refreshing, saved, program, crossed, wanted>>

ClearFavorites ==
  /\ setting.at = "cleared"
  /\ favorites' = Nothing
  /\ setting' = [setting EXCEPT !.at = "filling"]
  /\ UNCHANGED <<files, data, index, refreshing, saved, program, crossed, wanted>>

\* ... and each sound entered, in any order: the order in which the window, whose
\* operations are one step here, meets the entries is any too.
InsertSound(id) ==
  /\ setting.at = "filling" /\ setting.favorite = 0 /\ id \in setting.left
  /\ index' = Refers(index, {id}, "gConfig")
  /\ setting' = [at |-> "filling", left |-> setting.left \ {id}, favorite |-> id]
  /\ UNCHANGED <<files, data, favorites, refreshing, saved, program, crossed, wanted>>

InsertFavorite ==
  /\ setting.favorite # 0
  /\ favorites' = Refers(favorites, FavoriteIds(data["gConfig"], {setting.favorite}), "gConfig")
  /\ setting' = [setting EXCEPT !.favorite = 0]
  /\ UNCHANGED <<files, data, index, refreshing, saved, program, crossed, wanted>>

\* Then gConfig.save().
WriteConfig ==
  /\ setting.at = "filling" /\ setting.favorite = 0 /\ setting.left = {}
  /\ saved' = data["gConfig"]
  /\ setting' = NoSave
  /\ UNCHANGED <<files, data, index, favorites, refreshing, program, crossed, wanted>>

LoginSave ==
  \/ CopyTabs \/ ClearSounds \/ ClearFavorites
  \/ \E id \in Ids : InsertSound(id)
  \/ InsertFavorite \/ WriteConfig

\* onClose, the end of mainLoop and main: three saves with nothing in between.
Close ==
  LET d == SetData("gConfig", data["gData"]) IN
  /\ Gui /\ setting = NoSave
  /\ data' = [data EXCEPT !["gConfig"] = d]
  /\ Rebuilds("gConfig", d)
  /\ saved' = d
  /\ crossed' = {}
  /\ program' = "closed"
  /\ UNCHANGED <<files, refreshing, setting, wanted>>

\* Config::load and main: gConfig.data, then gData, are set from the file.
Restart ==
  LET config == SetData("gConfig", saved) IN
  /\ program = "closed"
  /\ data' = [c \in Copies |-> config]
  /\ Rebuilds("gData", config)
  /\ program' = "running"
  /\ UNCHANGED <<files, refreshing, saved, setting, crossed, wanted>>

\* Somebody adds or deletes a file (deleteSound too), seen at the next refresh.
FileChanges(file) ==
  /\ files' = IF file \in files THEN files \ {file} ELSE files \cup {file}
  /\ UNCHANGED <<data, index, favorites, refreshing, saved, program, setting, crossed, wanted>>

-------------------------------------------------------------------------------
TabOperation ==
  \/ \E folder \in Folders : AddTab(folder)
  \/ \E n \in 1..Cardinality(Folders) : RemoveTab(n) \/ RefreshTab(n) \/ MoveTab(n)
  \/ SetTab

Edit == \E id \in Ids : MarkFavorite(id) \/ MarkStale(id) \/ \E custom \in Customs : SetCustom(id, custom)

LibraryNext ==
  /\ \/ TabOperation \/ Edit
     \/ LoginSave \/ Close \/ Restart
     \/ \E file \in Folders \X Names : FileChanges(file)
  /\ UNCHANGED use

LibrarySpec == LibraryInit /\ [][LibraryNext]_<<libraryVars, use>>

-------------------------------------------------------------------------------
(* Properties *)

\* Outside a refresh and a web request's save gSounds holds exactly the sounds of the
\* tabs, but for those that came or went while such a save was under way, until the maps
\* are rebuilt.  No entry refers to a sound its copy no longer has, except between the
\* copying of the tabs and the clearing of the map: a lookup by id finds every sound that
\* is shown and never a dead one (data.cpp:7-48, 94-150).  Without logins gFavorites
\* holds exactly the sounds whose star is set ("Toggle the star to add/remove the sound
\* from your Favorites tab").
MapsAgree ==
  /\ setting = NoSave =>
       \A i \in Ids \ crossed : i \in DOMAIN index <=> i \in IdsOf(data["gData"])
  /\ \A i \in DOMAIN index : i \in IdsOf(data[index[i]]) \/ Stale(i)
  /\ ~use.web => DOMAIN favorites = {i \in DOMAIN index : Sound(i).fav}

\* The invariant as one.
LibraryInv == LibraryTypeOK /\ MapsAgree

\* A sound keeps its file while it is in the library, over restarts too: the window
\* and the remote name sounds by id (ui.cpp:77-91).
IdKeepsFile ==
  [][\A i \in IdsOf(data["gData"]) \cap IdsOf(data["gData"])' :
       data'["gData"].sound[i].file = data["gData"].sound[i].file]_libraryVars

\* What the program leaves in the config file when it ends is what the user last chose
\* for each sound ("Final configuration saved successfully.").
EditsSurvive ==
  program = "closed" => \A i \in IdsOf(saved) : Chosen(saved.sound[i]) = wanted[i]

\* Without logins it is, over any edits, refreshes, changes of the files and restarts.
EditsSurviveAtDesk == ~use.web => EditsSurvive
================================================================================
