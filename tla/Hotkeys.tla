-------------------------------- MODULE Hotkeys --------------------------------
(***************************************************************************)
(* The hotkeys (src/core/hotkeys): the listener that follows which keys    *)
(* are held and calls the window for the hotkeys among them, the recording *)
(* of a hotkey for the page, and the push-to-talk keys the program presses *)
(* itself while sounds play.                                               *)
(*                                                                         *)
(* The keys the program presses come back to its own listener, through the *)
(* same queue of the window system as the user's: onKeyDown tells them by  *)
(* keysToPress alone.  Linux posts one press for each key; on Windows a    *)
(* second thread posts presses over and over while there are keys to press.*)
(* pressKeys and releaseKeys run in whatever thread plays or stops sounds: *)
(* the listener itself, the window (the page and the web requests) and the *)
(* queue.  Nothing locks the two vectors; a change of one is one step here.*)
(*                                                                         *)
(* Not modelled: the pairs, pauses and the microphone (PlaybackControl),   *)
(* names of keys, and the left mouse button, which the listener ignores.   *)
(***************************************************************************)
EXTENDS HotkeyMatching

CONSTANTS
  Keys,
  Sounds,      \* sounds of the library, strings
  ListOf,      \* the sounds of each view, in their order
  Usages,      \* how the program is configured and used, see UsagesAssumption
  MaxPlays,    \* bound: calls of playSound
  MaxStrokes,  \* bound: presses, repeats and releases of the user
  MaxEvents    \* bound: events on their way to the listener

Views == DOMAIN ListOf
ASSUME ListsAssumption == \A v \in Views : ListOf[v] \in Seq(Sounds)

\* windows: the Windows build; hotkeys: the hotkey of each sound at the start; stop: stopHotkey;
\* ptts: the push-to-talk keys the settings may name; views: those shown; overlap: allowOverlapping;
\* records: the page records hotkeys; fails: a sound may fail to open;
\* patient: nobody acts before what was asked for earlier has been done and heard;
\* keys: those the user has a hand on; plays, strokes: how many of each at most.
\* The stop hotkey is a recording of held keys, so that no key is twice in it.
ASSUME UsagesAssumption ==
  \A u \in Usages :
    /\ {u.windows, u.overlap, u.records, u.fails, u.patient} \subseteq BOOLEAN
    /\ u.hotkeys \in [Sounds -> Seq(Keys)] /\ u.stop \in Seq(Keys) /\ IsInjective(u.stop)
    /\ u.ptts \subseteq Seq(Keys) /\ u.views \subseteq Views /\ u.keys \subseteq Keys
    /\ u.plays \in 0..MaxPlays /\ u.strokes \in 0..MaxStrokes
ASSUME BoundsAssumption == {MaxPlays, MaxStrokes, MaxEvents} \subseteq Nat
ASSUME NamesAssumption == Sounds \cap {"nothing", "stop", "page"} = {}

Threads == {"listener", "window", "queue"}

VARIABLES
  events,       \* on their way to the listener: [key, kind, by]
  userDown,     \* keys the user holds
  ownDown,      \* keys the program has pressed and not released
  pressedKeys, keysToPress, notify,
  round,        \* keyPressThread: the keys left of its pass over keysToPress
  hotkeys,      \* Sound::hotkeys
  ptt,          \* gSettings.pushToTalkKeys
  view,         \* tabHotkeysOnly, selectedTab and isOnFavorites: whose hotkeys count
  received,     \* the combination the page was given last
  todo,         \* what the call in each thread has left to do
  playing,      \* sounds that play, numbered by their plays
  opened,       \* plays that opened
  plays,        \* calls of playSound
  ending,       \* the sound whose end the queue thread handles
  stopLater,    \* Audio::stopAll is queued
  asked,        \* the event handled last and what the listener called for it
  forgotten,    \* held keys a recording has made the listener forget
  strayed,      \* keys of the program that its code leaves pressed
  strokes,      \* events of the user so far
  usage         \* how the program is used: never changes

keyboard == <<events, userDown, strokes>>
listener == <<pressedKeys, notify, asked, forgotten>>
held == <<ownDown, keysToPress, round, strayed>>
config == <<hotkeys, ptt, view, received>>
player == <<playing, opened, plays, ending, stopLater>>
vars == <<keyboard, listener, held, config, player, todo>>

Kinds == {"press", "repeat", "release"}
EventSet == [key : Keys, kind : Kinds, by : {"user", "own"}]
Steps == {"release", "up", "press", "down", "silence", "stopLater", "open", "ended",
          "forget", "record", "endRecord"}
SoundNumbers == 1..MaxPlays

\* No key is twice among the held ones, repeats and the program's own presses included.
TypeOK ==
  /\ events \in Seq(EventSet) /\ Len(events) <= MaxEvents
  /\ userDown \subseteq Keys /\ ownDown \subseteq Keys
  /\ pressedKeys \in Seq(Keys) /\ Cardinality(ToSet(pressedKeys)) = Len(pressedKeys)
  /\ {keysToPress, round, ptt, received} \subseteq Seq(Keys)
  /\ notify \in BOOLEAN /\ stopLater \in BOOLEAN
  /\ hotkeys \in [Sounds -> Seq(Keys)] /\ view \in Views
  /\ todo \in [Threads -> Seq(Steps)]
  /\ playing \subseteq SoundNumbers /\ ending \in 0..MaxPlays
  /\ opened <= plays /\ plays \in 0..MaxPlays /\ strokes \in 0..MaxStrokes
  /\ asked.did \in Sounds \cup {"nothing", "stop", "page"}
  /\ forgotten \subseteq Keys /\ strayed \subseteq Keys /\ usage \in Usages

Init ==
  /\ usage \in Usages
  /\ events = <<>> /\ userDown = {} /\ ownDown = {} /\ strokes = 0
  /\ pressedKeys = <<>> /\ keysToPress = <<>> /\ notify = FALSE /\ round = <<>>
  /\ hotkeys = usage.hotkeys /\ received = <<>>
  /\ ptt \in usage.ptts /\ view \in usage.views
  /\ todo = [t \in Threads |-> <<>>]
  /\ playing = {} /\ opened = 0 /\ plays = 0 /\ ending = 0 /\ stopLater = FALSE
  /\ asked = [by |-> "user", did |-> "nothing"]
  /\ forgotten = {} /\ strayed = {}

-------------------------------------------------------------------------------
(* Whose turn it is *)

Idle == \A t \in Threads : todo[t] = <<>>
Settled == Idle /\ events = <<>> /\ ~stopLater
MayAct == usage.patient => Settled
MayListen == todo["listener"] = <<>> /\ (usage.patient => Idle)
MayCall(t) == todo[t] = <<>> /\ MayAct

Runs(t, steps) == todo' = [todo EXCEPT ![t] = steps]

-------------------------------------------------------------------------------
(* The user's keys.  Windows keeps one state for a key, so that the user's     *)
(* release lifts what the program presses; X keeps one for each device.        *)

Strikes(key, kind) ==
  /\ MayAct /\ strokes < usage.strokes /\ Len(events) < MaxEvents
  /\ strokes' = strokes + 1
  /\ events' = Append(events, [key |-> key, kind |-> kind, by |-> "user"])

UserPresses(k) ==
  /\ k \notin userDown
  /\ Strikes(k, "press") /\ userDown' = userDown \cup {k}
  /\ UNCHANGED <<listener, held, config, player, todo>>

KeyRepeats(k) ==
  /\ k \in userDown
  /\ Strikes(k, "repeat")
  /\ UNCHANGED <<userDown, listener, held, config, player, todo>>

UserReleases(k) ==
  /\ k \in userDown
  /\ Strikes(k, "release") /\ userDown' = userDown \ {k}
  /\ ownDown' = IF usage.windows THEN ownDown \ {k} ELSE ownDown
  /\ UNCHANGED <<keysToPress, round, strayed, listener, config, player, todo>>

-------------------------------------------------------------------------------
(* What the window does with the calls, step by step *)

\* stopSounds, in its own thread or with stopAll left to the queue.
StopSounds(sync) == <<IF sync THEN "silence" ELSE "stopLater", "release">>
\* playSound presses the keys before it opens the sound; on Windows the stop before it
\* is left to the queue and may come after the new sound.
PlaySound ==
  IF usage.overlap THEN <<"press", "open">>
  ELSE <<IF usage.windows THEN "stopLater" ELSE "silence", "release", "press", "open">>

-------------------------------------------------------------------------------
(* The listener *)

FiredSound(keys) == BestMatch(hotkeys, keys, ListOf[view])
StopIsHeld(keys) == usage.stop # <<>> /\ IsCloseMatch(keys, usage.stop)

Asks(by, did) == asked' = [by |-> by, did |-> did]

\* Mutants: the program's own keys count; the first release forgets all.
UnfilteredNews(k) == k \notin ToSet(pressedKeys)
NoneHeld(k) == <<>>

IsNews(k) == k \notin ToSet(keysToPress) /\ k \notin ToSet(pressedKeys)
\* A released key is taken out; no key is twice among the held ones.
StillHeld(k) ==
  IF k \in ToSet(pressedKeys)
  THEN RemoveAt(pressedKeys, CHOOSE i \in 1..Len(pressedKeys) : pressedKeys[i] = k)
  ELSE pressedKeys

OnKeyDown(k, by) ==
  IF ~IsNews(k) THEN Asks(by, "nothing") /\ UNCHANGED <<pressedKeys, todo, plays>>
  ELSE
    LET keys == Append(pressedKeys, k) IN
    /\ pressedKeys' = keys
    /\ \/ /\ notify \/ (~StopIsHeld(keys) /\ FiredSound(keys) = {})
          /\ Asks(by, "nothing") /\ UNCHANGED <<todo, plays>>
       \/ /\ ~notify /\ StopIsHeld(keys)
          /\ Asks(by, "stop") /\ Runs("listener", StopSounds(FALSE)) /\ UNCHANGED plays
       \/ /\ ~notify /\ ~StopIsHeld(keys) /\ plays < usage.plays
          /\ \E s \in FiredSound(keys) : Asks(by, s)
          /\ Runs("listener", PlaySound) /\ plays' = plays + 1

\* The first release ends a recording: the page gets all that was held.
OnKeyUp(k, by) ==
  IF notify /\ k \in ToSet(pressedKeys)
  THEN /\ received' = pressedKeys /\ pressedKeys' = <<>>
       /\ forgotten' = (forgotten \cup ToSet(pressedKeys)) \ {k}
       /\ Asks(by, "page")
  ELSE /\ pressedKeys' = StillHeld(k)
       /\ forgotten' = IF by = "user" THEN forgotten \ {k} ELSE forgotten
       /\ Asks(by, "nothing") /\ UNCHANGED received

Listen ==
  /\ MayListen /\ events # <<>>
  /\ events' = Tail(events)
  /\ LET e == Head(events) IN
     \/ /\ e.kind # "release" /\ OnKeyDown(e.key, e.by)
        /\ forgotten' = IF e.by = "user" THEN forgotten \ {e.key} ELSE forgotten
        /\ UNCHANGED received
     \/ /\ e.kind = "release" /\ OnKeyUp(e.key, e.by)
        /\ UNCHANGED <<todo, plays>>
  /\ UNCHANGED <<userDown, strokes, notify, held, hotkeys, ptt, view,
                 playing, opened, ending, stopLater>>

-------------------------------------------------------------------------------
(* A step of the call in thread t; keys are those the settings name by then *)

Rest(t) == Tail(todo[t])
Continues(t) == todo' = [todo EXCEPT ![t] = Rest(t)]
At(t, step) == todo[t] # <<>> /\ Head(todo[t]) = step

Posts(kind) ==
  /\ Len(events) + Len(ptt) <= MaxEvents
  /\ events' = events \o [i \in 1..Len(ptt) |-> [key |-> ptt[i], kind |-> kind, by |-> "own"]]

\* pressKeys, called when there are push-to-talk keys; keyPressThread does the rest on Windows.
Press(t) ==
  /\ At(t, "press")
  /\ keysToPress' = IF ptt = <<>> THEN keysToPress ELSE ptt
  /\ Runs(t, IF ptt = <<>> \/ usage.windows THEN Rest(t) ELSE <<"down">> \o Rest(t))
  /\ UNCHANGED <<keyboard, listener, ownDown, round, strayed, config, player>>

PostPresses(t) ==
  /\ At(t, "down") /\ Posts("press") /\ Continues(t)
  /\ ownDown' = ownDown \cup ToSet(ptt)
  /\ UNCHANGED <<userDown, strokes, listener, keysToPress, round, strayed, config, player>>

\* Mutant: keysToPress is not cleared.
ReleaseUncleared(t) ==
  /\ At(t, "release")
  /\ Runs(t, IF ptt = <<>> THEN Rest(t) ELSE <<"up">> \o Rest(t))
  /\ UNCHANGED <<keyboard, listener, held, config, player>>

\* releaseKeys.
Release(t) ==
  /\ At(t, "release")
  /\ keysToPress' = IF ptt = <<>> THEN keysToPress ELSE <<>>
  /\ Runs(t, IF ptt = <<>> THEN Rest(t) ELSE <<"up">> \o Rest(t))
  /\ UNCHANGED <<keyboard, listener, ownDown, round, strayed, config, player>>

PostReleases(t) ==
  /\ At(t, "up") /\ Posts("release") /\ Continues(t)
  /\ ownDown' = ownDown \ ToSet(ptt)
  /\ strayed' = strayed \ (ToSet(ptt) \ ToSet(keysToPress))
  /\ UNCHANGED <<userDown, strokes, listener, keysToPress, round, config, player>>

\* Keys that stay pressed, or go on to be pressed, with nothing to release them.
Abandoned == strayed \cup ownDown \cup ToSet(keysToPress)

\* stopAll within the call, or queued.
Silence(t) ==
  /\ At(t, "silence") /\ Continues(t) /\ playing' = {}
  /\ UNCHANGED <<keyboard, listener, held, config, opened, plays, ending, stopLater>>

QueueStop(t) ==
  /\ At(t, "stopLater") /\ Continues(t) /\ stopLater' = TRUE
  /\ UNCHANGED <<keyboard, listener, held, config, playing, opened, plays, ending>>

\* The sound opens, or playSound returns with the keys still pressed.
Open(t) ==
  /\ At(t, "open") /\ Continues(t)
  /\ \/ /\ opened' = opened + 1 /\ playing' = playing \cup {opened + 1}
        /\ UNCHANGED strayed
     \/ /\ usage.fails
        /\ strayed' = IF playing \subseteq {ending} THEN Abandoned ELSE strayed
        /\ UNCHANGED <<opened, playing>>
  /\ UNCHANGED <<keyboard, listener, ownDown, keysToPress, round, config, plays, ending, stopLater>>

Erase(t) ==
  /\ At(t, "ended") /\ Continues(t)
  /\ playing' = playing \ {ending} /\ ending' = 0
  /\ UNCHANGED <<keyboard, listener, held, config, opened, plays, stopLater>>

-------------------------------------------------------------------------------
(* Windows: keyPressThread passes over keysToPress again and again.  A pass goes  *)
(* on over the keys it began with when releaseKeys clears the vector meanwhile.   *)

\* Mutant: the keys are pressed once.
StartRoundOnce ==
  /\ usage.windows /\ round = <<>> /\ keysToPress # <<>> /\ ownDown = {}
  /\ round' = keysToPress
  /\ UNCHANGED <<keyboard, listener, ownDown, keysToPress, strayed, config, player, todo>>

StartRound ==
  /\ usage.windows /\ round = <<>> /\ keysToPress # <<>>
  /\ round' = keysToPress
  /\ UNCHANGED <<keyboard, listener, ownDown, keysToPress, strayed, config, player, todo>>

PressNext ==
  /\ round # <<>> /\ Len(events) < MaxEvents
  /\ LET k == Head(round) IN
     /\ events' = Append(events, [key |-> k, kind |-> "press", by |-> "own"])
     /\ ownDown' = ownDown \cup {k}
     /\ strayed' = IF k \in ToSet(keysToPress) THEN strayed ELSE strayed \cup {k}
  /\ round' = Tail(round)
  /\ UNCHANGED <<userDown, strokes, listener, keysToPress, config, player, todo>>

-------------------------------------------------------------------------------
(* Calls of the window and of the queue thread *)

WindowPlays ==
  /\ MayCall("window") /\ plays < usage.plays
  /\ plays' = plays + 1 /\ Runs("window", PlaySound)
  /\ UNCHANGED <<keyboard, listener, held, config, playing, opened, ending, stopLater>>

WindowStops ==
  /\ MayCall("window") /\ playing # {}
  /\ \E sync \in BOOLEAN : Runs("window", StopSounds(sync))
  /\ UNCHANGED <<keyboard, listener, held, config, player>>

\* onSoundFinished counts the sounds before the finished one is erased.
SoundEnds(s) ==
  /\ MayCall("queue") /\ s \in playing
  /\ ending' = s
  /\ Runs("queue", IF playing = {s} THEN <<"release", "ended">> ELSE <<"ended">>)
  /\ UNCHANGED <<keyboard, listener, held, config, playing, opened, plays, stopLater>>

\* The queued stopAll also silences what was played since, whose keys stay pressed.
StopAllRuns ==
  /\ stopLater /\ todo["queue"] = <<>> /\ (usage.patient => Idle)
  /\ stopLater' = FALSE /\ playing' = {}
  /\ strayed' = IF playing # {} THEN Abandoned ELSE strayed
  /\ UNCHANGED <<keyboard, listener, ownDown, keysToPress, round, config,
                 opened, plays, ending, todo>>

\* Keys pressed under the old settings are never released.
SettingsChange ==
  /\ MayCall("window") /\ \E keys \in usage.ptts \ {ptt} : ptt' = keys
  /\ strayed' = Abandoned
  /\ UNCHANGED <<keyboard, listener, ownDown, keysToPress, round, hotkeys, view, received, player, todo>>

ViewChanges ==
  /\ MayCall("window") /\ \E v \in usage.views \ {view} : view' = v
  /\ UNCHANGED <<keyboard, listener, held, hotkeys, ptt, received, player, todo>>

\* requestHotkey and setHotkey, as the page calls them.
RequestHotkey ==
  /\ MayCall("window") /\ usage.records
  /\ Runs("window", <<"forget", IF notify THEN "endRecord" ELSE "record">>)
  /\ UNCHANGED <<keyboard, listener, held, config, player>>

SetHotkey(s) ==
  /\ MayCall("window") /\ received # <<>>
  /\ hotkeys' = [hotkeys EXCEPT ![s] = received] /\ received' = <<>>
  /\ UNCHANGED <<keyboard, listener, held, ptt, view, player, todo>>

\* shouldNotify.
Forget ==
  /\ At("window", "forget") /\ Continues("window")
  /\ pressedKeys' = <<>> /\ forgotten' = forgotten \cup ToSet(pressedKeys)
  /\ UNCHANGED <<keyboard, notify, asked, held, config, player>>

SetNotify ==
  /\ \/ At("window", "record") /\ notify' = TRUE
     \/ At("window", "endRecord") /\ notify' = FALSE
  /\ Continues("window")
  /\ UNCHANGED <<keyboard, pressedKeys, asked, forgotten, held, config, player>>

-------------------------------------------------------------------------------

StepOf(t) ==
  \/ Press(t) \/ PostPresses(t) \/ Release(t) \/ PostReleases(t)
  \/ Silence(t) \/ QueueStop(t) \/ Open(t) \/ Erase(t)

UserNext == \E k \in usage.keys : UserPresses(k) \/ KeyRepeats(k) \/ UserReleases(k)
WindowNext ==
  \/ WindowPlays \/ WindowStops \/ SettingsChange \/ ViewChanges
  \/ RequestHotkey \/ \E s \in Sounds : SetHotkey(s)
  \/ Forget \/ SetNotify
QueueNext == StopAllRuns \/ \E s \in playing : SoundEnds(s)

Next ==
  /\ \/ UserNext \/ Listen \/ (\E t \in Threads : StepOf(t))
     \/ WindowNext \/ QueueNext \/ StartRound \/ PressNext
  /\ UNCHANGED usage

Spec == Init /\ [][Next]_<<vars, usage>>

\* Threads that have something to do go on, the key press thread passes over its keys again
\* and again, and the listener reads what there is; users and sounds may stop for ever.
FairSpec ==
  /\ Spec
  /\ WF_vars(Listen) /\ WF_vars(Forget) /\ WF_vars(SetNotify) /\ WF_vars(StopAllRuns)
  /\ \A t \in Threads : WF_vars(StepOf(t))
  /\ WF_vars(StartRound) /\ WF_vars(PressNext)

-------------------------------------------------------------------------------
(* Properties *)

\* The keys the program may press itself under some settings.
SyntheticKeys == UNION {ToSet(keys) : keys \in usage.ptts}

\* The user holds k as far as the events read so far tell.
UserHolds(k) ==
  LET news == {i \in 1..Len(events) : /\ events[i].key = k /\ events[i].by = "user"
                                      /\ events[i].kind # "repeat"} IN
  IF news = {} THEN k \in userDown
  ELSE events[CHOOSE i \in news : \A j \in news : i <= j].kind = "release"

\* Apart from push-to-talk keys, the listener takes for held exactly the keys the user
\* holds, up to the events still on their way and the keys that were down when a
\* recording began or ended, which count again with their next repeat.
TracksTheUser ==
  \A k \in Keys \ SyntheticKeys :
    k \in ToSet(pressedKeys) <=> (UserHolds(k) /\ k \notin forgotten)

\* The invariant of the listener as one.
ListenerInv == TypeOK /\ TracksTheUser

\* What the listener is meant to call for when these keys are held.
Meant(keys) ==
  IF usage.stop # <<>> /\ ToSet(usage.stop) \subseteq ToSet(keys) THEN {"stop"}
  ELSE IF MeantSound(hotkeys, keys, ListOf[view]) = {} THEN {"nothing"}
  ELSE MeantSound(hotkeys, keys, ListOf[view])

\* Every key the user presses, unless it is a push-to-talk key or the page records,
\* calls for what is meant: the stop before any sound, the exact combination before a
\* longer list of held keys, the longest of these before the others.
BestHotkeyFires ==
  [][(/\ events # <<>> /\ events' = Tail(events) /\ ~notify
      /\ Head(events).by = "user" /\ Head(events).kind = "press"
      /\ Head(events).key \notin SyntheticKeys)
     => asked'.did \in Meant(pressedKeys')]_vars

\* On Linux the program's own presses call for nothing, if each is heard before the
\* next call: releaseKeys forgets the keys before their releases are on their way.
OwnKeysFireNothing ==
  usage.patient /\ ~usage.windows /\ asked.by = "own" => asked.did \in {"nothing", "page"}

\* When nothing plays and no call runs, the program holds no key, except those pressed
\* under other settings, for a sound that did not open or that a late stop silenced,
\* and those keyPressThread pressed after their release.
KeysAreLetGo ==
  Idle /\ playing = {} /\ round = <<>> => ownDown \subseteq strayed

\* Why a key may be held: a sound plays whose end is not being handled, or a call is
\* about to open one or to release the keys.  KeysAreExplained is inductive.
Has(step) == \E t \in Threads : step \in ToSet(todo[t])
Reason == playing \ {ending} # {} \/ Has("open") \/ Has("release")
KeysAreExplained ==
  /\ ToSet(keysToPress) \ strayed # {} => Reason
  /\ ownDown \ strayed # {} => Reason \/ Has("up")
  /\ (ownDown \cup ToSet(keysToPress)) \ strayed \subseteq ToSet(ptt)

\* Keys to be pressed go down, and down again after the user lifted one on Windows, or
\* are no longer to be pressed.  Of calls that cross, one may release what another pressed.
WantedKeysGoDown ==
  \A k \in Keys : (usage.patient /\ k \in ToSet(keysToPress))
                    ~> (k \in ownDown \/ k \notin ToSet(keysToPress))
================================================================================
