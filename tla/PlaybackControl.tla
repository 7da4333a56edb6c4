---------------------------- MODULE PlaybackControl ----------------------------
(***************************************************************************)
(* The window layer (src/ui/ui.cpp, Linux) and the remote's global pause   *)
(* and talk-through (src/ui/impl/webview/webview.cpp): which sounds play   *)
(* and are paused, the local/remote pairs, the push-to-talk keys held and  *)
(* the microphone muted on their behalf.                                   *)
(*                                                                         *)
(* Controlling threads (GUI, hotkeys, one per web request) call the        *)
(* operations; the queue thread runs stopAll and the ends of sounds.  An   *)
(* operation is one step, except those that touch the keys or the          *)
(* microphone at one time and the sounds at another without any lock       *)
(* (playSound and the two toggles of the remote), and those that pause or  *)
(* resume a local sound in one lock hold and its remote one in the next    *)
(* (pauseSound, resumeSound and toggleSoundPlayback).  These are several   *)
(* steps, between which the other threads run unless the calls are atomic. *)
(*                                                                         *)
(* How the program is used is chosen at the start, as a mode: the kinds of *)
(* call the users make, whether calls interleave, whether they may fail.   *)
(***************************************************************************)
EXTENDS Naturals, FiniteSets

CONSTANTS
  Plays,           \* calls of playSound: each opens a local and a remote sound
  Users,           \* controlling threads
  InitialSettings, \* [ptt, mute, overlap, outputs : BOOLEAN]
  Modes            \* how the program is used, see ModesAssumption

\* ptt: keys are configured; mute: muteDuringPlayback; overlap: allowOverlapping;
\* outputs: there are outputs and the sink is not used as the default device.
SettingsSet == [ptt : BOOLEAN, mute : BOOLEAN, overlap : BOOLEAN, outputs : BOOLEAN]

ASSUME SettingsAssumption ==
  InitialSettings \in SettingsSet
ASSUME PlaysAssumption == "none" \notin Plays

\* calls: the kinds of call made; plays: the calls of playSound among them; settings:
\* those a user may switch to; atomic: a call runs to its end before another thread acts;
\* mayFail: opening or routing may fail.
Kinds == {"play", "sound", "stop", "stopLater", "settings", "toggle", "talk", "tray"}
ASSUME ModesAssumption ==
  Modes \subseteq [calls : SUBSET Kinds, plays : SUBSET Plays, settings : SUBSET SettingsSet,
                   atomic : BOOLEAN, mayFail : BOOLEAN]

Local(p) == <<p, "local">>
Remote(p) == <<p, "remote">>
Sounds == Plays \X {"local", "remote"}

VARIABLES
  world,     \* [playing, paused : sets of sounds, grouped : set of plays,
             \*  pressed : keys held, muted : microphone muted]
  settings,  \* gSettings
  used,      \* plays whose playSound was called
  jobs,      \* queued jobs: ended sounds, and "stopAll"
  thread,    \* thread[u] = [at, play, ptt, mic, resumed]: the call u is in, its locals
  talking,   \* isTalkThroughActive
  toggled,   \* playbackGloballyPaused
  talk,      \* talkThroughPauseState = [ids, ptt, mic]
  toggle,    \* togglePauseState = [ids, ptt, mic]
  hand,      \* hand[u] = [does, named, todo]: u pauses or resumes the sounds todo, then
             \*  those of the plays named
  apart,     \* history: plays whose local sound was last paused or resumed alone, or
             \*  across the opposite call on the pair
  mode       \* how the program is used: never changes

vars == <<world, settings, used, jobs, thread, talking, toggled, talk, toggle>>
allVars == <<vars, hand, apart, mode>>

Idle == [at |-> "idle", play |-> "none",
         ptt |-> FALSE, mic |-> FALSE, resumed |-> FALSE]
NothingPaused == [ids |-> {}, ptt |-> FALSE, mic |-> FALSE]
EmptyHand == [does |-> "nothing", named |-> {}, todo |-> {}]

WorldOK(w) ==
  /\ w \in [playing : SUBSET Sounds, paused : SUBSET Sounds, grouped : SUBSET Plays,
            pressed : BOOLEAN, muted : BOOLEAN]
  /\ w.paused \subseteq w.playing

Interruption == [ids : SUBSET Sounds, ptt : BOOLEAN, mic : BOOLEAN]
Phases == {"idle", "open", "group", "pausing", "resuming", "startingTalk", "stoppingTalk"}
ThreadOK ==
  /\ thread \in [Users -> [at : Phases, play : Plays \cup {"none"},
                           ptt : BOOLEAN, mic : BOOLEAN, resumed : BOOLEAN]]
  /\ \A u \in Users : thread[u].at \in {"open", "group"} => thread[u].play \in Plays

HandOK ==
  /\ hand \in [Users -> [does : {"nothing", "pause", "resume"},
                         named : SUBSET Plays, todo : SUBSET Sounds]]
  /\ \A u \in Users : hand[u] # EmptyHand => "sound" \in mode.calls

TypeOK ==
  /\ WorldOK(world) /\ ThreadOK /\ HandOK
  /\ apart \subseteq Plays
  /\ settings \in SettingsSet
  /\ used \subseteq Plays
  /\ jobs \subseteq Sounds \cup {<<"stopAll">>}
  /\ talking \in BOOLEAN /\ toggled \in BOOLEAN
  /\ talk \in Interruption /\ toggle \in Interruption
  /\ mode \in Modes

Init ==
  /\ world = [playing |-> {}, paused |-> {}, grouped |-> {},
              pressed |-> FALSE, muted |-> FALSE]
  /\ settings = InitialSettings
  /\ used = {} /\ jobs = {}
  /\ thread = [u \in Users |-> Idle]
  /\ talking = FALSE /\ toggled = FALSE
  /\ talk = NothingPaused /\ toggle = NothingPaused
  /\ hand = [u \in Users |-> EmptyHand] /\ apart = {}
  /\ mode \in Modes

-------------------------------------------------------------------------------
(* Whose turn it is *)

Idles(u) == thread[u].at = "idle" /\ hand[u] = EmptyHand
Quiescent == \A u \in Users : Idles(u)

\* A new call of u, a job of the queue thread, a further step of u.
MayCall(u, call) == call \in mode.calls /\ Idles(u) /\ (mode.atomic => Quiescent)
MayRunJob == mode.atomic => Quiescent
At(u, at) == thread[u].at = at

Goes(u, at) == thread' = [thread EXCEPT ![u].at = at]
Returns(u) == thread' = [thread EXCEPT ![u] = Idle]

-------------------------------------------------------------------------------
(* What the operations of Window do to the world *)

\* Releasing or pressing the keys the settings name now (none, without ptt), and
\* unmuting or muting the microphone, each if asked to.
Released(w, ptt, mic) ==
  [w EXCEPT !.pressed = @ /\ ~(ptt /\ settings.ptt), !.muted = @ /\ ~mic]
Applied(w, ptt, mic) ==
  [w EXCEPT !.pressed = @ \/ (ptt /\ settings.ptt), !.muted = @ \/ mic]

\* onAllSoundsFinished.
AllFinished(w) == Released(w, settings.ptt, settings.mute)

Without(w, sounds) == [w EXCEPT !.playing = @ \ sounds, !.paused = @ \ sounds]

\* stopSounds: the asynchronous one leaves the sounds to the queue.
SoundsStopped(w, sync) ==
  [AllFinished(IF sync THEN Without(w, Sounds) ELSE w) EXCEPT !.grouped = {}]

\* The sounds an operation on sound s acts on: with outputs set a grouped local
\* sound takes its remote one along.
Pair(w, s) ==
  IF settings.outputs /\ s[2] = "local" /\ s[1] \in w.grouped
  THEN {s, Remote(s[1])} ELSE {s}

\* stopSound: with outputs set only a grouped sound can be stopped.
SoundStopped(w, s) ==
  LET stopped == [Without(w, Pair(w, s)) EXCEPT
                    !.grouped = IF settings.outputs THEN @ \ {s[1]} ELSE @] IN
  IF settings.outputs /\ Pair(w, s) = {s} THEN w
  ELSE IF stopped.playing = {} THEN AllFinished(stopped) ELSE stopped

\* pauseSound and resumeSound of each sound of a set, as the toggles of the remote do.
Paired(w, sounds) == UNION {Pair(w, s) : s \in sounds}
SoundsPaused(w, sounds) == [w EXCEPT !.paused = @ \cup (Paired(w, sounds) \cap w.playing)]
SoundsResumed(w, sounds) == [w EXCEPT !.paused = @ \ Paired(w, sounds)]

\* onFinished of the queue thread for a sound that plays: onSoundFinished counts
\* the sounds before the finished one is erased.
\* Mutant: counts as if the finished sound were erased already.
SoundFinishedMiscounted(w, s) ==
  LET left == Without([w EXCEPT !.grouped = IF s[2] = "local" THEN @ \ {s[1]} ELSE @], {s}) IN
  IF Cardinality(left.playing) = 1 THEN AllFinished(left) ELSE left
SoundFinished(w, s) ==
  LET ungrouped == [w EXCEPT !.grouped = IF s[2] = "local" THEN @ \ {s[1]} ELSE @] IN
  Without(IF Cardinality(w.playing) = 1 THEN AllFinished(ungrouped) ELSE ungrouped, {s})

-------------------------------------------------------------------------------
(* playSound, in three steps *)

\* Stop the others unless they may overlap, mute, press the keys.
PlayHolds(u, p) ==
  /\ MayCall(u, "play") /\ p \in mode.plays \ used
  /\ used' = used \cup {p}
  /\ world' = Applied(IF settings.overlap THEN world ELSE SoundsStopped(world, TRUE),
                      TRUE, settings.mute)
  /\ thread' = [thread EXCEPT ![u].at = "open", ![u].play = p]
  /\ UNCHANGED <<settings, jobs, talking, toggled, talk, toggle>>

\* gAudio.play of the local and of the remote sound; the call goes on if both opened,
\* else it returns the error and leaves everything else as it is.
PlayOpens(u) ==
  /\ At(u, "open")
  /\ LET both == {Local(thread[u].play), Remote(thread[u].play)} IN
     \E opened \in SUBSET both :
       /\ mode.mayFail \/ opened = both
       /\ world' = [world EXCEPT !.playing = @ \cup opened]
       /\ IF opened = both THEN Goes(u, "group") ELSE Returns(u)
  /\ UNCHANGED <<settings, used, jobs, talking, toggled, talk, toggle>>

\* Group the two; stop both if no output takes the remote one.
PlayGroups(u) ==
  /\ At(u, "group")
  /\ LET p == thread[u].play
         grouped == [world EXCEPT !.grouped = @ \cup {p}] IN
     \/ world' = grouped
     \/ /\ settings.outputs /\ mode.mayFail
        /\ world' = SoundStopped(SoundStopped(grouped, Local(p)), Remote(p))
  /\ Returns(u)
  /\ UNCHANGED <<settings, used, jobs, talking, toggled, talk, toggle>>

-------------------------------------------------------------------------------
(* The other calls of the window: one step each *)

OnlyWorld(w) ==
  world' = w /\ UNCHANGED <<settings, used, jobs, thread, talking, toggled, talk, toggle>>

\* The user names a sound by the local one playSound returned.
StopSound(u, p) ==
  /\ MayCall(u, "sound") /\ p \in used
  /\ OnlyWorld(SoundStopped(world, Local(p)))

\* stopSounds(true): the STOP of the remote.
StopSounds(u) ==
  /\ MayCall(u, "stop")
  /\ OnlyWorld(SoundsStopped(world, TRUE))

\* stopSounds(): the stop hotkey and the window's button.
StopSoundsLater(u) ==
  /\ MayCall(u, "stopLater")
  /\ world' = SoundsStopped(world, FALSE)
  /\ jobs' = jobs \cup {<<"stopAll">>}
  /\ UNCHANGED <<settings, used, thread, talking, toggled, talk, toggle>>

\* changeSettings: while something plays a change of muteDuringPlayback is applied.
MuteFollows(w, new) ==
  IF w.playing # {} /\ new.mute # settings.mute THEN [w EXCEPT !.muted = new.mute] ELSE w

ChangeSettings(u, new) ==
  /\ MayCall(u, "settings") /\ new \in mode.settings
  /\ settings' = new
  /\ world' = MuteFollows(world, new)
  /\ UNCHANGED <<used, jobs, thread, talking, toggled, talk, toggle>>

\* The tray's switch for muting writes gSettings before it calls changeSettings, which
\* then finds no difference.
ToggleMuteInTray(u) ==
  /\ MayCall(u, "tray")
  /\ settings' = [settings EXCEPT !.mute = ~@]
  /\ UNCHANGED <<world, used, jobs, thread, talking, toggled, talk, toggle>>

-------------------------------------------------------------------------------
(* pauseSound, resumeSound and toggleSoundPlayback: the sounds one by one *)

\* Half of u's call on the pair of p is done: the remote sound is left.
Halfway(u, p) == Remote(p) \in hand[u].todo /\ Local(p) \notin hand[u].todo

\* Another thread is halfway through the opposite call.
Crosses(u, p) == \E v \in Users : Halfway(v, p) /\ hand[v].does # hand[u].does

Takes(u, does, named, todo) ==
  /\ hand' = [hand EXCEPT ![u] = [does |-> does, named |-> named, todo |-> todo]]
  /\ UNCHANGED <<vars, apart>>

PauseSound(u, p) ==
  MayCall(u, "sound") /\ p \in used /\ Takes(u, "pause", {}, Pair(world, Local(p)))
ResumeSound(u, p) ==
  MayCall(u, "sound") /\ p \in used /\ Takes(u, "resume", {}, Pair(world, Local(p)))

\* Pause the pairs there are if nothing is paused, else resume them.
ToggleSoundPlayback(u) ==
  /\ MayCall(u, "sound") /\ world.grouped # {}
  /\ Takes(u, IF world.paused = {} THEN "pause" ELSE "resume", world.grouped, {})

\* The loop of toggleSoundPlayback calls pauseSound or resumeSound for its next pair.
NextPair(u, p) ==
  /\ hand[u].todo = {} /\ p \in hand[u].named
  /\ Takes(u, hand[u].does, hand[u].named \ {p}, Pair(world, Local(p)))

\* One lock hold of gAudio: the local sound first.
Part(u, s, does) ==
  LET todo == hand[u].todo \ {s} IN
  /\ hand[u].does = does /\ s \in hand[u].todo
  /\ s[2] = "remote" => Local(s[1]) \notin hand[u].todo
  /\ hand' = [hand EXCEPT ![u] = IF hand[u].named = {} /\ todo = {} THEN EmptyHand
                                 ELSE [@ EXCEPT !.todo = todo]]
  /\ apart' = IF s[2] = "remote" THEN apart
              ELSE IF Remote(s[1]) \in todo /\ ~Crosses(u, s[1]) THEN apart \ {s[1]}
              ELSE apart \cup {s[1]}
  /\ UNCHANGED <<settings, used, jobs, thread, talking, toggled, talk, toggle>>

\* Mutant: leaves the remote sound of the pair as it is.
PausePartAlone(u, s) ==
  /\ Part(u, s, "pause")
  /\ world' = [world EXCEPT !.paused = IF s[2] = "local" THEN @ \cup ({s} \cap world.playing)
                                       ELSE @]

\* gAudio.pause and gAudio.resume of a sound that still plays.
PausePart(u, s) ==
  Part(u, s, "pause") /\ world' = [world EXCEPT !.paused = @ \cup ({s} \cap world.playing)]
ResumePart(u, s) ==
  Part(u, s, "resume") /\ world' = [world EXCEPT !.paused = @ \ {s}]

-------------------------------------------------------------------------------
(* The audio devices and the queue thread *)

Unpaused == world.playing \ world.paused

\* The callback of a sound that plays to its end posts it.
EndPosted(s) ==
  /\ MayRunJob /\ s \in Unpaused /\ s \notin jobs
  /\ jobs' = jobs \cup {s}
  /\ UNCHANGED <<world, settings, used, thread, talking, toggled, talk, toggle>>

RunsJob(job, w) ==
  /\ MayRunJob /\ job \in jobs
  /\ jobs' = jobs \ {job}
  /\ world' = w
  /\ UNCHANGED <<settings, used, thread, talking, toggled, talk, toggle>>

\* Mutant: the deferred stop goes through the pairs, which stopSounds forgets at once.
StopGroupedJob ==
  RunsJob(<<"stopAll">>, Without(world, Paired(world, {Local(p) : p \in world.grouped})))
FinishJob(s) == RunsJob(s, IF s \in world.playing THEN SoundFinished(world, s) ELSE world)
StopAllJob == RunsJob(<<"stopAll">>, Without(world, Sounds))

-------------------------------------------------------------------------------
(* toggleAllPlaybackState, in two steps either way *)

\* Both toggles of the remote begin by pausing what plays, and note before they do
\* whether keys and microphone may be held on its behalf.
PausesAll(u, at) ==
  /\ world' = SoundsPaused(world, Unpaused)
  /\ thread' = [thread EXCEPT ![u].at = at,
                              ![u].ptt = settings.ptt /\ world.playing # {},
                              ![u].mic = settings.mute /\ world.playing # {}]

\* Both end by resuming the noted sounds that still play, and note whether any did.
Resumes(u, at, w, ids) ==
  /\ world' = SoundsResumed(w, ids \cap w.playing)
  /\ thread' = [thread EXCEPT ![u].at = at, ![u].resumed = ids \cap w.playing # {}]

TogglePauses(u) ==
  /\ MayCall(u, "toggle") /\ ~talking /\ ~toggled
  /\ PausesAll(u, "pausing")
  /\ toggle' = [NothingPaused EXCEPT !.ids = Unpaused]
  /\ UNCHANGED <<settings, used, jobs, talking, toggled, talk>>

TogglePaused(u) ==
  /\ At(u, "pausing")
  /\ world' = Released(world, thread[u].ptt, thread[u].mic)
  /\ toggle' = [toggle EXCEPT !.ptt = @ \/ thread[u].ptt, !.mic = @ \/ thread[u].mic]
  /\ toggled' = TRUE
  /\ Returns(u)
  /\ UNCHANGED <<settings, used, jobs, talking, talk>>

ToggleResumes(u) ==
  /\ MayCall(u, "toggle") /\ ~talking /\ toggled
  /\ Resumes(u, "resuming", world, toggle.ids)
  /\ toggle' = [toggle EXCEPT !.ids = {}]
  /\ UNCHANGED <<settings, used, jobs, talking, toggled, talk>>

\* Hold again what was held if a sound resumed, else make sure of the microphone.
ToggleResumed(u) ==
  /\ At(u, "resuming")
  /\ world' = IF thread[u].resumed THEN Applied(world, toggle.ptt, toggle.mic)
              ELSE Released(world, FALSE, settings.mute /\ toggle.mic)
  /\ toggle' = [toggle EXCEPT !.ptt = FALSE, !.mic = FALSE]
  /\ toggled' = FALSE
  /\ Returns(u)
  /\ UNCHANGED <<settings, used, jobs, talking, talk>>

-------------------------------------------------------------------------------
(* startTalkThrough and stopTalkThrough, in two steps each *)

\* Mutant: starts whatever the global pause is doing.
StartTalkThroughAnyway(u) ==
  /\ MayCall(u, "talk") /\ ~talking
  /\ talking' = TRUE
  /\ PausesAll(u, "startingTalk")
  /\ talk' = [NothingPaused EXCEPT !.ids = Unpaused]
  /\ UNCHANGED <<settings, used, jobs, toggled, toggle>>

StartTalkThrough(u) ==
  /\ MayCall(u, "talk") /\ ~talking /\ ~toggled
  /\ talking' = TRUE
  /\ PausesAll(u, "startingTalk")
  /\ talk' = [NothingPaused EXCEPT !.ids = Unpaused]
  /\ UNCHANGED <<settings, used, jobs, toggled, toggle>>

\* Release what was held for the sounds, then press the keys for the voice.
TalkThroughStarted(u) ==
  /\ At(u, "startingTalk")
  /\ world' = Applied(Released(world, thread[u].ptt, thread[u].mic), TRUE, FALSE)
  /\ talk' = [talk EXCEPT !.ptt = @ \/ thread[u].ptt, !.mic = @ \/ thread[u].mic]
  /\ Returns(u)
  /\ UNCHANGED <<settings, used, jobs, talking, toggled, toggle>>

\* Mutant: clears the noted ids before it takes its copy of them.
StopTalkThroughCleared(u) ==
  /\ MayCall(u, "talk") /\ talking
  /\ Resumes(u, "stoppingTalk", Released(world, TRUE, FALSE), {})
  /\ talk' = [talk EXCEPT !.ids = {}]
  /\ UNCHANGED <<settings, used, jobs, talking, toggled, toggle>>

StopTalkThrough(u) ==
  /\ MayCall(u, "talk") /\ talking
  /\ Resumes(u, "stoppingTalk", Released(world, TRUE, FALSE), talk.ids)
  /\ talk' = [talk EXCEPT !.ids = {}]
  /\ UNCHANGED <<settings, used, jobs, talking, toggled, toggle>>

\* Mutant: holds again what was held though no sound resumed.
TalkThroughStoppedHolding(u) ==
  /\ At(u, "stoppingTalk")
  /\ world' = Applied(world, talk.ptt, talk.mic)
  /\ talk' = [talk EXCEPT !.ptt = FALSE, !.mic = FALSE]
  /\ talking' = FALSE
  /\ Returns(u)
  /\ UNCHANGED <<settings, used, jobs, toggled, toggle>>

TalkThroughStopped(u) ==
  /\ At(u, "stoppingTalk")
  /\ world' = Applied(world, thread[u].resumed /\ talk.ptt, thread[u].resumed /\ talk.mic)
  /\ talk' = [talk EXCEPT !.ptt = FALSE, !.mic = FALSE]
  /\ talking' = FALSE
  /\ Returns(u)
  /\ UNCHANGED <<settings, used, jobs, toggled, toggle>>

-------------------------------------------------------------------------------
Play(u) == (\E p \in Plays : PlayHolds(u, p)) \/ PlayOpens(u) \/ PlayGroups(u)
SoundCall(u) ==
  \/ \E p \in Plays : StopSound(u, p)
  \/ StopSounds(u) \/ StopSoundsLater(u)
  \/ \E new \in SettingsSet : ChangeSettings(u, new)
  \/ ToggleMuteInTray(u)
PairCall(u) ==
  \/ \E p \in Plays : PauseSound(u, p) \/ ResumeSound(u, p) \/ NextPair(u, p)
  \/ ToggleSoundPlayback(u)
  \/ \E s \in Sounds : PausePart(u, s) \/ ResumePart(u, s)
Toggle(u) == TogglePauses(u) \/ TogglePaused(u) \/ ToggleResumes(u) \/ ToggleResumed(u)
TalkThrough(u) == StartTalkThrough(u) \/ TalkThroughStarted(u)
                    \/ StopTalkThrough(u) \/ TalkThroughStopped(u)
Device == \E s \in Sounds : EndPosted(s)
QueueThread == (\E s \in Sounds : FinishJob(s)) \/ StopAllJob

Next ==
  /\ \/ /\ \/ \E u \in Users : Play(u) \/ SoundCall(u) \/ Toggle(u) \/ TalkThrough(u)
           \/ Device \/ QueueThread
        /\ UNCHANGED <<hand, apart>>
     \/ \E u \in Users : PairCall(u)
  /\ UNCHANGED mode

Spec == Init /\ [][Next]_allVars

\* The queue runs every job it accepted (JobQueue: AcceptedJobsRun).
FairSpec == Spec /\ (\A s \in Sounds : WF_vars(FinishJob(s))) /\ WF_vars(StopAllJob)

-------------------------------------------------------------------------------
(* Properties *)

\* The users make calls of these kinds only, one at a time.
Only(calls) == mode.atomic /\ mode.calls \subseteq calls

\* Between the calls the microphone is muted exactly while sounds play (paused ones
\* count) and muting is configured, and the keys are held exactly while sounds play
\* and keys are configured: playSound and changeSettings take them, the end of the
\* last sound, stopSound and stopSounds give them back, whatever came between.
HeldWhilePlaying ==
  Only({"play", "sound", "stop", "settings"}) /\ Quiescent =>
    /\ world.muted = (settings.mute /\ world.playing # {})
    /\ world.pressed = (settings.ptt /\ world.playing # {})

\* Between the calls, with nothing playing and nobody talking, neither the keys nor
\* the microphone are left held: no order of plays, ends, stops, global pauses and
\* talk-throughs leaves them behind ("Ensure mic is unmuted if mute-during-playback
\* was on but no sounds are playing anymore"), while the muting stays configured.
QuietWhenIdle ==
  /\ Only({"play", "sound", "stop", "settings", "toggle", "talk"})
  /\ \A s \in mode.settings : s.mute = settings.mute
  /\ Quiescent /\ world.playing = {} /\ ~talking
  => ~world.pressed /\ ~world.muted

\* What the user hears and what the others hear of a grouped sound pause and resume
\* together, but for the moment between the two lock holds of a call ("Use
\* Window::pauseSound which handles paired sounds correctly"): calls of several threads
\* on one pair, its stop and its end may come in between.  Excused until the next whole
\* call on the pair is one whose local sound was last paused or resumed alone, as
\* without outputs, or between the halves of the opposite call.
Together(w, p) ==
  {Local(p), Remote(p)} \subseteq w.playing =>
    (Local(p) \in w.paused <=> Remote(p) \in w.paused)
PairsStayTogether ==
  \A p \in world.grouped \ apart : (\A u \in Users : ~Halfway(u, p)) => Together(world, p)

\* Between the calls, if no sound is paused one by one, a paused sound is one that
\* the global pause or the talk-through in force will resume: the button can "pause
\* or resume *all* currently active sounds".
PausedWillResume ==
  mode.atomic /\ "sound" \notin mode.calls /\ Quiescent =>
    world.paused \subseteq (IF talking THEN talk.ids ELSE {})
                          \cup (IF toggled THEN toggle.ids ELSE {})

\* A microphone Soundux muted belongs to a configured muting and a playing sound
\* ("Only consider mic muted BY SOUNDUX if setting is on AND sound was playing").
MutedOnlyWhilePlaying ==
  Quiescent /\ world.muted => settings.mute /\ world.playing # {}

\* Of calls one at a time, talk-through and the global pause exclude each other
\* ("Cannot start talk-through while playback is globally paused by toggle", and the
\* other way round).
ToggleExcludesTalk == mode.atomic => ~(talking /\ toggled)

\* However the calls of the other threads interleave with the jobs of the queue, the
\* sounds that play when the stop hotkey is pressed do stop, and a sound whose end was
\* posted goes, paused since or not.
JobsTakeEffect ==
  ~mode.atomic =>
    \A s \in Sounds :
      /\ (<<"stopAll">> \in jobs /\ s \in world.playing) ~> s \notin world.playing
      /\ s \in jobs ~> s \notin world.playing
================================================================================
