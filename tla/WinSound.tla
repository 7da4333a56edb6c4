-------------------------------- MODULE WinSound --------------------------------
(***************************************************************************)
(* The microphone on Windows: WinSound (src/helper/audio/windows) chooses  *)
(* it, wires it to the virtual cable and mutes it, and the window calls    *)
(* mute as sounds begin and end (the Windows branches of src/ui/ui.cpp).   *)
(*                                                                         *)
(* A recording device is a number, its place in the enumeration; those of  *)
(* VBAudio have "VB-Audio" in their names.  What a device has stored -     *)
(* muted, listened to, and through which playback device - is kept by      *)
(* Windows and survives the program.                                       *)
(*                                                                         *)
(* One call of the window runs at a time; the jobs of the queue come       *)
(* between the two halves of playSound, which on Windows leaves stopAll to *)
(* the queue.  Keys, pairs and pauses are in Hotkeys and PlaybackControl.  *)
(* A start that dereferences the destination of a device that is not there *)
(* (winsound.cpp:65) does not come up; one without an enumerator has no    *)
(* microphone for good, and is left out.                                   *)
(***************************************************************************)
EXTENDS Naturals

CONSTANTS
  Devices,   \* recording devices
  VBAudio,   \* those of the virtual cable
  None,      \* no recording device
  Sounds     \* sounds that may play at once

ASSUME DevicesAssumption == Devices \subseteq Nat /\ VBAudio \subseteq Devices
ASSUME NoneAssumption == None \notin Devices

VARIABLES
  present,    \* the active recording devices
  listens,    \* devices with "listen to this device" switched on
  through,    \* through[d]: where d is played if it is: "cable" or another device
  muted,      \* devices that are muted
  cable,      \* the playback device of the cable is active: never changes
  running,    \* the program runs
  mic,        \* defaultRecordingDevice
  mute,       \* gSettings.muteDuringPlayback
  playing,    \* the sounds that play
  opening,    \* playSound has muted and not yet opened its sound
  stopQueued, \* Audio::stopAll is queued
  answer,     \* what setupVBCable answered about the devices as they are, or "none"
  unheard,    \* that call did not switch listening on and was not told so
  astray      \* devices that the code leaves muted or open against the sounds

windows == <<present, listens, through, cable>>
sounds == <<playing, opening, stopQueued>>
setup == <<answer, unheard>>
vars == <<windows, muted, running, mic, mute, sounds, setup, astray>>

WindowsTypeOK ==
  /\ present \subseteq Devices /\ listens \subseteq Devices
  /\ through \in [Devices -> {"cable", "other"}] /\ cable \in BOOLEAN

TypeOK ==
  /\ WindowsTypeOK
  /\ running \in BOOLEAN /\ mute \in BOOLEAN /\ opening \in BOOLEAN /\ stopQueued \in BOOLEAN
  /\ mic \in Devices \cup {None} /\ playing \subseteq Sounds
  /\ answer \in {"none", "yes", "no"} /\ unheard \in BOOLEAN
  /\ muted \subseteq Devices /\ astray \subseteq Devices

Init ==
  /\ present \in SUBSET Devices /\ listens \in SUBSET Devices
  /\ through \in [Devices -> {"cable", "other"}]
  /\ cable \in BOOLEAN
  /\ muted = {} /\ astray = {}
  /\ running = FALSE /\ mute \in BOOLEAN /\ mic = None
  /\ playing = {} /\ opening = FALSE /\ stopQueued = FALSE
  /\ answer = "none" /\ unheard = FALSE

-------------------------------------------------------------------------------
(* Choosing and wiring the microphone *)

\* Devices that are listened to through the cable.
Wired == {d \in present \cap listens : through[d] = "cable" /\ cable}

\* The loop over the wired devices keeps the last of them.
LastWired(default, w) ==
  IF Wired = {} THEN w = default ELSE w \in Wired /\ \A e \in Wired : w >= e

\* Mutant: a wired device of the cable itself is kept.
PicksWired(default, d) ==
  IF default \notin VBAudio THEN d = default ELSE LastWired(default, d)

\* setup: the default device d; in place of one of the cable the last that is played
\* through the cable, and in place of another of the cable the first that is not.
Picks(default, d) ==
  IF default \notin VBAudio THEN d = default
  ELSE \E w \in present :
         /\ LastWired(default, w)
         /\ IF w \notin VBAudio \/ present \subseteq VBAudio THEN d = w
            ELSE d \notin VBAudio /\ \A e \in present \ VBAudio : d <= e

\* The program starts, with what an earlier run has left muted.
Start ==
  /\ ~running
  /\ \E default, d \in present :
       /\ default \in VBAudio => \A e \in present \cap listens : through[e] = "cable" => cable
       /\ Picks(default, d)
       /\ mic' = d
  /\ running' = TRUE
  /\ astray' = muted
  /\ UNCHANGED <<windows, muted, mute, sounds, setup>>

\* An exit ends the sounds without a word to the window, as a crash does.
End ==
  /\ running
  /\ running' = FALSE /\ mic' = None
  /\ playing' = {} /\ opening' = FALSE /\ stopQueued' = FALSE
  /\ answer' = "none" /\ unheard' = FALSE
  /\ UNCHANGED <<windows, muted, mute, astray>>

IsVBCableProperlySetup == Wired \ VBAudio # {}

\* Mutant: the result of playbackThrough is not looked at.
ThroughUnchecked(d) ==
  /\ cable /\ answer' = "yes"
  /\ through' \in {through, [through EXCEPT ![d] = "cable"]}

\* playbackThrough, which may fail, for the playback device of the cable.
PlaybackThrough(d) ==
  \/ cable /\ through' = [through EXCEPT ![d] = "cable"] /\ answer' = "yes"
  \/ UNCHANGED through /\ answer' = "no"

\* listenToDevice fails if the property store does not open, and does not look at
\* whether the value was stored.
ListenToDevice(d) ==
  \/ UNCHANGED <<listens, through>> /\ answer' = "no" /\ unheard' = FALSE
  \/ listens' = listens \cup {d} /\ unheard' = FALSE /\ PlaybackThrough(d)
  \/ UNCHANGED listens /\ unheard' = TRUE /\ PlaybackThrough(d)

\* A new microphone is neither muted nor is the old one unmuted.
SetupVBCable(d) ==
  /\ running /\ ~opening
  /\ mic' = d
  /\ \/ /\ IsVBCableProperlySetup
        /\ answer' = "yes" /\ unheard' = FALSE /\ UNCHANGED <<listens, through>>
     \/ ~IsVBCableProperlySetup /\ d # None /\ ListenToDevice(d)
     \/ /\ ~IsVBCableProperlySetup /\ d = None
        /\ answer' = "no" /\ unheard' = FALSE /\ UNCHANGED <<listens, through>>
  /\ astray' = IF d # mic /\ mute /\ playing # {} THEN astray \cup ({d, mic} \ {None}) ELSE astray
  /\ UNCHANGED <<present, cable, muted, running, mute, sounds>>

GetRecordingDevice(d) == IF d \in present THEN d ELSE None

\* The page has been offered the devices that are not of the cable; one may be gone by now.
SetupFromPage == \E d \in Devices \ VBAudio : SetupVBCable(GetRecordingDevice(d))

Plug ==
  /\ \E d \in Devices : present' \in {present \cup {d}, present \ {d}}
  /\ answer' = "none" /\ unheard' = FALSE
  /\ UNCHANGED <<listens, through, cable, muted, running, mic, mute, sounds, astray>>

-------------------------------------------------------------------------------
(* Muting while sounds play *)

\* RecordingDevice::mute, which fails on a device that is not there and may fail else.
SetMute(state) ==
  \/ /\ mic \in present
     /\ muted' = IF state THEN muted \cup {mic} ELSE muted \ {mic}
     /\ astray' = astray \ {mic}
  \/ /\ astray' = astray \cup ({mic} \ {None})
     /\ UNCHANGED muted

KeepsMute == UNCHANGED <<muted, astray>>

\* onAllSoundsFinished unmutes.
OnAllSoundsFinished == IF mute THEN SetMute(FALSE) ELSE KeepsMute

\* An unmuting and a muting, of which the second may fail alone.
Remutes ==
  \/ SetMute(TRUE)
  \/ mic \in present /\ muted' = muted \ {mic} /\ astray' = astray \cup {mic}

\* playSound, up to its muting: sounds that must not overlap are stopped by a job, and
\* stopSounds unmutes for them at once.
BeginPlay ==
  /\ running /\ ~opening
  /\ \/ UNCHANGED stopQueued /\ (IF mute THEN SetMute(TRUE) ELSE KeepsMute)
     \/ stopQueued' = TRUE /\ (IF mute THEN Remutes ELSE KeepsMute)
  /\ opening' = TRUE
  /\ UNCHANGED <<windows, running, mic, mute, playing, setup>>

\* The sound opens, alone or with its remote one.  If only one of the two opened, playSound
\* reports a failure, but stopSound knows of no pair yet and leaves it playing.
OpenSound ==
  /\ opening
  /\ \E s \in Sounds \ playing : playing' = playing \cup {s}
  /\ opening' = FALSE
  /\ UNCHANGED <<windows, muted, running, mic, mute, stopQueued, setup, astray>>

\* Nothing opened: the microphone stays muted if nothing else plays.
FailToOpen ==
  /\ opening
  /\ opening' = FALSE
  /\ astray' = IF mute /\ playing = {} THEN astray \cup ({mic} \ {None}) ELSE astray
  /\ UNCHANGED <<windows, muted, running, mic, mute, playing, stopQueued, setup>>

\* With useAsDefaultDevice stopSound stops the sound that opened.
StopHalf ==
  /\ opening
  /\ opening' = FALSE
  /\ IF playing = {} THEN OnAllSoundsFinished ELSE KeepsMute
  /\ UNCHANGED <<windows, running, mic, mute, playing, stopQueued, setup>>

\* The queue's job: a sound has ended.  Before the sound playSound is about to open it
\* is the last one, and that sound plays with an open microphone.
SoundEnds ==
  /\ \E s \in playing : playing' = playing \ {s}
  /\ IF playing' = {}
       THEN IF opening /\ mute
              THEN /\ astray' = astray \cup ({mic} \ {None})
                   /\ muted' \in {muted, muted \ ({mic} \cap present)}
              ELSE OnAllSoundsFinished
       ELSE KeepsMute
  /\ UNCHANGED <<windows, running, mic, mute, opening, stopQueued, setup>>

\* Mutant: stopSound leaves the microphone to onSoundFinished.
StopSoundMuted ==
  /\ ~opening
  /\ \E s \in playing : playing' = playing \ {s}
  /\ KeepsMute
  /\ UNCHANGED <<windows, running, mic, mute, opening, stopQueued, setup>>

StopSound ==
  /\ ~opening
  /\ \E s \in playing : playing' = playing \ {s}
  /\ IF playing' = {} THEN OnAllSoundsFinished ELSE KeepsMute
  /\ UNCHANGED <<windows, running, mic, mute, opening, stopQueued, setup>>

StopSounds ==
  /\ running /\ ~opening
  /\ stopQueued' = TRUE
  /\ OnAllSoundsFinished
  /\ UNCHANGED <<windows, running, mic, mute, playing, opening, setup>>

\* The queue's job: stopAll tells the window of no end, a sound played since included.
StopAllRuns ==
  /\ stopQueued
  /\ stopQueued' = FALSE /\ playing' = {}
  /\ astray' = IF opening THEN astray ELSE astray \cup (muted \cap {mic})
  /\ UNCHANGED <<windows, muted, running, mic, mute, opening, setup>>

\* changeSettings with muteDuringPlayback switched.
ChangeSettings ==
  /\ running /\ ~opening
  /\ mute' = ~mute
  /\ IF playing # {} THEN SetMute(~mute) ELSE KeepsMute
  /\ UNCHANGED <<windows, running, mic, sounds, setup>>

-------------------------------------------------------------------------------
Next ==
  \/ Start \/ End \/ SetupFromPage \/ Plug
  \/ BeginPlay \/ OpenSound \/ FailToOpen \/ StopHalf
  \/ SoundEnds \/ StopSound \/ StopSounds \/ StopAllRuns \/ ChangeSettings

Spec == Init /\ [][Next]_vars

-------------------------------------------------------------------------------
(* Properties *)

\* What the mute state is in the course of the calls; MuteInv is inductive with TypeOK.
MuteInv ==
  /\ ~running => mic = None /\ playing = {} /\ ~opening /\ ~stopQueued
  /\ running /\ mic # None /\ mic \notin astray =>
       /\ opening => (mic \in muted <=> mute)
       /\ ~opening /\ mic \in muted => mute /\ playing # {}
       /\ ~opening /\ ~stopQueued /\ mute /\ playing # {} => mic \in muted
  /\ running => muted \ {mic} \subseteq astray

\* When no call or job is under way the microphone is muted exactly while a sound plays
\* and the setting asks for it, and no other device is.  The exceptions are the devices
\* the code is known to leave behind: mute failed or the device was gone, the microphone
\* was changed during a sound, nothing opened, an end or a late stopAll crossed a play, or
\* an earlier run ended with it muted (ui.cpp:288-300, 687-713, 965-975).
MuteFollowsSounds ==
  running /\ ~opening /\ ~stopQueued =>
    /\ mic # None /\ mic \notin astray => (mic \in muted <=> mute /\ playing # {})
    /\ muted \ {mic} \subseteq astray

\* When setupVBCable says yes some microphone is heard through the cable, unless
\* Windows did not store that it is listened to, which nobody looks at
\* (winsound.cpp:227-228, 370-408).
SetupTellsTheTruth == answer = "yes" => IsVBCableProperlySetup \/ unheard

\* At its start the program takes a device of the cable for the microphone only if
\* there is no other (winsound.cpp:55-84).
RealMicFirst ==
  [][~running /\ running' /\ mic' \in VBAudio => present \subseteq VBAudio]_vars
================================================================================
