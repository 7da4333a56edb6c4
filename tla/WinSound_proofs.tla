----------------------------- MODULE WinSound_proofs -----------------------------
(***************************************************************************)
(* The microphone on Windows for every set of devices and any number of    *)
(* sounds: what is muted agrees with what plays, and what setupVBCable     *)
(* answers with how the devices are wired.                                 *)
(***************************************************************************)
EXTENDS WinSound, TLAPS

USE NoneAssumption DEF sounds, setup

IInv == TypeOK /\ MuteInv

LEMMA WindowsKept == WindowsTypeOK /\ UNCHANGED windows => WindowsTypeOK'
BY DEF WindowsTypeOK, windows

LEMMA InitIInv == Init => IInv
<1>1. Init => WindowsTypeOK
  BY DEF Init, WindowsTypeOK
<1>2. Init => IInv
  BY <1>1 DEF Init, IInv, TypeOK, MuteInv
<1>3. QED
  BY <1>2

\* A mute or unmute that works leaves the device as the sounds ask, another is noted.
LEMMA SetMuteDoes ==
  ASSUME TypeOK, NEW state, SetMute(state)
  PROVE  /\ muted' \subseteq Devices /\ astray' \subseteq Devices
         /\ mic # None /\ mic \notin astray' => (mic \in muted' <=> state)
         /\ muted' \ {mic} = muted \ {mic} /\ astray' \ {mic} = astray \ {mic}
<1>1. CASE state
  BY <1>1 DEF TypeOK, WindowsTypeOK, SetMute
<1>2. CASE ~state
  BY <1>2 DEF TypeOK, WindowsTypeOK, SetMute
<1>3. QED
  BY <1>1, <1>2

LEMMA RemutesDoes ==
  ASSUME TypeOK, Remutes
  PROVE  /\ muted' \subseteq Devices /\ astray' \subseteq Devices
         /\ mic # None /\ mic \notin astray' => mic \in muted'
         /\ muted' \ {mic} = muted \ {mic} /\ astray' \ {mic} = astray \ {mic}
BY SetMuteDoes DEF TypeOK, WindowsTypeOK, Remutes

LEMMA OnAllSoundsFinishedDoes ==
  ASSUME TypeOK, OnAllSoundsFinished
  PROVE  /\ muted' \subseteq Devices /\ astray' \subseteq Devices
         /\ muted' \ {mic} = muted \ {mic} /\ astray' \ {mic} = astray \ {mic}
         /\ mute /\ mic # None /\ mic \notin astray' => mic \notin muted'
         /\ ~mute => muted' = muted /\ astray' = astray
BY SetMuteDoes DEF TypeOK, OnAllSoundsFinished, KeepsMute

-------------------------------------------------------------------------------
(* The microphone is chosen *)

LEMMA StartIInv == IInv /\ Start => IInv'
<1> SUFFICES ASSUME IInv, Start PROVE IInv'
  OBVIOUS
<1>1. TypeOK'
  BY WindowsKept DEF IInv, TypeOK, WindowsTypeOK, windows, MuteInv, Start
<1>2. MuteInv'
  BY DEF IInv, TypeOK, MuteInv, Start
<1>3. QED
  BY <1>1, <1>2 DEF IInv

LEMMA EndIInv == IInv /\ End => IInv'
<1> SUFFICES ASSUME IInv, End PROVE IInv'
  OBVIOUS
<1>1. TypeOK'
  BY WindowsKept DEF IInv, TypeOK, MuteInv, End
<1>2. MuteInv'
  BY DEF IInv, TypeOK, MuteInv, End
<1>3. QED
  BY <1>1, <1>2 DEF IInv

LEMMA PlugIInv == IInv /\ Plug => IInv'
<1> SUFFICES ASSUME IInv, Plug PROVE IInv'
  OBVIOUS
<1>1. TypeOK'
  BY WindowsKept DEF IInv, TypeOK, WindowsTypeOK, windows, MuteInv, Plug
<1>2. MuteInv'
  BY DEF IInv, TypeOK, MuteInv, Plug
<1>3. QED
  BY <1>1, <1>2 DEF IInv

LEMMA SetupIInv == IInv /\ SetupFromPage => IInv'
<1> SUFFICES ASSUME IInv, NEW d \in (present \ VBAudio) \cup {None}, SetupVBCable(d)
             PROVE  IInv'
  BY DEF SetupFromPage, GetRecordingDevice
<1>1. TypeOK'
  <2>1. d \in Devices \cup {None} /\ astray' \subseteq Devices
    BY DEF IInv, TypeOK, WindowsTypeOK, SetupVBCable
  <2>2. WindowsTypeOK' /\ answer' \in {"none", "yes", "no"} /\ unheard' \in BOOLEAN
    BY DEF IInv, TypeOK, WindowsTypeOK, SetupVBCable, ListenToDevice, PlaybackThrough
  <2>3. QED
    BY <2>1, <2>2 DEF IInv, TypeOK, SetupVBCable
<1>2. MuteInv'
  BY DEF IInv, TypeOK, WindowsTypeOK, MuteInv, SetupVBCable
<1>3. QED
  BY <1>1, <1>2 DEF IInv

-------------------------------------------------------------------------------
(* Sounds begin and end *)

LEMMA BeginPlayIInv == IInv /\ BeginPlay => IInv'
<1> SUFFICES ASSUME IInv, BeginPlay PROVE IInv'
  OBVIOUS
<1>1. /\ muted' \subseteq Devices /\ astray' \subseteq Devices
      /\ muted' \ {mic} = muted \ {mic} /\ astray' \ {mic} = astray \ {mic}
      /\ mute /\ mic # None /\ mic \notin astray' => mic \in muted'
      /\ ~mute => muted' = muted /\ astray' = astray
  BY SetMuteDoes, RemutesDoes, WindowsKept DEF IInv, TypeOK, BeginPlay, KeepsMute
<1>2. TypeOK'
  BY <1>1, WindowsKept DEF IInv, TypeOK, BeginPlay
<1>3. MuteInv'
  BY <1>1, WindowsKept DEF IInv, TypeOK, MuteInv, BeginPlay
<1>4. QED
  BY <1>2, <1>3 DEF IInv

LEMMA OpenSoundIInv == IInv /\ OpenSound => IInv'
<1> SUFFICES ASSUME IInv, OpenSound PROVE IInv'
  OBVIOUS
<1>1. TypeOK'
  BY WindowsKept DEF IInv, TypeOK, MuteInv, OpenSound
<1>2. MuteInv'
  BY DEF IInv, TypeOK, MuteInv, OpenSound
<1>3. QED
  BY <1>1, <1>2 DEF IInv

LEMMA FailToOpenIInv == IInv /\ FailToOpen => IInv'
<1> SUFFICES ASSUME IInv, FailToOpen PROVE IInv'
  OBVIOUS
<1>1. TypeOK'
  BY WindowsKept DEF IInv, TypeOK, MuteInv, FailToOpen
<1>2. MuteInv'
  BY DEF IInv, TypeOK, MuteInv, FailToOpen
<1>3. QED
  BY <1>1, <1>2 DEF IInv

LEMMA StopHalfIInv == IInv /\ StopHalf => IInv'
<1> SUFFICES ASSUME IInv, StopHalf PROVE IInv'
  OBVIOUS
<1>1. CASE playing = {}
  <2>1. TypeOK'
    BY <1>1, OnAllSoundsFinishedDoes, WindowsKept DEF IInv, TypeOK, StopHalf
  <2>2. MuteInv'
    BY <1>1, OnAllSoundsFinishedDoes, WindowsKept DEF IInv, TypeOK, MuteInv, StopHalf
  <2>3. QED
    BY <2>1, <2>2 DEF IInv
<1>2. CASE playing # {}
  BY <1>2, WindowsKept DEF IInv, TypeOK, MuteInv, StopHalf, KeepsMute
<1>3. QED
  BY <1>1, <1>2

LEMMA SoundEndsIInv == IInv /\ SoundEnds => IInv'
<1> SUFFICES ASSUME IInv, SoundEnds PROVE IInv'
  OBVIOUS
<1>1. CASE playing' = {} /\ opening /\ mute
  BY <1>1, WindowsKept DEF IInv, TypeOK, MuteInv, SoundEnds
<1>2. CASE playing' = {} /\ ~(opening /\ mute)
  <2>1. TypeOK'
    BY <1>2, OnAllSoundsFinishedDoes, WindowsKept DEF IInv, TypeOK, SoundEnds
  <2>2. MuteInv'
    BY <1>2, OnAllSoundsFinishedDoes, WindowsKept DEF IInv, TypeOK, MuteInv, SoundEnds
  <2>3. QED
    BY <2>1, <2>2 DEF IInv
<1>3. CASE playing' # {}
  BY <1>3, WindowsKept DEF IInv, TypeOK, MuteInv, SoundEnds, KeepsMute
<1>4. QED
  BY <1>1, <1>2, <1>3

LEMMA StopSoundIInv == IInv /\ StopSound => IInv'
<1> SUFFICES ASSUME IInv, StopSound PROVE IInv'
  OBVIOUS
<1>1. CASE playing' = {}
  <2>1. TypeOK'
    BY <1>1, OnAllSoundsFinishedDoes, WindowsKept DEF IInv, TypeOK, StopSound
  <2>2. MuteInv'
    BY <1>1, OnAllSoundsFinishedDoes, WindowsKept DEF IInv, TypeOK, MuteInv, StopSound
  <2>3. QED
    BY <2>1, <2>2 DEF IInv
<1>2. CASE playing' # {}
  BY <1>2, WindowsKept DEF IInv, TypeOK, MuteInv, StopSound, KeepsMute
<1>3. QED
  BY <1>1, <1>2

LEMMA StopSoundsIInv == IInv /\ StopSounds => IInv'
<1> SUFFICES ASSUME IInv, StopSounds PROVE IInv'
  OBVIOUS
<1>1. TypeOK'
  BY OnAllSoundsFinishedDoes, WindowsKept DEF IInv, TypeOK, StopSounds
<1>2. MuteInv'
  BY OnAllSoundsFinishedDoes, WindowsKept DEF IInv, TypeOK, MuteInv, StopSounds
<1>3. QED
  BY <1>1, <1>2 DEF IInv

LEMMA StopAllRunsIInv == IInv /\ StopAllRuns => IInv'
<1> SUFFICES ASSUME IInv, StopAllRuns PROVE IInv'
  OBVIOUS
<1>1. TypeOK'
  BY WindowsKept DEF IInv, TypeOK, MuteInv, StopAllRuns
<1>2. MuteInv'
  BY DEF IInv, TypeOK, MuteInv, StopAllRuns
<1>3. QED
  BY <1>1, <1>2 DEF IInv

LEMMA ChangeSettingsIInv == IInv /\ ChangeSettings => IInv'
<1> SUFFICES ASSUME IInv, ChangeSettings PROVE IInv'
  OBVIOUS
<1>1. CASE playing # {}
  <2>1. SetMute(~mute)
    BY <1>1 DEF ChangeSettings
  <2>2. TypeOK'
    BY <2>1, SetMuteDoes, WindowsKept DEF IInv, TypeOK, ChangeSettings
  <2>3. MuteInv'
    BY <1>1, <2>1, SetMuteDoes, WindowsKept DEF IInv, TypeOK, MuteInv, ChangeSettings
  <2>4. QED
    BY <2>2, <2>3 DEF IInv
<1>2. CASE playing = {}
  BY <1>2, WindowsKept DEF IInv, TypeOK, MuteInv, ChangeSettings, KeepsMute
<1>3. QED
  BY <1>1, <1>2

-------------------------------------------------------------------------------
LEMMA StepIInv == IInv /\ [Next]_vars => IInv'
<1>1. IInv /\ UNCHANGED vars => IInv'
  BY WindowsKept DEF IInv, TypeOK, MuteInv, vars
<1>2. QED
  BY <1>1, StartIInv, EndIInv, SetupIInv, PlugIInv, BeginPlayIInv, OpenSoundIInv,
     FailToOpenIInv, StopHalfIInv, SoundEndsIInv, StopSoundIInv, StopSoundsIInv,
     StopAllRunsIInv, ChangeSettingsIInv
  DEF Next

\* Types, and the mute state in the course of the calls (ui.cpp:279-328, 924-975).
THEOREM MicInvariant == Spec => []IInv
BY InitIInv, StepIInv, PTL DEF Spec

\* Between calls the microphone is muted exactly while a sound plays and the setting
\* asks for it, but for the devices the code leaves behind (ui.cpp:288-300, 687-713,
\* 965-975).
THEOREM MicFollowsSounds == Spec => []MuteFollowsSounds
<1>1. IInv => MuteFollowsSounds
  BY DEF IInv, TypeOK, MuteInv, MuteFollowsSounds
<1>2. QED
  BY <1>1, MicInvariant, PTL

\* setupVBCable says yes only when a microphone is heard through the cable, or Windows
\* did not store that it is listened to (winsound.cpp:208, 363-408).
THEOREM SetupIsBelieved == Spec => []SetupTellsTheTruth
<1>1. Init => SetupTellsTheTruth
  BY DEF Init, SetupTellsTheTruth
<1>2. IInv /\ SetupTellsTheTruth /\ [Next]_vars => SetupTellsTheTruth'
  <2> SUFFICES ASSUME IInv, SetupTellsTheTruth, [Next]_vars PROVE SetupTellsTheTruth'
    OBVIOUS
  <2>1. CASE UNCHANGED <<windows, setup>>
    BY <2>1 DEF SetupTellsTheTruth, IsVBCableProperlySetup, Wired, windows
  <2>2. CASE End \/ Plug
    BY <2>2 DEF End, Plug, SetupTellsTheTruth
  <2>3. CASE SetupFromPage
    <3>1. PICK d \in (present \ VBAudio) \cup {None} : SetupVBCable(d)
      BY <2>3 DEF SetupFromPage, GetRecordingDevice
    <3>2. CASE IsVBCableProperlySetup
      BY <3>1, <3>2 DEF SetupVBCable, SetupTellsTheTruth, IsVBCableProperlySetup, Wired
    <3>3. CASE ~IsVBCableProperlySetup /\ d # None
      <4>1. CASE answer' = "yes" /\ ~unheard'
        <5>1. /\ cable /\ cable' = cable /\ present' = present /\ d \in present /\ d \notin VBAudio
              /\ listens' = listens \cup {d} /\ through' = [through EXCEPT ![d] = "cable"]
          BY <3>1, <3>3, <4>1 DEF SetupVBCable, ListenToDevice, PlaybackThrough, IInv, TypeOK, WindowsTypeOK
        <5>2. d \in (Wired \ VBAudio)'
          BY <5>1 DEF Wired, IInv, TypeOK, WindowsTypeOK
        <5>3. QED
          BY <5>2 DEF SetupTellsTheTruth, IsVBCableProperlySetup
      <4>2. QED
        BY <4>1, StepIInv DEF SetupTellsTheTruth, IInv, TypeOK
    <3>4. CASE ~IsVBCableProperlySetup /\ d = None
      BY <3>1, <3>4 DEF SetupVBCable, SetupTellsTheTruth
    <3>5. QED
      BY <3>2, <3>3, <3>4
  <2>4. QED
    BY <2>1, <2>2, <2>3
    DEF Next, vars, windows, Start, BeginPlay, OpenSound, FailToOpen, StopHalf, SoundEnds, StopSound,
        StopSounds, StopAllRuns, ChangeSettings
<1>3. QED
  BY <1>1, <1>2, MicInvariant, PTL DEF Spec

\* The program starts with a device of the cable only if there is no other
\* (winsound.cpp:55-84).
THEOREM StartsWithARealMic == Spec => RealMicFirst
<1>1. IInv /\ [Next]_vars => [~running /\ running' /\ mic' \in VBAudio => present \subseteq VBAudio]_vars
  <2> SUFFICES ASSUME IInv, Next, ~running, running', mic' \in VBAudio
               PROVE  present \subseteq VBAudio
    OBVIOUS
  <2>1. Start
    BY DEF IInv, TypeOK, MuteInv, Next, End, Plug, SetupFromPage, SetupVBCable, BeginPlay,
           OpenSound, FailToOpen, StopHalf, SoundEnds, StopSound, StopSounds, StopAllRuns,
           ChangeSettings
  <2>2. PICK default, d \in present : Picks(default, d) /\ mic' = d
    BY <2>1 DEF Start
  <2>3. QED
    BY <2>2 DEF Picks
<1>2. QED
  BY <1>1, MicInvariant, PTL DEF Spec, RealMicFirst
================================================================================
