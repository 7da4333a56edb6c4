----------------------------- MODULE PulseRouting ------------------------------
(***************************************************************************)
(* The PulseAudio backend                                                  *)
(* (src/helper/audio/linux/pulseaudio/pulseaudio.cpp) under the calls of   *)
(* the window (src/ui/ui.cpp) and of the start and the end of the program. *)
(*                                                                         *)
(* Soundux loads sinks of its own and a loopback that carries the          *)
(* microphone into them.  While a sound plays it moves the recording       *)
(* streams of the output applications to its sink's monitor; passing an    *)
(* application through moves the playback streams of that application.     *)
(* The sound server, and the applications that open and close streams, are *)
(* the environment: a move and the loading of a module may fail.           *)
(*                                                                         *)
(* A call of the window is one step, but for the ends a stopSounds()       *)
(* without sync leaves to the queue (stopping).  A device is "home" (the   *)
(* user's default), "other", or "soundux": for a recording stream the      *)
(* monitor of soundux_sink, for a playback stream                          *)
(* soundux_sink_passthrough.                                               *)
(***************************************************************************)
EXTENDS Naturals, FiniteSets

CONSTANTS
  Apps,        \* applications, by the name of their binary
  Inputs,      \* recording streams, numbered in the order the server lists them
  Playbacks,   \* playback streams, numbered likewise
  AppOf,       \* [Inputs \cup Playbacks -> Apps]
  Homes,       \* devices of the user, "home" the default one among them
  MaxLoads,    \* bound: loopback modules loaded in a behaviour
  MaxFaults,   \* bound: streams whose moves fail in one call
  MaxPlaying   \* bound: sounds playing at a time

Streams == Inputs \cup Playbacks
ASSUME StreamsAssumption ==
  /\ Streams \subseteq Nat /\ Inputs \cap Playbacks = {}
  /\ AppOf \in [Streams -> Apps]
  /\ \A S \in SUBSET Streams : S # {} => \E s \in S : \A t \in S : s <= t
ASSUME BoundsAssumption == MaxLoads \in Nat /\ MaxFaults \in Nat /\ MaxPlaying \in Nat

ASSUME HomesAssumption == "home" \in Homes /\ Homes \cap {"soundux", "none", "closed"} = {}

Devices == Homes \cup {"soundux"}
\* What became of the backend: no instance, one that holds back its modules
\* because of switch-on-connect, one with its modules loaded.
Backends == {"none", "bare", "ready"}
Settings == [outputs : SUBSET {AppOf[s] : s \in Inputs}, asDefault : BOOLEAN,
             mute : BOOLEAN, backend : {"pulse", "none"}]

\* The values of an std::optional module id: unset, the id a failed load leaves
\* in it, or the number of a loopback module.
Unset == 0
Failed == MaxLoads + 1
Ids == 0..Failed

VARIABLES
  pulse,    \* the sound server and the backend's fields, see World
  settings, \* gSettings
  phase,    \* "off", "on", or "crashed": ended without its shutdown sequence
  stopping  \* a stopAll of stopSounds() waits in the queue

vars == <<pulse, settings, phase, stopping>>

Nowhere == [a \in Apps |-> "none"]

\* What the server and the backend hold.
World == [
  at : [Streams -> Devices \cup {"closed"}],  \* the device of each stream
  default : {"home", "soundux"},              \* the server's default source
  sinks : BOOLEAN,                            \* Soundux's sinks are loaded
  loops : SUBSET (1..MaxLoads),               \* its microphone loopbacks loaded
  muted : SUBSET (1..MaxLoads),               \* those with their stream muted
  loads : 0..MaxLoads,                        \* loopbacks loaded so far
  backend : Backends,
  loopBack : Ids, loopBackSink : Ids,         \* the loopback, the one of its stream
  moved : [Apps -> Devices \cup {"none"}],    \* movedApplications
  passed : [Apps -> Devices \cup {"none"}],   \* movedPassthroughApplications
  playing : 0..MaxPlaying,                    \* sounds playing
  excused : SUBSET Apps]                      \* history, see RecordedOrExcused

TypeOK ==
  /\ pulse \in World
  /\ pulse.muted \subseteq pulse.loops
  /\ settings \in Settings
  /\ phase \in {"off", "on", "crashed"}
  /\ stopping \in BOOLEAN

Init ==
  /\ pulse = [at |-> [s \in Streams |-> "closed"], default |-> "home",
              sinks |-> FALSE, loops |-> {}, muted |-> {}, loads |-> 0,
              backend |-> "none", loopBack |-> Unset, loopBackSink |-> Unset,
              moved |-> Nowhere, passed |-> Nowhere, playing |-> 0, excused |-> {}]
  /\ settings = [outputs |-> {}, asDefault |-> FALSE, mute |-> FALSE, backend |-> "pulse"]
  /\ phase = "off"
  /\ stopping = FALSE

-------------------------------------------------------------------------------
(* Streams: what the lists hold, and moving them *)

\* The open streams of an application, in getRecordingApps or getPlaybackApps.
StreamsOf(w, kind, a) == {s \in kind : AppOf[s] = a /\ w.at[s] # "closed"}

\* getRecordingApp, getPlaybackApp: the first stream of that name; its device.
First(streams) == CHOOSE s \in streams : \A t \in streams : s <= t
DeviceOf(w, kind, a) == w.at[First(StreamsOf(w, kind, a))]

\* The streams are moved to a device each; those of the set fail stay.
Moved(w, streams, to, fail) ==
  [w EXCEPT !.at = [s \in Streams |-> IF s \in streams \ fail THEN to[s] ELSE @[s]]]
Excused(w, streams) == [w EXCEPT !.excused = @ \cup {AppOf[s] : s \in streams}]

\* Soundux's devices exist only with its sinks: without, every move there fails.
ToSoundux(w, streams, fail) ==
  Moved(w, streams, [s \in Streams |-> "soundux"], IF w.sinks THEN fail ELSE streams)

\* inputSoundTo(getRecordingApp(a)) for each of a set of applications (no two share
\* a stream).  It succeeds if the application has a stream: a failed move is logged,
\* and the application recorded all the same.
HasInput(w, a) == StreamsOf(w, Inputs, a) # {}
InputSoundTo(w, apps, fail) ==
  LET into == {a \in apps : HasInput(w, a) /\ w.moved[a] = "none"}
  IN  [ToSoundux(w, UNION {StreamsOf(w, Inputs, a) : a \in into}, fail) EXCEPT
         !.moved = [a \in Apps |-> IF a \in into THEN DeviceOf(w, Inputs, a) ELSE @[a]]]

\* stopSoundInput.
\* Mutant: the applications are forgotten and not moved back.
ForgetSoundInput(w, fail) == [w EXCEPT !.moved = Nowhere]
StopSoundInput(w, fail) ==
  LET back == {s \in Inputs : w.moved[AppOf[s]] # "none" /\ w.at[s] # "closed"}
      done == Moved(w, back, [s \in Streams |-> w.moved[AppOf[s]]], fail)
  IN  [Excused(done, back \cap fail) EXCEPT !.moved = Nowhere]

\* passthroughFrom: the first stream that fails to move ends the call, with the
\* earlier ones moved and nothing recorded.
PassthroughFrom(w, a, fail) ==
  LET mine == StreamsOf(w, Playbacks, a)
      bad  == {s \in mine : s \in fail \/ ~w.sinks}
      done == {s \in mine : \A t \in bad : s < t}
      gone == ToSoundux(w, done, {})
  IN  IF w.passed[a] # "none" THEN w
      ELSE IF bad # {} THEN Excused(gone, done)
      ELSE [gone EXCEPT !.passed[a] = DeviceOf(w, Playbacks, a)]

\* stopPassthrough of each of a set of applications; stopAllPassthrough.
StopPassthroughOf(w, apps, fail) ==
  LET back == {s \in Playbacks : /\ AppOf[s] \in apps /\ w.passed[AppOf[s]] # "none"
                                 /\ w.at[s] # "closed"}
      done == Moved(w, back, [s \in Streams |-> w.passed[AppOf[s]]], fail)
  IN  [Excused(done, back \cap fail) EXCEPT
         !.passed = [a \in Apps |-> IF a \in apps THEN "none" ELSE @[a]]]
StopAllPassthrough(w, fail) == StopPassthroughOf(w, Apps, fail)

NonePassed(w) == w.passed = Nowhere

\* The streams whose moves fail during a call.
Faults == {F \in SUBSET {s \in Streams : pulse.at[s] # "closed"} : Cardinality(F) <= MaxFaults}

-------------------------------------------------------------------------------
(* Modules *)

Unloaded(w, id) == [w EXCEPT !.loops = @ \ {id}, !.muted = @ \ {id}]

\* A load of the loopback: the next number, if the sinks are there and it succeeds.
CanLoad(w, ok) == ok /\ w.sinks /\ w.loads < MaxLoads
Loads(w) == [w EXCEPT !.loads = @ + 1, !.loops = @ \cup {w.loads + 1},
                      !.loopBack = w.loads + 1]

\* The sinks go: the server moves the streams on them to the default devices, and
\* a default source that was theirs falls back.
WithoutSinks(w) ==
  [w EXCEPT !.sinks = FALSE, !.default = "home", !.excused = {},
            !.at = [s \in Streams |-> IF @[s] = "soundux" THEN "home" ELSE @[s]]]

\* unloadLeftOvers: every module whose argument names soundux.
\* Mutant: does nothing.
KeepLeftOvers(w) == w
UnloadLeftOvers(w) == [WithoutSinks(w) EXCEPT !.loops = {}, !.muted = {}]

\* loadModules: all of them and the id of the loopback's stream, or none.  A new
\* sink can draw streams to it; they are moved back (fixPlaybackApps,
\* fixRecordingApps), except those of fail.  The ids a failed call leaves in its
\* fields name nothing that is loaded, and are left out.
LoadModules(w, ok, fail) ==
  LET new   == Loads([w EXCEPT !.sinks = TRUE])
      found == [new EXCEPT !.loopBackSink = new.loopBack, !.backend = "ready"]
      drawn == {s \in fail : w.at[s] # "closed"}
  IN  IF ok /\ w.loads < MaxLoads
      THEN Excused(ToSoundux([found EXCEPT !.excused = {}], drawn, {}), drawn)
      ELSE UnloadLeftOvers(w)

\* useAsDefault: a loopback without the dont_move flags in place of the loaded one.
UseAsDefault(w, ok) ==
  LET without == Unloaded(w, w.loopBack) IN
  IF CanLoad(without, ok) THEN [Loads(without) EXCEPT !.default = "soundux"]
  ELSE [without EXCEPT !.loopBack = Unset]

\* revertDefault.  A load that fails answers with PA_INVALID_INDEX, which passes
\* the test id > 0: the default is reset even so.
RevertDefault(w, ok) ==
  LET without == Unloaded(w, w.loopBack)
      loaded  == IF CanLoad(without, ok) THEN Loads(without)
                 ELSE [without EXCEPT !.loopBack = Failed]
  IN  IF w.loopBack = Unset THEN w ELSE [loaded EXCEPT !.default = "home"]

\* muteInput: the stream of the loopback that loadModules loaded, if it is there.
MuteInput(w, on) ==
  IF w.loopBackSink \notin w.loops THEN w
  ELSE [w EXCEPT !.muted = IF on THEN @ \cup {w.loopBackSink} ELSE @ \ {w.loopBackSink}]

\* What is left once the object is gone.
NoBackend(w) == [w EXCEPT !.backend = "none", !.loopBack = Unset, !.loopBackSink = Unset,
                          !.moved = Nowhere, !.passed = Nowhere]

\* destroy.
Destroy(w, ok, fail) ==
  LET returned == StopAllPassthrough(StopSoundInput(RevertDefault(w, ok), fail), fail)
  IN  IF w.backend = "none" THEN w
      ELSE NoBackend(Unloaded(WithoutSinks(returned), returned.loopBack))

\* createInstance of the PulseAudio backend: setup may fail, or find
\* switch-on-connect, which leaves the modules unloaded.
CreateInstance(w, found, ok, fail) ==
  LET clean == IF found = "none" THEN w ELSE UnloadLeftOvers(w) IN
  CASE found = "none"  -> w
    [] found = "bare"  -> [clean EXCEPT !.backend = "bare"]
    [] found = "ready" -> LoadModules(clean, ok, fail)

-------------------------------------------------------------------------------
(* The window's calls *)

\* onAllSoundsFinished, once no sound plays.
\* Mutant: leaves the inputs moved.
AllFinishedUnmuteOnly(w, mute, fail) == IF mute THEN MuteInput(w, FALSE) ELSE w
AllFinished(w, mute, fail) ==
  LET unmuted == IF mute THEN MuteInput(w, FALSE) ELSE w
  IN  IF NonePassed(w) THEN StopSoundInput(unmuted, fail) ELSE unmuted

\* What stopSounds tells the backend, and stopSounds(true): all sounds end first.
RoutingStopped(w, mute, fail) ==
  StopAllPassthrough(StopSoundInput(AllFinished(w, mute, fail), fail), fail)
SoundsStopped(w, mute, fail) == RoutingStopped([w EXCEPT !.playing = 0], mute, fail)

\* One sound less: its end, or stopSound.
SoundLess(w, mute, fail) ==
  LET less == [w EXCEPT !.playing = @ - 1]
  IN  IF less.playing = 0 THEN AllFinished(less, mute, fail) ELSE less

On == phase = "on"
OnlyPulse(w) == pulse' = w /\ UNCHANGED <<settings, phase, stopping>>

\* playSound, its two devices opened; without a single output application to
\* move, the sound is stopped again.
PlaySound ==
  \E overlap \in BOOLEAN, fail \in Faults :
    LET before  == IF overlap THEN pulse ELSE SoundsStopped(pulse, settings.mute, fail)
        muted   == IF settings.mute THEN MuteInput(before, TRUE) ELSE before
        playing == [muted EXCEPT !.playing = @ + 1]
        outputs == IF pulse.backend = "none" THEN {} ELSE settings.outputs
        routed  == InputSoundTo(playing, outputs, fail)
        heard   == outputs = {} \/ \E a \in outputs : HasInput(playing, a)
    IN  /\ On
        /\ before.playing < MaxPlaying
        /\ OnlyPulse(IF heard THEN routed ELSE SoundLess(routed, settings.mute, fail))

SoundEnds ==
  /\ On
  /\ pulse.playing > 0
  /\ \E fail \in Faults : OnlyPulse(SoundLess(pulse, settings.mute, fail))

\* stopSounds: of the desk and the hotkey (the sounds go when the queue stops them), or
\* with sync.
StopSounds ==
  /\ On
  /\ \E fail \in Faults :
       \/ pulse' = SoundsStopped(pulse, settings.mute, fail) /\ UNCHANGED stopping
       \/ pulse' = RoutingStopped(pulse, settings.mute, fail) /\ stopping' = TRUE
  /\ UNCHANGED <<settings, phase>>

\* The queue runs stopAll: every sound goes, those played since too, and nobody is told.
StopAllRuns ==
  /\ On
  /\ stopping
  /\ pulse' = [pulse EXCEPT !.playing = 0]
  /\ stopping' = FALSE
  /\ UNCHANGED <<settings, phase>>

\* The program ends without its shutdown sequence: the server keeps the modules.
Dies(w) ==
  /\ pulse' = [NoBackend(w) EXCEPT !.playing = 0]
  /\ phase' = "crashed"
  /\ stopping' = FALSE
  /\ UNCHANGED settings

\* startPassthrough(name).  The name is from a list shown earlier: with the
\* application's streams gone, passthroughFrom reads the name of a null app.
StartPassthrough(name) ==
  \E fail \in Faults :
    LET inputs == InputSoundTo(pulse, settings.outputs, fail)
        allIn  == \A a \in settings.outputs : HasInput(pulse, a)
        gone   == StreamsOf(pulse, Playbacks, name) = {}
    IN  /\ On /\ pulse.backend # "none" /\ settings.outputs # {}
        /\ \/ ~allIn /\ OnlyPulse(inputs)
           \/ allIn /\ ~gone /\ OnlyPulse(PassthroughFrom(inputs, name, fail))
           \/ allIn /\ gone /\ Dies(inputs)

\* stopPassthrough(name).
StopPassthrough(name) ==
  \E fail \in Faults :
    LET last   == pulse.playing = 0 /\ Cardinality({a \in Apps : pulse.passed[a] # "none"}) = 1
        inputs == IF last THEN StopSoundInput(pulse, fail) ELSE pulse
    IN  /\ On /\ pulse.backend # "none"
        /\ OnlyPulse(StopPassthroughOf(inputs, {name}, fail))

-------------------------------------------------------------------------------
(* changeSettings, in the order of its parts *)

WithBackend(w, new, found, ok, fail) ==
  LET ended == Destroy(SoundsStopped(w, new.mute, fail), ok, fail) IN
  IF new.backend = settings.backend THEN w
  ELSE IF new.backend = "none" THEN ended
  ELSE CreateInstance(ended, found, ok, fail)

WithMute(w, new) ==
  IF w.playing > 0 /\ new.mute # settings.mute THEN MuteInput(w, new.mute) ELSE w

WithDefault(w, new, ok, fail) ==
  IF ~new.asDefault /\ settings.asDefault THEN RevertDefault(w, ok)
  ELSE IF new.asDefault /\ ~settings.asDefault
  THEN UseAsDefault(StopSoundInput(w, fail), ok)
  ELSE w

\* apps: the outputs, or the first of them if several are not allowed.
WithOutputs(w, new, apps, fail) ==
  LET stopped == StopSoundInput(w, fail)
  IN  IF new.outputs = settings.outputs THEN w
      ELSE IF w.playing = 0 THEN stopped
      ELSE InputSoundTo(stopped, apps, fail)

Restarts(new) == new.backend = "pulse" /\ settings.backend = "none"

ChangeSettings(new) ==
  /\ On
  /\ \E found \in IF Restarts(new) THEN Backends ELSE {"none"},
       ok \in BOOLEAN, fail \in Faults,
       apps \in {new.outputs} \cup {{a} : a \in new.outputs} :
       \E one \in {WithBackend(pulse, new, found, ok, fail)} :
       \E two \in {WithDefault(WithMute(one, new), new, ok, fail)} :
       \E three \in {WithOutputs(two, new, apps, fail)} :
        /\ pulse' = IF one.backend = "none" THEN one ELSE three
        /\ settings' =
             [new EXCEPT
                !.backend = IF new.backend # settings.backend /\ one.backend = "none"
                            THEN "none" ELSE @,
                !.outputs = IF one.backend # "none" /\ new.asDefault /\ ~settings.asDefault
                            THEN {} ELSE @]
        /\ UNCHANGED <<phase, stopping>>

\* unloadSwitchOnConnect, offered while the modules are held back, loads them.
UnloadSwitchOnConnect ==
  /\ On
  /\ pulse.backend = "bare"
  /\ \E ok \in BOOLEAN, fail \in Faults : OnlyPulse(LoadModules(pulse, ok, fail))

-------------------------------------------------------------------------------
(* The program and the applications *)

\* The start of main: the backend, and the default device if the settings say so.
Start ==
  \E found \in Backends, ok \in BOOLEAN, again \in BOOLEAN, fail \in Faults :
    LET made == IF settings.backend = "none" THEN pulse
                ELSE CreateInstance(pulse, found, ok, fail)
    IN  /\ phase \in {"off", "crashed"}
        /\ pulse' = IF made.backend # "none" /\ settings.asDefault
                    THEN UseAsDefault(made, again) ELSE made
        /\ settings' = [settings EXCEPT !.backend = IF made.backend = "none" THEN "none" ELSE @]
        /\ phase' = "on"
        /\ UNCHANGED stopping

\* The shutdown sequence of main.
Quit ==
  /\ On
  /\ \E ok \in BOOLEAN, fail \in Faults :
       pulse' = Destroy([pulse EXCEPT !.playing = 0], ok, fail)
  /\ phase' = "off"
  /\ stopping' = FALSE
  /\ UNCHANGED settings

Crash == On /\ Dies(pulse)

\* An application opens a stream, on the default device or on one it names, or
\* closes it.
AppOpens(s, device) ==
  /\ pulse.at[s] = "closed"
  /\ device = "soundux" => s \in Inputs /\ pulse.default = "soundux"
  /\ OnlyPulse([pulse EXCEPT
       !.at[s] = device,
       !.excused = IF device = "soundux" THEN @ \cup {AppOf[s]} ELSE @])
AppCloses(s) ==
  /\ pulse.at[s] # "closed"
  /\ OnlyPulse([pulse EXCEPT !.at[s] = "closed"])

Next ==
  \/ Start \/ Quit \/ Crash
  \/ PlaySound \/ SoundEnds \/ StopSounds \/ StopAllRuns
  \/ \E name \in {AppOf[s] : s \in Playbacks} : StartPassthrough(name) \/ StopPassthrough(name)
  \/ \E new \in Settings : ChangeSettings(new)
  \/ UnloadSwitchOnConnect
  \/ \E s \in Streams : AppCloses(s) \/ \E device \in Devices : AppOpens(s, device)

Spec == Init /\ [][Next]_vars

-------------------------------------------------------------------------------
(* Properties *)

\* Whatever sequence of default switches, failed loads, crashes and restarts came
\* before, the only microphone loopback on the server is the one the backend would
\* unload: two would feed the microphone in twice, and one would outlive destroy.
OneLoopback == pulse.backend # "none" => pulse.loops \subseteq {pulse.loopBack}

\* A microphone that is muted is one muteInput(false) reaches: no switch of the
\* default device, no new instance and no restart leaves a muted loopback behind
\* that the backend can no longer name.
MuteIsUndoable == On /\ pulse.backend # "none" => pulse.muted \subseteq {pulse.loopBackSink}

\* A stream on a device of Soundux belongs to an application that is recorded with
\* the device it goes back to, unless moving it back failed, passing it through
\* failed halfway, or it opened a stream on Soundux's monitor while that was the
\* default source (excused).
RecordedOrExcused ==
  pulse.backend # "none" =>
    \A s \in Streams :
      pulse.at[s] = "soundux" =>
        \/ (IF s \in Inputs THEN pulse.moved ELSE pulse.passed)[AppOf[s]] # "none"
        \/ AppOf[s] \in pulse.excused

\* No application stays moved for nothing: when the last sound goes, by its end, a stop,
\* a failed play or a new backend, and when the last passthrough ends in silence, the
\* moved inputs go back.  Two steps may leave them: a stopAll of the queue, of sounds
\* played since it was asked for, and a startPassthrough that fails after moving them.
MovedForNothing(w) == w.playing = 0 /\ NonePassed(w) /\ w.moved # Nowhere
InputsReturnWithSilence ==
  [][MovedForNothing(pulse)' =>
       \/ MovedForNothing(pulse)
       \/ StopAllRuns
       \/ \E name \in Apps : StartPassthrough(name)]_vars

===============================================================================
