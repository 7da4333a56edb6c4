------------------------- MODULE PlaybackControl_proofs -------------------------
(***************************************************************************)
(* Proofs about PlaybackControl, for any sounds, users and settings.       *)
(*                                                                         *)
(* TypeOK holds however the threads interleave.  When calls run one after  *)
(* the other (mode.atomic), SerialInv is inductive on top of it, and gives *)
(* that talk-through and the global pause exclude each other, and that a   *)
(* paused sound is one that they will resume.  When moreover no call fails *)
(* and nobody reconfigures the keys, HeldInv and QuietInv are inductive,   *)
(* and give that keys and microphone are held while sounds play, and not   *)
(* left behind when nothing plays.  That pairs stay together (PairsInv) is *)
(* proved for any interleaving of the lock holds of the calls other than   *)
(* the toggles of the remote.                                              *)
(***************************************************************************)
EXTENDS PlaybackControl, FiniteSetTheorems, TLAPS

\* An operation that pauses nothing: the result is a world, and what is paused in it
\* was paused before.
Calms(w, result) == WorldOK(result) /\ result.paused \subseteq w.paused

LEMMA ReleasedCalms ==
  ASSUME NEW w, WorldOK(w), settings \in SettingsSet, NEW ptt \in BOOLEAN, NEW mic \in BOOLEAN
  PROVE  Calms(w, Released(w, ptt, mic))
BY DEF Calms, WorldOK, Released, SettingsSet

LEMMA AppliedCalms ==
  ASSUME NEW w, WorldOK(w), settings \in SettingsSet, NEW ptt \in BOOLEAN, NEW mic \in BOOLEAN
  PROVE  Calms(w, Applied(w, ptt, mic))
BY DEF Calms, WorldOK, Applied, SettingsSet

LEMMA AllFinishedCalms ==
  ASSUME NEW w, WorldOK(w), settings \in SettingsSet
  PROVE  Calms(w, AllFinished(w))
BY ReleasedCalms DEF AllFinished, SettingsSet

LEMMA WithoutCalms ==
  ASSUME NEW w, WorldOK(w), NEW sounds
  PROVE  Calms(w, Without(w, sounds))
BY DEF Calms, WorldOK, Without

LEMMA UngroupedCalms ==
  ASSUME NEW w, WorldOK(w), NEW g \in SUBSET Plays
  PROVE  Calms(w, [w EXCEPT !.grouped = g])
BY DEF Calms, WorldOK

LEMMA CalmsTwice ==
  ASSUME NEW w, NEW v, NEW r, Calms(w, v), Calms(v, r)
  PROVE  Calms(w, r)
BY DEF Calms

LEMMA WorldCalms ==
  ASSUME NEW w, WorldOK(w)
  PROVE  Calms(w, w)
BY DEF Calms

LEMMA SoundsStoppedCalms ==
  ASSUME NEW w, WorldOK(w), settings \in SettingsSet, NEW sync \in BOOLEAN
  PROVE  Calms(w, SoundsStopped(w, sync))
<1> DEFINE v == IF sync THEN Without(w, Sounds) ELSE w
<1>1. Calms(w, v)
  BY WithoutCalms, WorldCalms
<1>2. Calms(v, AllFinished(v))
  BY <1>1, AllFinishedCalms DEF Calms
<1>3. Calms(AllFinished(v), [AllFinished(v) EXCEPT !.grouped = {}])
  BY <1>2, UngroupedCalms DEF Calms
<1> QED
  BY <1>1, <1>2, <1>3, CalmsTwice DEF SoundsStopped

LEMMA SoundStoppedCalms ==
  ASSUME NEW w, WorldOK(w), settings \in SettingsSet, NEW s \in Sounds
  PROVE  Calms(w, SoundStopped(w, s))
<1> DEFINE v == Without(w, Pair(w, s))
           stopped == [v EXCEPT !.grouped = IF settings.outputs THEN @ \ {s[1]} ELSE @]
<1>1. Calms(w, v)
  BY WithoutCalms
<1>2. Calms(v, stopped)
  <2>1. (IF settings.outputs THEN v.grouped \ {s[1]} ELSE v.grouped) \in SUBSET Plays
    BY <1>1 DEF Calms, WorldOK
  <2> QED
    BY <1>1, <2>1, UngroupedCalms DEF Calms
<1>3. Calms(stopped, AllFinished(stopped))
  BY <1>2, AllFinishedCalms DEF Calms
<1>4. Calms(w, stopped) /\ Calms(w, AllFinished(stopped)) /\ Calms(w, w)
  BY <1>1, <1>2, <1>3, CalmsTwice, WorldCalms
<1>5. SoundStopped(w, s) \in {w, stopped, AllFinished(stopped)}
  BY DEF SoundStopped
<1> QED
  BY <1>4, <1>5

LEMMA SoundFinishedCalms ==
  ASSUME NEW w, WorldOK(w), settings \in SettingsSet, NEW s \in Sounds
  PROVE  Calms(w, SoundFinished(w, s))
<1> DEFINE v == [w EXCEPT !.grouped = IF s[2] = "local" THEN @ \ {s[1]} ELSE @]
           r == IF Cardinality(w.playing) = 1 THEN AllFinished(v) ELSE v
<1>1. Calms(w, v)
  <2>1. (IF s[2] = "local" THEN w.grouped \ {s[1]} ELSE w.grouped) \in SUBSET Plays
    BY DEF WorldOK
  <2> QED
    BY <2>1, UngroupedCalms
<1>2. Calms(v, r)
  BY <1>1, AllFinishedCalms, WorldCalms DEF Calms
<1>3. Calms(r, Without(r, {s}))
  BY <1>2, WithoutCalms DEF Calms
<1> QED
  BY <1>1, <1>2, <1>3, CalmsTwice DEF SoundFinished

\* What pausing and resuming a set of sounds does.
LEMMA SoundsPausedOK ==
  ASSUME NEW w, WorldOK(w), NEW sounds \in SUBSET Sounds
  PROVE  WorldOK(SoundsPaused(w, sounds)) /\ SoundsPaused(w, sounds).paused \subseteq w.playing
BY DEF WorldOK, SoundsPaused

LEMMA SoundsResumedCalms ==
  ASSUME NEW w, WorldOK(w), NEW sounds \in SUBSET Sounds
  PROVE  /\ Calms(w, SoundsResumed(w, sounds))
         /\ SoundsResumed(w, sounds).paused \subseteq w.paused \ sounds
<1>1. sounds \subseteq Paired(w, sounds)
  BY DEF Paired, Pair
<1> QED
  BY <1>1 DEF Calms, WorldOK, SoundsResumed

-------------------------------------------------------------------------------
(* Type correctness *)

LEMMA ReturnsOK ==
  ASSUME ThreadOK, NEW u \in Users, Returns(u)
  PROVE  ThreadOK'
BY DEF ThreadOK, Phases, Returns, Idle

\* The two sounds of a play.
LEMMA PlaySounds ==
  ASSUME NEW p \in Plays
  PROVE  Local(p) \in Sounds /\ Remote(p) \in Sounds
BY DEF Local, Remote, Sounds

LEMMA TypeInit == Init => TypeOK
<1> SUFFICES ASSUME Init PROVE TypeOK
  OBVIOUS
<1>1. WorldOK(world) /\ ThreadOK /\ HandOK
  BY DEF Init, WorldOK, ThreadOK, HandOK, EmptyHand, Phases, Idle
<1> QED
  BY <1>1, SettingsAssumption DEF Init, TypeOK, Interruption, NothingPaused

LEMMA TypePlay ==
  ASSUME TypeOK, UNCHANGED <<hand, apart, mode>>, NEW u \in Users, Play(u)
  PROVE  TypeOK'
<1> HandOK' /\ apart' \subseteq Plays
  BY DEF TypeOK, HandOK
<1> USE DEF TypeOK
<1>1. ASSUME NEW p \in Plays, PlayHolds(u, p) PROVE TypeOK'
  <2> DEFINE stopped == IF settings.overlap THEN world ELSE SoundsStopped(world, TRUE)
  <2>1. WorldOK(stopped)
    BY SoundsStoppedCalms DEF Calms
  <2>2. WorldOK(world')
    BY <1>1, <2>1, AppliedCalms DEF Calms, PlayHolds, SettingsSet
  <2>3. ThreadOK'
    <3>1. /\ thread' = [thread EXCEPT ![u] = [[thread[u] EXCEPT !.at = "open"] EXCEPT !.play = p]]
          /\ thread'[u].play = p
          /\ \A other \in Users : other # u => thread'[other] = thread[other]
      BY <1>1 DEF PlayHolds, ThreadOK
    <3> QED
      BY <1>1, <3>1, ZenonT(60) DEF ThreadOK, Phases
  <2> QED
    BY <1>1, <2>2, <2>3 DEF PlayHolds
<1>2. CASE PlayOpens(u)
  <2>1. thread[u].play \in Plays
    BY <1>2 DEF PlayOpens, At, ThreadOK
  <2>2. WorldOK(world')
    BY <1>2, <2>1, PlaySounds DEF PlayOpens, WorldOK
  <2>3. ThreadOK'
    <3>1. CASE Goes(u, "group")
      BY <2>1, <3>1 DEF Goes, ThreadOK, Phases
    <3> QED
      BY <1>2, <3>1, ReturnsOK DEF PlayOpens
  <2> QED
    BY <1>2, <2>2, <2>3 DEF PlayOpens
<1>3. CASE PlayGroups(u)
  <2> DEFINE p == thread[u].play
             grouped == [world EXCEPT !.grouped = @ \cup {p}]
  <2>1. p \in Plays
    BY <1>3 DEF PlayGroups, At, ThreadOK
  <2>2. WorldOK(grouped)
    BY <2>1, UngroupedCalms DEF WorldOK, Calms
  <2>3. WorldOK(SoundStopped(grouped, Local(p)))
    BY <2>1, <2>2, PlaySounds, SoundStoppedCalms DEF Calms
  <2>4. WorldOK(SoundStopped(SoundStopped(grouped, Local(p)), Remote(p)))
    BY <2>1, <2>3, PlaySounds, SoundStoppedCalms DEF Calms
  <2>5. WorldOK(world')
    BY <1>3, <2>2, <2>4 DEF PlayGroups
  <2> QED
    BY <1>3, <2>5, ReturnsOK DEF PlayGroups
<1> QED
  BY <1>1, <1>2, <1>3 DEF Play

LEMMA TypeSoundCall ==
  ASSUME TypeOK, UNCHANGED <<hand, apart, mode>>, NEW u \in Users, SoundCall(u)
  PROVE  TypeOK'
<1> HandOK' /\ apart' \subseteq Plays
  BY DEF TypeOK, HandOK
<1> USE DEF TypeOK
<1>1. ASSUME NEW p \in Plays, StopSound(u, p) PROVE TypeOK'
  <2>1. WorldOK(world')
    BY <1>1, PlaySounds, SoundStoppedCalms DEF Calms, StopSound, OnlyWorld
  <2> QED
    BY <1>1, <2>1 DEF StopSound, OnlyWorld, ThreadOK
<1>3. CASE StopSounds(u) \/ StopSoundsLater(u)
  <2>1. WorldOK(world')
    BY <1>3, SoundsStoppedCalms DEF Calms, StopSounds, StopSoundsLater, OnlyWorld
  <2> QED
    BY <1>3, <2>1 DEF StopSounds, StopSoundsLater, OnlyWorld, ThreadOK
<1>4. ASSUME NEW new \in SettingsSet, ChangeSettings(u, new) PROVE TypeOK'
  <2>1. WorldOK(world')
    BY <1>4, SettingsAssumption DEF ChangeSettings, MuteFollows, WorldOK, SettingsSet
  <2> QED
    BY <1>4, <2>1, SettingsAssumption DEF ChangeSettings, ThreadOK
<1>5. CASE ToggleMuteInTray(u)
  BY <1>5 DEF ToggleMuteInTray, SettingsSet, ThreadOK
<1> QED
  BY <1>1, <1>3, <1>4, <1>5 DEF SoundCall

\* A step of pauseSound, resumeSound or toggleSoundPlayback: it only marks sounds paused
\* or not.
LEMMA PairCallOnly ==
  ASSUME TypeOK, mode' = mode, NEW u \in Users, PairCall(u)
  PROVE  /\ UNCHANGED <<settings, used, jobs, thread, talking, toggled, talk, toggle>>
         /\ WorldOK(world') /\ world'.playing = world.playing
         /\ world'.grouped = world.grouped
         /\ world'.muted = world.muted /\ world'.pressed = world.pressed
         /\ "sound" \in mode.calls
         /\ HandOK' /\ apart' \subseteq Plays
<1> USE DEF TypeOK
<1>1. ASSUME NEW does \in {"pause", "resume"}, NEW named \in SUBSET Plays,
             NEW todo \in SUBSET Sounds, Takes(u, does, named, todo), "sound" \in mode.calls
      PROVE  HandOK' /\ UNCHANGED <<vars, apart>>
  BY <1>1 DEF Takes, HandOK
<1>2. ASSUME NEW p \in Plays PROVE Pair(world, Local(p)) \in SUBSET Sounds
  BY PlaySounds DEF Pair, Local
<1>3. ASSUME NEW p \in Plays, PauseSound(u, p) \/ ResumeSound(u, p)
      PROVE HandOK' /\ UNCHANGED <<vars, apart>> /\ "sound" \in mode.calls
  BY <1>1, <1>2, <1>3 DEF PauseSound, ResumeSound, MayCall
<1>4. CASE ToggleSoundPlayback(u)
  <2>1. HandOK' /\ UNCHANGED <<vars, apart>> /\ "sound" \in mode.calls
    BY <1>1, <1>4 DEF ToggleSoundPlayback, MayCall, WorldOK
  <2> QED
    BY <2>1 DEF vars
<1>5. ASSUME NEW p \in Plays, NextPair(u, p)
      PROVE HandOK' /\ UNCHANGED <<vars, apart>> /\ "sound" \in mode.calls
  <2>1. hand[u] # EmptyHand /\ hand[u].does \in {"nothing", "pause", "resume"}
        /\ hand[u].named \ {p} \in SUBSET Plays
    BY <1>5 DEF NextPair, EmptyHand, HandOK
  <2>2. "sound" \in mode.calls
    BY <2>1 DEF HandOK
  <2> QED
    BY <1>2, <1>5, <2>1, <2>2 DEF NextPair, Takes, HandOK
<1>6. ASSUME NEW s \in Sounds, PausePart(u, s) \/ ResumePart(u, s)
      PROVE  /\ UNCHANGED <<settings, used, jobs, thread, talking, toggled, talk, toggle>>
             /\ WorldOK(world') /\ world'.playing = world.playing
             /\ world'.grouped = world.grouped
             /\ world'.muted = world.muted /\ world'.pressed = world.pressed
             /\ "sound" \in mode.calls
             /\ HandOK' /\ apart' \subseteq Plays
  <2>1. PICK does \in {"pause", "resume"} : Part(u, s, does)
    BY <1>6 DEF PausePart, ResumePart
  <2>2. hand[u] # EmptyHand
    BY <2>1 DEF Part, EmptyHand
  <2>3. "sound" \in mode.calls
    BY <2>2 DEF HandOK
  <2>4. HandOK'
    <3> DEFINE left == IF hand[u].named = {} /\ hand[u].todo \ {s} = {} THEN EmptyHand
                       ELSE [hand[u] EXCEPT !.todo = hand[u].todo \ {s}]
    <3>1. hand' = [hand EXCEPT ![u] = left]
      BY <2>1 DEF Part, HandOK
    <3>2. left \in [does : {"nothing", "pause", "resume"}, named : SUBSET Plays, todo : SUBSET Sounds]
      BY DEF HandOK, EmptyHand
    <3> HIDE DEF left
    <3> QED
      BY <2>3, <3>1, <3>2 DEF HandOK
  <2>5. apart' \subseteq Plays
    BY <2>1 DEF Part, Sounds
  <2>6. /\ WorldOK(world') /\ world'.playing = world.playing
        /\ world'.grouped = world.grouped
        /\ world'.muted = world.muted /\ world'.pressed = world.pressed
    BY <1>6 DEF PausePart, ResumePart, WorldOK
  <2> QED
    BY <2>1, <2>3, <2>4, <2>5, <2>6 DEF Part
<1> QED
  BY <1>3, <1>4, <1>5, <1>6 DEF PairCall, vars

LEMMA TypePairCall ==
  ASSUME TypeOK, mode' = mode, NEW u \in Users, PairCall(u)
  PROVE  TypeOK'
<1> HandOK' /\ apart' \subseteq Plays
  BY PairCallOnly
<1> QED
  BY PairCallOnly DEF TypeOK, ThreadOK

LEMMA TypeQueue ==
  ASSUME TypeOK, UNCHANGED <<hand, apart, mode>>, Device \/ QueueThread
  PROVE  TypeOK'
<1> HandOK' /\ apart' \subseteq Plays
  BY DEF TypeOK, HandOK
<1> USE DEF TypeOK
<1>1. ASSUME NEW s \in Sounds, EndPosted(s) PROVE TypeOK'
  BY <1>1 DEF EndPosted, ThreadOK
<1>2. ASSUME NEW s \in Sounds, FinishJob(s) PROVE TypeOK'
  <2>1. WorldOK(world')
    BY <1>2, SoundFinishedCalms DEF Calms, FinishJob, RunsJob
  <2> QED
    BY <1>2, <2>1 DEF FinishJob, RunsJob, ThreadOK
<1>3. CASE StopAllJob
  <2>1. WorldOK(world')
    BY <1>3, WithoutCalms DEF Calms, StopAllJob, RunsJob
  <2> QED
    BY <1>3, <2>1 DEF StopAllJob, RunsJob, ThreadOK
<1> QED
  BY <1>1, <1>2, <1>3 DEF Device, QueueThread

\* The first steps of the toggles: what they do to the world and to the thread.
LEMMA PausesAllOK ==
  ASSUME TypeOK, NEW u \in Users, NEW at \in Phases \ {"open", "group"}, PausesAll(u, at)
  PROVE  /\ WorldOK(world') /\ world'.paused \subseteq world.playing
         /\ ThreadOK'
         /\ thread'[u].at = at /\ \A v \in Users \ {u} : thread'[v] = thread[v]
<1> DEFINE r == [[[thread[u] EXCEPT !.at = at] EXCEPT !.ptt = settings.ptt /\ world.playing # {}]
                   EXCEPT !.mic = settings.mute /\ world.playing # {}]
<1>1. WorldOK(world') /\ world'.paused \subseteq world.playing
  BY SoundsPausedOK DEF TypeOK, PausesAll, Unpaused, WorldOK
<1>2. thread' = [thread EXCEPT ![u] = r]
  BY DEF TypeOK, PausesAll, ThreadOK
<1>3. (settings.ptt /\ world.playing # {}) \in BOOLEAN /\ (settings.mute /\ world.playing # {}) \in BOOLEAN
  OBVIOUS
<1>4. r \in [at : Phases, play : Plays \cup {"none"},
             ptt : BOOLEAN, mic : BOOLEAN, resumed : BOOLEAN] /\ r.at = at
  BY <1>3 DEF TypeOK, ThreadOK
<1> HIDE DEF r
<1>5. thread'[u] = r /\ \A v \in Users \ {u} : thread'[v] = thread[v]
  BY <1>2 DEF TypeOK, ThreadOK
<1> QED
  BY <1>1, <1>2, <1>4, <1>5 DEF TypeOK, ThreadOK

LEMMA ResumesOK ==
  ASSUME TypeOK, NEW u \in Users, NEW at \in Phases \ {"open", "group"}, NEW w, Calms(world, w),
         NEW ids \in SUBSET Sounds, Resumes(u, at, w, ids)
  PROVE  /\ Calms(world, world') /\ world'.paused \subseteq world.paused \ ids
         /\ ThreadOK'
         /\ thread'[u].at = at /\ \A v \in Users \ {u} : thread'[v] = thread[v]
<1> DEFINE r == [[thread[u] EXCEPT !.at = at] EXCEPT !.resumed = ids \cap w.playing # {}]
<1>1. Calms(world, world') /\ world'.paused \subseteq world.paused \ ids
  <2>1. WorldOK(w) /\ ids \cap w.playing \in SUBSET Sounds /\ w.paused \subseteq w.playing
    BY DEF Calms, WorldOK
  <2>2. /\ Calms(w, world')
        /\ world'.paused \subseteq w.paused \ (ids \cap w.playing)
    BY <2>1, SoundsResumedCalms DEF Resumes
  <2> QED
    BY <2>1, <2>2, CalmsTwice DEF Calms
<1>2. thread' = [thread EXCEPT ![u] = r]
  BY DEF TypeOK, Resumes, ThreadOK
<1>3. (ids \cap w.playing # {}) \in BOOLEAN
  OBVIOUS
<1>4. r \in [at : Phases, play : Plays \cup {"none"},
             ptt : BOOLEAN, mic : BOOLEAN, resumed : BOOLEAN] /\ r.at = at
  BY <1>3 DEF TypeOK, ThreadOK
<1> HIDE DEF r
<1>5. thread'[u] = r /\ \A v \in Users \ {u} : thread'[v] = thread[v]
  BY <1>2 DEF TypeOK, ThreadOK
<1> QED
  BY <1>1, <1>2, <1>4, <1>5 DEF TypeOK, ThreadOK

LEMMA TypeToggle ==
  ASSUME TypeOK, UNCHANGED <<hand, apart, mode>>, NEW u \in Users, Toggle(u)
  PROVE  TypeOK'
<1> HandOK' /\ apart' \subseteq Plays
  BY DEF TypeOK, HandOK
<1>1. CASE TogglePauses(u)
  <2>1. PausesAll(u, "pausing")
    BY <1>1 DEF TogglePauses
  <2>2. WorldOK(world') /\ ThreadOK'
    BY <2>1, PausesAllOK DEF Phases
  <2>3. toggle' \in Interruption
    BY <1>1 DEF TogglePauses, Interruption, NothingPaused, Unpaused, TypeOK, WorldOK
  <2> QED
    BY <1>1, <2>2, <2>3 DEF TogglePauses, TypeOK
<1>2. CASE TogglePaused(u)
  <2>1. thread[u].ptt \in BOOLEAN /\ thread[u].mic \in BOOLEAN
    BY DEF TypeOK, ThreadOK
  <2>2. WorldOK(world') /\ ThreadOK'
    BY <1>2, <2>1, ReleasedCalms, ReturnsOK DEF TypeOK, Calms, TogglePaused
  <2>3. toggle' \in Interruption
    BY <1>2, <2>1 DEF TogglePaused, Interruption, TypeOK
  <2> QED
    BY <1>2, <2>2, <2>3 DEF TogglePaused, TypeOK
<1>3. CASE ToggleResumes(u)
  <2>1. Resumes(u, "resuming", world, toggle.ids) /\ Calms(world, world) /\ toggle.ids \in SUBSET Sounds
    BY <1>3, WorldCalms DEF ToggleResumes, TypeOK, Interruption
  <2>2. WorldOK(world') /\ ThreadOK'
    BY <2>1, ResumesOK DEF Phases, Calms
  <2>3. toggle' \in Interruption
    BY <1>3 DEF ToggleResumes, Interruption, TypeOK
  <2> QED
    BY <1>3, <2>2, <2>3 DEF ToggleResumes, TypeOK
<1>4. CASE ToggleResumed(u)
  <2>1. toggle.ptt \in BOOLEAN /\ toggle.mic \in BOOLEAN /\ (settings.mute /\ toggle.mic) \in BOOLEAN
    BY DEF TypeOK, Interruption
  <2>2. WorldOK(world') /\ ThreadOK'
    BY <1>4, <2>1, ReleasedCalms, AppliedCalms, ReturnsOK DEF TypeOK, Calms, ToggleResumed
  <2>3. toggle' \in Interruption
    BY <1>4 DEF ToggleResumed, Interruption, TypeOK
  <2> QED
    BY <1>4, <2>2, <2>3 DEF ToggleResumed, TypeOK
<1> QED
  BY <1>1, <1>2, <1>3, <1>4 DEF Toggle

LEMMA TypeTalkThrough ==
  ASSUME TypeOK, UNCHANGED <<hand, apart, mode>>, NEW u \in Users, TalkThrough(u)
  PROVE  TypeOK'
<1> HandOK' /\ apart' \subseteq Plays
  BY DEF TypeOK, HandOK
<1>1. CASE StartTalkThrough(u)
  <2>1. PausesAll(u, "startingTalk")
    BY <1>1 DEF StartTalkThrough
  <2>2. WorldOK(world') /\ ThreadOK'
    BY <2>1, PausesAllOK DEF Phases
  <2>3. talk' \in Interruption
    BY <1>1 DEF StartTalkThrough, Interruption, NothingPaused, Unpaused, TypeOK, WorldOK
  <2> QED
    BY <1>1, <2>2, <2>3 DEF StartTalkThrough, TypeOK
<1>2. CASE TalkThroughStarted(u)
  <2>1. thread[u].ptt \in BOOLEAN /\ thread[u].mic \in BOOLEAN
    BY DEF TypeOK, ThreadOK
  <2>2. WorldOK(Released(world, thread[u].ptt, thread[u].mic))
    BY <2>1, ReleasedCalms DEF TypeOK, Calms
  <2>3. WorldOK(world') /\ ThreadOK'
    BY <1>2, <2>2, AppliedCalms, ReturnsOK DEF TypeOK, Calms, TalkThroughStarted
  <2>4. talk' \in Interruption
    BY <1>2, <2>1 DEF TalkThroughStarted, Interruption, TypeOK
  <2> QED
    BY <1>2, <2>3, <2>4 DEF TalkThroughStarted, TypeOK
<1>3. CASE StopTalkThrough(u)
  <2>1. /\ Resumes(u, "stoppingTalk", Released(world, TRUE, FALSE), talk.ids)
        /\ Calms(world, Released(world, TRUE, FALSE)) /\ talk.ids \in SUBSET Sounds
    BY <1>3, ReleasedCalms DEF StopTalkThrough, TypeOK, Interruption
  <2>2. WorldOK(world') /\ ThreadOK'
    BY <2>1, ResumesOK DEF Phases, Calms
  <2>3. talk' \in Interruption
    BY <1>3 DEF StopTalkThrough, Interruption, TypeOK
  <2> QED
    BY <1>3, <2>2, <2>3 DEF StopTalkThrough, TypeOK
<1>4. CASE TalkThroughStopped(u)
  <2>1. (thread[u].resumed /\ talk.ptt) \in BOOLEAN /\ (thread[u].resumed /\ talk.mic) \in BOOLEAN
    BY DEF TypeOK, Interruption, ThreadOK
  <2>2. WorldOK(world') /\ ThreadOK'
    BY <1>4, <2>1, AppliedCalms, ReturnsOK DEF TypeOK, Calms, TalkThroughStopped
  <2>3. talk' \in Interruption
    BY <1>4 DEF TalkThroughStopped, Interruption, TypeOK
  <2> QED
    BY <1>4, <2>2, <2>3 DEF TalkThroughStopped, TypeOK
<1> QED
  BY <1>1, <1>2, <1>3, <1>4 DEF TalkThrough

LEMMA TypeNext == TypeOK /\ [Next]_allVars => TypeOK'
<1> SUFFICES ASSUME TypeOK, [Next]_allVars PROVE TypeOK'
  OBVIOUS
<1>1. CASE Next
  BY <1>1, TypePlay, TypeSoundCall, TypePairCall, TypeToggle, TypeTalkThrough, TypeQueue DEF Next
<1>2. CASE UNCHANGED allVars
  BY <1>2 DEF allVars, vars, TypeOK, ThreadOK, HandOK
<1> QED
  BY <1>1, <1>2

\* Every reachable state is well formed however the threads interleave, and only a
\* sound that plays is ever marked paused (audio.cpp looks it up first).
THEOREM TypeCorrect == Spec => []TypeOK
BY TypeInit, TypeNext, PTL DEF Spec

-------------------------------------------------------------------------------
(* Calls one after the other *)

\* What a global pause or talk-through, begun or in force, will resume.
WillResume(s) ==
  \/ talking /\ s \in talk.ids
  \/ (toggled \/ \E u \in Users : thread[u].at = "pausing") /\ s \in toggle.ids

OneCaller ==
  \A u, v \in Users : thread[u].at # "idle" /\ thread[v].at # "idle" => u = v

\* The flags while a toggle is half done.
PhaseFlags ==
  \A u \in Users :
    /\ thread[u].at = "pausing" => ~talking /\ ~toggled
    /\ thread[u].at = "resuming" => ~talking /\ toggled
    /\ thread[u].at \in {"startingTalk", "stoppingTalk"} => talking /\ ~toggled

PausedInv ==
  "sound" \notin mode.calls =>
    /\ \A s \in world.paused : WillResume(s)
    /\ \A u \in Users : thread[u].at \in {"resuming", "stoppingTalk"} => world.paused = {}

SerialInv == OneCaller /\ PhaseFlags /\ ToggleExcludesTalk /\ PausedInv

LEMMA SerialInit == Init => SerialInv
BY DEF Init, SerialInv, OneCaller, PhaseFlags, ToggleExcludesTalk, PausedInv, WillResume, Idle

\* A step that pauses nothing and moves no thread into or out of a toggle.
LEMMA SerialCalmStep ==
  ASSUME SerialInv, "sound" \notin mode.calls => world'.paused \subseteq world.paused,
         UNCHANGED <<talking, toggled, talk, toggle>>,
         NEW u, MayCall(u, "play") \/ thread[u].at \in {"open", "group"} \/ thread' = thread,
         mode.atomic, mode' = mode, thread[u].at # "idle" \/ Quiescent \/ thread' = thread,
         \A v \in Users \ {u} : thread'[v] = thread[v],
         thread' = thread \/ thread'[u].at \in {"idle", "open", "group"}
  PROVE  SerialInv'
<1>1. OneCaller'
  BY DEF SerialInv, OneCaller, Quiescent, Idles
<1>2. PhaseFlags'
  BY DEF SerialInv, PhaseFlags
<1>3. ToggleExcludesTalk'
  BY DEF SerialInv, ToggleExcludesTalk
<1>4. \A v \in Users : thread[v].at = "pausing" <=> thread'[v].at = "pausing"
  BY DEF MayCall, Idles
<1>5. PausedInv'
  BY <1>4 DEF SerialInv, PausedInv, WillResume
<1> QED
  BY <1>1, <1>2, <1>3, <1>5 DEF SerialInv

LEMMA SerialPlay ==
  ASSUME TypeOK, SerialInv, mode.atomic, mode' = mode, NEW u \in Users, Play(u)
  PROVE  SerialInv'
<1> USE DEF TypeOK
<1>1. ASSUME NEW p \in Plays, PlayHolds(u, p) PROVE SerialInv'
  <2> DEFINE v == IF settings.overlap THEN world ELSE SoundsStopped(world, TRUE)
  <2>1. Calms(world, v)
    BY SoundsStoppedCalms, WorldCalms
  <2>2. Calms(v, world')
    BY <1>1, <2>1, AppliedCalms DEF Calms, PlayHolds, SettingsSet
  <2>3. thread'[u].at = "open" /\ \A x \in Users \ {u} : thread'[x] = thread[x]
    BY <1>1 DEF PlayHolds, ThreadOK
  <2> QED
    BY <1>1, <2>1, <2>2, <2>3, SerialCalmStep DEF PlayHolds, MayCall, Idles, Calms
<1>2. CASE PlayOpens(u)
  <2>1. world'.paused = world.paused
    BY <1>2 DEF PlayOpens, WorldOK
  <2>2. thread'[u].at \in {"group", "idle"} /\ \A x \in Users \ {u} : thread'[x] = thread[x]
    BY <1>2 DEF PlayOpens, Goes, Returns, Idle, ThreadOK
  <2> QED
    BY <1>2, <2>1, <2>2, SerialCalmStep DEF PlayOpens, At
<1>3. CASE PlayGroups(u)
  <2> DEFINE p == thread[u].play
             grouped == [world EXCEPT !.grouped = @ \cup {p}]
  <2>1. p \in Plays
    BY <1>3 DEF PlayGroups, At, ThreadOK
  <2>2. Calms(world, grouped)
    BY <2>1, UngroupedCalms DEF WorldOK
  <2>3. Calms(grouped, SoundStopped(grouped, Local(p)))
    BY <2>1, <2>2, PlaySounds, SoundStoppedCalms DEF Calms
  <2>4. Calms(SoundStopped(grouped, Local(p)),
              SoundStopped(SoundStopped(grouped, Local(p)), Remote(p)))
    BY <2>1, <2>3, PlaySounds, SoundStoppedCalms DEF Calms
  <2>5. Calms(world, world')
    BY <1>3, <2>2, <2>3, <2>4, CalmsTwice DEF PlayGroups
  <2>6. thread'[u].at = "idle" /\ \A x \in Users \ {u} : thread'[x] = thread[x]
    BY <1>3 DEF PlayGroups, Returns, Idle, ThreadOK
  <2> QED
    BY <1>3, <2>5, <2>6, SerialCalmStep DEF PlayGroups, At, Calms
<1> QED
  BY <1>1, <1>2, <1>3 DEF Play

LEMMA SerialSoundCall ==
  ASSUME TypeOK, SerialInv, mode.atomic, mode' = mode, NEW u \in Users, SoundCall(u)
  PROVE  SerialInv'
<1> USE DEF TypeOK
<1>1. UNCHANGED <<thread, talking, toggled, talk, toggle>>
  BY DEF SoundCall, StopSound, StopSounds,
         StopSoundsLater, ChangeSettings, ToggleMuteInTray, OnlyWorld
<1>2. "sound" \notin mode.calls => world'.paused \subseteq world.paused
  <2>1. CASE StopSounds(u) \/ StopSoundsLater(u)
    BY <2>1, SoundsStoppedCalms DEF Calms, StopSounds, StopSoundsLater, OnlyWorld
  <2>2. ASSUME NEW new \in SettingsSet, ChangeSettings(u, new)
        PROVE world'.paused \subseteq world.paused
    BY <2>2, SettingsAssumption DEF ChangeSettings, MuteFollows, WorldOK, SettingsSet
  <2>3. CASE (\E p \in Plays : StopSound(u, p)) \/ ToggleMuteInTray(u)
    BY <2>3 DEF StopSound, ToggleMuteInTray, MayCall
  <2> QED
    BY <2>1, <2>2, <2>3 DEF SoundCall
<1> QED
  BY <1>1, <1>2, SerialCalmStep

LEMMA SerialPairCall ==
  ASSUME TypeOK, SerialInv, mode.atomic, mode' = mode, NEW u \in Users, PairCall(u)
  PROVE  SerialInv'
BY PairCallOnly, SerialCalmStep

LEMMA SerialQueue ==
  ASSUME TypeOK, SerialInv, mode.atomic, mode' = mode, Device \/ QueueThread
  PROVE  SerialInv'
<1> USE DEF TypeOK
<1>1. UNCHANGED <<thread, talking, toggled, talk, toggle>>
  BY DEF Device, QueueThread, EndPosted, FinishJob, StopAllJob, RunsJob
<1>2. world'.paused \subseteq world.paused
  <2>1. ASSUME NEW s \in Sounds, EndPosted(s) PROVE world'.paused \subseteq world.paused
    BY <2>1 DEF EndPosted
  <2>2. ASSUME NEW s \in Sounds, FinishJob(s) PROVE world'.paused \subseteq world.paused
    BY <2>2, SoundFinishedCalms DEF Calms, FinishJob, RunsJob
  <2>3. CASE StopAllJob
    BY <2>3, WithoutCalms DEF Calms, StopAllJob, RunsJob
  <2> QED
    BY <2>1, <2>2, <2>3 DEF Device, QueueThread
<1> QED
  BY <1>1, <1>2, SerialCalmStep

LEMMA SerialToggle ==
  ASSUME TypeOK, SerialInv, mode.atomic, mode' = mode, NEW u \in Users, Toggle(u)
  PROVE  SerialInv'
<1> USE DEF TypeOK
<1>1. CASE TogglePauses(u)
  <2>1. PausesAll(u, "pausing") /\ Quiescent /\ ~talking /\ ~toggled
    BY <1>1 DEF TogglePauses, MayCall, Idles
  <2>2. /\ world'.paused \subseteq world.playing
        /\ thread'[u].at = "pausing" /\ \A v \in Users \ {u} : thread'[v] = thread[v]
    BY <2>1, PausesAllOK DEF Phases
  <2>3. "sound" \notin mode.calls => world.paused = {} /\ toggle'.ids = world.playing
    BY <1>1, <2>1 DEF TogglePauses, SerialInv, PausedInv, WillResume, Quiescent, Idles, Unpaused, NothingPaused
  <2>4. UNCHANGED <<talking, toggled>>
    BY <1>1 DEF TogglePauses
  <2>5. \A v \in Users \ {u} : thread'[v].at = "idle"
    BY <2>1, <2>2 DEF Quiescent, Idles
  <2> QED
    BY <2>1, <2>2, <2>3, <2>4, <2>5
       DEF SerialInv, OneCaller, PhaseFlags, ToggleExcludesTalk, PausedInv, WillResume
<1>2. CASE TogglePaused(u)
  <2>1. thread'[u].at = "idle" /\ \A v \in Users \ {u} : thread'[v].at = "idle"
    BY <1>2 DEF TogglePaused, At, Returns, Idle, ThreadOK, SerialInv, OneCaller
  <2>2. thread[u].at = "pausing" /\ ~talking /\ toggled' /\ ~talking'
    BY <1>2 DEF TogglePaused, At, SerialInv, PhaseFlags
  <2>3. world'.paused = world.paused /\ toggle'.ids = toggle.ids
    BY <1>2 DEF TogglePaused, Released, WorldOK, Interruption
  <2> QED
    BY <2>1, <2>2, <2>3
       DEF SerialInv, OneCaller, PhaseFlags, ToggleExcludesTalk, PausedInv, WillResume
<1>3. CASE ToggleResumes(u)
  <2>1. /\ Resumes(u, "resuming", world, toggle.ids) /\ Calms(world, world)
        /\ toggle.ids \in SUBSET Sounds /\ Quiescent /\ ~talking /\ toggled
    BY <1>3, WorldCalms DEF ToggleResumes, Interruption, MayCall, Idles
  <2>2. /\ world'.paused \subseteq world.paused \ toggle.ids
        /\ thread'[u].at = "resuming" /\ \A v \in Users \ {u} : thread'[v] = thread[v]
    BY <2>1, ResumesOK DEF Phases
  <2>3. "sound" \notin mode.calls => world'.paused = {}
    BY <2>1, <2>2 DEF SerialInv, PausedInv, WillResume, Quiescent, Idles
  <2>4. UNCHANGED <<talking, toggled>>
    BY <1>3 DEF ToggleResumes
  <2>5. \A v \in Users \ {u} : thread'[v].at = "idle"
    BY <2>1, <2>2 DEF Quiescent, Idles
  <2> QED
    BY <2>1, <2>2, <2>3, <2>4, <2>5
       DEF SerialInv, OneCaller, PhaseFlags, ToggleExcludesTalk, PausedInv, WillResume
<1>4. CASE ToggleResumed(u)
  <2>1. thread'[u].at = "idle" /\ \A v \in Users \ {u} : thread'[v].at = "idle"
    BY <1>4 DEF ToggleResumed, At, Returns, Idle, ThreadOK, SerialInv, OneCaller
  <2>2. ~toggled' /\ talking' = talking
    BY <1>4 DEF ToggleResumed
  <2>3. "sound" \notin mode.calls => world'.paused = {}
    BY <1>4 DEF ToggleResumed, At, Released, Applied, WorldOK, SerialInv, PausedInv
  <2> QED
    BY <2>1, <2>2, <2>3
       DEF SerialInv, OneCaller, PhaseFlags, ToggleExcludesTalk, PausedInv, WillResume
<1> QED
  BY <1>1, <1>2, <1>3, <1>4 DEF Toggle

LEMMA SerialTalkThrough ==
  ASSUME TypeOK, SerialInv, mode.atomic, mode' = mode, NEW u \in Users, TalkThrough(u)
  PROVE  SerialInv'
<1> USE DEF TypeOK
<1>1. CASE StartTalkThrough(u)
  <2>1. PausesAll(u, "startingTalk") /\ Quiescent /\ ~talking /\ ~toggled
    BY <1>1 DEF StartTalkThrough, MayCall, Idles
  <2>2. /\ world'.paused \subseteq world.playing
        /\ thread'[u].at = "startingTalk" /\ \A v \in Users \ {u} : thread'[v] = thread[v]
    BY <2>1, PausesAllOK DEF Phases
  <2>3. "sound" \notin mode.calls => world.paused = {} /\ talk'.ids = world.playing
    BY <1>1, <2>1 DEF StartTalkThrough, SerialInv, PausedInv, WillResume, Quiescent, Idles, Unpaused, NothingPaused
  <2>4. talking' /\ toggled' = toggled
    BY <1>1 DEF StartTalkThrough
  <2>5. \A v \in Users \ {u} : thread'[v].at = "idle"
    BY <2>1, <2>2 DEF Quiescent, Idles
  <2> QED
    BY <2>1, <2>2, <2>3, <2>4, <2>5
       DEF SerialInv, OneCaller, PhaseFlags, ToggleExcludesTalk, PausedInv, WillResume
<1>2. CASE TalkThroughStarted(u)
  <2>1. thread'[u].at = "idle" /\ \A v \in Users \ {u} : thread'[v].at = "idle"
    BY <1>2 DEF TalkThroughStarted, At, Returns, Idle, ThreadOK, SerialInv, OneCaller
  <2>2. \A v \in Users : thread[v].at # "pausing"
    BY <1>2 DEF TalkThroughStarted, At, SerialInv, OneCaller
  <2>3. /\ world'.paused = world.paused /\ talk'.ids = talk.ids
        /\ UNCHANGED <<talking, toggled, toggle>>
    BY <1>2 DEF TalkThroughStarted, Released, Applied, WorldOK, Interruption
  <2> QED
    BY <2>1, <2>2, <2>3
       DEF SerialInv, OneCaller, PhaseFlags, ToggleExcludesTalk, PausedInv, WillResume
<1>3. CASE StopTalkThrough(u)
  <2>1. /\ Resumes(u, "stoppingTalk", Released(world, TRUE, FALSE), talk.ids)
        /\ Calms(world, Released(world, TRUE, FALSE)) /\ talk.ids \in SUBSET Sounds
        /\ Quiescent /\ talking /\ ~toggled
    BY <1>3, ReleasedCalms
       DEF StopTalkThrough, Interruption, MayCall, Idles, SerialInv, ToggleExcludesTalk
  <2>2. /\ world'.paused \subseteq world.paused \ talk.ids
        /\ thread'[u].at = "stoppingTalk" /\ \A v \in Users \ {u} : thread'[v] = thread[v]
    <3> HIDE DEF TypeOK
    <3>1. "stoppingTalk" \in Phases \ {"open", "group"}
      BY DEF Phases
    <3> QED
      BY <2>1, <3>1, ResumesOK
  <2>3. "sound" \notin mode.calls => world'.paused = {}
    BY <2>1, <2>2 DEF SerialInv, PausedInv, WillResume, Quiescent, Idles
  <2>4. UNCHANGED <<talking, toggled>>
    BY <1>3 DEF StopTalkThrough
  <2>5. \A v \in Users \ {u} : thread'[v].at = "idle"
    BY <2>1, <2>2 DEF Quiescent, Idles
  <2> QED
    BY <2>1, <2>2, <2>3, <2>4, <2>5
       DEF SerialInv, OneCaller, PhaseFlags, ToggleExcludesTalk, PausedInv, WillResume
<1>4. CASE TalkThroughStopped(u)
  <2>1. thread'[u].at = "idle" /\ \A v \in Users \ {u} : thread'[v].at = "idle"
    BY <1>4 DEF TalkThroughStopped, At, Returns, Idle, ThreadOK, SerialInv, OneCaller
  <2>2. ~talking' /\ toggled' = toggled
    BY <1>4 DEF TalkThroughStopped
  <2>3. "sound" \notin mode.calls => world'.paused = {}
    BY <1>4 DEF TalkThroughStopped, At, Applied, WorldOK, SerialInv, PausedInv
  <2> QED
    BY <2>1, <2>2, <2>3
       DEF SerialInv, OneCaller, PhaseFlags, ToggleExcludesTalk, PausedInv, WillResume
<1> QED
  BY <1>1, <1>2, <1>3, <1>4 DEF TalkThrough

LEMMA SerialNext ==
  TypeOK /\ (mode.atomic => SerialInv) /\ [Next]_allVars => (mode.atomic => SerialInv)'
<1> SUFFICES ASSUME TypeOK, mode.atomic => SerialInv, [Next]_allVars, mode'.atomic
             PROVE  SerialInv'
  OBVIOUS
<1>1. CASE Next
  <2>1. mode' = mode /\ mode.atomic /\ SerialInv
    BY <1>1 DEF Next
  <2> QED
    BY <1>1, <2>1, SerialPlay, SerialSoundCall, SerialPairCall, SerialToggle, SerialTalkThrough, SerialQueue DEF Next
<1>2. CASE UNCHANGED allVars
  BY <1>2 DEF allVars, vars, SerialInv, OneCaller, PhaseFlags, ToggleExcludesTalk, PausedInv, WillResume
<1> QED
  BY <1>1, <1>2

\* While calls run one after the other, SerialInv holds.
THEOREM Serial == Spec => [](mode.atomic => SerialInv)
<1>1. Init => (mode.atomic => SerialInv)
  BY SerialInit
<1> QED
  BY <1>1, SerialNext, TypeCorrect, PTL DEF Spec

\* Calls made one after the other keep talk-through and the global pause apart
\* (the guards of startTalkThrough and toggleAllPlaybackState).
THEOREM TalkAndPauseApart == Spec => []ToggleExcludesTalk
<1>1. (mode.atomic => SerialInv) => ToggleExcludesTalk
  BY DEF SerialInv, ToggleExcludesTalk
<1> QED
  BY <1>1, Serial, PTL

\* Calls made one after the other, none of which pauses a single sound, leave no sound
\* paused that neither the global pause nor talk-through will resume.
THEOREM PausedSoundsResume == Spec => []PausedWillResume
<1>1. (mode.atomic => SerialInv) => PausedWillResume
  BY DEF SerialInv, PausedInv, PausedWillResume, WillResume, Quiescent, Idles
<1> QED
  BY <1>1, Serial, PTL

-------------------------------------------------------------------------------
(* What is held while sounds play *)

\* Calls of some kinds only, one after the other, none of which fails, by users who
\* leave the keys as configured.
Regular(calls) ==
  /\ Only(calls) /\ ~mode.mayFail
  /\ \A s \in mode.settings : s.ptt = InitialSettings.ptt

DeskUse == Regular({"play", "sound", "stop", "settings"})

\* What playSound takes before it opens its sounds, and what is held between calls.
Taken(w) == (w.muted <=> settings.mute) /\ (w.pressed <=> settings.ptt)
Held(w) == /\ w.muted <=> settings.mute /\ w.playing # {}
           /\ w.pressed <=> settings.ptt /\ w.playing # {}

AllIdle == \A u \in Users : thread[u].at = "idle"

HeldInv ==
  /\ settings.ptt = InitialSettings.ptt
  /\ <<"stopAll">> \notin jobs
  /\ IsFiniteSet(world.playing)
  /\ \A u \in Users :
       /\ thread[u].at \in {"idle", "open", "group"}
       /\ thread[u].at = "open" => Taken(world)
       /\ thread[u].at = "group" => Taken(world) /\ world.playing # {}
  /\ AllIdle => Held(world)

LEMMA QuiescentIdle == Quiescent => AllIdle
BY DEF Quiescent, Idles, AllIdle

LEMMA AllFinishedHeld ==
  ASSUME NEW w, WorldOK(w), settings \in SettingsSet,
         w.muted => settings.mute, w.pressed => settings.ptt
  PROVE  /\ ~AllFinished(w).muted /\ ~AllFinished(w).pressed
         /\ AllFinished(w).playing = w.playing
BY DEF WorldOK, AllFinished, Released, SettingsSet

LEMMA SoundsStoppedHeld ==
  ASSUME NEW w, WorldOK(w), settings \in SettingsSet, w.muted => settings.mute, w.pressed => settings.ptt
  PROVE  LET r == SoundsStopped(w, TRUE) IN r.playing = {} /\ ~r.muted /\ ~r.pressed
<1> DEFINE v == Without(w, Sounds)
<1>1. WorldOK(v) /\ v.playing = {} /\ v.muted = w.muted /\ v.pressed = w.pressed
  BY WithoutCalms DEF Calms, WorldOK, Without
<1>2. WorldOK(AllFinished(v)) /\ ~AllFinished(v).muted /\ ~AllFinished(v).pressed /\ AllFinished(v).playing = {}
  <2> HIDE DEF v
  <2> QED
    BY <1>1, AllFinishedHeld, AllFinishedCalms DEF Calms
<1>3. SoundsStopped(w, TRUE) = [AllFinished(v) EXCEPT !.grouped = {}]
  BY DEF SoundsStopped
<1> HIDE DEF v
<1> QED
  BY <1>2, <1>3 DEF WorldOK

\* Nothing is held that is not configured.
Configured(w) == (w.muted => settings.mute) /\ (w.pressed => settings.ptt)

\* Stopping a sound gives everything back or leaves it held while something plays.
LEMMA SoundStoppedSettles ==
  ASSUME NEW w, WorldOK(w), settings \in SettingsSet, NEW s \in Sounds, Configured(w)
  PROVE  LET r == SoundStopped(w, s) IN
         /\ r.playing \subseteq w.playing
         /\ \/ r.playing = {} /\ ~r.muted /\ ~r.pressed
            \/ /\ r.playing # {} \/ r.playing = w.playing
               /\ r.muted = w.muted /\ r.pressed = w.pressed
<1> DEFINE v == Without(w, Pair(w, s))
           stopped == [v EXCEPT !.grouped = IF settings.outputs THEN @ \ {s[1]} ELSE @]
<1>1. /\ WorldOK(v) /\ v.playing \subseteq w.playing
      /\ v.muted = w.muted /\ v.pressed = w.pressed
  BY WithoutCalms DEF Calms, WorldOK, Without
<1>2. /\ WorldOK(stopped) /\ stopped.playing = v.playing
      /\ stopped.muted = w.muted /\ stopped.pressed = w.pressed
  <2>1. (IF settings.outputs THEN v.grouped \ {s[1]} ELSE v.grouped) \in SUBSET Plays
    BY <1>1 DEF WorldOK
  <2> HIDE DEF v
  <2> QED
    BY <1>1, <2>1 DEF WorldOK
<1>3. SoundStopped(w, s) = IF settings.outputs /\ Pair(w, s) = {s} THEN w
                           ELSE IF stopped.playing = {} THEN AllFinished(stopped) ELSE stopped
  BY DEF SoundStopped
<1> HIDE DEF v, stopped
<1>4. CASE stopped.playing = {}
  BY <1>1, <1>2, <1>3, <1>4, AllFinishedHeld DEF Configured
<1>5. CASE stopped.playing # {}
  BY <1>1, <1>2, <1>3, <1>5
<1> QED
  BY <1>4, <1>5

LEMMA SoundStoppedHeld ==
  ASSUME NEW w, WorldOK(w), settings \in SettingsSet, NEW s \in Sounds, Held(w)
  PROVE  Held(SoundStopped(w, s)) /\ SoundStopped(w, s).playing \subseteq w.playing
BY SoundStoppedSettles DEF Held, Configured

\* The end of a sound keeps what is held with what plays.
LEMMA SoundFinishedHeld ==
  ASSUME NEW w, WorldOK(w), settings \in SettingsSet, NEW s \in w.playing, Held(w),
         IsFiniteSet(w.playing)
  PROVE  /\ Held(SoundFinished(w, s))
         /\ SoundFinished(w, s).playing \subseteq w.playing
<1> DEFINE v == [w EXCEPT !.grouped = IF s[2] = "local" THEN @ \ {s[1]} ELSE @]
           r == IF Cardinality(w.playing) = 1 THEN AllFinished(v) ELSE v
<1>1. /\ WorldOK(v) /\ v.playing = w.playing
      /\ v.muted = w.muted /\ v.pressed = w.pressed
  <2>1. (IF s[2] = "local" THEN w.grouped \ {s[1]} ELSE w.grouped) \in SUBSET Plays
    BY DEF WorldOK
  <2> QED
    BY <2>1 DEF WorldOK
<1>2. SoundFinished(w, s) = Without(r, {s})
  BY DEF SoundFinished
<1>3. Cardinality(w.playing) = 1 <=> w.playing \ {s} = {}
  BY FS_Singleton
<1> HIDE DEF v
<1>4. WorldOK(r) /\ r.playing = w.playing
  BY <1>1, AllFinishedHeld, AllFinishedCalms DEF Held, Calms
<1>5. IF Cardinality(w.playing) = 1 THEN ~r.muted /\ ~r.pressed
      ELSE r.muted = w.muted /\ r.pressed = w.pressed
  BY <1>1, AllFinishedHeld DEF Held
<1> HIDE DEF r
<1>6. LET x == Without(r, {s}) IN
        x.playing = w.playing \ {s} /\ x.muted = r.muted /\ x.pressed = r.pressed
  BY <1>4 DEF Without, WorldOK
<1> QED
  BY <1>2, <1>3, <1>5, <1>6 DEF Held

LEMMA PausingHolds ==
  ASSUME NEW w, WorldOK(w), NEW sounds
  PROVE  \A r \in {SoundsPaused(w, sounds), SoundsResumed(w, sounds)} :
           r.playing = w.playing /\ r.muted = w.muted /\ r.pressed = w.pressed
BY DEF SoundsPaused, SoundsResumed, WorldOK

LEMMA AppliedTakes ==
  ASSUME NEW w, WorldOK(w), settings \in SettingsSet,
         w.muted => settings.mute, w.pressed => settings.ptt
  PROVE  LET r == Applied(w, TRUE, settings.mute) IN Taken(r) /\ r.playing = w.playing
BY DEF Applied, WorldOK, Taken, SettingsSet

\* Releasing holds nothing more, applying nothing it was not asked for.
LEMMA ReleasedLess ==
  ASSUME NEW w, WorldOK(w), NEW ptt \in BOOLEAN, NEW mic \in BOOLEAN
  PROVE  LET r == Released(w, ptt, mic) IN
         /\ r.playing = w.playing
         /\ r.muted => w.muted
         /\ r.pressed => w.pressed
BY DEF Released, WorldOK

LEMMA AppliedOnly ==
  ASSUME NEW w, WorldOK(w), settings \in SettingsSet, NEW ptt \in BOOLEAN, NEW mic \in BOOLEAN
  PROVE  LET r == Applied(w, ptt, mic) IN
         /\ r.playing = w.playing
         /\ r.muted => w.muted \/ mic
         /\ r.pressed => w.pressed \/ (ptt /\ settings.ptt)
<1>1. /\ Applied(w, ptt, mic).playing = w.playing
      /\ Applied(w, ptt, mic).muted = (w.muted \/ mic)
      /\ Applied(w, ptt, mic).pressed = (w.pressed \/ (ptt /\ settings.ptt))
  BY DEF Applied, WorldOK, SettingsSet
<1> QED
  BY <1>1, Zenon

LEMMA HeldInit == Init => HeldInv
<1> SUFFICES ASSUME Init PROVE HeldInv
  OBVIOUS
<1>1. world.playing = {} /\ ~world.muted /\ ~world.pressed
  BY DEF Init
<1>2. \A u \in Users : thread[u].at = "idle"
  BY DEF Init, Idle
<1> QED
  BY <1>1, <1>2, FS_EmptySet DEF Init, HeldInv, Held, AllIdle

\* A step of the one caller u, or of the queue thread while nobody calls.
LEMMA HeldPlay ==
  ASSUME TypeOK, OneCaller, HeldInv, DeskUse, mode' = mode, NEW u \in Users, Play(u)
  PROVE  HeldInv'
<1> USE DEF TypeOK
<1>1. ASSUME NEW p \in Plays, PlayHolds(u, p) PROVE HeldInv'
  <2> DEFINE v == IF settings.overlap THEN world ELSE SoundsStopped(world, TRUE)
  <2>1. Quiescent /\ Held(world) /\ IsFiniteSet(world.playing)
    BY <1>1, QuiescentIdle DEF PlayHolds, MayCall, HeldInv, DeskUse, Regular, Only
  <2>2. WorldOK(v)
    BY SoundsStoppedCalms DEF Calms
  <2>3. (v.muted => settings.mute) /\ (v.pressed => settings.ptt) /\ IsFiniteSet(v.playing)
    BY <2>1, SoundsStoppedHeld, FS_EmptySet DEF Held
  <2>4. world' = Applied(v, TRUE, settings.mute) /\ UNCHANGED <<settings, jobs>>
    BY <1>1 DEF PlayHolds
  <2> HIDE DEF v
  <2>5. Taken(world') /\ IsFiniteSet(world'.playing)
    BY <2>2, <2>3, <2>4, AppliedTakes
  <2>6. thread'[u].at = "open" /\ \A x \in Users \ {u} : thread'[x].at = "idle"
    BY <1>1, <2>1 DEF PlayHolds, ThreadOK, Quiescent, Idles
  <2> QED
    BY <2>4, <2>5, <2>6 DEF HeldInv, Taken, AllIdle
<1>2. CASE PlayOpens(u)
  <2> DEFINE both == {Local(thread[u].play), Remote(thread[u].play)}
  <2>1. /\ world' = [world EXCEPT !.playing = @ \cup both]
        /\ Goes(u, "group") /\ UNCHANGED <<settings, jobs>>
    BY <1>2 DEF PlayOpens, DeskUse, Regular
  <2>2. thread[u].at = "open" /\ Taken(world) /\ \A x \in Users \ {u} : thread[x].at = "idle"
    BY <1>2 DEF PlayOpens, At, HeldInv, OneCaller
  <2>3. IsFiniteSet(both)
    <3>1. IsFiniteSet({Local(thread[u].play)})
      BY FS_Singleton
    <3>2. IsFiniteSet({Local(thread[u].play)} \cup {Remote(thread[u].play)})
      BY <3>1, FS_AddElement
    <3>3. both = {Local(thread[u].play)} \cup {Remote(thread[u].play)}
      OBVIOUS
    <3> QED
      BY <3>2, <3>3
  <2>4. /\ Taken(world') /\ world'.playing # {} /\ IsFiniteSet(world'.playing)
    BY <2>1, <2>2, <2>3, FS_Union DEF HeldInv, Taken, WorldOK
  <2>5. thread'[u].at = "group" /\ \A x \in Users \ {u} : thread'[x].at = "idle"
    BY <2>1, <2>2 DEF Goes, ThreadOK
  <2> QED
    BY <2>1, <2>4, <2>5 DEF HeldInv, Taken, AllIdle
<1>3. CASE PlayGroups(u)
  <2>1. /\ world' = [world EXCEPT !.grouped = @ \cup {thread[u].play}]
        /\ UNCHANGED <<settings, jobs>>
    BY <1>3 DEF PlayGroups, DeskUse, Regular
  <2>2. thread[u].at = "group" /\ Taken(world) /\ world.playing # {}
        /\ \A x \in Users \ {u} : thread[x].at = "idle"
    BY <1>3 DEF PlayGroups, At, HeldInv, OneCaller
  <2>3. Held(world') /\ IsFiniteSet(world'.playing)
    BY <2>1, <2>2 DEF HeldInv, Taken, Held, WorldOK
  <2>4. \A x \in Users : thread'[x].at = "idle"
    BY <1>3, <2>2 DEF PlayGroups, Returns, Idle, ThreadOK
  <2> QED
    BY <2>1, <2>3, <2>4 DEF HeldInv, Held, AllIdle
<1> QED
  BY <1>1, <1>2, <1>3 DEF Play

\* Between calls, a step that leaves the threads and the configured keys alone.
LEMMA HeldStep ==
  ASSUME HeldInv, AllIdle, thread' = thread, settings'.ptt = settings.ptt,
         jobs' \subseteq jobs \cup Sounds,
         IsFiniteSet(world'.playing), Held(world)'
  PROVE  HeldInv'
<1>1. <<"stopAll">> \notin Sounds
  BY DEF Sounds
<1> QED
  BY <1>1 DEF HeldInv, AllIdle

LEMMA HeldSoundCall ==
  ASSUME TypeOK, HeldInv, DeskUse, mode' = mode, NEW u \in Users, SoundCall(u)
  PROVE  HeldInv'
<1> USE DEF TypeOK
<1>1. AllIdle /\ thread' = thread /\ jobs' \subseteq jobs \cup Sounds
  BY QuiescentIdle
     DEF SoundCall, StopSound, StopSounds, StopSoundsLater, ChangeSettings, ToggleMuteInTray,
         OnlyWorld, MayCall, DeskUse, Regular, Only
<1>2. Held(world) /\ IsFiniteSet(world.playing)
  BY <1>1 DEF HeldInv
<1>4. ASSUME NEW p \in Plays, StopSound(u, p) PROVE HeldInv'
  <2>1. world' = SoundStopped(world, Local(p)) /\ settings' = settings
    BY <1>4 DEF StopSound, OnlyWorld
  <2>2. Held(world)' /\ IsFiniteSet(world'.playing)
    BY <1>2, <2>1, PlaySounds, SoundStoppedHeld, FS_Subset DEF Held
  <2> QED
    BY <1>1, <2>1, <2>2, HeldStep
<1>6. CASE StopSounds(u)
  <2>1. world' = SoundsStopped(world, TRUE) /\ settings' = settings
    BY <1>6 DEF StopSounds, OnlyWorld
  <2>2. Held(world)' /\ IsFiniteSet(world'.playing)
    BY <1>2, <2>1, SoundsStoppedHeld, FS_EmptySet DEF Held
  <2> QED
    BY <1>1, <2>1, <2>2, HeldStep
<1>7. ASSUME NEW new \in SettingsSet, ChangeSettings(u, new) PROVE HeldInv'
  <2>1. /\ world' = MuteFollows(world, new) /\ settings' = new
        /\ new.ptt = settings.ptt
    BY <1>7 DEF ChangeSettings, HeldInv, DeskUse, Regular
  <2>2. /\ world'.playing = world.playing /\ world'.pressed = world.pressed
        /\ world'.muted = IF world.playing # {} /\ new.mute # settings.mute THEN new.mute
                          ELSE world.muted
    BY <2>1 DEF MuteFollows, WorldOK
  <2>3. Held(world)' /\ IsFiniteSet(world'.playing)
    BY <1>2, <2>1, <2>2 DEF Held, WorldOK, SettingsSet
  <2> QED
    BY <1>1, <2>1, <2>3, HeldStep
<1>8. ~StopSoundsLater(u) /\ ~ToggleMuteInTray(u)
  BY DEF StopSoundsLater, ToggleMuteInTray, MayCall, Idles, DeskUse, Regular, Only
<1> QED
  BY <1>4, <1>6, <1>7, <1>8 DEF SoundCall

LEMMA HeldPairCall ==
  ASSUME TypeOK, HeldInv, mode' = mode, NEW u \in Users, PairCall(u)
  PROVE  HeldInv'
BY PairCallOnly DEF HeldInv, Held, Taken, AllIdle

LEMMA HeldQueue ==
  ASSUME TypeOK, HeldInv, DeskUse, mode' = mode, Device \/ QueueThread
  PROVE  HeldInv'
<1> USE DEF TypeOK
<1>1. /\ AllIdle /\ thread' = thread /\ settings' = settings
      /\ jobs' \subseteq jobs \cup Sounds /\ ~StopAllJob
  BY QuiescentIdle DEF Device, QueueThread, EndPosted, FinishJob, StopAllJob, RunsJob, MayRunJob, HeldInv,
         DeskUse, Regular, Only
<1>2. Held(world) /\ IsFiniteSet(world.playing)
  BY <1>1 DEF HeldInv
<1>3. Held(world)' /\ IsFiniteSet(world'.playing)
  <2>1. ASSUME NEW s \in Sounds, FinishJob(s), s \in world.playing
        PROVE Held(world)' /\ IsFiniteSet(world'.playing)
    <3>1. world' = SoundFinished(world, s)
      BY <2>1 DEF FinishJob, RunsJob
    <3>2. Held(world') /\ world'.playing \subseteq world.playing
      BY <1>2, <2>1, <3>1, SoundFinishedHeld
    <3> QED
      BY <1>1, <1>2, <3>2, FS_Subset DEF Held
  <2>2. world' = world \/ \E s \in world.playing \cap Sounds : FinishJob(s)
    BY <1>1 DEF Device, QueueThread, EndPosted, FinishJob, RunsJob
  <2> QED
    BY <1>1, <1>2, <2>1, <2>2 DEF Held
<1> QED
  BY <1>1, <1>3, HeldStep

LEMMA HeldNext ==
  /\ TypeOK /\ (mode.atomic => SerialInv) /\ (DeskUse => HeldInv) /\ [Next]_allVars
  => (DeskUse => HeldInv)'
<1> SUFFICES ASSUME TypeOK, mode.atomic => SerialInv, DeskUse => HeldInv, [Next]_allVars, DeskUse'
             PROVE  HeldInv'
  OBVIOUS
<1>0. mode' = mode
  BY DEF Next, allVars
<1>1. DeskUse /\ HeldInv /\ OneCaller
  BY <1>0 DEF DeskUse, Regular, Only, SerialInv
<1>2. CASE Next
  <2>1. \A u \in Users : ~Toggle(u) /\ ~TalkThrough(u)
    BY <1>1 DEF Toggle, TalkThrough, TogglePauses, TogglePaused, ToggleResumes, ToggleResumed,
                StartTalkThrough, TalkThroughStarted, StopTalkThrough, TalkThroughStopped,
                MayCall, Idles, At, HeldInv, DeskUse, Regular, Only
  <2> QED
    BY <1>0, <1>1, <1>2, <2>1, HeldPlay, HeldSoundCall, HeldPairCall, HeldQueue DEF Next
<1>3. CASE UNCHANGED allVars
  BY <1>1, <1>3 DEF allVars, vars, HeldInv, Held, Taken, AllIdle
<1> QED
  BY <1>2, <1>3

\* At the window, with the keys left as configured and no call that fails, the
\* microphone and the keys are held between calls exactly while sounds play (playSound,
\* stopSound, stopSounds, changeSettings, onSoundFinished, onAllSoundsFinished).
THEOREM HoldsFollowSounds == Spec => [](DeskUse => HeldWhilePlaying)
<1>1. Init => (DeskUse => HeldInv)
  BY HeldInit
<1>2. TypeOK /\ (DeskUse => HeldInv) => (DeskUse => HeldWhilePlaying)
  BY QuiescentIdle DEF HeldInv, Held, HeldWhilePlaying, TypeOK, WorldOK, SettingsSet
<1> QED
  BY <1>1, <1>2, HeldNext, TypeCorrect, Serial, PTL DEF Spec

-------------------------------------------------------------------------------
(* What is left held with the remote's toggles *)

\* Regular calls of every kind but the deferred stop and the tray's switch, by users
\* who leave the muting as configured too.
WebUse ==
  /\ Regular({"play", "sound", "stop", "settings", "toggle", "talk"})
  /\ \A s \in mode.settings : s.mute = InitialSettings.mute

\* Nothing is held without a reason.
Needed(w) == (w.muted => w.playing # {}) /\ (w.pressed => w.playing # {} \/ talking)

QuietInv ==
  /\ settings.ptt = InitialSettings.ptt /\ settings.mute = InitialSettings.mute
  /\ <<"stopAll">> \notin jobs
  /\ Configured(world)
  /\ (talk.mic => settings.mute) /\ (toggle.mic => settings.mute)
  /\ \A u \in Users :
       /\ thread[u].at \in {"pausing", "startingTalk"} => (thread[u].mic => settings.mute)
       /\ thread[u].at \in {"group"} => world.playing # {}
       /\ thread[u].at \in {"resuming", "stoppingTalk"} => (thread[u].resumed => world.playing # {})
       /\ thread[u].at = "stoppingTalk" => ~world.pressed
  /\ (\A u \in Users : thread[u].at # "open") => Needed(world)

LEMMA SoundStoppedQuiet ==
  ASSUME NEW w, WorldOK(w), settings \in SettingsSet, NEW s \in Sounds,
         Configured(w), Needed(w)
  PROVE  Configured(SoundStopped(w, s)) /\ Needed(SoundStopped(w, s))
BY SoundStoppedSettles DEF Configured, Needed

LEMMA SoundFinishedQuiet ==
  ASSUME NEW w, WorldOK(w), settings \in SettingsSet, NEW s \in w.playing,
         Configured(w), Needed(w)
  PROVE  Configured(SoundFinished(w, s)) /\ Needed(SoundFinished(w, s))
<1> DEFINE v == [w EXCEPT !.grouped = IF s[2] = "local" THEN @ \ {s[1]} ELSE @]
           r == IF Cardinality(w.playing) = 1 THEN AllFinished(v) ELSE v
<1>1. /\ WorldOK(v) /\ v.playing = w.playing
      /\ v.muted = w.muted /\ v.pressed = w.pressed
  <2>1. (IF s[2] = "local" THEN w.grouped \ {s[1]} ELSE w.grouped) \in SUBSET Plays
    BY DEF WorldOK
  <2> QED
    BY <2>1 DEF WorldOK
<1>2. SoundFinished(w, s) = Without(r, {s})
  BY DEF SoundFinished
<1>3. w.playing \ {s} = {} => Cardinality(w.playing) = 1
  <2>1. w.playing \ {s} = {} => w.playing = {s}
    OBVIOUS
  <2> QED
    BY <2>1, FS_Singleton
<1> HIDE DEF v
<1>4. WorldOK(r) /\ r.playing = w.playing
  BY <1>1, AllFinishedHeld, AllFinishedCalms DEF Configured, Calms
<1>5. IF Cardinality(w.playing) = 1 THEN ~r.muted /\ ~r.pressed
      ELSE r.muted = w.muted /\ r.pressed = w.pressed
  BY <1>1, AllFinishedHeld DEF Configured
<1> HIDE DEF r
<1>6. LET x == Without(r, {s}) IN
        x.playing = w.playing \ {s} /\ x.muted = r.muted /\ x.pressed = r.pressed
  BY <1>4 DEF Without, WorldOK
<1> QED
  BY <1>2, <1>3, <1>5, <1>6 DEF Configured, Needed

LEMMA QuietInit == Init => QuietInv
<1> SUFFICES ASSUME Init PROVE QuietInv
  OBVIOUS
<1>1. ~world.muted /\ ~world.pressed /\ ~talk.mic /\ ~toggle.mic
  BY DEF Init, NothingPaused
<1>2. \A u \in Users : thread[u].at = "idle"
  BY DEF Init, Idle
<1> QED
  BY <1>1, <1>2 DEF Init, QuietInv, Configured, Needed

\* A step that opens no sound and leaves the toggles and the threads alone.
LEMMA QuietStep ==
  ASSUME QuietInv, AllIdle, UNCHANGED <<thread, talking, talk, toggle>>,
         settings'.ptt = settings.ptt, settings'.mute = settings.mute,
         jobs' \subseteq jobs \cup Sounds, Configured(world'), Needed(world')
  PROVE  QuietInv'
<1>1. <<"stopAll">> \notin Sounds
  BY DEF Sounds
<1> QED
  BY <1>1 DEF QuietInv, AllIdle, Configured, Needed

\* A step of the one caller u from or to a phase of its own.
LEMMA QuietPlay ==
  ASSUME TypeOK, OneCaller, QuietInv, WebUse, mode' = mode, NEW u \in Users, Play(u)
  PROVE  QuietInv'
<1> USE DEF TypeOK
<1>1. ASSUME NEW p \in Plays, PlayHolds(u, p) PROVE QuietInv'
  <2> DEFINE v == IF settings.overlap THEN world ELSE SoundsStopped(world, TRUE)
  <2>1. Quiescent
    BY <1>1 DEF PlayHolds, MayCall, Idles, WebUse, Regular, Only
  <2>2. WorldOK(v)
    BY SoundsStoppedCalms DEF Calms
  <2>3. Configured(v)
    BY SoundsStoppedHeld DEF Configured, QuietInv
  <2>4. world' = Applied(v, TRUE, settings.mute) /\ UNCHANGED <<settings, jobs, talk, toggle>>
    BY <1>1 DEF PlayHolds
  <2> HIDE DEF v
  <2>5. Configured(world')
    BY <2>2, <2>3, <2>4, AppliedTakes DEF Configured, Taken
  <2>6. thread'[u].at = "open" /\ \A x \in Users \ {u} : thread'[x].at = "idle"
    BY <1>1, <2>1 DEF PlayHolds, ThreadOK, Quiescent, Idles
  <2> QED
    BY <2>4, <2>5, <2>6 DEF QuietInv, Configured
<1>2. CASE PlayOpens(u)
  <2> DEFINE both == {Local(thread[u].play), Remote(thread[u].play)}
  <2>1. /\ world' = [world EXCEPT !.playing = @ \cup both]
        /\ Goes(u, "group") /\ UNCHANGED <<settings, jobs, talk, toggle>>
    BY <1>2 DEF PlayOpens, WebUse, Regular
  <2>2. \A x \in Users \ {u} : thread[x].at = "idle"
    BY <1>2 DEF PlayOpens, At, OneCaller
  <2>3. world'.playing # {} /\ Configured(world') /\ Needed(world')
    BY <2>1 DEF QuietInv, Configured, Needed, WorldOK
  <2>4. thread'[u].at = "group" /\ \A x \in Users \ {u} : thread'[x].at = "idle"
    BY <2>1, <2>2 DEF Goes, ThreadOK
  <2> QED
    BY <1>2, <2>1, <2>3, <2>4 DEF PlayOpens, QuietInv, Configured, Needed
<1>3. CASE PlayGroups(u)
  <2>1. /\ world' = [world EXCEPT !.grouped = @ \cup {thread[u].play}]
        /\ UNCHANGED <<settings, jobs, talk, toggle, talking>>
    BY <1>3 DEF PlayGroups, WebUse, Regular
  <2>2. world.playing # {} /\ \A x \in Users \ {u} : thread[x].at = "idle"
    BY <1>3 DEF PlayGroups, At, QuietInv, OneCaller
  <2>3. Configured(world') /\ Needed(world')
    BY <2>1, <2>2 DEF QuietInv, Configured, Needed, WorldOK
  <2>4. \A x \in Users : thread'[x].at = "idle"
    BY <1>3, <2>2 DEF PlayGroups, Returns, Idle, ThreadOK
  <2> QED
    BY <2>1, <2>3, <2>4 DEF QuietInv, Configured, Needed
<1> QED
  BY <1>1, <1>2, <1>3 DEF Play

LEMMA QuietSoundCall ==
  ASSUME TypeOK, QuietInv, WebUse, mode' = mode, NEW u \in Users, SoundCall(u)
  PROVE  QuietInv'
<1> USE DEF TypeOK
<1>1. /\ AllIdle /\ jobs' \subseteq jobs \cup Sounds
      /\ UNCHANGED <<thread, talking, talk, toggle>>
  BY QuiescentIdle
     DEF SoundCall, StopSound, StopSounds, StopSoundsLater, ChangeSettings, ToggleMuteInTray,
         OnlyWorld, MayCall, WebUse, Regular, Only
<1>2. Configured(world) /\ Needed(world)
  BY <1>1 DEF QuietInv, AllIdle
<1>5. ASSUME NEW p \in Plays, StopSound(u, p) PROVE QuietInv'
  <2>1. world' = SoundStopped(world, Local(p)) /\ settings' = settings
    BY <1>5 DEF StopSound, OnlyWorld
  <2>2. Configured(world') /\ Needed(world')
    BY <1>2, <2>1, PlaySounds, SoundStoppedQuiet
  <2> QED
    BY <1>1, <2>1, <2>2, QuietStep
<1>6. CASE StopSounds(u)
  <2>1. world' = SoundsStopped(world, TRUE) /\ settings' = settings
    BY <1>6 DEF StopSounds, OnlyWorld
  <2>2. Configured(world') /\ Needed(world')
    BY <1>2, <2>1, SoundsStoppedHeld DEF Configured, Needed
  <2> QED
    BY <1>1, <2>1, <2>2, QuietStep
<1>7. ASSUME NEW new \in SettingsSet, ChangeSettings(u, new) PROVE QuietInv'
  <2>1. /\ world' = MuteFollows(world, new) /\ settings' = new
        /\ new.ptt = settings.ptt /\ new.mute = settings.mute
    BY <1>7 DEF ChangeSettings, QuietInv, WebUse, Regular
  <2>2. world' = world
    BY <2>1 DEF MuteFollows
  <2> QED
    BY <1>1, <1>2, <2>1, <2>2, QuietStep
<1>8. ~StopSoundsLater(u) /\ ~ToggleMuteInTray(u)
  BY DEF StopSoundsLater, ToggleMuteInTray, MayCall, Idles, WebUse, Regular, Only
<1> QED
  BY <1>5, <1>6, <1>7, <1>8 DEF SoundCall

LEMMA QuietPairCall ==
  ASSUME TypeOK, QuietInv, mode' = mode, NEW u \in Users, PairCall(u)
  PROVE  QuietInv'
BY PairCallOnly DEF QuietInv, Configured, Needed

LEMMA QuietQueue ==
  ASSUME TypeOK, QuietInv, WebUse, mode' = mode, Device \/ QueueThread
  PROVE  QuietInv'
<1> USE DEF TypeOK
<1>1. /\ AllIdle /\ settings' = settings
      /\ UNCHANGED <<thread, talking, talk, toggle>>
      /\ jobs' \subseteq jobs \cup Sounds /\ ~StopAllJob
  BY QuiescentIdle DEF Device, QueueThread, EndPosted, FinishJob, StopAllJob, RunsJob, MayRunJob, QuietInv,
         WebUse, Regular, Only
<1>2. Configured(world) /\ Needed(world)
  BY <1>1 DEF QuietInv, AllIdle
<1>3. Configured(world') /\ Needed(world')
  <2>1. ASSUME NEW s \in Sounds, FinishJob(s), s \in world.playing
        PROVE Configured(world') /\ Needed(world')
    BY <1>2, <2>1, SoundFinishedQuiet DEF FinishJob, RunsJob
  <2>2. world' = world \/ \E s \in world.playing \cap Sounds : FinishJob(s)
    BY <1>1 DEF Device, QueueThread, EndPosted, FinishJob, RunsJob
  <2> QED
    BY <1>2, <2>1, <2>2
<1> QED
  BY <1>1, <1>3, QuietStep

\* The first steps of the toggles hold nothing more.
LEMMA PausesAllQuiet ==
  ASSUME TypeOK, NEW u \in Users, NEW at \in Phases \ {"open", "group"}, PausesAll(u, at)
  PROVE  /\ world'.playing = world.playing /\ world'.muted = world.muted
         /\ world'.pressed = world.pressed
         /\ thread'[u].mic => settings.mute
<1> DEFINE r == [[[thread[u] EXCEPT !.at = at] EXCEPT !.ptt = settings.ptt /\ world.playing # {}]
                   EXCEPT !.mic = settings.mute /\ world.playing # {}]
<1>1. thread' = [thread EXCEPT ![u] = r]
  BY DEF TypeOK, PausesAll, ThreadOK
<1>2. r.mic = (settings.mute /\ world.playing # {})
  BY DEF TypeOK, ThreadOK
<1> HIDE DEF r
<1>3. thread'[u] = r
  BY <1>1 DEF TypeOK, ThreadOK
<1> QED
  BY <1>2, <1>3, PausingHolds DEF TypeOK, PausesAll

LEMMA ResumesQuiet ==
  ASSUME TypeOK, NEW u \in Users, NEW at \in Phases \ {"open", "group"}, NEW w, WorldOK(w),
         NEW ids \in SUBSET Sounds, Resumes(u, at, w, ids)
  PROVE  /\ world'.playing = w.playing /\ world'.muted = w.muted
         /\ world'.pressed = w.pressed
         /\ thread'[u].resumed => world'.playing # {}
<1> DEFINE r == [[thread[u] EXCEPT !.at = at] EXCEPT !.resumed = ids \cap w.playing # {}]
<1>1. thread' = [thread EXCEPT ![u] = r]
  BY DEF TypeOK, Resumes, ThreadOK
<1>2. r.resumed = (ids \cap w.playing # {})
  BY DEF TypeOK, ThreadOK
<1> HIDE DEF r
<1>3. thread'[u] = r
  BY <1>1 DEF TypeOK, ThreadOK
<1>4. /\ world'.playing = w.playing /\ world'.muted = w.muted
      /\ world'.pressed = w.pressed
  BY PausingHolds DEF Resumes
<1> QED
  BY <1>2, <1>3, <1>4

LEMMA QuietToggle ==
  ASSUME TypeOK, OneCaller, QuietInv, WebUse, mode' = mode, NEW u \in Users, Toggle(u)
  PROVE  QuietInv'
<1> USE DEF TypeOK
<1>1. CASE TogglePauses(u)
  <2>1. /\ PausesAll(u, "pausing") /\ Quiescent /\ ~toggle'.mic
        /\ UNCHANGED <<settings, jobs, talking, talk>>
    BY <1>1 DEF TogglePauses, MayCall, Idles, WebUse, Regular, Only, NothingPaused
  <2>2. /\ world'.playing = world.playing /\ world'.muted = world.muted
        /\ world'.pressed = world.pressed /\ (thread'[u].mic => settings.mute)
        /\ thread'[u].at = "pausing" /\ \A v \in Users \ {u} : thread'[v] = thread[v]
    BY <2>1, PausesAllOK, PausesAllQuiet DEF Phases
  <2> QED
    BY <2>1, <2>2 DEF QuietInv, Configured, Needed, Quiescent, Idles
<1>2. CASE TogglePaused(u)
  <2>1. /\ thread[u].at = "pausing" /\ thread'[u].at = "idle"
        /\ \A v \in Users \ {u} : thread[v].at = "idle" /\ thread'[v].at = "idle"
    BY <1>2 DEF TogglePaused, At, Returns, Idle, ThreadOK, OneCaller
  <2>2. /\ world'.playing = world.playing
        /\ world'.muted => world.muted
        /\ world'.pressed => world.pressed
        /\ toggle'.mic => toggle.mic \/ thread[u].mic
        /\ UNCHANGED <<settings, jobs, talking, talk>>
    BY <1>2, ReleasedLess DEF TogglePaused, Interruption, ThreadOK
  <2>3. toggle'.mic => settings.mute
    BY <2>1, <2>2 DEF QuietInv
  <2>4. Configured(world') /\ Needed(world) /\ talking' = talking
    BY <2>1, <2>2 DEF QuietInv, Configured
  <2>5. Needed(world)'
    BY <2>2, <2>4 DEF Needed
  <2> QED
    BY <2>1, <2>2, <2>3, <2>4, <2>5 DEF QuietInv, Configured
<1>3. CASE ToggleResumes(u)
  <2>1. /\ Resumes(u, "resuming", world, toggle.ids) /\ Calms(world, world)
        /\ toggle.ids \in SUBSET Sounds /\ Quiescent
        /\ toggle'.mic = toggle.mic /\ UNCHANGED <<settings, jobs, talking, talk>>
    BY <1>3, WorldCalms DEF ToggleResumes, Interruption, MayCall, Idles, WebUse, Regular, Only
  <2>2. /\ world'.playing = world.playing /\ world'.muted = world.muted
        /\ world'.pressed = world.pressed /\ (thread'[u].resumed => world'.playing # {})
        /\ thread'[u].at = "resuming" /\ \A v \in Users \ {u} : thread'[v] = thread[v]
    BY <2>1, ResumesOK, ResumesQuiet DEF Phases
  <2> QED
    BY <2>1, <2>2 DEF QuietInv, Configured, Needed, Quiescent, Idles
<1>4. CASE ToggleResumed(u)
  <2>1. /\ thread[u].at = "resuming" /\ thread'[u].at = "idle"
        /\ \A v \in Users \ {u} : thread[v].at = "idle" /\ thread'[v].at = "idle"
    BY <1>4 DEF ToggleResumed, At, Returns, Idle, ThreadOK, OneCaller
  <2>2. /\ world'.playing = world.playing
        /\ world'.muted => world.muted \/ (thread[u].resumed /\ toggle.mic)
        /\ world'.pressed => world.pressed \/ (thread[u].resumed /\ settings.ptt)
    <3> DEFINE m == settings.mute /\ toggle.mic
    <3>1. /\ toggle.ptt \in BOOLEAN /\ toggle.mic \in BOOLEAN
          /\ FALSE \in BOOLEAN /\ m \in BOOLEAN
      BY DEF Interruption
    <3>2. world' = IF thread[u].resumed THEN Applied(world, toggle.ptt, toggle.mic)
                   ELSE Released(world, FALSE, m)
      BY <1>4 DEF ToggleResumed
    <3> HIDE DEF m, TypeOK
    <3>3. WorldOK(world) /\ settings \in SettingsSet
      BY DEF TypeOK
    <3>4. CASE thread[u].resumed
      BY <3>1, <3>2, <3>3, <3>4, AppliedOnly
    <3>5. CASE ~thread[u].resumed
      BY <3>1, <3>2, <3>3, <3>5, ReleasedLess
    <3> QED
      BY <3>4, <3>5
  <2>3. ~toggle'.mic /\ UNCHANGED <<settings, jobs, talking, talk>>
    BY <1>4 DEF ToggleResumed, Interruption
  <2> QED
    BY <2>1, <2>2, <2>3 DEF QuietInv, Configured, Needed
<1> QED
  BY <1>1, <1>2, <1>3, <1>4 DEF Toggle

LEMMA QuietTalkThrough ==
  ASSUME TypeOK, OneCaller, PhaseFlags, QuietInv, WebUse, mode' = mode, NEW u \in Users,
         TalkThrough(u)
  PROVE  QuietInv'
<1> USE DEF TypeOK
<1>1. CASE StartTalkThrough(u)
  <2>1. /\ PausesAll(u, "startingTalk") /\ Quiescent /\ ~talk'.mic /\ talking'
        /\ UNCHANGED <<settings, jobs, toggle>>
    BY <1>1 DEF StartTalkThrough, MayCall, Idles, WebUse, Regular, Only, NothingPaused
  <2>2. /\ world'.playing = world.playing /\ world'.muted = world.muted
        /\ world'.pressed = world.pressed /\ (thread'[u].mic => settings.mute)
        /\ thread'[u].at = "startingTalk" /\ \A v \in Users \ {u} : thread'[v] = thread[v]
    BY <2>1, PausesAllOK, PausesAllQuiet DEF Phases
  <2> QED
    BY <2>1, <2>2 DEF QuietInv, Configured, Needed, Quiescent, Idles
<1>2. CASE TalkThroughStarted(u)
  <2>1. /\ thread[u].at = "startingTalk" /\ thread'[u].at = "idle" /\ talking
        /\ \A v \in Users \ {u} : thread[v].at = "idle" /\ thread'[v].at = "idle"
    BY <1>2 DEF TalkThroughStarted, At, Returns, Idle, ThreadOK, OneCaller, PhaseFlags
  <2>2. /\ world'.playing = world.playing
        /\ world'.muted => world.muted
        /\ world'.pressed => world.pressed \/ settings.ptt
        /\ talk'.mic => talk.mic \/ thread[u].mic
        /\ UNCHANGED <<settings, jobs, talking, toggle>>
    BY <1>2 DEF TalkThroughStarted, Released, Applied, WorldOK, Interruption, ThreadOK, SettingsSet
  <2> QED
    BY <2>1, <2>2 DEF QuietInv, Configured, Needed
<1>3. CASE StopTalkThrough(u)
  <2> DEFINE w == Released(world, TRUE, FALSE)
  <2>1. /\ Resumes(u, "stoppingTalk", w, talk.ids) /\ talk.ids \in SUBSET Sounds /\ Quiescent
        /\ talk'.mic = talk.mic /\ UNCHANGED <<settings, jobs, talking, toggle>>
    BY <1>3 DEF StopTalkThrough, Interruption, MayCall, Idles, WebUse, Regular, Only
  <2>2. Calms(world, w) /\ WorldOK(w)
    BY ReleasedCalms DEF Calms
  <2>3. /\ w.playing = world.playing /\ (w.muted => world.muted) /\ ~w.pressed
    BY DEF Released, WorldOK, QuietInv, Configured, SettingsSet
  <2> HIDE DEF w
  <2>4. "stoppingTalk" \in Phases \ {"open", "group"}
    BY DEF Phases
  <2>5. /\ world'.playing = w.playing /\ world'.muted = w.muted
        /\ world'.pressed = w.pressed /\ (thread'[u].resumed => world'.playing # {})
    <3> HIDE DEF TypeOK
    <3> QED
      BY <2>1, <2>2, <2>4, ResumesQuiet
  <2>6. thread'[u].at = "stoppingTalk" /\ \A v \in Users \ {u} : thread'[v] = thread[v]
    <3> HIDE DEF TypeOK
    <3> QED
      BY <2>1, <2>2, <2>4, ResumesOK
  <2> QED
    BY <2>1, <2>3, <2>5, <2>6 DEF QuietInv, Configured, Needed, Quiescent, Idles
<1>4. CASE TalkThroughStopped(u)
  <2>1. /\ thread[u].at = "stoppingTalk" /\ thread'[u].at = "idle"
        /\ \A v \in Users \ {u} : thread[v].at = "idle" /\ thread'[v].at = "idle"
    BY <1>4 DEF TalkThroughStopped, At, Returns, Idle, ThreadOK, OneCaller
  <2>2. /\ world'.playing = world.playing
        /\ world'.muted => world.muted \/ (thread[u].resumed /\ talk.mic)
        /\ world'.pressed => world.pressed \/ (thread[u].resumed /\ settings.ptt)
    <3> DEFINE ptt == thread[u].resumed /\ talk.ptt
               mic == thread[u].resumed /\ talk.mic
    <3>1. world' = Applied(world, ptt, mic) /\ ptt \in BOOLEAN /\ mic \in BOOLEAN
      BY <1>4 DEF TalkThroughStopped
    <3>2. (ptt => thread[u].resumed) /\ (mic => thread[u].resumed /\ talk.mic)
      OBVIOUS
    <3> HIDE DEF ptt, mic, TypeOK
    <3>3. WorldOK(world) /\ settings \in SettingsSet
      BY DEF TypeOK
    <3>4. /\ world'.playing = world.playing
          /\ world'.muted => world.muted \/ mic
          /\ world'.pressed => world.pressed \/ (ptt /\ settings.ptt)
      BY <3>1, <3>3, AppliedOnly
    <3> QED
      BY <3>2, <3>4
  <2>3. ~talk'.mic /\ UNCHANGED <<settings, jobs, toggle>>
    BY <1>4 DEF TalkThroughStopped, Interruption
  <2> QED
    BY <2>1, <2>2, <2>3 DEF QuietInv, Configured, Needed
<1> QED
  BY <1>1, <1>2, <1>3, <1>4 DEF TalkThrough

LEMMA QuietNext ==
  /\ TypeOK /\ (mode.atomic => SerialInv) /\ (WebUse => QuietInv) /\ [Next]_allVars
  => (WebUse => QuietInv)'
<1> SUFFICES ASSUME TypeOK, mode.atomic => SerialInv, WebUse => QuietInv, [Next]_allVars, WebUse'
             PROVE  QuietInv'
  OBVIOUS
<1>0. mode' = mode
  BY DEF Next, allVars
<1>1. WebUse /\ QuietInv /\ OneCaller /\ PhaseFlags
  BY <1>0 DEF WebUse, Regular, Only, SerialInv
<1>2. CASE Next
  BY <1>0, <1>1, <1>2, QuietPlay, QuietSoundCall, QuietPairCall, QuietToggle, QuietTalkThrough, QuietQueue DEF Next
<1>3. CASE UNCHANGED allVars
  BY <1>1, <1>3 DEF allVars, vars, QuietInv, Configured, Needed
<1> QED
  BY <1>2, <1>3

\* With the keys and the muting left as configured and no call that fails, no order of
\* plays, stops, global pauses and talk-throughs leaves the keys or the microphone held
\* when nothing plays and nobody talks (toggleAllPlaybackState, startTalkThrough,
\* stopTalkThrough over the window's operations).
THEOREM NothingLeftHeld == Spec => [](WebUse => QuietWhenIdle)
<1>1. Init => (WebUse => QuietInv)
  BY QuietInit
<1>2. TypeOK /\ (WebUse => QuietInv) => (WebUse => QuietWhenIdle)
  BY DEF QuietInv, Needed, QuietWhenIdle, Quiescent, Idles
<1> QED
  BY <1>1, <1>2, QuietNext, TypeCorrect, Serial, PTL DEF Spec

-------------------------------------------------------------------------------
(* Pairs *)

\* The toggles of the remote resume sounds by the ids they noted, one by one: without
\* them every pause and resume is of a pair or of its local sound.
NoToggles == {"toggle", "talk"} \cap mode.calls = {}

\* An operation that starts, groups, pauses and resumes nothing.
Thins(w, r) ==
  /\ r.grouped \subseteq w.grouped
  /\ \A s \in r.playing : s \in w.playing /\ (s \in r.paused <=> s \in w.paused)

LEMMA ReleasedThins ==
  ASSUME NEW w, WorldOK(w), NEW ptt, NEW mic
  PROVE  Thins(w, Released(w, ptt, mic)) /\ Thins(w, Applied(w, ptt, mic))
BY DEF Thins, WorldOK, Released, Applied

LEMMA WithoutThins ==
  ASSUME NEW w, WorldOK(w), NEW sounds
  PROVE  Thins(w, Without(w, sounds))
BY DEF Thins, WorldOK, Without

LEMMA UngroupedThins ==
  ASSUME NEW w, WorldOK(w), NEW g \in SUBSET w.grouped
  PROVE  Thins(w, [w EXCEPT !.grouped = g])
BY DEF Thins, WorldOK

LEMMA ThinsTwice ==
  ASSUME NEW w, NEW v, NEW r, Thins(w, v), Thins(v, r)
  PROVE  Thins(w, r)
BY DEF Thins

LEMMA WorldThins ==
  ASSUME NEW w
  PROVE  Thins(w, w)
BY DEF Thins

LEMMA SoundsStoppedThins ==
  ASSUME NEW w, WorldOK(w), settings \in SettingsSet, NEW sync \in BOOLEAN
  PROVE  Thins(w, SoundsStopped(w, sync))
<1> DEFINE v == IF sync THEN Without(w, Sounds) ELSE w
<1>1. Thins(w, v) /\ WorldOK(v)
  BY WithoutThins, WorldThins, WithoutCalms DEF Calms
<1>2. Thins(v, AllFinished(v)) /\ WorldOK(AllFinished(v))
  BY <1>1, ReleasedThins, AllFinishedCalms DEF AllFinished, Calms
<1>3. Thins(AllFinished(v), [AllFinished(v) EXCEPT !.grouped = {}])
  BY <1>2, UngroupedThins
<1> QED
  BY <1>1, <1>2, <1>3, ThinsTwice DEF SoundsStopped

LEMMA SoundStoppedThins ==
  ASSUME NEW w, WorldOK(w), settings \in SettingsSet, NEW s \in Sounds
  PROVE  Thins(w, SoundStopped(w, s))
<1> DEFINE v == Without(w, Pair(w, s))
           stopped == [v EXCEPT !.grouped = IF settings.outputs THEN @ \ {s[1]} ELSE @]
<1>1. Thins(w, v) /\ WorldOK(v)
  BY WithoutThins, WithoutCalms DEF Calms
<1>2. Thins(v, stopped) /\ WorldOK(stopped)
  <2>1. (IF settings.outputs THEN v.grouped \ {s[1]} ELSE v.grouped) \in SUBSET v.grouped
    OBVIOUS
  <2>2. v.grouped \in SUBSET Plays
    BY <1>1 DEF WorldOK
  <2> HIDE DEF v
  <2> QED
    BY <1>1, <2>1, <2>2, UngroupedThins, UngroupedCalms DEF Calms
<1>3. Thins(stopped, AllFinished(stopped))
  BY <1>2, ReleasedThins DEF AllFinished
<1>4. Thins(w, stopped) /\ Thins(w, AllFinished(stopped)) /\ Thins(w, w)
  BY <1>1, <1>2, <1>3, ThinsTwice, WorldThins
<1>5. SoundStopped(w, s) \in {w, stopped, AllFinished(stopped)}
  BY DEF SoundStopped
<1> QED
  BY <1>4, <1>5

LEMMA SoundFinishedThins ==
  ASSUME NEW w, WorldOK(w), settings \in SettingsSet, NEW s \in Sounds
  PROVE  Thins(w, SoundFinished(w, s))
<1> DEFINE v == [w EXCEPT !.grouped = IF s[2] = "local" THEN @ \ {s[1]} ELSE @]
           r == IF Cardinality(w.playing) = 1 THEN AllFinished(v) ELSE v
<1>1. Thins(w, v) /\ WorldOK(v)
  <2>1. (IF s[2] = "local" THEN w.grouped \ {s[1]} ELSE w.grouped) \in SUBSET w.grouped
    OBVIOUS
  <2>2. w.grouped \in SUBSET Plays
    BY DEF WorldOK
  <2> QED
    BY <2>1, <2>2, UngroupedThins, UngroupedCalms DEF Calms
<1>2. Thins(v, r) /\ WorldOK(r)
  BY <1>1, ReleasedThins, AllFinishedCalms, WorldThins DEF Calms, AllFinished
<1>3. Thins(r, Without(r, {s}))
  BY <1>2, WithoutThins
<1> QED
  BY <1>1, <1>2, <1>3, ThinsTwice DEF SoundFinished

\* A play that is still to open or to group its sounds is a new one, and no one else's;
\* what one still to open will play does not play, and is in nobody's hand.
PendingInv ==
  /\ world.grouped \subseteq used
  /\ \A s \in world.playing : s[1] \in used
  /\ \A u \in Users :
       /\ NoToggles => thread[u].at \in {"idle", "open", "group"}
       /\ thread[u].at \in {"open", "group"} => thread[u].play \in used
       /\ thread[u].at = "open" =>
            /\ thread[u].play \notin world.grouped
            /\ Local(thread[u].play) \notin world.playing
            /\ Remote(thread[u].play) \notin world.playing
  /\ \A u, v \in Users :
       u # v /\ thread[u].at \in {"open", "group"} /\ thread[v].at \in {"open", "group"}
       => thread[u].play # thread[v].play
  /\ \A u, v \in Users, p \in Plays :
       Remote(p) \in hand[u].todo => p \in used /\ (thread[v].at = "open" => thread[v].play # p)

\* Whoever is halfway through a pair has set its local sound, and the pairs nobody is
\* halfway through are together, but for those torn apart.
SetBy(p) ==
  \A u \in Users :
    Halfway(u, p) /\ Local(p) \in world.playing
    => (Local(p) \in world.paused <=> hand[u].does = "pause")
Settled(p) == (\A u \in Users : ~Halfway(u, p)) => Together(world, p)
PairsInv == \A p \in Plays \ apart : SetBy(p) /\ Settled(p)

\* A step that leaves the hands alone and starts nothing.
LEMMA ThinKeepsPairs ==
  ASSUME PairsInv, UNCHANGED <<hand, apart>>, NEW w, Thins(w, world'),
         w.playing = world.playing, w.paused = world.paused
  PROVE  PairsInv'
BY DEF Thins, PairsInv, SetBy, Settled, Halfway, Together

\* A step that leaves the threads and the hands alone and starts nothing.
LEMMA PendingStep ==
  ASSUME PendingInv, UNCHANGED <<thread, used, mode, hand>>, Thins(world, world')
  PROVE  PendingInv'
BY DEF PendingInv, NoToggles, Thins

LEMMA PairsInit == Init => PendingInv /\ PairsInv
BY DEF Init, PendingInv, PairsInv, SetBy, Settled, Halfway, Together, Idle, EmptyHand

LEMMA PairsPlay ==
  ASSUME TypeOK, PendingInv, PairsInv, UNCHANGED <<hand, apart, mode>>, NEW u \in Users, Play(u)
  PROVE  PendingInv' /\ PairsInv'
<1> USE DEF TypeOK
<1>0. \A p, q : (Local(p) = Local(q) <=> p = q) /\ (Remote(p) = Remote(q) <=> p = q)
                /\ Local(p) # Remote(q) /\ Local(p)[1] = p /\ Remote(p)[1] = p
  BY DEF Local, Remote
<1>1. ASSUME NEW p \in Plays, PlayHolds(u, p) PROVE PendingInv' /\ PairsInv'
  <2> DEFINE v == IF settings.overlap THEN world ELSE SoundsStopped(world, TRUE)
  <2>1. Thins(world, v) /\ WorldOK(v)
    BY SoundsStoppedThins, WorldThins, SoundsStoppedCalms DEF Calms
  <2>2. Thins(world, world')
    BY <1>1, <2>1, ReleasedThins, ThinsTwice DEF PlayHolds
  <2>3. /\ thread'[u].at = "open" /\ thread'[u].play = p
        /\ \A x \in Users \ {u} : thread'[x] = thread[x]
    BY <1>1 DEF PlayHolds, ThreadOK
  <2>4. p \notin used /\ used' = used \cup {p}
    BY <1>1 DEF PlayHolds
  <2>5. Local(p) \notin world'.playing /\ Remote(p) \notin world'.playing
    BY <1>0, <2>2, <2>4 DEF PendingInv, Thins
  <2>6. \A x \in Users : thread'[x].at = "open" /\ x # u => thread[x].at = "open"
    BY <2>3
  <2>7. PendingInv'
    <3> HIDE DEF TypeOK
    <3> QED
      BY <2>2, <2>3, <2>4, <2>5 DEF PendingInv, NoToggles, Thins
  <2> QED
    BY <2>2, <2>7, ThinKeepsPairs
<1>2. CASE PlayOpens(u)
  <2> DEFINE p == thread[u].play
  <2>1. PICK opened \in SUBSET {Local(p), Remote(p)} :
          world' = [world EXCEPT !.playing = @ \cup opened]
    BY <1>2 DEF PlayOpens
  <2>2. p \notin world.grouped /\ p \in used /\ used' = used /\ p \in Plays
        /\ Local(p) \notin world.playing /\ Remote(p) \notin world.playing
    BY <1>2 DEF PlayOpens, At, PendingInv, ThreadOK
  <2>3. /\ thread'[u].at \in {"group", "idle"} /\ (thread'[u].at = "group" => thread'[u].play = p)
        /\ \A x \in Users \ {u} : thread'[x] = thread[x]
    BY <1>2 DEF PlayOpens, Goes, Returns, Idle, ThreadOK
  <2>4. thread[u].at = "open"
    BY <1>2 DEF PlayOpens, At
  <2>5. /\ world'.grouped = world.grouped /\ world'.paused = world.paused
        /\ world'.playing = world.playing \cup opened
    BY <2>1 DEF WorldOK
  <2>6. Local(p) \notin world.paused /\ Remote(p) \notin world.paused
    BY <2>2 DEF WorldOK
  <2>7. \A x \in Users : Remote(p) \notin hand[x].todo
    BY <2>2, <2>4 DEF PendingInv
  <2> HIDE DEF p, TypeOK
  <2>8. PendingInv'
    <3>1. \A x \in Users \ {u} : thread[x].at = "open" =>
            Local(thread[x].play) \notin opened /\ Remote(thread[x].play) \notin opened
      BY <1>0, <2>4 DEF PendingInv, p
    <3>2. \A s \in world'.playing : s[1] \in used
      BY <1>0, <2>2, <2>5 DEF PendingInv
    <3> QED
      BY <2>2, <2>3, <2>4, <2>5, <3>1, <3>2 DEF PendingInv, NoToggles, p
  <2>9. ASSUME NEW q \in Plays \ apart' PROVE SetBy(q)' /\ Settled(q)'
    <3>1. CASE q = p
      BY <2>5, <2>6, <2>7, <3>1 DEF SetBy, Settled, Halfway, Together
    <3>2. CASE q # p
      <4>1. Local(q) \notin opened /\ Remote(q) \notin opened
        BY <1>0, <3>2
      <4> QED
        BY <2>5, <4>1 DEF PairsInv, SetBy, Settled, Halfway, Together
    <3> QED
      BY <3>1, <3>2
  <2> QED
    BY <2>8, <2>9 DEF PairsInv
<1>3. CASE PlayGroups(u)
  <2> DEFINE p == thread[u].play
             grouped == [world EXCEPT !.grouped = @ \cup {p}]
             stopped == SoundStopped(SoundStopped(grouped, Local(p)), Remote(p))
  <2>1. p \in Plays /\ p \in used /\ thread[u].at = "group" /\ used' = used
    BY <1>3 DEF PlayGroups, At, ThreadOK, PendingInv
  <2>2. WorldOK(grouped)
    BY <2>1, UngroupedCalms DEF WorldOK, Calms
  <2>3. Thins(grouped, SoundStopped(grouped, Local(p))) /\ WorldOK(SoundStopped(grouped, Local(p)))
    BY <2>1, <2>2, PlaySounds, SoundStoppedThins, SoundStoppedCalms DEF Calms
  <2>4. Thins(SoundStopped(grouped, Local(p)), stopped)
    BY <2>1, <2>3, PlaySounds, SoundStoppedThins
  <2>5. world' \in {grouped, stopped}
    BY <1>3 DEF PlayGroups
  <2>6. Thins(grouped, world')
    BY <2>3, <2>4, <2>5, ThinsTwice, WorldThins
  <2>7. /\ grouped.grouped = world.grouped \cup {p} /\ grouped.playing = world.playing
        /\ grouped.paused = world.paused
    BY DEF WorldOK
  <2>8. thread'[u].at = "idle" /\ \A x \in Users \ {u} : thread'[x] = thread[x]
    BY <1>3 DEF PlayGroups, Returns, Idle, ThreadOK
  <2> HIDE DEF grouped
  <2>9. PendingInv'
    <3>1. \A x \in Users \ {u} : thread[x].at = "open" => thread[x].play # p
      BY <2>1 DEF PendingInv
    <3>2. /\ world'.grouped \subseteq world.grouped \cup {p}
          /\ world'.playing \subseteq world.playing
      BY <2>6, <2>7 DEF Thins
    <3> HIDE DEF p, TypeOK
    <3> QED
      BY <2>1, <2>8, <3>1, <3>2 DEF PendingInv, NoToggles
  <2>10. PairsInv'
    BY <2>6, <2>7, ThinKeepsPairs
  <2> QED
    BY <2>9, <2>10
<1> QED
  BY <1>1, <1>2, <1>3 DEF Play

LEMMA PairsSoundCall ==
  ASSUME TypeOK, PendingInv, PairsInv, UNCHANGED <<hand, apart, mode>>, NEW u \in Users,
         SoundCall(u)
  PROVE  PendingInv' /\ PairsInv'
<1> USE DEF TypeOK
<1>1. UNCHANGED <<thread, used>>
  BY DEF SoundCall, StopSound, StopSounds, StopSoundsLater, ChangeSettings, ToggleMuteInTray,
         OnlyWorld
<1>2. ASSUME NEW p \in Plays, StopSound(u, p) PROVE Thins(world, world')
  BY <1>2, PlaySounds, SoundStoppedThins DEF StopSound, OnlyWorld
<1>3. CASE StopSounds(u) \/ StopSoundsLater(u)
  <2>1. Thins(world, world')
    BY <1>3, SoundsStoppedThins DEF StopSounds, StopSoundsLater, OnlyWorld
  <2> QED
    BY <1>1, <2>1, ThinKeepsPairs, PendingStep
<1>4. ASSUME NEW new \in SettingsSet, ChangeSettings(u, new) PROVE Thins(world, world')
  BY <1>4 DEF ChangeSettings, MuteFollows, WorldOK, Thins
<1>5. CASE ToggleMuteInTray(u)
  <2>1. Thins(world, world')
    BY <1>5, WorldThins DEF ToggleMuteInTray
  <2> QED
    BY <1>1, <2>1, ThinKeepsPairs, PendingStep
<1> QED
  BY <1>1, <1>2, <1>3, <1>4, <1>5, ThinKeepsPairs, PendingStep DEF SoundCall

LEMMA PairsQueue ==
  ASSUME TypeOK, PendingInv, PairsInv, UNCHANGED <<hand, apart, mode>>, Device \/ QueueThread
  PROVE  PendingInv' /\ PairsInv'
<1> USE DEF TypeOK
<1>1. UNCHANGED <<thread, used>>
  BY DEF Device, QueueThread, EndPosted, FinishJob, StopAllJob, RunsJob
<1>2. Thins(world, world')
  <2>1. ASSUME NEW s \in Sounds, EndPosted(s) \/ FinishJob(s) PROVE Thins(world, world')
    BY <2>1, SoundFinishedThins, WorldThins DEF EndPosted, FinishJob, RunsJob
  <2>2. CASE StopAllJob
    BY <2>2, WithoutThins DEF StopAllJob, RunsJob
  <2> QED
    BY <2>1, <2>2 DEF Device, QueueThread
<1> QED
  BY <1>1, <1>2, ThinKeepsPairs, PendingStep

\* A call takes a pair in hand: nobody is halfway through it for that.
LEMMA PairsTakes ==
  ASSUME TypeOK, PendingInv, PairsInv, mode' = mode, NEW u \in Users, NEW does, NEW named,
         hand[u].todo = {}, NEW p \in Plays,
         NEW todo \in {{}, Pair(world, Local(p))}, Takes(u, does, named, todo)
  PROVE  PendingInv' /\ PairsInv'
<1>1. /\ hand'[u].todo = todo /\ \A v \in Users \ {u} : hand'[v] = hand[v]
      /\ UNCHANGED <<vars, apart>>
  BY DEF Takes, TypeOK, HandOK
<1>2. \A q : Remote(q) \in todo => q \in world.grouped /\ Local(q) \in todo
  BY DEF Pair, Local, Remote
<1>3. \A v \in Users, q \in Plays : Halfway(v, q)' <=> Halfway(v, q)
  BY <1>1, <1>2 DEF Halfway
<1>4. \A v \in Users, q \in Plays : Halfway(v, q) => hand'[v] = hand[v]
  BY <1>1 DEF Halfway
<1>5. UNCHANGED <<world, used, thread, apart>>
  BY <1>1 DEF vars
<1>6. PendingInv'
  BY <1>1, <1>2, <1>5 DEF PendingInv, NoToggles
<1>7. ASSUME NEW q \in Plays \ apart' PROVE SetBy(q)' /\ Settled(q)'
  BY <1>3, <1>4, <1>5 DEF PairsInv, SetBy, Settled, Together
<1> QED
  BY <1>6, <1>7 DEF PairsInv

\* One lock hold of a call: the local sound is set and the call halfway through, unless
\* it tears the pair apart, or the remote one follows.
LEMMA PairsPart ==
  ASSUME TypeOK, PendingInv, PairsInv, mode' = mode, NEW u \in Users, NEW s \in Sounds,
         PausePart(u, s) \/ ResumePart(u, s)
  PROVE  PendingInv' /\ PairsInv'
<1>1. PICK does \in {"pause", "resume"} : /\ Part(u, s, does)
                                          /\ does = "pause" <=> PausePart(u, s)
  BY DEF PausePart, ResumePart, Part
<1>2. /\ hand[u].does = does /\ s \in hand[u].todo
      /\ hand'[u].todo = hand[u].todo \ {s}
      /\ hand'[u].todo # {} => hand'[u].does = does
      /\ \A v \in Users \ {u} : hand'[v] = hand[v]
      /\ UNCHANGED <<used, thread>>
  <2> DEFINE left == IF hand[u].named = {} /\ hand[u].todo \ {s} = {} THEN EmptyHand
                     ELSE [hand[u] EXCEPT !.todo = hand[u].todo \ {s}]
  <2>1. hand' = [hand EXCEPT ![u] = left]
    BY <1>1 DEF Part, TypeOK, HandOK
  <2>2. /\ hand[u].does = does /\ s \in hand[u].todo /\ UNCHANGED <<used, thread>>
    BY <1>1 DEF Part
  <2>3. left.todo = hand[u].todo \ {s} /\ (left.todo # {} => left.does = hand[u].does)
    BY DEF TypeOK, HandOK, EmptyHand
  <2> HIDE DEF left
  <2>4. hand'[u] = left /\ \A v \in Users \ {u} : hand'[v] = hand[v]
    BY <2>1 DEF TypeOK, HandOK
  <2> QED
    BY <2>2, <2>3, <2>4
<1>3. /\ world'.playing = world.playing /\ world'.grouped = world.grouped
      /\ \A r : r # s => (r \in world'.paused <=> r \in world.paused)
      /\ s \in world.playing => (s \in world'.paused <=> does = "pause")
  BY <1>1 DEF PausePart, ResumePart, Part, TypeOK, WorldOK
<1>4. PendingInv'
  BY <1>2, <1>3 DEF PendingInv, NoToggles
<1>5. PICK q \in Plays : s = Local(q) \/ s = Remote(q)
  BY DEF Sounds, Local, Remote
<1>6. \A p : (Local(p) = Local(q) <=> p = q) /\ (Remote(p) = Remote(q) <=> p = q)
             /\ Local(p) # Remote(q) /\ Remote(p) # Local(q)
  BY DEF Local, Remote
<1>7. ASSUME NEW p \in Plays \ apart', p # q PROVE SetBy(p)' /\ Settled(p)'
  <2>1. p \notin apart
    BY <1>1, <1>5, <1>6, <1>7 DEF Part, Local, Remote
  <2>2. Local(p) # s /\ Remote(p) # s
    BY <1>5, <1>6, <1>7
  <2>3. \A v \in Users : (Halfway(v, p)' <=> Halfway(v, p))
                         /\ (Halfway(v, p) => hand'[v].does = hand[v].does)
    BY <1>2, <2>2 DEF Halfway
  <2> QED
    BY <1>3, <2>1, <2>2, <2>3 DEF PairsInv, SetBy, Settled, Together
<1>8. ASSUME q \notin apart' PROVE SetBy(q)' /\ Settled(q)'
  <2>1. CASE s = Local(q)
    <3>1. Remote(q) \in hand'[u].todo /\ ~Crosses(u, q)
      BY <1>1, <1>2, <1>8, <2>1 DEF Part, Local
    <3>2. Halfway(u, q)' /\ hand'[u].does = does
      BY <1>2, <2>1, <3>1 DEF Halfway
    <3>3. \A v \in Users : Halfway(v, q)' => hand'[v].does = does
      BY <1>2, <3>1, <3>2 DEF Halfway, Crosses
    <3> QED
      BY <1>3, <2>1, <3>2, <3>3 DEF SetBy, Settled
  <2>2. CASE s = Remote(q)
    <3>1. q \notin apart /\ Local(q) \notin hand[u].todo
      BY <1>1, <1>8, <2>2 DEF Part, Remote
    <3>2. Local(q) # s
      BY <1>6, <2>2
    <3>3. Halfway(u, q) /\ SetBy(q)
      BY <1>2, <2>2, <3>1 DEF Halfway, PairsInv
    <3>4. Local(q) \in world.playing => (Local(q) \in world'.paused <=> does = "pause")
      BY <1>2, <1>3, <3>2, <3>3 DEF SetBy
    <3>5. \A v \in Users : Halfway(v, q)' => Halfway(v, q) /\ hand'[v].does = hand[v].does
      BY <1>2, <2>2 DEF Halfway
    <3> QED
      BY <1>3, <2>2, <3>2, <3>3, <3>4, <3>5 DEF SetBy, Settled, Together
  <2> QED
    BY <1>5, <2>1, <2>2
<1> QED
  BY <1>4, <1>7, <1>8 DEF PairsInv

LEMMA PairsPairCall ==
  ASSUME TypeOK, PendingInv, PairsInv, mode' = mode, NEW u \in Users, PairCall(u)
  PROVE  PendingInv' /\ PairsInv'
<1>1. ASSUME NEW p \in Plays, PauseSound(u, p) \/ ResumeSound(u, p)
      PROVE PendingInv' /\ PairsInv'
  <2>1. hand[u].todo = {}
    BY <1>1 DEF PauseSound, ResumeSound, MayCall, Idles, EmptyHand
  <2> QED
    BY <1>1, <2>1, PairsTakes DEF PauseSound, ResumeSound
<1>2. ASSUME NEW p \in Plays, NextPair(u, p) PROVE PendingInv' /\ PairsInv'
  BY <1>2, PairsTakes DEF NextPair
<1>3. CASE ToggleSoundPlayback(u)
  <2>1. hand[u].todo = {} /\ \E p : p \in Plays
    BY <1>3 DEF ToggleSoundPlayback, MayCall, Idles, EmptyHand, TypeOK, WorldOK
  <2> QED
    BY <1>3, <2>1, PairsTakes DEF ToggleSoundPlayback
<1> QED
  BY <1>1, <1>2, <1>3, PairsPart DEF PairCall

LEMMA PairsNext ==
  ASSUME TypeOK, PendingInv, PairsInv, NoToggles, [Next]_allVars
  PROVE  PendingInv' /\ PairsInv'
<1>1. CASE Next
  <2>1. \A u \in Users : ~Toggle(u) /\ ~TalkThrough(u)
    BY DEF Toggle, TalkThrough, TogglePauses, TogglePaused, ToggleResumes, ToggleResumed,
           StartTalkThrough, TalkThroughStarted, StopTalkThrough, TalkThroughStopped,
           MayCall, At, PendingInv, NoToggles
  <2>2. mode' = mode
    BY <1>1 DEF Next
  <2> QED
    BY <1>1, <2>1, <2>2, PairsPlay, PairsSoundCall, PairsQueue, PairsPairCall DEF Next
<1>2. CASE UNCHANGED allVars
  BY <1>2 DEF allVars, vars, PendingInv, NoToggles, PairsInv, SetBy, Settled, Halfway, Together
<1> QED
  BY <1>1, <1>2

\* However the calls of the window interleave with each other, lock hold by lock hold,
\* and with the queue, every grouped pair that nobody is halfway through is together,
\* unless its local sound was last set alone or across the opposite call, if nobody uses
\* the toggles of the remote (pauseSound, resumeSound, toggleSoundPlayback, playSound).
THEOREM PairsAreKept == Spec /\ []NoToggles => []PairsStayTogether
<1>1. Init => PendingInv /\ PairsInv
  BY PairsInit
<1>2. TypeOK /\ NoToggles /\ PendingInv /\ PairsInv /\ [Next]_allVars => PendingInv' /\ PairsInv'
  BY PairsNext
<1>3. TypeOK /\ PairsInv => PairsStayTogether
  BY DEF TypeOK, WorldOK, PairsInv, Settled, PairsStayTogether
<1> QED
  BY <1>1, <1>2, <1>3, TypeCorrect, PTL DEF Spec
================================================================================
