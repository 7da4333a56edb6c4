--------------------------- MODULE AudioEngine_proofs ---------------------------
(***************************************************************************)
(* Safety of the audio engine for every set of sounds and of controlling   *)
(* threads, and every length: one lemma per operation, in the order of     *)
(* AudioEngine, then the theorems.                                         *)
(***************************************************************************)
EXTENDS AudioEngine, TLAPS

USE SoundsAssumption, ThreadsAssumption
USE DEF Starting, Locked, LockFree, StopAll, Threads, queueVars

LEMMA UseIsLegal ==
  ASSUME use \in Uses
  PROVE  /\ use.length \in 1..MaxLength /\ use.length \in Nat \ {0}
         /\ use.played \subseteq Sounds /\ use.sought \subseteq Sounds
BY LengthAssumption, UsesAssumption

LEMMA InitIInv == Init => IInv
BY UseIsLegal
DEF Init, Q!Init, Idle, IInv, TypeOK, ThreadInv, PlayInv, CloseInv, SoundInv, HasSound,
    DecoderOpenInCallback, OpenIsOwned, ProgressInv, ShownIsHeard, SeeksArePending,
    ProgressTypeOK, Clears

\* What moves neither the callback nor the flags and positions keeps the progress.
LEMMA ProgressKept ==
  ASSUME IInv, UNCHANGED <<progressVars, callback, use>>
  PROVE  ProgressTypeOK' /\ ProgressInv' /\ ShownIsHeard' /\ SeeksArePending'
BY DEF IInv, TypeOK, ProgressTypeOK, Clears, ProgressInv, ShownIsHeard, SeeksArePending, progressVars

-------------------------------------------------------------------------------
(* Audio::play *)

LEMMA StartDeviceIInv ==
  ASSUME IInv, UNCHANGED use, NEW u \in Users, NEW s \in Sounds, StartDevice(u, s)
  PROVE  IInv'
<1> USE DEF IInv, StartDevice, Goes, Idle
<1>1. TypeOK'
  BY ProgressKept DEF TypeOK, ThreadInv, progressVars
<1>2. ThreadInv'
  BY DEF Idle, ThreadInv, PlayInv, CloseInv, TypeOK
<1>3. PlayInv'
  BY DEF PlayInv, ThreadInv, SoundInv, TypeOK
<1>4. CloseInv'
  BY DEF CloseInv, HasSound, ThreadInv, PlayInv, SoundInv, TypeOK
<1>5. SoundInv'
  BY DEF SoundInv, HasSound, ThreadInv, PlayInv, CloseInv, TypeOK
<1>6. DecoderOpenInCallback' /\ OpenIsOwned'
  BY DEF DecoderOpenInCallback, OpenIsOwned, ThreadInv, PlayInv, CloseInv, SoundInv,
         TypeOK
<1>7. ProgressInv' /\ ShownIsHeard' /\ SeeksArePending'
  BY ProgressKept DEF progressVars
<1>8. QED
  BY <1>1, <1>2, <1>3, <1>4, <1>5, <1>6, <1>7

LEMMA WireIInv ==
  ASSUME IInv, UNCHANGED use, NEW u \in Users, Wire(u)
  PROVE  IInv'
<1> USE DEF IInv, Wire, Goes
<1>1. TypeOK'
  <2>1. thread[u].sound \in Sounds
    BY DEF ThreadInv
  <2>2. QED
    BY <2>1, ProgressKept DEF TypeOK, progressVars
<1>2. ThreadInv'
  BY DEF Idle, ThreadInv, PlayInv, CloseInv, TypeOK
<1>3. PlayInv'
  BY DEF PlayInv, ThreadInv, SoundInv, TypeOK
<1>4. CloseInv'
  BY DEF CloseInv, HasSound, ThreadInv, PlayInv, SoundInv, TypeOK
<1>5. SoundInv'
  BY DEF SoundInv, HasSound, ThreadInv, PlayInv, CloseInv, TypeOK
<1>6. DecoderOpenInCallback' /\ OpenIsOwned'
  BY DEF DecoderOpenInCallback, OpenIsOwned, ThreadInv, PlayInv, CloseInv, SoundInv,
         TypeOK
<1>7. ProgressInv' /\ ShownIsHeard' /\ SeeksArePending'
  BY ProgressKept DEF progressVars
<1>8. QED
  BY <1>1, <1>2, <1>3, <1>4, <1>5, <1>6, <1>7

LEMMA SetPlaybackDeviceIInv ==
  ASSUME IInv, UNCHANGED use, NEW u \in Users, SetPlaybackDevice(u)
  PROVE  IInv'
<1> USE DEF IInv, SetPlaybackDevice, Goes
<1>1. TypeOK'
  <2>1. thread[u].sound \in Sounds
    BY DEF ThreadInv
  <2>2. QED
    BY <2>1, ProgressKept DEF TypeOK, progressVars
<1>2. ThreadInv'
  BY DEF Idle, ThreadInv, PlayInv, CloseInv, TypeOK
<1>3. PlayInv'
  BY DEF PlayInv, ThreadInv, SoundInv, TypeOK
<1>4. CloseInv'
  BY DEF CloseInv, HasSound, ThreadInv, PlayInv, SoundInv, TypeOK
<1>5. SoundInv'
  BY DEF SoundInv, HasSound, ThreadInv, PlayInv, CloseInv, TypeOK
<1>6. DecoderOpenInCallback' /\ OpenIsOwned'
  BY DEF DecoderOpenInCallback, OpenIsOwned, ThreadInv, PlayInv, CloseInv, SoundInv,
         TypeOK
<1>7. ProgressInv' /\ ShownIsHeard' /\ SeeksArePending'
  BY ProgressKept DEF progressVars
<1>8. QED
  BY <1>1, <1>2, <1>3, <1>4, <1>5, <1>6, <1>7

LEMMA EmplaceSoundIInv ==
  ASSUME IInv, UNCHANGED use, NEW u \in Users, EmplaceSound(u)
  PROVE  IInv'
<1> USE DEF IInv, EmplaceSound, Returns, Idle
<1>1. TypeOK'
  BY ProgressKept DEF TypeOK, ThreadInv, progressVars
<1>2. ThreadInv'
  BY DEF Idle, ThreadInv, PlayInv, CloseInv, TypeOK
<1>3. PlayInv'
  BY DEF PlayInv, ThreadInv, SoundInv, TypeOK
<1>4. CloseInv'
  BY DEF CloseInv, HasSound, ThreadInv, PlayInv, SoundInv, TypeOK
<1>5. SoundInv'
  BY DEF SoundInv, HasSound, ThreadInv, PlayInv, CloseInv, TypeOK
<1>6. DecoderOpenInCallback' /\ OpenIsOwned'
  BY DEF DecoderOpenInCallback, OpenIsOwned, ThreadInv, PlayInv, CloseInv, SoundInv,
         TypeOK
<1>7. ProgressInv' /\ ShownIsHeard' /\ SeeksArePending'
  BY ProgressKept DEF progressVars
<1>8. QED
  BY <1>1, <1>2, <1>3, <1>4, <1>5, <1>6, <1>7

-------------------------------------------------------------------------------
(* Audio::pause, resume, repeat and seek *)

LEMMA PauseIInv ==
  ASSUME IInv, UNCHANGED use, NEW u \in Users, NEW s \in Sounds, Pause(u, s)
  PROVE  IInv'
<1> USE DEF IInv, Pause, Controls, Goes, Idle
<1>1. TypeOK'
  <2>1. CASE device[s] = "running"
    <3>1. thread' = [thread EXCEPT ![u] = [op |-> "pause", at |-> "halt", sound |-> s]]
      BY <2>1
    <3>2. UNCHANGED <<soundVars, queueVars>>
      BY <2>1 DEF soundVars
    <3> HIDE DEF Pause
    <3>3. QED
      BY <3>1, <3>2, ProgressKept DEF TypeOK, soundVars, progressVars
  <2>2. CASE device[s] # "running"
    BY <2>2, ProgressKept, ZenonT(60) DEF TypeOK, progressVars
  <2>3. QED
    BY <2>1, <2>2
<1>2. ThreadInv'
  BY DEF Idle, ThreadInv, PlayInv, CloseInv, TypeOK
<1>3. PlayInv'
  BY DEF PlayInv, ThreadInv, SoundInv, TypeOK
<1>4. CloseInv'
  BY DEF CloseInv, HasSound, ThreadInv, PlayInv, SoundInv, TypeOK
<1>5. SoundInv'
  BY DEF SoundInv, HasSound, ThreadInv, PlayInv, CloseInv, TypeOK
<1>6. DecoderOpenInCallback' /\ OpenIsOwned'
  BY DEF DecoderOpenInCallback, OpenIsOwned, ThreadInv, PlayInv, CloseInv, SoundInv,
         TypeOK
<1>7. ProgressInv' /\ ShownIsHeard' /\ SeeksArePending'
  BY ProgressKept DEF progressVars
<1>8. QED
  BY <1>1, <1>2, <1>3, <1>4, <1>5, <1>6, <1>7

LEMMA HaltIInv ==
  ASSUME IInv, UNCHANGED use, NEW u \in Users, Halt(u)
  PROVE  IInv'
<1> USE DEF IInv, Halt, Returns, Idle
<1>1. TypeOK'
  BY ProgressKept DEF TypeOK, ThreadInv, progressVars
<1>2. ThreadInv'
  BY DEF Idle, ThreadInv, PlayInv, CloseInv, TypeOK
<1>3. PlayInv'
  BY DEF PlayInv, ThreadInv, SoundInv, TypeOK
<1>4. CloseInv'
  BY DEF CloseInv, HasSound, ThreadInv, PlayInv, SoundInv, TypeOK
<1>5. SoundInv'
  BY DEF SoundInv, HasSound, ThreadInv, PlayInv, CloseInv, TypeOK
<1>6. DecoderOpenInCallback' /\ OpenIsOwned'
  BY DEF DecoderOpenInCallback, OpenIsOwned, ThreadInv, PlayInv, CloseInv, SoundInv,
         TypeOK
<1>7. ProgressInv' /\ ShownIsHeard' /\ SeeksArePending'
  BY ProgressKept DEF progressVars
<1>8. QED
  BY <1>1, <1>2, <1>3, <1>4, <1>5, <1>6, <1>7

LEMMA ResumeIInv ==
  ASSUME IInv, UNCHANGED use, NEW u \in Users, NEW s \in Sounds, Resume(u, s)
  PROVE  IInv'
<1> USE DEF IInv, Resume, Controls
<1>1. TypeOK'
  BY ProgressKept DEF TypeOK, ThreadInv, progressVars
<1>2. ThreadInv'
  BY DEF Idle, ThreadInv, PlayInv, CloseInv, TypeOK
<1>3. PlayInv'
  BY ZenonT(60) DEF PlayInv, ThreadInv, SoundInv, TypeOK
<1>4. CloseInv'
  BY DEF CloseInv, HasSound, ThreadInv, PlayInv, SoundInv, TypeOK
<1>5. SoundInv'
  BY DEF SoundInv, HasSound, ThreadInv, PlayInv, CloseInv, TypeOK
<1>6. DecoderOpenInCallback' /\ OpenIsOwned'
  BY DEF DecoderOpenInCallback, OpenIsOwned, ThreadInv, PlayInv, CloseInv, SoundInv,
         TypeOK
<1>7. ProgressInv' /\ ShownIsHeard' /\ SeeksArePending'
  BY ProgressKept DEF progressVars
<1>8. QED
  BY <1>1, <1>2, <1>3, <1>4, <1>5, <1>6, <1>7

LEMMA SetRepeatIInv ==
  ASSUME IInv, UNCHANGED use, NEW u \in Users, NEW s \in Sounds, SetRepeat(u, s)
  PROVE  IInv'
<1> USE DEF IInv, SetRepeat, Controls
<1>1. TypeOK'
  BY ProgressKept DEF TypeOK, ThreadInv, progressVars
<1>2. ThreadInv'
  BY DEF Idle, ThreadInv, PlayInv, CloseInv, TypeOK
<1>3. PlayInv'
  BY DEF PlayInv, ThreadInv, SoundInv, TypeOK
<1>4. CloseInv'
  BY DEF CloseInv, HasSound, ThreadInv, PlayInv, SoundInv, TypeOK
<1>5. SoundInv'
  BY DEF SoundInv, HasSound, ThreadInv, PlayInv, CloseInv, TypeOK
<1>6. DecoderOpenInCallback' /\ OpenIsOwned'
  BY DEF DecoderOpenInCallback, OpenIsOwned, ThreadInv, PlayInv, CloseInv, SoundInv,
         TypeOK
<1>7. ProgressInv' /\ ShownIsHeard' /\ SeeksArePending'
  BY ProgressKept DEF progressVars
<1>8. QED
  BY <1>1, <1>2, <1>3, <1>4, <1>5, <1>6, <1>7

LEMMA SeekToIInv ==
  ASSUME IInv, UNCHANGED use, NEW u \in Users, NEW s \in Sounds, SeekTo(u, s)
  PROVE  IInv'
<1> USE DEF IInv, SeekTo, Controls, Goes, Idle
<1>1. TypeOK'
  <2>1. ProgressTypeOK'
    BY UseIsLegal, SMTT(30) DEF TypeOK, ProgressTypeOK
  <2>2. QED
    BY <2>1 DEF TypeOK, ThreadInv
<1>2. ThreadInv'
  BY DEF Idle, ThreadInv, PlayInv, CloseInv, TypeOK
<1>3. PlayInv'
  BY DEF PlayInv, ThreadInv, SoundInv, TypeOK
<1>4. CloseInv'
  BY DEF CloseInv, HasSound, ThreadInv, PlayInv, SoundInv, TypeOK
<1>5. SoundInv'
  BY DEF SoundInv, HasSound, ThreadInv, PlayInv, CloseInv, TypeOK
<1>6. DecoderOpenInCallback' /\ OpenIsOwned'
  BY DEF DecoderOpenInCallback, OpenIsOwned, ThreadInv, PlayInv, CloseInv, SoundInv,
         TypeOK
<1>7. ProgressInv' /\ ShownIsHeard' /\ SeeksArePending'
  BY UseIsLegal
  DEF ProgressInv, ShownIsHeard, SeeksArePending, Clears, TypeOK, ProgressTypeOK
<1>8. QED
  BY <1>1, <1>2, <1>3, <1>4, <1>5, <1>6, <1>7

LEMMA SeekFlagIInv ==
  ASSUME IInv, UNCHANGED use, NEW u \in Users, SeekFlag(u)
  PROVE  IInv'
<1> USE DEF IInv, SeekFlag, Returns, Idle
<1>1. TypeOK'
  <2>1. ProgressTypeOK'
    <3>1. thread[u].sound \in Sounds
      BY DEF ThreadInv
    <3>2. QED
      BY <3>1 DEF TypeOK, ProgressTypeOK
  <2>2. QED
    BY <2>1 DEF TypeOK, ThreadInv
<1>2. ThreadInv'
  BY DEF Idle, ThreadInv, PlayInv, CloseInv, TypeOK
<1>3. PlayInv'
  BY DEF PlayInv, ThreadInv, SoundInv, TypeOK
<1>4. CloseInv'
  BY DEF CloseInv, HasSound, ThreadInv, PlayInv, SoundInv, TypeOK
<1>5. SoundInv'
  BY DEF SoundInv, HasSound, ThreadInv, PlayInv, CloseInv, TypeOK
<1>6. DecoderOpenInCallback' /\ OpenIsOwned'
  BY DEF DecoderOpenInCallback, OpenIsOwned, ThreadInv, PlayInv, CloseInv, SoundInv,
         TypeOK
<1>7. ProgressInv' /\ ShownIsHeard' /\ SeeksArePending'
  BY UseIsLegal
  DEF ProgressInv, ShownIsHeard, SeeksArePending, Clears, TypeOK, ProgressTypeOK
<1>8. QED
  BY <1>1, <1>2, <1>3, <1>4, <1>5, <1>6, <1>7

-------------------------------------------------------------------------------
(* Closing sounds *)

LEMMA StopIInv ==
  ASSUME IInv, UNCHANGED use, NEW u \in Users, NEW s \in Sounds, Stop(u, s)
  PROVE  IInv'
<1> USE DEF IInv, Stop, Controls, Goes, Idle, soundVars
<1>1. TypeOK'
  BY ProgressKept DEF TypeOK, ThreadInv, progressVars
<1>2. ThreadInv'
  BY DEF Idle, ThreadInv, PlayInv, CloseInv, TypeOK
<1>3. PlayInv'
  BY DEF PlayInv, ThreadInv, SoundInv, TypeOK
<1>4. CloseInv'
  BY DEF CloseInv, HasSound, ThreadInv, PlayInv, SoundInv, TypeOK
<1>5. SoundInv'
  BY DEF SoundInv, HasSound, ThreadInv, PlayInv, CloseInv, TypeOK
<1>6. DecoderOpenInCallback' /\ OpenIsOwned'
  BY DEF DecoderOpenInCallback, OpenIsOwned, ThreadInv, PlayInv, CloseInv, SoundInv,
         TypeOK
<1>7. ProgressInv' /\ ShownIsHeard' /\ SeeksArePending'
  BY ProgressKept DEF progressVars
<1>8. QED
  BY <1>1, <1>2, <1>3, <1>4, <1>5, <1>6, <1>7

LEMMA StopEverythingIInv ==
  ASSUME IInv, UNCHANGED use, NEW u \in Users, StopEverything(u)
  PROVE  IInv'
<1> USE DEF IInv, StopEverything, ClosesFirst, Goes, Idle, soundVars
<1>1. TypeOK'
  BY ProgressKept DEF TypeOK, ThreadInv, progressVars
<1>2. ThreadInv'
  BY DEF Idle, ThreadInv, PlayInv, CloseInv, TypeOK
<1>3. PlayInv'
  BY DEF PlayInv, ThreadInv, SoundInv, TypeOK
<1>4. CloseInv'
  BY DEF CloseInv, HasSound, ThreadInv, PlayInv, SoundInv, TypeOK
<1>5. SoundInv'
  BY DEF SoundInv, HasSound, ThreadInv, PlayInv, CloseInv, TypeOK
<1>6. DecoderOpenInCallback' /\ OpenIsOwned'
  BY DEF DecoderOpenInCallback, OpenIsOwned, ThreadInv, PlayInv, CloseInv, SoundInv,
         TypeOK
<1>7. ProgressInv' /\ ShownIsHeard' /\ SeeksArePending'
  BY ProgressKept DEF progressVars
<1>8. QED
  BY <1>1, <1>2, <1>3, <1>4, <1>5, <1>6, <1>7

LEMMA JobStopsAllIInv ==
  ASSUME IInv, UNCHANGED use, JobStopsAll
  PROVE  IInv'
<1> USE DEF IInv, JobStopsAll, JobAtMutex, ClosesFirst, Goes, soundVars
<1>1. TypeOK'
  BY ProgressKept DEF TypeOK, ThreadInv, progressVars
<1>2. ThreadInv'
  BY DEF Idle, ThreadInv, PlayInv, CloseInv, TypeOK
<1>3. PlayInv'
  BY DEF PlayInv, ThreadInv, SoundInv, TypeOK
<1>4. CloseInv'
  BY DEF CloseInv, HasSound, ThreadInv, PlayInv, SoundInv, TypeOK
<1>5. SoundInv'
  BY DEF SoundInv, HasSound, ThreadInv, PlayInv, CloseInv, TypeOK
<1>6. DecoderOpenInCallback' /\ OpenIsOwned'
  BY DEF DecoderOpenInCallback, OpenIsOwned, ThreadInv, PlayInv, CloseInv, SoundInv,
         TypeOK
<1>7. ProgressInv' /\ ShownIsHeard' /\ SeeksArePending'
  BY ProgressKept DEF progressVars
<1>8. QED
  BY <1>1, <1>2, <1>3, <1>4, <1>5, <1>6, <1>7

LEMMA JobReapsIInv ==
  ASSUME IInv, UNCHANGED use, JobReaps
  PROVE  IInv'
<1> USE DEF IInv, JobReaps, JobAtMutex, Goes, soundVars
<1>1. TypeOK'
  BY ProgressKept DEF TypeOK, ThreadInv, progressVars
<1>2. ThreadInv'
  BY DEF Idle, ThreadInv, PlayInv, CloseInv, TypeOK
<1>3. PlayInv'
  BY DEF PlayInv, ThreadInv, SoundInv, TypeOK
<1>4. CloseInv'
  BY DEF CloseInv, HasSound, ThreadInv, PlayInv, SoundInv, TypeOK
<1>5. SoundInv'
  BY DEF SoundInv, HasSound, ThreadInv, PlayInv, CloseInv, TypeOK
<1>6. DecoderOpenInCallback' /\ OpenIsOwned'
  BY DEF DecoderOpenInCallback, OpenIsOwned, ThreadInv, PlayInv, CloseInv, SoundInv,
         TypeOK
<1>7. ProgressInv' /\ ShownIsHeard' /\ SeeksArePending'
  BY ProgressKept DEF progressVars
<1>8. QED
  BY <1>1, <1>2, <1>3, <1>4, <1>5, <1>6, <1>7

LEMMA JobFindsNothingIInv ==
  ASSUME IInv, UNCHANGED use, JobFindsNothing
  PROVE  IInv'
<1> USE DEF IInv, JobFindsNothing, JobAtMutex, Returns, soundVars
<1>1. TypeOK'
  BY ProgressKept DEF TypeOK, ThreadInv, progressVars
<1>2. ThreadInv'
  BY DEF Idle, ThreadInv, PlayInv, CloseInv, TypeOK
<1>3. PlayInv'
  BY DEF PlayInv, ThreadInv, SoundInv, TypeOK
<1>4. CloseInv'
  BY DEF CloseInv, HasSound, ThreadInv, PlayInv, SoundInv, TypeOK
<1>5. SoundInv'
  BY DEF SoundInv, HasSound, ThreadInv, PlayInv, CloseInv, TypeOK
<1>6. DecoderOpenInCallback' /\ OpenIsOwned'
  BY DEF DecoderOpenInCallback, OpenIsOwned, ThreadInv, PlayInv, CloseInv, SoundInv,
         TypeOK
<1>7. ProgressInv' /\ ShownIsHeard' /\ SeeksArePending'
  BY ProgressKept DEF progressVars
<1>8. QED
  BY <1>1, <1>2, <1>3, <1>4, <1>5, <1>6, <1>7

LEMMA CloseDeviceIInv ==
  ASSUME IInv, UNCHANGED use, NEW t \in Threads, CloseDevice(t)
  PROVE  IInv'
<1> USE DEF IInv, CloseDevice, Goes
<1>1. TypeOK'
  BY ProgressKept DEF TypeOK, ThreadInv, progressVars
<1>2. ThreadInv'
  BY DEF Idle, ThreadInv, PlayInv, CloseInv, TypeOK
<1>3. PlayInv'
  BY DEF PlayInv, ThreadInv, SoundInv, TypeOK
<1>4. CloseInv'
  BY DEF CloseInv, HasSound, ThreadInv, PlayInv, SoundInv, TypeOK
<1>5. SoundInv'
  BY DEF SoundInv, HasSound, ThreadInv, PlayInv, CloseInv, TypeOK
<1>6. DecoderOpenInCallback' /\ OpenIsOwned'
  BY DEF DecoderOpenInCallback, OpenIsOwned, ThreadInv, PlayInv, CloseInv, SoundInv,
         TypeOK
<1>7. ProgressInv' /\ ShownIsHeard' /\ SeeksArePending'
  BY ProgressKept DEF progressVars
<1>8. QED
  BY <1>1, <1>2, <1>3, <1>4, <1>5, <1>6, <1>7

LEMMA CloseDecoderIInv ==
  ASSUME IInv, UNCHANGED use, NEW t \in Threads, CloseDecoder(t)
  PROVE  IInv'
<1> USE DEF IInv, CloseDecoder, ClosesFirst, Goes, Returns, Idle
<1>1. TypeOK'
  BY ProgressKept DEF TypeOK, ThreadInv, progressVars
<1>2. ThreadInv'
  <2>1. \A r \in Threads \ {t} : thread'[r] = thread[r] /\ thread[r].at \notin Locked
    BY DEF ThreadInv, TypeOK
  <2>2. CASE thread[t].op = "onFinished"
    BY <2>1, <2>2 DEF ThreadInv, TypeOK
  <2>3. CASE thread[t].op = "stopAll" /\ playing \ {thread[t].sound} # {}
    <3>1. PICK s \in playing \ {thread[t].sound} :
            thread' = [thread EXCEPT ![t] =
                         [op |-> "stopAll", at |-> "closeDevice", sound |-> s]]
      BY <2>3
    <3>2. s \in Sounds /\ s \in playing'
      BY <2>3, <3>1 DEF TypeOK
    <3>3. QED
      BY <2>1, <3>1, <3>2 DEF ThreadInv, TypeOK
  <2>4. CASE /\ thread[t].op # "onFinished"
             /\ ~(thread[t].op = "stopAll" /\ playing \ {thread[t].sound} # {})
    <3>1. thread'[t].at \in {"idle", "done"} /\ (t = QueueThread => thread'[t].at = "done")
      BY <2>4 DEF TypeOK
    <3>2. QED
      BY <2>1, <2>4, <3>1 DEF ThreadInv, TypeOK
  <2>5. QED
    BY <2>2, <2>3, <2>4
<1>3. PlayInv'
  BY DEF PlayInv, ThreadInv, SoundInv, TypeOK
<1>4. CloseInv'
  BY DEF CloseInv, HasSound, ThreadInv, PlayInv, SoundInv, TypeOK
<1>5. SoundInv'
  BY DEF SoundInv, HasSound, ThreadInv, PlayInv, CloseInv, TypeOK
<1>6. DecoderOpenInCallback' /\ OpenIsOwned'
  BY DEF DecoderOpenInCallback, OpenIsOwned, ThreadInv, PlayInv, CloseInv, SoundInv,
         TypeOK
<1>7. ProgressInv' /\ ShownIsHeard' /\ SeeksArePending'
  BY ProgressKept DEF progressVars
<1>8. QED
  BY <1>1, <1>2, <1>3, <1>4, <1>5, <1>6, <1>7

LEMMA NotifyAndEraseIInv ==
  ASSUME IInv, UNCHANGED use, NEW t \in Threads, NotifyAndErase(t)
  PROVE  IInv'
<1> USE DEF IInv, NotifyAndErase, Returns, Idle
<1>1. TypeOK'
  BY ProgressKept DEF TypeOK, ThreadInv, progressVars
<1>2. ThreadInv'
  BY DEF Idle, ThreadInv, PlayInv, CloseInv, TypeOK
<1>3. PlayInv'
  BY DEF PlayInv, ThreadInv, SoundInv, TypeOK
<1>4. CloseInv'
  BY DEF CloseInv, HasSound, ThreadInv, PlayInv, SoundInv, TypeOK
<1>5. SoundInv'
  BY DEF SoundInv, HasSound, ThreadInv, PlayInv, CloseInv, TypeOK
<1>6. DecoderOpenInCallback' /\ OpenIsOwned'
  BY DEF DecoderOpenInCallback, OpenIsOwned, ThreadInv, PlayInv, CloseInv, SoundInv,
         TypeOK
<1>7. ProgressInv' /\ ShownIsHeard' /\ SeeksArePending'
  BY ProgressKept DEF progressVars
<1>8. QED
  BY <1>1, <1>2, <1>3, <1>4, <1>5, <1>6, <1>7

-------------------------------------------------------------------------------
(* The queue thread between jobs *)

LEMMA BeginJobIInv ==
  ASSUME IInv, UNCHANGED use, BeginJob
  PROVE  IInv'
<1> USE DEF IInv, BeginJob, EntersJob, JobOf, Idle, Q!Start, Q!TakesFirst, soundVars
<1>1. TypeOK'
  BY ProgressKept DEF TypeOK, ThreadInv, progressVars
<1>2. ThreadInv'
  BY DEF Idle, ThreadInv, PlayInv, CloseInv, TypeOK
<1>3. PlayInv'
  BY DEF PlayInv, ThreadInv, SoundInv, TypeOK
<1>4. CloseInv'
  BY DEF CloseInv, HasSound, ThreadInv, PlayInv, SoundInv, TypeOK
<1>5. SoundInv'
  BY DEF SoundInv, HasSound, ThreadInv, PlayInv, CloseInv, TypeOK
<1>6. DecoderOpenInCallback' /\ OpenIsOwned'
  BY DEF DecoderOpenInCallback, OpenIsOwned, ThreadInv, PlayInv, CloseInv, SoundInv,
         TypeOK
<1>7. ProgressInv' /\ ShownIsHeard' /\ SeeksArePending'
  BY ProgressKept DEF progressVars
<1>8. QED
  BY <1>1, <1>2, <1>3, <1>4, <1>5, <1>6, <1>7

LEMMA EndJobIInv ==
  ASSUME IInv, UNCHANGED use, EndJob
  PROVE  IInv'
<1> USE DEF IInv, EndJob, EntersJob, JobOf, Idle, Q!Finish, Q!TakesFirst, soundVars
<1>1. TypeOK'
  BY ProgressKept DEF TypeOK, ThreadInv, progressVars
<1>2. ThreadInv'
  BY DEF Idle, ThreadInv, PlayInv, CloseInv, TypeOK
<1>3. PlayInv'
  BY DEF PlayInv, ThreadInv, SoundInv, TypeOK
<1>4. CloseInv'
  BY DEF CloseInv, HasSound, ThreadInv, PlayInv, SoundInv, TypeOK
<1>5. SoundInv'
  BY DEF SoundInv, HasSound, ThreadInv, PlayInv, CloseInv, TypeOK
<1>6. DecoderOpenInCallback' /\ OpenIsOwned'
  BY DEF DecoderOpenInCallback, OpenIsOwned, ThreadInv, PlayInv, CloseInv, SoundInv,
         TypeOK
<1>7. ProgressInv' /\ ShownIsHeard' /\ SeeksArePending'
  BY ProgressKept DEF progressVars
<1>8. QED
  BY <1>1, <1>2, <1>3, <1>4, <1>5, <1>6, <1>7

LEMMA PushStopAllIInv ==
  ASSUME IInv, UNCHANGED use, NEW u \in Users, PushStopAll(u)
  PROVE  IInv'
<1> USE DEF IInv, PushStopAll, Q!Request, soundVars
<1>1. TypeOK'
  BY ProgressKept DEF TypeOK, ThreadInv, progressVars
<1>2. ThreadInv'
  BY DEF Idle, ThreadInv, PlayInv, CloseInv, TypeOK
<1>3. PlayInv'
  BY DEF PlayInv, ThreadInv, SoundInv, TypeOK
<1>4. CloseInv'
  BY DEF CloseInv, HasSound, ThreadInv, PlayInv, SoundInv, TypeOK
<1>5. SoundInv'
  BY DEF SoundInv, HasSound, ThreadInv, PlayInv, CloseInv, TypeOK
<1>6. DecoderOpenInCallback' /\ OpenIsOwned'
  BY DEF DecoderOpenInCallback, OpenIsOwned, ThreadInv, PlayInv, CloseInv, SoundInv,
         TypeOK
<1>7. ProgressInv' /\ ShownIsHeard' /\ SeeksArePending'
  BY ProgressKept DEF progressVars
<1>8. QED
  BY <1>1, <1>2, <1>3, <1>4, <1>5, <1>6, <1>7

-------------------------------------------------------------------------------
(* data_callback *)

LEMMA ReadFramesIInv ==
  ASSUME IInv, UNCHANGED use, NEW s \in Sounds, ReadFrames(s)
  PROVE  IInv'
<1> USE DEF IInv, ReadFrames, ReadsAtMost, AskedToStop
<1>1. TypeOK'
  <2>1. ProgressTypeOK'
    BY UseIsLegal DEF TypeOK, ProgressTypeOK
  <2>2. QED
    BY <2>1 DEF TypeOK, ThreadInv
<1>2. ThreadInv'
  BY DEF Idle, ThreadInv, PlayInv, CloseInv, TypeOK
<1>3. PlayInv'
  BY DEF PlayInv, ThreadInv, SoundInv, TypeOK
<1>4. CloseInv'
  BY DEF CloseInv, HasSound, ThreadInv, PlayInv, SoundInv, TypeOK
<1>5. SoundInv'
  BY DEF SoundInv, HasSound, ThreadInv, PlayInv, CloseInv, TypeOK
<1>6. DecoderOpenInCallback' /\ OpenIsOwned'
  BY DEF DecoderOpenInCallback, OpenIsOwned, ThreadInv, PlayInv, CloseInv, SoundInv,
         TypeOK
<1>7. ProgressInv' /\ ShownIsHeard' /\ SeeksArePending'
  <2>1. left[s] \in 0..use.length /\ progress[s].shown \in Nat /\ missed[s] \in Nat
          /\ use.length \in Nat
    BY UseIsLegal DEF TypeOK, ProgressTypeOK
  <2>2. /\ left'[s] = left[s] - progress'[s].got
        /\ progress'[s].shown = progress[s].shown /\ missed'[s] = missed[s]
        /\ callback'[s] = "read" /\ callback[s] = "idle"
    BY DEF TypeOK, ProgressTypeOK
  <2>3. s \notin torn =>
          progress[s].shown + missed[s] + progress'[s].got - (use.length - left'[s]) \in {0, 1}
    <3>1. progress'[s].got \in 0..1
      BY DEF TypeOK, ProgressTypeOK
    <3>2. QED
      BY <2>1, <2>2, <3>1 DEF ShownIsHeard
  <2>4. \A r \in Sounds \ {s} :
          callback'[r] = callback[r] /\ left'[r] = left[r] /\ progress'[r] = progress[r] /\ missed'[r] = missed[r]
    BY DEF TypeOK, ProgressTypeOK
  <2>5. QED
    <3> HIDE DEF ReadFrames, ReadsAtMost
    <3>1. UNCHANGED <<use, torn, asked, lost, seeking>>
      BY DEF ReadFrames, ReadsAtMost
    <3>2. QED
      BY <2>2, <2>3, <2>4, <3>1 DEF ProgressInv, ShownIsHeard, SeeksArePending, Clears
<1>8. QED
  BY <1>1, <1>2, <1>3, <1>4, <1>5, <1>6, <1>7

LEMMA SeekDecoderIInv ==
  ASSUME IInv, UNCHANGED use, NEW s \in Sounds, SeekDecoder(s)
  PROVE  IInv'
<1> USE DEF IInv, SeekDecoder
<1>1. TypeOK'
  <2>1. ProgressTypeOK'
    BY UseIsLegal DEF TypeOK, ProgressTypeOK
  <2>2. QED
    BY <2>1 DEF TypeOK, ThreadInv
<1>2. ThreadInv'
  BY DEF Idle, ThreadInv, PlayInv, CloseInv, TypeOK
<1>3. PlayInv'
  BY DEF PlayInv, ThreadInv, SoundInv, TypeOK
<1>4. CloseInv'
  BY DEF CloseInv, HasSound, ThreadInv, PlayInv, SoundInv, TypeOK
<1>5. SoundInv'
  BY DEF SoundInv, HasSound, ThreadInv, PlayInv, CloseInv, TypeOK
<1>6. DecoderOpenInCallback' /\ OpenIsOwned'
  BY DEF DecoderOpenInCallback, OpenIsOwned, ThreadInv, PlayInv, CloseInv, SoundInv,
         TypeOK
<1>7. ProgressInv' /\ ShownIsHeard' /\ SeeksArePending'
  BY UseIsLegal
  DEF ProgressInv, ShownIsHeard, SeeksArePending, Clears, TypeOK, ProgressTypeOK
<1>8. QED
  BY <1>1, <1>2, <1>3, <1>4, <1>5, <1>6, <1>7

LEMMA EnterOnSoundSeekedIInv ==
  ASSUME IInv, UNCHANGED use, NEW s \in Sounds, EnterOnSoundSeeked(s)
  PROVE  IInv'
<1> USE DEF IInv, EnterOnSoundSeeked
<1>1. TypeOK'
  <2>1. ProgressTypeOK'
    BY UseIsLegal, SMTT(30) DEF TypeOK, ProgressTypeOK
  <2>2. QED
    BY <2>1 DEF TypeOK, ThreadInv
<1>2. ThreadInv'
  BY DEF Idle, ThreadInv, PlayInv, CloseInv, TypeOK
<1>3. PlayInv'
  BY DEF PlayInv, ThreadInv, SoundInv, TypeOK
<1>4. CloseInv'
  BY DEF CloseInv, HasSound, ThreadInv, PlayInv, SoundInv, TypeOK
<1>5. SoundInv'
  BY DEF SoundInv, HasSound, ThreadInv, PlayInv, CloseInv, TypeOK
<1>6. DecoderOpenInCallback' /\ OpenIsOwned'
  BY DEF DecoderOpenInCallback, OpenIsOwned, ThreadInv, PlayInv, CloseInv, SoundInv,
         TypeOK
<1>7. ProgressInv' /\ ShownIsHeard' /\ SeeksArePending'
  BY UseIsLegal
  DEF ProgressInv, ShownIsHeard, SeeksArePending, Clears, TypeOK, ProgressTypeOK
<1>8. QED
  BY <1>1, <1>2, <1>3, <1>4, <1>5, <1>6, <1>7

LEMMA FinishCallbackIInv ==
  ASSUME IInv, UNCHANGED use, NEW s \in Sounds, FinishCallback(s)
  PROVE  IInv'
<1> USE DEF IInv, FinishCallback, PastSeeking, ProgressOf, Told, Missed, Q!Request
<1>1. TypeOK'
  <2>1. ProgressTypeOK'
    <3>1. ProgressOf(s) \in Nat /\ Missed(s) \in Nat
      BY UseIsLegal DEF TypeOK, ProgressTypeOK
    <3> HIDE DEF ProgressOf, Missed, Told
    <3>2. progress' \in [Sounds -> [seekTo : 0..use.length, frame : 0..use.length,
                                   got : 0..1, shown : Nat]]
      BY <3>1 DEF TypeOK, ProgressTypeOK
    <3>3. left' \in [Sounds -> 0..use.length] /\ missed' \in [Sounds -> Nat]
      BY <3>1, UseIsLegal DEF TypeOK, ProgressTypeOK
    <3>4. seeking' \subseteq Sounds /\ UNCHANGED <<asked, torn, lost>>
      BY DEF TypeOK, ProgressTypeOK
    <3>5. QED
      BY <3>2, <3>3, <3>4 DEF TypeOK, ProgressTypeOK
  <2>2. QED
    BY <2>1 DEF TypeOK, ThreadInv
<1>2. ThreadInv'
  BY DEF Idle, ThreadInv, PlayInv, CloseInv, TypeOK
<1>3. PlayInv'
  BY DEF PlayInv, ThreadInv, SoundInv, TypeOK
<1>4. CloseInv'
  BY DEF CloseInv, HasSound, ThreadInv, PlayInv, SoundInv, TypeOK
<1>5. SoundInv'
  BY DEF SoundInv, HasSound, ThreadInv, PlayInv, CloseInv, TypeOK
<1>6. DecoderOpenInCallback' /\ OpenIsOwned'
  BY DEF DecoderOpenInCallback, OpenIsOwned, ThreadInv, PlayInv, CloseInv, SoundInv,
         TypeOK
<1>7. ProgressInv' /\ ShownIsHeard' /\ SeeksArePending'
  <2>1. left[s] \in 0..use.length /\ progress[s].shown \in Nat /\ progress[s].got \in 0..1
    BY DEF TypeOK, ProgressTypeOK
  <2>2. ShownIsHeard'
    <3>1. CASE callback[s] = "seeked"
      BY <2>1, <3>1, UseIsLegal DEF ShownIsHeard, ProgressInv, TypeOK, ProgressTypeOK
    <3>2. CASE callback[s] = "read"
      <4>1. s \notin torn =>
              progress[s].shown + missed[s] + progress[s].got - (use.length - left[s]) \in {0, 1}
        BY <3>2 DEF ProgressInv
      <4>2. progress'[s].shown = progress[s].shown + Told(s)
        BY <3>2 DEF TypeOK, ProgressTypeOK
      <4>3. missed'[s] = missed[s] + progress[s].got - Told(s) /\ missed[s] \in Nat
        BY <3>2 DEF TypeOK, ProgressTypeOK
      <4>4. Told(s) \in {0, progress[s].got}
        BY <2>1
      <4>5. /\ UNCHANGED <<use, torn>>
            /\ callback'[s] = "idle" => left'[s] = left[s]
            /\ \A r \in Sounds \ {s} : /\ callback'[r] = callback[r] /\ left'[r] = left[r]
                                      /\ progress'[r] = progress[r] /\ missed'[r] = missed[r]
        BY DEF TypeOK, ProgressTypeOK
      <4> HIDE DEF FinishCallback, Told
      <4>6. progress'[s].shown + missed'[s] = progress[s].shown + missed[s] + progress[s].got
        BY <2>1, <4>2, <4>3, <4>4
      <4>7. callback'[s] = "idle" /\ s \notin torn =>
              progress'[s].shown + missed'[s] - (use.length - left'[s]) \in {0, 1}
        <5>1. ASSUME callback'[s] = "idle"
              PROVE  left'[s] = left[s]
          BY <4>5, <5>1
        <5>2. QED
          <6>1. progress'[s].shown \in Nat /\ missed'[s] \in Nat
            BY <2>1, <4>2, <4>3, <4>4
          <6>2. progress'[s].shown + missed'[s] - (use.length - left[s])
                  = progress[s].shown + missed[s] + progress[s].got - (use.length - left[s])
            BY <2>1, <4>3, <4>6, <6>1, UseIsLegal DEF TypeOK
          <6>3. QED
            BY <4>1, <5>1, <6>2
      <4>8. QED
        BY <4>5, <4>7 DEF ShownIsHeard
    <3>3. QED
      BY <3>1, <3>2
  <2>3. ProgressInv'
    <3>1. \A r \in Sounds \ {s} :
            callback'[r] = callback[r] /\ left'[r] = left[r] /\ progress'[r] = progress[r] /\ missed'[r] = missed[r]
      BY DEF TypeOK, ProgressTypeOK
    <3>2. callback'[s] \in {"idle", "rewound"} /\ (callback'[s] = "rewound" => left'[s] = use.length)
      BY <2>1 DEF TypeOK, ProgressTypeOK
    <3>3. callback'[s] = "rewound" /\ s \in asked => s \in lost
      BY DEF ProgressInv, Clears, SeeksArePending, TypeOK
    <3>4. UNCHANGED <<use, torn, asked, lost>>
      OBVIOUS
    <3> HIDE DEF FinishCallback
    <3>5. QED
      BY <3>1, <3>2, <3>3, <3>4, UseIsLegal DEF ProgressInv, Clears, TypeOK
  <2>4. SeeksArePending'
    BY DEF SeeksArePending, ProgressInv, Clears
  <2>5. QED
    BY <2>2, <2>3, <2>4
<1>8. QED
  BY <1>1, <1>2, <1>3, <1>4, <1>5, <1>6, <1>7

LEMMA RewoundIInv ==
  ASSUME IInv, UNCHANGED use, NEW s \in Sounds, Rewound(s)
  PROVE  IInv'
<1> USE DEF IInv, Rewound
<1>1. TypeOK'
  <2>1. ProgressTypeOK'
    <3>1. progress' \in [Sounds -> [seekTo : 0..use.length, frame : 0..use.length,
                                   got : 0..1, shown : Nat]]
      <4>1. progress' = [progress EXCEPT ![s].shown = 0] /\ UNCHANGED use
        OBVIOUS
      <4>2. progress \in [Sounds -> [seekTo : 0..use.length, frame : 0..use.length,
                                     got : 0..1, shown : Nat]]
        BY DEF TypeOK, ProgressTypeOK
      <4> HIDE DEF IInv, Rewound
      <4>3. QED
        BY <4>1, <4>2
    <3>2. missed' \in [Sounds -> Nat]
      BY DEF TypeOK, ProgressTypeOK
    <3>3. QED
      BY <3>1, <3>2 DEF TypeOK, ProgressTypeOK
  <2>2. QED
    BY <2>1 DEF TypeOK, ThreadInv
<1>2. ThreadInv'
  BY DEF Idle, ThreadInv, PlayInv, CloseInv, TypeOK
<1>3. PlayInv'
  BY DEF PlayInv, ThreadInv, SoundInv, TypeOK
<1>4. CloseInv'
  BY DEF CloseInv, HasSound, ThreadInv, PlayInv, SoundInv, TypeOK
<1>5. SoundInv'
  BY DEF SoundInv, HasSound, ThreadInv, PlayInv, CloseInv, TypeOK
<1>6. DecoderOpenInCallback' /\ OpenIsOwned'
  BY DEF DecoderOpenInCallback, OpenIsOwned, ThreadInv, PlayInv, CloseInv, SoundInv,
         TypeOK
<1>7. ProgressInv' /\ ShownIsHeard' /\ SeeksArePending'
  <2>1. /\ progress'[s].shown = 0 /\ missed'[s] = 0
        /\ \A r \in Sounds \ {s} : progress'[r] = progress[r] /\ missed'[r] = missed[r]
    BY DEF TypeOK, ProgressTypeOK
  <2>2. UNCHANGED <<use, left, asked, lost>> /\ callback'[s] = "idle" /\ callback[s] = "rewound"
    BY DEF TypeOK
  <2>3. \A r \in Sounds \ {s} : callback'[r] = callback[r]
    BY DEF TypeOK
  <2>4. use.length - left[s] = 0
    BY <2>2 DEF ProgressInv
  <2>5. SeeksArePending'
    BY DEF SeeksArePending, ProgressInv, Clears
  <2>6. torn' = torn \ {s}
    OBVIOUS
  <2> HIDE DEF Rewound
  <2>7. QED
    BY <2>1, <2>2, <2>3, <2>4, <2>5, <2>6, UseIsLegal DEF ProgressInv, ShownIsHeard, Clears
<1>8. QED
  BY <1>1, <1>2, <1>3, <1>4, <1>5, <1>6, <1>7

-------------------------------------------------------------------------------
LEMMA StepIInv == IInv /\ [Next]_<<vars, use>> => IInv'
<1> SUFFICES ASSUME IInv, [Next]_<<vars, use>> PROVE IInv'
  OBVIOUS
<1>1. CASE UNCHANGED <<vars, use>>
  BY <1>1, ProgressKept
  DEF IInv, TypeOK, ThreadInv, PlayInv, CloseInv, SoundInv, HasSound, Idle,
      DecoderOpenInCallback, OpenIsOwned, vars, soundVars, progressVars
<1>2. CASE UNCHANGED use /\ \E u \in Users : UserCalls(u)
  <2>1. PICK u \in Users : UserCalls(u)
    BY <1>2
  <2>2. CASE \/ Wire(u) \/ SetPlaybackDevice(u) \/ EmplaceSound(u) \/ Halt(u) \/ SeekFlag(u)
             \/ StopEverything(u) \/ PushStopAll(u)
    BY <1>2, <2>2, WireIInv, SetPlaybackDeviceIInv, EmplaceSoundIInv, HaltIInv, SeekFlagIInv, StopEverythingIInv,
       PushStopAllIInv
  <2>3. CASE \E s \in Sounds : StartDevice(u, s) \/ Pause(u, s) \/ Resume(u, s)
                              \/ SetRepeat(u, s) \/ SeekTo(u, s) \/ Stop(u, s)
    BY <1>2, <2>3, StartDeviceIInv, PauseIInv, ResumeIInv, SetRepeatIInv, SeekToIInv, StopIInv
  <2>4. QED
    BY <2>1, <2>2, <2>3 DEF UserCalls
<1>3. CASE UNCHANGED use /\ \E t \in Threads : Closes(t)
  BY <1>3, CloseDeviceIInv, CloseDecoderIInv, NotifyAndEraseIInv DEF Closes
<1>4. CASE UNCHANGED use /\ RunsJobs
  BY <1>4, BeginJobIInv, JobStopsAllIInv, JobReapsIInv, JobFindsNothingIInv, EndJobIInv
  DEF RunsJobs
<1>5. CASE UNCHANGED use /\ \E s \in Sounds : DataCallback(s)
  BY <1>5, ReadFramesIInv, SeekDecoderIInv, EnterOnSoundSeekedIInv, FinishCallbackIInv,
     RewoundIInv
  DEF DataCallback
<1>6. QED
  BY <1>1, <1>2, <1>3, <1>4, <1>5 DEF Next

\* The inductive invariant of the audio engine (audio.cpp:40-349).
THEOREM EngineInvariant == Spec => []IInv
BY InitIInv, StepIInv, PTL DEF Spec

\* data_callback never reads a closed decoder (audio.cpp:151-152, 169-170,
\* 250-251, 325).
THEOREM CallbackReadsOpenDecoder == Spec => []DecoderOpenInCallback
<1>1. IInv => DecoderOpenInCallback
  BY DEF IInv
<1>2. QED
  BY <1>1, EngineInvariant, PTL

\* stop, stopAll and a late onFinished close a sound once between them
\* (audio.cpp:146-158, 164-176, 248-257).
THEOREM SoundsAreClosedOnce == Spec => []ClosedOnce
<1>1. IInv => ClosedOnce
  BY DEF IInv, CloseInv, ClosedOnce
<1>2. QED
  BY <1>1, EngineInvariant, PTL

\* Under the mutex the map holds open, complete sounds only (audio.cpp:140;
\* ui.cpp:545, 569, 604).
THEOREM MapHoldsOpenSounds == Spec => []PlayingIsOpen
<1>1. IInv => PlayingIsOpen
  <2> SUFFICES ASSUME IInv, LockFree, NEW s \in playing
               PROVE  device[s] \in {"running", "halted"} /\ decoder[s] = "open" /\ wired[s] = "all"
    BY DEF PlayingIsOpen
  <2>1. s \in Sounds
    BY DEF IInv, TypeOK
  <2>2. ~\E t \in Threads : HasSound(t, {"closeDecoder", "notify"}, s)
    BY DEF HasSound
  <2>3. QED
    BY <2>1, <2>2 DEF IInv, SoundInv
<1>2. QED
  BY <1>1, EngineInvariant, PTL

\* No open device gets out of the reach of stop and stopAll (audio.cpp:115-140).
THEOREM DevicesStayInReach == Spec => []OpenIsOwned
<1>1. IInv => OpenIsOwned
  BY DEF IInv
<1>2. QED
  BY <1>1, EngineInvariant, PTL

\* Outside the callback the decoder is where the progress says, or a period behind,
\* unless a seek changed its position between the two reads of it (audio.cpp:264-286,
\* 325-341).
THEOREM ProgressIsHeard == Spec => []ShownIsHeard
<1>1. IInv => ShownIsHeard
  BY DEF IInv
<1>2. QED
  BY <1>1, EngineInvariant, PTL

\* A seek waits until it has moved the decoder, unless another was handled as it was
\* made (audio.cpp:280-296, 326-341).
THEOREM SeeksStayPending == Spec => []SeeksArePending
<1>1. IInv => SeeksArePending
  BY DEF IInv
<1>2. QED
  BY <1>1, EngineInvariant, PTL

================================================================================
