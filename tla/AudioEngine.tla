------------------------------ MODULE AudioEngine ------------------------------
(***************************************************************************)
(* Soundux::Objects::Audio (src/helper/audio/audio.cpp): the life of the   *)
(* playing sounds between the threads that control them, the device thread *)
(* of each sound, and the queue thread that reaps the finished ones.       *)
(*                                                                         *)
(* A sound is one call of Audio::play; its id is never used again.  Its    *)
(* device thread runs data_callback, which takes no lock, from the moment  *)
(* the device is started; stopping or closing a device waits for the       *)
(* callback to return (miniaudio).  All other accesses hold the recursive  *)
(* mutex of playingSounds.  The end of a sound and the asynchronous        *)
(* stopAll are jobs of the queue, used here through what it promises.      *)
(* A failed play closes what it opened before any other thread can know    *)
(* of it, and an operation on an unknown id only logs: both change nothing.*)
(*                                                                         *)
(* A seek is two atomic stores, which data_callback reads one after the    *)
(* other, and again: the order of each is kept.  So is the order in which  *)
(* play() sets the decoder and the playback device of a sound whose        *)
(* callback runs already: no lock orders these stores.  A sound is one     *)
(* that tells its progress: those on another device than the default one   *)
(* do not.                                                                 *)
(***************************************************************************)
EXTENDS Naturals

CONSTANTS
  Sounds,       \* ids of the calls of Audio::play
  Users,        \* threads that call Audio: GUI, hotkeys, web server
  QueueThread,  \* the handler of the job queue
  MaxLength,    \* bound: periods of data a sound has
  Uses          \* which sounds are played, sought and repeated, and how long they are

StopAll == 0  \* the queue's key for stopAll; also "no sound"

ASSUME SoundsAssumption == Sounds \subseteq Nat \ {StopAll}
ASSUME ThreadsAssumption == QueueThread \notin Users
ASSUME LengthAssumption == MaxLength \in Nat \ {0}
ASSUME UsesAssumption ==
  Uses \subseteq [played : SUBSET Sounds, sought : SUBSET Sounds, repeated : SUBSET Sounds,
                  length : 1..MaxLength]

Threads == Users \cup {QueueThread}

VARIABLES
  playing,   \* the keys of playingSounds
  device,    \* device[s]: "none", "running", "halted" or "closed"
  decoder,   \* decoder[s]: "none", "open" or "closed"
  wired,     \* wired[s]: how far play() set the fields: "unset", "decoder" or "all"
  paused,    \* sounds whose paused flag is set
  repeat,    \* sounds whose repeat flag is set
  seeking,   \* sounds whose shouldSeek flag is set
  left,      \* left[s]: periods the decoder has not delivered yet
  callback,  \* callback[s]: "idle", or how far data_callback got: see below
  progress,  \* progress[s]: seekTo, the frame given to onSoundSeeked, what the read of
             \* the callback got, and readFrames, here shown
  missed,    \* missed[s]: what readFrames lacks, as it was read before play() was done
  asked,     \* sounds with a seek that has not moved the decoder yet
  torn,      \* sounds whose last seek changed seekTo between the two reads of it
  lost,      \* sounds whose last seek was flagged while the callback handled another
  thread,    \* thread[t] = [op, at, sound]: the call t is in
  pending,   \* the queue's accepted jobs ...
  running,   \* ... and the one that runs
  use        \* how the engine is used: never changes

Q == INSTANCE CoalescingQueue WITH Ids <- Sounds \cup {StopAll}

progressVars == <<seeking, left, progress, missed, asked, torn, lost>>
soundVars == <<playing, device, decoder, wired, paused, repeat, progressVars, callback>>
queueVars == <<pending, running>>
vars == <<soundVars, thread, queueVars>>

Idle == [op |-> "none", at |-> "idle", sound |-> StopAll]

\* The points of play() after the device runs, and those of a call at which its thread
\* owns the mutex of playingSounds.
Starting == {"wire", "place", "emplace"}
Locked == {"flag", "halt", "closeDevice", "closeDecoder", "notify"}
LockFree == \A t \in Threads : thread[t].at \notin Locked

ProgressTypeOK ==
  /\ seeking \subseteq Sounds /\ asked \subseteq Sounds
  /\ torn \subseteq Sounds /\ lost \subseteq Sounds
  /\ left \in [Sounds -> 0..use.length]
  /\ progress \in [Sounds -> [seekTo : 0..use.length, frame : 0..use.length,
                             got : 0..1, shown : Nat]]
  /\ missed \in [Sounds -> Nat]

TypeOK ==
  /\ playing \subseteq Sounds
  /\ device \in [Sounds -> {"none", "running", "halted", "closed"}]
  /\ decoder \in [Sounds -> {"none", "open", "closed"}]
  /\ wired \in [Sounds -> {"unset", "decoder", "all"}]
  /\ paused \subseteq Sounds
  /\ repeat \subseteq Sounds
  /\ ProgressTypeOK
  /\ callback \in [Sounds -> {"idle", "read", "sought", "seeked", "rewound"}]
  /\ thread \in [Threads ->
       [op : {"none", "play", "pause", "seek", "stop", "stopAll", "onFinished"},
        at : {"idle", "lock", "done"} \cup Starting \cup Locked,
        sound : Sounds \cup {StopAll}]]
  /\ pending \subseteq Sounds \cup {StopAll}
  /\ running \subseteq pending
  /\ use \in Uses

Init ==
  /\ use \in Uses
  /\ playing = {} /\ paused = {} /\ repeat = {} /\ seeking = {}
  /\ device = [s \in Sounds |-> "none"]
  /\ decoder = [s \in Sounds |-> "none"]
  /\ wired = [s \in Sounds |-> "unset"]
  /\ left = [s \in Sounds |-> use.length]
  /\ progress = [s \in Sounds |-> [seekTo |-> 0, frame |-> 0, got |-> 0, shown |-> 0]]
  /\ missed = [s \in Sounds |-> 0]
  /\ asked = {} /\ torn = {} /\ lost = {}
  /\ callback = [s \in Sounds |-> "idle"]
  /\ thread = [t \in Threads |-> Idle]
  /\ Q!Init

Goes(t, op, at, s) ==
  thread' = [thread EXCEPT ![t] = [op |-> op, at |-> at, sound |-> s]]

\* A user's call returns; the queue thread goes back to the queue.
Returns(t) ==
  IF t \in Users THEN thread' = [thread EXCEPT ![t] = Idle]
  ELSE thread' = [thread EXCEPT ![t].at = "done"]
-------------------------------------------------------------------------------
(* Audio::play, without a lock until it enters the sound into the map *)

StartDevice(u, s) ==
  /\ thread[u] = Idle
  /\ s \in use.played
  /\ device[s] = "none"
  /\ device' = [device EXCEPT ![s] = "running"]
  /\ decoder' = [decoder EXCEPT ![s] = "open"]
  /\ Goes(u, "play", "wire", s)
  /\ UNCHANGED <<playing, wired, paused, repeat, progressVars, callback, queueVars>>

\* The device runs while play() fills in the sound: first id and raw.decoder ...
Wire(u) ==
  /\ thread[u].at = "wire"
  /\ wired' = [wired EXCEPT ![thread[u].sound] = "decoder"]
  /\ Goes(u, "play", "place", thread[u].sound)
  /\ UNCHANGED <<playing, device, decoder, paused, repeat, progressVars, callback,
                 queueVars>>

\* ... then playbackDevice, which the callback asks whether the progress is told.
SetPlaybackDevice(u) ==
  /\ thread[u].at = "place"
  /\ wired' = [wired EXCEPT ![thread[u].sound] = "all"]
  /\ Goes(u, "play", "emplace", thread[u].sound)
  /\ UNCHANGED <<playing, device, decoder, paused, repeat, progressVars, callback,
                 queueVars>>

EmplaceSound(u) ==
  /\ thread[u].at = "emplace"
  /\ LockFree
  /\ playing' = playing \cup {thread[u].sound}
  /\ Returns(u)
  /\ UNCHANGED <<device, decoder, wired, paused, repeat, progressVars, callback,
                 queueVars>>

-------------------------------------------------------------------------------
(* Audio::pause, resume, repeat and seek on a sound that plays *)

\* Mutant: the mutex is not taken.
ControlsUnlocked(u, s) == thread[u] = Idle /\ s \in playing

\* A call of u on a sound of the map, made under the mutex.
Controls(u, s) == thread[u] = Idle /\ LockFree /\ s \in playing

\* ma_device_stop is called on a started device only.
Pause(u, s) ==
  /\ Controls(u, s)
  /\ s \notin paused
  /\ IF device[s] = "running"
       THEN Goes(u, "pause", "halt", s) /\ UNCHANGED paused
       ELSE paused' = paused \cup {s} /\ UNCHANGED thread
  /\ UNCHANGED <<playing, device, decoder, wired, repeat, progressVars, callback,
                 queueVars>>

\* ma_device_stop returns once the callback has.
Halt(u) ==
  LET s == thread[u].sound IN
  /\ thread[u].at = "halt"
  /\ callback[s] = "idle"
  /\ device' = [device EXCEPT ![s] = "halted"]
  /\ paused' = paused \cup {s}
  /\ Returns(u)
  /\ UNCHANGED <<playing, decoder, wired, repeat, progressVars, callback, queueVars>>

\* The result of ma_device_start is not looked at.
Resume(u, s) ==
  /\ Controls(u, s)
  /\ s \in paused
  /\ paused' = paused \ {s}
  /\ \/ device[s] = "halted" /\ device' = [device EXCEPT ![s] = "running"]
     \/ UNCHANGED device
  /\ UNCHANGED <<playing, decoder, wired, repeat, progressVars, callback, thread,
                 queueVars>>

SetRepeat(u, s) ==
  /\ Controls(u, s) /\ s \in use.repeated
  /\ repeat' \in {repeat \cup {s}, repeat \ {s}}
  /\ UNCHANGED <<playing, device, decoder, wired, paused, progressVars, callback,
                 thread, queueVars>>

\* The callback has moved the decoder, or is about to rewind it, and will then clear
\* shouldSeek whatever was stored meanwhile.
Clears(s) == callback[s] \in {"sought", "seeked", "rewound"}

\* seek stores the position ...
SeekTo(u, s) ==
  /\ Controls(u, s) /\ s \in use.sought
  /\ \E n \in 0..use.length : progress' = [progress EXCEPT ![s].seekTo = n]
  /\ torn' = IF callback[s] = "sought" THEN torn \cup {s} ELSE torn
  /\ Goes(u, "seek", "flag", s)
  /\ UNCHANGED <<playing, device, decoder, wired, paused, repeat, seeking, left, missed, asked,
                 lost, callback, queueVars>>

\* ... and then shouldSeek.
SeekFlag(u) ==
  LET s == thread[u].sound IN
  /\ thread[u].at = "flag"
  /\ seeking' = seeking \cup {s} /\ asked' = asked \cup {s}
  /\ lost' = IF Clears(s) THEN lost \cup {s} ELSE lost \ {s}
  /\ Returns(u)
  /\ UNCHANGED <<playing, device, decoder, wired, paused, repeat, left, progress, missed,
                 torn, callback, queueVars>>

-------------------------------------------------------------------------------
(* Closing sounds: Audio::stop and stopAll of a user, and the queue's jobs *)

\* scoped->begin(): the map is ordered by id.
ClosesFirst(t, op, sounds) ==
  \E s \in sounds :
    (\A r \in sounds : s <= r) /\ Goes(t, op, "closeDevice", s)

Stop(u, s) ==
  /\ Controls(u, s)
  /\ Goes(u, "stop", "closeDevice", s)
  /\ UNCHANGED <<soundVars, queueVars>>

StopEverything(u) ==
  /\ thread[u] = Idle /\ LockFree
  /\ ClosesFirst(u, "stopAll", playing)
  /\ UNCHANGED <<soundVars, queueVars>>

\* The queue thread gets the mutex in stopAll, or in onFinished of a sound.
JobAtMutex(op) ==
  thread[QueueThread].at = "lock" /\ thread[QueueThread].op = op /\ LockFree

JobStopsAll ==
  /\ JobAtMutex("stopAll")
  /\ ClosesFirst(QueueThread, "stopAll", playing)
  /\ UNCHANGED <<soundVars, queueVars>>

JobReaps ==
  LET s == thread[QueueThread].sound IN
  /\ JobAtMutex("onFinished")
  /\ s \in playing
  /\ Goes(QueueThread, "onFinished", "closeDevice", s)
  /\ UNCHANGED <<soundVars, queueVars>>

\* The sound was stopped in the meantime, or play() has not entered it yet.
JobFindsNothing ==
  /\ \/ JobAtMutex("stopAll") /\ playing = {}
     \/ JobAtMutex("onFinished") /\ thread[QueueThread].sound \notin playing
  /\ Returns(QueueThread)
  /\ UNCHANGED <<soundVars, queueVars>>

\* ma_device_uninit returns once the callback has.
CloseDevice(t) ==
  LET s == thread[t].sound IN
  /\ thread[t].at = "closeDevice"
  /\ callback[s] = "idle"
  /\ device' = [device EXCEPT ![s] = "closed"]
  /\ Goes(t, thread[t].op, "closeDecoder", s)
  /\ UNCHANGED <<playing, decoder, wired, paused, repeat, progressVars, callback,
                 queueVars>>

\* Mutant: stopAll goes on without erasing the entry.
CloseDecoderAndKeep(t) ==
  LET s == thread[t].sound IN
  /\ thread[t].at = "closeDecoder"
  /\ decoder' = [decoder EXCEPT ![s] = "closed"]
  /\ IF thread[t].op = "stopAll" THEN ClosesFirst(t, "stopAll", playing) ELSE Returns(t)
  /\ UNCHANGED <<playing, device, wired, paused, repeat, progressVars, callback, queueVars>>

\* ma_decoder_uninit.  stop and stopAll erase the entry at once, and stopAll
\* goes on to the next sound; onFinished tells the window first.
CloseDecoder(t) ==
  LET s == thread[t].sound IN
  /\ thread[t].at = "closeDecoder"
  /\ decoder' = [decoder EXCEPT ![s] = "closed"]
  /\ \/ /\ thread[t].op = "onFinished"
        /\ Goes(t, "onFinished", "notify", s)
        /\ UNCHANGED playing
     \/ /\ thread[t].op # "onFinished"
        /\ playing' = playing \ {s}
        /\ IF thread[t].op = "stopAll" /\ playing \ {s} # {}
             THEN ClosesFirst(t, "stopAll", playing \ {s})
             ELSE Returns(t)
  /\ UNCHANGED <<device, wired, paused, repeat, progressVars, callback, queueVars>>

\* onSoundFinished of the window, which reads the map under the same mutex
\* (recursively), then the erasure.
NotifyAndErase(t) ==
  /\ thread[t].at = "notify"
  /\ playing' = playing \ {thread[t].sound}
  /\ Returns(t)
  /\ UNCHANGED <<device, decoder, wired, paused, repeat, progressVars, callback,
                 queueVars>>

-------------------------------------------------------------------------------
(* The queue thread between jobs *)

JobOf(id) == [op |-> IF id = StopAll THEN "stopAll" ELSE "onFinished",
              at |-> "lock", sound |-> id]

\* The thread enters the job the queue runs now, if it runs one.
EntersJob ==
  \/ running' = {} /\ thread' = [thread EXCEPT ![QueueThread] = Idle]
  \/ \E id \in running' : thread' = [thread EXCEPT ![QueueThread] = JobOf(id)]

BeginJob == Q!Start /\ EntersJob /\ UNCHANGED soundVars

EndJob ==
  /\ thread[QueueThread].at = "done"
  /\ Q!Finish
  /\ EntersJob
  /\ UNCHANGED soundVars

\* stopSounds without sync pushes stopAll.
PushStopAll(u) ==
  /\ thread[u] = Idle
  /\ Q!Request(StopAll)
  /\ UNCHANGED <<soundVars, thread>>

-------------------------------------------------------------------------------
(* The device thread of s: data_callback *)

\* miniaudio calls no more once it was asked to stop or close the device.
AskedToStop(s) ==
  \E t \in Threads : thread[t].at \in {"halt", "closeDevice"} /\ thread[t].sound = s

\* The reader gets a period, or nothing at the end.
ReadsAtMost(s, n) ==
  /\ ~AskedToStop(s)
  /\ device[s] = "running" /\ wired[s] # "unset" /\ callback[s] = "idle"
  /\ left' = [left EXCEPT ![s] = @ - n]
  /\ progress' = [progress EXCEPT ![s].got = n]
  /\ callback' = [callback EXCEPT ![s] = "read"]
  /\ UNCHANGED <<playing, device, decoder, wired, paused, repeat, seeking, missed, asked, torn,
                 lost, thread, queueVars>>

\* Mutant: a device whose data has run out calls no more.
ReadFramesWhileAny(s) == left[s] > 0 /\ ReadsAtMost(s, 1)

\* Until play() has set raw.decoder the callback returns at once.
ReadFrames(s) == ReadsAtMost(s, IF left[s] > 0 THEN 1 ELSE 0)

\* A pending seek moves the decoder ...
SeekDecoder(s) ==
  /\ callback[s] = "read" /\ s \in seeking
  /\ left' = [left EXCEPT ![s] = use.length - progress[s].seekTo]
  /\ asked' = asked \ {s} /\ torn' = torn \ {s} /\ lost' = lost \ {s}
  /\ callback' = [callback EXCEPT ![s] = "sought"]
  /\ UNCHANGED <<playing, device, decoder, wired, paused, repeat, seeking, progress, missed,
                 thread, queueVars>>

\* ... and onSoundSeeked gets the position that is asked for by then.
EnterOnSoundSeeked(s) ==
  /\ callback[s] = "sought"
  /\ progress' = [progress EXCEPT ![s].frame = progress[s].seekTo]
  /\ callback' = [callback EXCEPT ![s] = "seeked"]
  /\ UNCHANGED <<playing, device, decoder, wired, paused, repeat, seeking, left, missed, asked,
                 torn, lost, thread, queueVars>>

\* onSoundProgressed hears what was read if playbackDevice says the default device.
Told(s) == IF wired[s] = "all" THEN progress[s].got ELSE 0

\* Mutant: onSoundSeeked keeps readFrames.
ProgressUnsought(s) == progress[s].shown + Told(s)

\* onSoundSeeked, if the decoder was moved, then onSoundProgressed with what was read.
ProgressOf(s) ==
  (IF callback[s] = "seeked" THEN progress[s].frame ELSE progress[s].shown) + Told(s)

\* What readFrames lacks since it was set last.
Missed(s) ==
  (IF callback[s] = "seeked" THEN 0 ELSE missed[s]) + progress[s].got - Told(s)

\* Mutant: a callback that read nothing does not look at shouldSeek.
PastSeekingAtEnd(s) ==
  callback[s] = "seeked" \/ (callback[s] = "read" /\ (s \notin seeking \/ progress[s].got = 0))

PastSeeking(s) == callback[s] = "seeked" \/ (callback[s] = "read" /\ s \notin seeking)

\* The rest of the callback: when the read returned nothing, a repeated sound rewinds
\* and any other posts its end.  The callback comes again until the device is closed,
\* so an end that found no entry in the map yet is posted again.
FinishCallback(s) ==
  /\ PastSeeking(s)
  /\ progress' = [progress EXCEPT ![s].shown = ProgressOf(s)]
  /\ missed' = [missed EXCEPT ![s] = Missed(s)]
  /\ seeking' = IF callback[s] = "seeked" THEN seeking \ {s} ELSE seeking
  /\ \/ /\ progress[s].got = 0 /\ s \in repeat
        /\ left' = [left EXCEPT ![s] = use.length]
        /\ callback' = [callback EXCEPT ![s] = "rewound"]
        /\ UNCHANGED queueVars
     \/ /\ progress[s].got = 0 /\ s \notin repeat
        /\ Q!Request(s)
        /\ callback' = [callback EXCEPT ![s] = "idle"] /\ UNCHANGED left
     \/ /\ progress[s].got > 0
        /\ callback' = [callback EXCEPT ![s] = "idle"] /\ UNCHANGED <<left, queueVars>>
  /\ UNCHANGED <<playing, device, decoder, wired, paused, repeat, asked, torn, lost, thread>>

\* onSoundSeeked after the decoder was rewound.
Rewound(s) ==
  /\ callback[s] = "rewound"
  /\ progress' = [progress EXCEPT ![s].shown = 0]
  /\ missed' = [missed EXCEPT ![s] = 0]
  /\ seeking' = seeking \ {s} /\ torn' = torn \ {s}
  /\ callback' = [callback EXCEPT ![s] = "idle"]
  /\ UNCHANGED <<playing, device, decoder, wired, paused, repeat, left, asked, lost, thread,
                 queueVars>>

-------------------------------------------------------------------------------
UserCalls(u) ==
  \/ Wire(u) \/ SetPlaybackDevice(u) \/ EmplaceSound(u) \/ Halt(u) \/ SeekFlag(u)
  \/ StopEverything(u) \/ PushStopAll(u)
  \/ \E s \in Sounds :
       StartDevice(u, s) \/ Pause(u, s) \/ Resume(u, s) \/ SetRepeat(u, s)
         \/ SeekTo(u, s) \/ Stop(u, s)

Closes(t) == CloseDevice(t) \/ CloseDecoder(t) \/ NotifyAndErase(t)

RunsJobs == BeginJob \/ JobStopsAll \/ JobReaps \/ JobFindsNothing \/ EndJob

DataCallback(s) ==
  \/ ReadFrames(s) \/ SeekDecoder(s) \/ EnterOnSoundSeeked(s)
  \/ FinishCallback(s) \/ Rewound(s)

Next ==
  /\ \/ \E u \in Users : UserCalls(u)
     \/ \E t \in Threads : Closes(t)
     \/ RunsJobs
     \/ \E s \in Sounds : DataCallback(s)
  /\ UNCHANGED use

\* Every thread that can go on does, and the mutex of playingSounds does not
\* pass a thread over for ever; no user has to start a call.
Fairness ==
  /\ \A u \in Users : /\ WF_vars(Wire(u)) /\ WF_vars(SetPlaybackDevice(u))
                      /\ SF_vars(EmplaceSound(u)) /\ WF_vars(Halt(u)) /\ WF_vars(SeekFlag(u))
  /\ \A t \in Threads : WF_vars(Closes(t))
  /\ SF_vars(RunsJobs)
  /\ \A s \in Sounds : WF_vars(DataCallback(s))

Spec == Init /\ [][Next]_<<vars, use>> /\ Fairness

-------------------------------------------------------------------------------
(* Properties *)

\* The callback never reads a decoder that was closed under it: every path
\* closes the device, and thereby joins the callback, first (audio.cpp:151-152,
\* 169-170, 250-251, 325-346).
DecoderOpenInCallback ==
  \A s \in Sounds :
    callback[s] # "idle" => device[s] = "running" /\ decoder[s] = "open"

\* Whoever gets the mutex finds only sounds with an open, complete device and
\* decoder in the map: the window dereferences them unchecked (audio.cpp:140,
\* 193, 231; ui.cpp:545, 569, 604).
PlayingIsOpen ==
  LockFree =>
    \A s \in playing :
      device[s] \in {"running", "halted"} /\ decoder[s] = "open" /\ wired[s] = "all"

\* stop, stopAll and the queue's onFinished race for the same sound and close it
\* once: a late finish finds the id gone (audio.cpp:146-158, 164-176, 248-257).
ClosedOnce ==
  \A t \in Threads :
    LET s == thread[t].sound IN
    /\ thread[t].at = "closeDevice" => device[s] \in {"running", "halted"}
    /\ thread[t].at = "closeDecoder" => decoder[s] = "open"

\* No open device gets out of reach: it is in the map, where stop and stopAll
\* find it, or its play() is still on the way there (audio.cpp:115-140).
OpenIsOwned ==
  \A s \in Sounds :
    device[s] \in {"running", "halted"} =>
      \/ s \in playing
      \/ \E u \in Users : thread[u].at \in Starting /\ thread[u].sound = s

\* The points at which a thread still has to close something of its sound.
HasSound(t, ats, s) == thread[t].at \in ats /\ thread[t].sound = s

\* Where each thread can be, and what it has found on the way there.
ThreadInv ==
  /\ running = {} => thread[QueueThread] = Idle
  /\ thread[QueueThread].at \notin Starting \cup {"halt"}
  /\ \A u \in Users : thread[u].at \notin {"lock", "done", "notify"} /\ thread[u].op # "onFinished"
  /\ \A t, r \in Threads : thread[t].at \in Locked /\ thread[r].at \in Locked => t = r
  /\ \A t \in Threads : thread[t].at \in Starting \cup Locked =>
       thread[t].sound \in Sounds
  /\ \A t \in Threads : thread[t].at \in Locked => thread[t].sound \in playing
  /\ \A u, v \in Users :
       /\ thread[u].at \in Starting /\ thread[v].at \in Starting
       /\ thread[u].sound = thread[v].sound
       => u = v

\* How far play() got with a sound.
PlayInv ==
  \A t \in Threads :
    LET s == thread[t].sound IN
    /\ thread[t].at \in Starting => s \notin playing /\ device[s] = "running"
    /\ thread[t].at = "wire" => wired[s] = "unset"
    /\ thread[t].at = "place" => wired[s] = "decoder"
    /\ thread[t].at = "emplace" => wired[s] = "all"

\* How far the thread that closes a sound got with it.
CloseInv ==
  \A t \in Threads :
    LET s == thread[t].sound IN
    /\ thread[t].at = "halt" => device[s] = "running"
    /\ thread[t].at = "closeDevice" => device[s] \in {"running", "halted"}
    /\ thread[t].at = "closeDecoder" => device[s] = "closed" /\ decoder[s] = "open"
    /\ thread[t].at = "notify" => device[s] = "closed" /\ decoder[s] = "closed"

\* Device, decoder and map entry of a sound agree, unless one closes it now.
SoundInv ==
  \A s \in Sounds :
    /\ device[s] = "none" => s \notin playing /\ wired[s] = "unset"
    /\ device[s] \in {"running", "halted"} => decoder[s] = "open"
    /\ s \in playing =>
         \/ device[s] \in {"running", "halted"} /\ wired[s] = "all"
         \/ \E t \in Threads : HasSound(t, {"closeDecoder", "notify"}, s)

\* While nothing moves it the decoder is where the progress says, or a period behind: what
\* the callback read before it moved the decoder counts as well.  The progress lags by what
\* was read before play() had set playbackDevice, until the sound is sought or rewound, and
\* a seek that changed seekTo between its two reads leaves them apart until the next one
\* (audio.cpp:130-138, 264-286, 325-341).
ShownIsHeard ==
  \A s \in Sounds :
    callback[s] = "idle" /\ s \notin torn =>
      progress[s].shown + missed[s] - (use.length - left[s]) \in {0, 1}

\* A seek stays flagged until it has moved the decoder, unless it was made while the
\* callback handled another or rewound the sound (audio.cpp:280-296, 326-341).
SeeksArePending == asked \ lost \subseteq seeking

\* Where decoder, progress and seeks are in the course of a callback.
ProgressInv ==
  \A s \in Sounds :
    LET at == use.length - left[s] IN
    /\ callback[s] = "read" /\ s \notin torn =>
         progress[s].shown + missed[s] + progress[s].got - at \in {0, 1}
    /\ callback[s] = "sought" /\ s \notin torn => at = progress[s].seekTo
    /\ callback[s] = "seeked" /\ s \notin torn => at = progress[s].frame
    /\ callback[s] = "rewound" => at = 0
    /\ Clears(s) /\ s \in asked => s \in lost
    /\ s \in torn => s \in use.sought

\* The inductive invariant: who may touch which part of a sound (audio.cpp:40-349).
IInv ==
  /\ TypeOK /\ ThreadInv /\ PlayInv /\ CloseInv /\ SoundInv
  /\ DecoderOpenInCallback /\ OpenIsOwned /\ ProgressInv /\ ShownIsHeard /\ SeeksArePending

\* A sound that has run out is reaped, even when its end was first posted while
\* play() had not yet entered it into the map and that job found nothing
\* (audio.cpp:115-140, 247-262, 336-347).
EndIsReaped ==
  \A s \in Sounds :
    (s \in playing /\ device[s] = "running" /\ left[s] = 0)
      ~> (s \notin playing \/ s \in paused \/ s \in repeat \/ s \in seeking \/ left[s] > 0)

\* Every call into Audio returns: closing a device waits for its callback with
\* the mutex held, so the callback must never want it (audio.cpp:143-206, 311-349).
CallsReturn == \A u \in Users : thread[u] # Idle ~> thread[u] = Idle
================================================================================
