# Soundux, modelled and checked

This directory holds TLA+ models of Soundux, the soundboard with its web remote, TLC
configurations that check them on small instances, and TLAPS proofs of what matters most
for every value of the constants. Paths below are relative to the repository.

## The system

Soundux is one process with many threads and a good deal of state that none of them owns:

| thread | started in | calls |
|---|---|---|
| window (main) | `main.cpp`, `webview.cpp` | every operation of `Window` through functions exposed to the page; tray menu; the saves at the end |
| hotkey listener | `hotkeys.cpp`, `linux/x11.cpp`, `windows/windows.cpp` | `playSound`, `stopSounds()` |
| key presser (Windows) | `windows/windows.cpp` | presses the push-to-talk keys again and again |
| queue handler | `helper/queue/queue.cpp` | `Audio::stopAll`, `Audio::onFinished` |
| one device thread per playing sound | miniaudio | `Audio::data_callback` |
| HTTP pool | `helper/webserver/webserver.cpp` | play, stop, global pause, talk-through, edits of sounds, login (which saves) |
| shutdown guard | `main.cpp:185`, after a main loop; a second instance, which returns at once (78), has none | ends the process after five seconds |

| component | state | operations | hard behaviour | correct when |
|---|---|---|---|---|
| job queue (`helper/queue`) | map of jobs by id, stop flag | `push_unique`, `handle`, destructor | two critical sections per push, notification outside the lock, stop without the lock | no accepted job is lost, doubled or starved; the destructor returns unless its notification comes between test and wait |
| audio engine (`helper/audio/audio.cpp`) | map of playing sounds; device, decoder, flags of each | play, pause, resume, repeat, seek, stop, stopAll, onFinished, data callback | callbacks without a lock, device started before the sound is known, three ways to close a sound | nothing closed is read, nothing is closed twice, nothing open is forgotten, ended sounds are reaped, calls return |
| window (`ui/ui.cpp`) | local/remote pairs; settings; through the OS: keys held, microphone muted | playSound, pause, resume, stop, stopSounds, toggle, changeSettings, ends of sounds | held keys and microphone are not counted but set and cleared at many places | held exactly while something plays |
| global pause and talk-through (`webview.cpp`) | two flags, noted ids | toggleAllPlaybackState, startTalkThrough, stopTalkThrough | several steps without a lock, called from the HTTP pool | they exclude each other, resume what they paused, leave nothing held |
| sound library (`core/objects/data.cpp`, tab operations of `ui.cpp`) | two copies of the tabs (`gData`, `gConfig.data`), maps of references by id | add, remove, refresh, move tabs; edits; favorites; save, load | the maps refer to whichever copy was set last; refresh reads and writes back in two steps | maps agree with tabs, ids keep their files, edits survive |
| config file (`core/config`) | file, temporary file | save, load | crash during a save, savers that overlap, a rename that fails and is replaced by a copy in place | whole, unless saves overlapped or a copy was cut off, and mended by the next save that is alone |
| hotkeys (`core/hotkeys`) | pressed keys, keys to press, recording flag | onKeyDown, onKeyUp, pressKeys, releaseKeys, shouldNotify, matching | own synthetic keys come back as events; listener, window and queue press and release without a lock | best match, own keys fire nothing, keys are pressed when wanted and let go when not |
| web server (`helper/webserver`) | PIN, token set, a copy of it in the settings | login, logout, reset, authenticated requests | copies of the tokens diverge | an answered login lives until it is ended |
| PulseAudio routing (`pulseaudio.cpp`) | modules, moved streams, default source | load, inputSoundTo, passthroughFrom, useAsDefault, revert | partial failure, external changes | what was moved is moved back |
| PipeWire routing (`pipewire.cpp`) | nodes, ports, links | registry callbacks, linkPorts, stop* | announcements heard late and nested, ids that name something else by then | every link is on record, ends in silence, and is our own |
| remote's page (`helper/webserver/html/js`) | tracked sounds, cards, talk button | plays, stops, polling, talk | answers late or lost, in any order | what is shown is tracked, starts and ends are heard, polling ends |
| Windows audio (`audio/windows/winsound.cpp`) | the microphone, the device it is wired to, what was set before the mute | setup, setupVBCable, muteInput, and the window's calls | every operation on a device may fail; the set-up changes the microphone while sounds play | muted exactly while sounds play; a set-up that reports success is wired |
| library forwarding, icons, files, version, base64, ytdl stub | – | – | – | not modelled: I/O, conversions |

## Modules

| module | models | instance for TLC | proofs |
|---|---|---|---|
| `CoalescingQueue` | what the job queue promises (abstract) | through `JobQueue` and `AudioEngine` | |
| `JobQueue` | `queue.cpp` and `main.cpp`'s guard | `MCJobQueue` | `JobQueue_proofs` |
| `AudioEngine` | `audio.cpp`, with the queue by its promise (`INSTANCE CoalescingQueue`) | `MCAudioEngine` | `AudioEngine_proofs` |
| `PlaybackControl` | `ui.cpp` (Linux) and the toggles of `webview.cpp` | `MCPlaybackControl` | `PlaybackControl_proofs` |
| `SoundLibrary` | `data.cpp`, tab operations, save and load | `MCSoundLibrary` | `WebServer_proofs` |
| `ConfigStore` | `config.cpp`: the steps of a save, used by `RemoteSessions` | `MCRemoteSessions` | with it |
| `RemoteSessions` | the copies of the token list (`webserver.cpp`, `ui.cpp`, `main.cpp`) over `ConfigStore` | `MCRemoteSessions` | `WebServer_proofs` |
| `PulseRouting` | `pulseaudio.cpp` under the window's calls | `MCPulseRouting` | `PulseRouting_proofs` |
| `PipeWireLinks` | `pipewire.cpp` under the window's calls | `MCPipeWireLinks` | `PipeWireLinks_proofs` |
| `RemotePage` | the playing sounds and the talk button of `app.js`, over the endpoints of `webserver.cpp` | `MCRemotePage` | `WebServer_proofs` |
| `HotkeyMatching` | the choice of a hotkey (`hotkeys.cpp`) and what it should choose | `MCHotkeys` | `Hotkeys_proofs` |
| `Hotkeys` | listener, recording and push-to-talk keys, on Linux and on Windows, with the calls of the window | `MCHotkeys` | `Hotkeys_proofs` |
| `WinSound` | `winsound.cpp` under the window's calls on Windows | `MCWinSound` | `WinSound_proofs` |

Five modules have a variable that is chosen in `Init` and never changes (`mode`, `use`, `usage`,
and `case` twice): it says which calls are made and which bounds hold, so that one run covers
several ways of use, each small enough to be explored whole. Properties name the ways they
are about.

**JobQueue.** A step is what happens under one hold of `queueMutex`, except that testing the
wait predicate and blocking are two steps, because the destructor does not take the mutex.
`handler.at` follows `Queue::handle` line by line, `push[p]` follows `push_unique`. Any id may
be pushed again: stopAll is pushed under 0 as often as anyone likes, and the end of a sound,
under its device's address, until its job finds the sound. `second` is an instance that finds
another one running: `main` returns from line 78, without a guard thread and without anyone who
would push.

**AudioEngine.** `device`, `decoder` and `callback` stand for what miniaudio does: stopping
or closing a device waits for the callback under way, and no callback starts afterwards.
The mutex of `playingSounds` is a state function of where the threads are. The data of a
sound is a number of periods. A seek stores `seekTo` and then `shouldSeek`; the callback reads
the flag, reads `seekTo` once for the decoder and once for the progress, and clears the flag,
each in a step of its own. `play` stores the fields of a sound while its device runs already, so
`wired` is how far it got (nothing, the decoder, all of them): a callback in between reads
frames that no progress counts, and `missed` remembers how many. The run has two uses: two
sounds of one period, one of them repeated, that nobody seeks in, and one sound of two periods
with seeks. `readInMs`, which the code renews every half second,
is taken as `readFrames`. Volumes are left out.

**PlaybackControl.** `world` is what the operations act on: playing and paused sounds, the
pairs, keys held, microphone muted. `playSound` and the two toggles are several steps, since
they touch the keys or the microphone at one time and the sounds at another. `pauseSound`,
`resumeSound` and `toggleSoundPlayback` find the sounds first and then take the local and the
remote one in a lock hold each: `hand[u]` is what such a call of `u` has left to do, and `apart`
remembers the pairs that were set by halves, by the play's own id or across the opposite call. The
other operations are one step. In a mode with `atomic` a call ends before the next begins, in the
others they interleave. The modes are the window (`Desk`), the remote (`Web`), plays that
interleave (`Threads`), and pauses and resumes of one pair that cross (`Crossing`). The tray's switch of the muting is an action of its own, for it
writes the setting before `changeSettings` compares it. The backend's routing is left out but
for the one case where `playSound` undoes itself because no output took the sound.

**SoundLibrary.** `data["gData"]` and `data["gConfig"]` are the two copies, `index` and
`favorites` say for an id to which copy the entry of `gSounds` and `gFavorites` refers.
`wanted` is a history variable: what the user last chose. `deleteSound` is a change of the
files like any other; the tab learns of it at the next refresh. A login saves in the HTTP pool
while the window goes on, so that save is taken apart: the copy of the tabs, the clearing of each
map, the entry of each sound and each favorite, and the writing. `crossed` remembers the sounds
that came or went meanwhile, until the maps are built anew. One such save is under way at a time,
and none while the window closes.

**ConfigStore and RemoteSessions.** Names (`path`, `temp`) and files (`text`) are two things: a
saver goes on with the file it opened under whatever name that file has by then. A save is
opening, writing and renaming the temporary file; if the rename fails, opening both files,
copying one over the other and removing the temporary name. The program may end before any of
these steps, each may fail, and saves overlap at will. `crossing` holds the threads whose save
overlaps another, and `marred` says that what is at `path` comes from such a save or from a copy
that has not come to its end; the next save that is alone ends that.
The tokens are kept five times: in the server (`valid`), in the settings (`authorized`), in
the page's copy of the settings (`page`), in the file, and with the devices (`cookie`).
A failed save is swallowed, as in the code, and one whose rename and copy both fail is even logged
as a success (`remove` clears the error): for the model it failed. `lost` remembers the tokens
that failed saves concern, and those missing in a marred file when the program ends.
`logout` never finds its token, so it ends a session only at the device. Stopping the web
server waits for its pool, because the future of `std::async` waits in its destructor.

**PulseRouting.** A call of the window is one step. The server's modules, the device of each
stream, the default source, and the fields of the backend are one record, `pulse`. The id of
the loopback module and the index of its stream are two things, as in the code, where a
switch of the default renews the first only. Loading a module and moving a stream may fail,
setting the default succeeds; modules of other programs are not modelled. `stopSounds()` leaves
the stopping to the queue: `stopping` says that a `stopAll` is queued, which silences whatever
plays when it runs, also what was played since, and moves nothing back.

**PipeWireLinks.** `events` are the announcements not yet heard. `Heard` is what `sync` makes
of them: the handlers are nested, so the announcements are begun in order and finished in the
opposite order (`Begun`, then the parts after the nested syncs). At set-up what there is may be
announced in any order. Ids are given once or, in a case of its own, given again. A stream has
at most one port, and the two ports of the sink count as one. `stopping` is a queued `stopAll`,
as in `PulseRouting`.

**RemotePage.** A handler of the page runs to its first `await`; what follows it runs when the
answer is there. `net` holds the requests under way, which are handled and answered in any
order and may fail before or after they were handled. Whether a sound is paused is left open.

**HotkeyMatching and Hotkeys.** The first translates how `Hotkeys::onKeyDown` looks for the
stop hotkey and for a sound among those shown, and states beside it what a user would expect:
an exact match before a longest match, the first sound of the list among equals. The second is
the rest: `events` is the queue of the window system, through which the user's keys and the
program's own come to the listener; `todo` holds, for the three threads that press and release
keys, what their call of `playSound`, `stopSounds` or the end of a sound has left to do. One
change of the vectors `pressedKeys` or `keysToPress` is one step. On Linux a key is pressed
once; on Windows the presser goes round while there are keys to press (`round`). `usage` is one
of seven: chords of three keys in both views (`Matching`), the recording of a hotkey with
(`Interfering`) and without (`Recording`) somebody acting meanwhile, threads that stop each
other's sounds (`Racing`, `WindowsRacing`), changes of the settings and plays that fail
(`Changing`), and Windows (`Windows`). In a `patient` usage nobody acts before what was asked
for has been done and heard. `forgotten` and `strayed` are history: held keys that a recording
made the listener forget, and keys of the program that the code leaves pressed (see below).

**WinSound.** `windows` is the world (which devices are there, which are listened to, through
what, and whether a cable is installed) with `muted` beside it; `mic` and `mute` are the window's
microphone and setting, `answer` and `unheard` what the last set-up told and what it did. Every
call to Windows may fail. Sounds are played and ended in the steps in which `ui.cpp` mutes and
opens them; `astray` holds the devices that the code leaves muted or open against the sounds,
each for a reason listed below, and the property speaks of the others. A machine without an
enumerator and the read of an absent destination (`winsound.cpp:65`) are left out.

## Runs

| run | constants | checks | states |
|---|---|---|---|
| `MCJobQueue` | ids 0..2, 0 pushed for ever, two pushers; a second instance | `IInv`, `AcceptedJobsRun`, `ShutdownEnds`, refinement `CoalescesRequests` | 39k |
| `MCAudioEngine` | two sounds of one period, one of them repeated, or one of two periods with seeks; one user, the queue thread | `IInv`, `ShownIsHeard`, `SeeksArePending`, `EndIsReaped`, `CallsReturn` | 569k |
| `MCPlaybackControl` | two plays, two users; at the desk, from the remote, interleaving, one pair's pauses and resumes crossing | `HeldWhilePlaying`, `QuietWhenIdle`, `PausedWillResume`, `PairsStayTogether`, `JobsTakeEffect` | 679k |
| `MCLibrary` | two folders, three ids, restarts; with and without logins, whose saves go on beside the window, and web edits | `LibraryInv` (types, maps agree with tabs), `EditsSurviveAtDesk`, `IdKeepsFile` | 4,988k |
| `MCPulseRouting` | an application that records, one with two streams, two loopbacks, one failing stream per call, two sounds, queued stops | `OneLoopback`, `MuteIsUndoable`, `RecordedOrExcused`, `InputsReturnWithSilence` | 267k |
| `MCPipeWireLinks` | three programs; fixed streams, changing streams, ids given again; queued stops | `KnowledgeInv` (types, what is known of the server), `LinksRecorded`, `LinksReachTheirApp`, `SilenceUnlinks`, `PassthroughKept` | 1,106k |
| `MCRemoteSessions` | two savers that overlap, fail and copy in place, three files, two devices, two tokens | `ConfigWhole`, `LoginIsDurable`, `ExitSavesSessions` | 11,917k |
| `MCRemotePage` | one sound, four instances of it, two requests under way | `PageInv` (types, what is shown is tracked), `PollingCatchesUp`, `PollingGivesUp` | 240k |
| `MCHotkeys` | three sounds, two hotkey keys, two push-to-talk keys, seven usages | `ListenerInv` (types, the listener follows the user), `OwnKeysFireNothing`, `KeysAreLetGo`, `BestHotkeyFires`, `WantedKeysGoDown` | 633k |
| `MCWinSound` | two microphones and the cable's device, two sounds | `MuteFollowsSounds`, `SetupTellsTheTruth`, `RealMicFirst` | 5,333k |
| `MCForgottenLogin` | one device, two tokens, saves that succeed, one after the other | **violation** of `RememberedUntilReset` | |
| `MCRemoteTalkStuck` | no failures but the order of requests | **violation** of `ReleaseStopsTalk` | |

Type invariants that no run lists are proved instead (`PlaybackControl`, `PulseRouting`,
`RemoteSessions`, `WinSound`) or part of an `IInv`.

Why the bounds are enough. Two pushers are enough for both to pass the look-up of
`push_unique`; three ids give the running job a smaller and a larger competitor. Two sounds
let `stopAll` go on from one to the next while the other one ends. Two plays are enough for
one to be stopped by the other (`allowOverlapping` off), to overlap it, and to be left over.
Two folders and three ids let a tab be removed, added again and given new ids beside another.
With two devices and two tokens one is remembered while another logs in, is reset, or has its
save overlapped. Three files are one called `path`, the temporary one, and one that a saver still
has open without a name; devices differ in their cookies only, so they are symmetric. Two sounds
are one a queued stop was meant for and one played since.
Two loopbacks are the one of the setup and its successor; a crash and the next start reach
the case of left-overs. With five ids and two announcements unheard a PipeWire port is
renewed while its old id is still on record and linked; with ids given again three are enough
for a link to get the id of another. Four ids on the page are two plays of one sound, each
with a local and a remote instance; two requests cross. Five failures in a row are two in the
model (`MaxErrors`): what matters is that one success in between forgets the first. Four strokes
press a chord of three keys and let one go, or hold a hotkey, add a key and let both go; two
plays are one that stops or overlaps another; three events on their way let a synthetic key
pass between a press and a release of the user. Two microphones are the one that was chosen
and the one chosen next, and the third device is the cable.

Fairness. `JobQueue` and `AudioEngine` assume weak fairness of every thread that can run, as
the thread library gives it, and strong fairness where a thread waits for a mutex that is
free again and again. In `JobQueue` these are the handler, a pusher with its notification to
give, and the destructor's two steps; nothing rests on the guard, and `ShutdownEnds` supposes
that the pushes come to an end. `PlaybackControl` assumes that the queue runs every accepted job, which
is `AcceptedJobsRun` of `JobQueue`. `RemotePage` assumes that the pool handles what it was
sent and that the browser hears the answer or gives up (weak, per request), and that the
interval of the page fires while it polls; this is strong fairness only because the model's
bound on requests under way may disable it in between. `Hotkeys` assumes that the threads go on
with a call they have begun, that the window system delivers events, and that the presser goes
on with its round. Nobody is assumed to call, push, tap, press or quit.

`CHECK_DEADLOCK` is switched off in `MCHotkeys` only: once the user has made the strokes of the
usage and its sounds have ended nothing more happens. `JobQueue` has an explicit stuttering step
for the process that has ended, the other systems can always be called again.

## Proofs

| module | theorem | states |
|---|---|---|
| `JobQueue_proofs` | `QueueInvariant` | `Spec => []IInv` |
| | `NoWakeupIsLost`, `StoredFunctionsStay`, `HandlerDrainsFirst` | no wakeup is lost, no stored function replaced, no job left behind at a stop |
| | `QueueCoalesces` | `JobQueue` implements `CoalescingQueue` |
| `AudioEngine_proofs` | `EngineInvariant` | `Spec => []IInv` |
| | `CallbackReadsOpenDecoder`, `SoundsAreClosedOnce`, `MapHoldsOpenSounds`, `DevicesStayInReach` | what callbacks read is open, nothing is closed twice, the map holds open sounds and every open device is in it or on its way |
| | `ProgressIsHeard`, `SeeksStayPending` | unless a seek is torn the progress shown, with what was read before `play` was done, is where the decoder is, or one period off; a seek stays flagged until the callback has taken it, unless one was made while the callback handled another |
| `PlaybackControl_proofs` | `TypeCorrect` | `Spec => []TypeOK`, for any interleaving |
| | `Serial`, `TalkAndPauseApart`, `PausedSoundsResume` | for calls one at a time (`mode.atomic`) |
| | `HoldsFollowSounds`, `NothingLeftHeld` | `HeldWhilePlaying` in `DeskUse`, `QuietWhenIdle` in `WebUse`: calls one at a time, none of which fails, keys (and muting) left as configured |
| | `PairsAreKept` | `PairsStayTogether` for any interleaving of the calls' lock holds and the queue, without the remote's toggles (`NoToggles`) |
| `WebServer_proofs` | `TypeCorrect` | `Spec => []TypeOK`, however saves overlap |
| | `SessionInvariant`, `FileStaysWhole`, `LoginsAreDurable`, `DevicesAreRemembered`, `ExitIsSaved` | of the sessions, however saves overlap, fail, copy in place or are cut off: what is not `marred` is whole and has every answered login |
| | `LookupsFind`, `IdsKeepTheirFile`, `ChoicesAreSaved` | of the library: the maps find what the tabs hold, also entry by entry while a login saves, an id keeps its file, the choices made at the desk are those in the file |
| | `ShownCardsAreTracked` | `PageSpec => []PageInv`, for any sounds, requests under way and ids |
| `Hotkeys_proofs` | `HeldKeysHaveAReason`, `KeysGoUp` | every key the program holds has a sound, an opening sound or a release on its way; in quiet none is held but for the reasons the property names |
| | `ListenerTracksTheUser`, `SearchFindsMeant`, `TheBestHotkeyFires` | the listener holds what the user holds; the search ends at the sound that is meant, for any list, hotkeys and held keys; and that sound is played |
| | `OwnKeysAreIgnored` | while calls do not cross no key of the program fires a hotkey |
| `WinSound_proofs` | `MicInvariant`, `MicFollowsSounds`, `SetupIsBelieved`, `StartsWithARealMic` | `Spec => []TypeOK`, and the three properties of the run |
| `PulseRouting_proofs` | `PulseTypes`, `AtMostOneLoopback`, `MutedCanBeUnmuted` | types, one loopback, a muted one can be unmuted, for any streams, faults, crashes and restarts |
| | `NoStreamIsForgotten`, `SilenceReturnsInputs` | a stream on a sink is on record with its application or excused; the last sound or passthrough to go moves the inputs back, but for a late `stopAll` and a passthrough that fails |
| `PipeWireLinks_proofs` | `LinksStayRecorded`, `SilenceEndsAllLinks` | every link is on record, and none is left in silence but by the same two, for any streams, announcements and failures |
| | `NewsIsUnderstood`, `LinksFindTheirApp`, `PassthroughIsKept` | once all is heard every node and its port are known; unless ids are given again a link joins the sink with its own application, and a passthrough loses its links with their ports only |

*JobQueue.* `NoLostWakeup` is not inductive: the handler blocks after its test, so the map
must be known to be empty in between (`BlocksOnEmpty`), which holds because pushers need the
mutex; and the erasure is harmless only because the running id is still in the map
(`RunningIdReserved`). The refinement needs the same invariant: starting is the step in which
the handler moves a job out of its entry, finishing is the erasure.

*AudioEngine.* The invariant says for every thread how far it got with its sound (`PlayInv`,
`CloseInv`), that only one of them is inside the mutex (`ThreadInv`), and for every sound that
device, decoder and map entry agree unless a thread is closing it just now (`SoundInv`). The
progress needs to know what `play` has stored: the callback of a device without its decoder does
nothing, one without its `playbackDevice` reads and counts nothing, so what is shown and what
was missed together are what was read.

*PlaybackControl.* In an atomic mode at most one thread is inside a call; what the pending call
will do is part of the invariant, e.g. that the sounds a toggle has paused are already noted.
What is held follows what plays only between calls: inside `playSound` keys and microphone are
taken before a sound is there (`HeldInv`), and what a toggle will take back must still have a
sound to be taken for (`QuietInv`). Pairs stay together because a play that is still to open or
to group its sounds is a new one (`PendingInv`). A thread halfway through a pair has set the
local sound and will set the remote one to the same, whatever its partner does meanwhile, unless a
thread halfway through the opposite call undoes it; then the pair counts as apart. With the toggles in between they need not: an id
noted before its play was grouped is resumed without its partner.

*RemoteSessions.* That the file is whole is not inductive, since a save renames what the temporary
name stands for. The invariant (`StoreInv`) speaks of a save that overlaps none: it is alone, and
the temporary file is what it made of it so far (`AloneOK`); what overlapping saves or an unfinished
copy leave is `marred` (`Marring`). That a cookie's token is in the file needs more: the next save
must write it too, so every answered token is also in the settings and in what a lone save
writes, until it is reset, overwritten or lost (`CookiesSafe`, `LoginsSafe`). The last save of an
exit is alone, because `main` has waited for the pool (`LastSave`). So nothing is assumed of how
saves meet, and the theorems say what such a meeting may cost and for how long.

*SoundLibrary.* That an id keeps its file needs every copy of the library, the file's among
them, to number its sounds up to its counter (`AllNumbered`), so that a new id is new, and what
`refreshTab` holds between its two steps to be fit to take the tab's place: none of its sounds is
in another tab, and those the tab had are the same files (`RefreshOK`). The choices need both
directions of a restart: a closed program has saved what it had (`ClosedOK`), and a sound of no
tab has no choices to lose (`WantedOK`). At the desk the maps refer to `gData` (`DeskOK`); with
logins they do not, which is where the edits are lost. That folders and files are finite
(`FilesAssumption`) is needed for a scan to number them. While a login saves, `SavingOK` says where
each map stands: a sound still to be entered is not in it, one that was entered refers to the copy
just made, and only between the copying and the clearing may an entry be dead.

*RemotePage.* A play's answer may come after reports that were sent later, so it may name an id
that the page tracks or has forgotten. A shown card stays tracked only because an id belongs to
one sound for good: the invariant (`PageWholeInv`) says that what plays, what the page tracks and
what any answer under way tells agree with one map from the ids given so far to their sounds.
Each handler of the page then keeps a right page right, which is one lemma each (`HeardRight`,
`FinishedRight`, `PlayedRight`).

*Hotkeys.* "No key is held in quiet" is not inductive, since a key goes down and up in threads
that know nothing of each other. The invariant (`KeysAreExplained`) gives each held key a
reason: a sound that plays, a call that is still to open one or to release the keys, an end
that is queued, or one of the ways in which the code leaves a key (`strayed`). Each step either
keeps a key's reason or replaces it by the next one on its way to the release.

What the listener holds follows the user with a delay, so its invariant speaks of what the user
held after each event still on its way (`Trail`): `pressedKeys` is the hand at the first of them,
the keyboard the one at the last, and neither push-to-talk keys nor those a recording forgot are
counted. The search of `getBestMatch` is a recursive function over the list; that it ends at
the reference's choice is proved from the least length at which it would not, which needs no
induction rule (`SearchFindsMeant`). The proof attempt found that the first translation of the
loop's body, a `CASE` with overlapping guards, did not say which of them goes first; it is
an `IF` now. The stop hotkey is tested by its length and its members, so the theorem needs it
to be a recording of held keys, with no key twice (`UsagesAssumption`). Own keys are harmless in a
patient use because their presses are on their way only while `keysToPress` names them and
only an opening is left to do (`Tame`).

*WinSound.* `MuteInv` says where each call is between muting and opening its sound, so that the
microphone is muted exactly while a sound plays or is about to.

*PulseRouting.* One loopback is inductive together with two facts: a muted loopback is the one
whose stream the backend knows, and an instance that holds its modules back has none loaded.
The calls that move streams leave all of that alone, which is one lemma each (`Routes`).
That no stream is forgotten needs the other half (`RoutingOK`): without its sinks nothing is on
them nor recorded as having come from them, or the set-up, which forgets the excuses, would forget
a stream, and without a backend nothing is recorded. The silence is a property of steps: of the
calls, ends and stops that leave nothing playing each is followed to the moves it makes, and the two
that make none are named (`MovedForNothing`). Each call then either moves a stream and
records it, moves it back and forgets it, or fails and excuses its application.

*PipeWireLinks.* The record of links is inductive as it stands; the lemmas say it of each part
of a call, and that stopping the inputs or the passthroughs empties their record. A link that is
on record in an empty record does not exist, which gives the silence after every step but the two
that `LinkedForNothing` names.

What the backend knows is late by the announcements it has not heard, so the invariant
(`WholeInv`) speaks of what it will have begun to handle once it hears them: those nodes are
exactly the server's, and the port of each is at its node or waits for the end of its handler.
That nothing is lost in between is `HeardIs`: the nested handlers are two recursive functions
over the announcements, and however they end, each port announced and not taken back is at its
node if that is there. The lemma `BegunReaches` takes the place of an induction rule: if every
announcement leads from one set to the next, the last set is reached. Links then need two more
facts, both only while ids are not given again: an id held for a stream was given to no port of
another, were it long gone (`Truthful`), and an id on record was given to no link of another name
(`OwnIds`), which is why a stop by stale ids destroys nothing of anybody else's. The streams must
be finite and the first ports fit the ids (`StreamsAssumption`, `BoundsAssumption`).

Assumptions are the named `ASSUME`s of the modules and nothing else.
Liveness is checked by TLC alone (fairness and `ENABLED` are beyond the proof system). Induction
rules over data are beyond it too; where a recursive function must be followed the proofs take
the least number at which a claim would fail (`SearchFindsMeant`, `SetOfAllNumbers`). So every
invariant and every action property of a passing run is proved, for the use its theorem names;
checked and not proved is the liveness.

## What the violation runs show

* **A login is forgotten** (`MCForgottenLogin`). README.md:38 promises that a device is
  remembered. `changeSettings` assigns the page's copy of the settings, token list included,
  and nobody tells the page of a login: the next change of any setting drops the token.
* **The talk button sticks** (`MCRemoteTalkStuck`). README.md:54 says "Release to stop PTT and
  resume sounds/mic state." When the last tracked sound ends while the button is held, the page
  ends its polling and with it forgets that the button is pressed (`app.js:1351`, `1530`); the
  release then asks for nothing (`272`).

## Known behaviours

What the models show and no listed property excludes; where a property is false for such a
reason it is stated for the other cases, or the definition is kept beside the checked ones.

* **A deferred stop overtakes a play** (`MutedOnlyWhilePlaying` in `PlaybackControl`, false when
  calls interleave; the same in `WinSound`). `stopSounds()` calls `onAllSoundsFinished` at once
  and leaves `stopAll` to the queue (`ui.cpp:506-518`). A sound played in between mutes the
  microphone and presses the keys again and is then closed by that `stopAll`, which tells nobody.
  On Windows every play that may not overlap stops the others this way (`286`).
* **A deferred stop leaves inputs moved and links in silence.** The same `stopAll` closes a sound
  played since, whose inputs were moved (`PulseRouting`) or whose outputs were linked
  (`PipeWireLinks`), and nobody moves or unlinks them until the next sound ends. A `startPassthrough`
  that fails after its inputs or outputs were done leaves them, too (`ui.cpp` undoes neither).
* **A second instance may hang** (`ShutdownEnds` in `JobQueue` has the exception). It returns from
  `main.cpp:78` and waits in `~Queue` for the handler; if the notification, which takes no lock,
  falls between the handler's test and its wait, the handler sleeps on, and the guard thread that
  would end the process (185) was never started. The first instance is ended by its guard.
* **Opposite calls part a pair** (`apart` in `PlaybackControl`). Pause and resume take the local and
  the remote sound in two lock holds (`ui.cpp:357-361`, `390-394`), and the remote's requests run in
  threads of their own: crossing, they leave one sound playing and its partner paused, until
  the next whole call.
* **Saves that meet** (`marred` in `ConfigStore`). `Config::save` has no lock and one name for the
  temporary file: two at once may leave a part or an older text in place until the next save that is
  alone. A copy in place after a failed rename (`config.cpp:65-71`) that is cut off leaves a part, with
  which the next start knows no login; one that fails is logged as success.
* **A login's save beside the window** (`crossed` in `SoundLibrary`). It empties and refills the maps
  of the sounds in many lock holds: a tab removed meanwhile has its sounds entered again, one added
  meanwhile loses its own, until the maps are built anew.
* **The progress starts late** (`missed` in `AudioEngine`). Periods read before `play` has set
  `playbackDevice` (`audio.cpp:133-136`) are never counted; the progress shown stays behind by them.
* **A login redirects edits** (`EditsSurvive` in `SoundLibrary`, false with logins). `Data::set`
  rebuilds the global maps to refer to the copy it fills. After `saveSettingsImmediately` that is
  `gConfig.data`, and what the user then edits is overwritten from `gData` by the next save.
* **Keys that stay pressed** (`strayed` in `Hotkeys`). The Windows presser finishes its round over
  keys that were released meanwhile (`windows.cpp:74-80`, `149-157`); with push-to-talk keys
  changed while they are held the new ones are released (`ui.cpp:942`); a play that fails leaves
  its keys pressed (`234`); an exit while a sound plays does too. On Linux a request to the X
  server may wait in the client's buffer until the listener asks for events.
* **Keys that are not heard.** Recording a hotkey forgets the keys that are held until they repeat
  (`hotkeys.cpp:26`); the user's press of a push-to-talk key that the program holds is swallowed.
* **Torn and lost seeks.** The callback reads `seekTo` twice and clears `shouldSeek` last: a seek
  stored in between may move the decoder to one place and the progress to another, or be cleared
  unheard. After a torn seek the progress may pass the length. A sound sought to its very end
  still ends; a repeated one that read nothing is rewound.
* **The microphone on Windows** (`astray` in `WinSound`). A set-up during a play changes the
  microphone or clears it: the old one stays muted, the new one open. `setupVBCable` of one
  microphone says yes if another is already wired. A failed set-up can leave a microphone
  listening at another output. An exit or crash while a sound plays, and an unplugged microphone,
  leave it muted. The user's own mute is undone by the end of the sounds. With outputs of which
  only one sound opened, `playSound` reports a failure and leaves that sound playing
  (`ui.cpp:318-323`); reads of an empty list of outputs and of an absent sound are undefined
  there (`305-328`) and not modelled.
* **The fallback to one output** (`ui.cpp:663`) is logged and applied to the streams, while the
  settings keep all outputs.

## What is not modelled

Volumes and other conversions of numbers; the enumeration of audio devices; the names of keys and
the left mouse button, which the listener ignores; data races on the vectors of the hotkeys
beyond the order of their changes; parallel
calls into one sound-server backend (their containers have no lock, so anything may happen);
two logins whose saves rebuild the maps of the sounds at once, or one beside the closing of the
window; the search for the web root, static files, translations, icons and version checks; tabs, edit mode and layout of
the page. Known behaviours that no property states: `movedApplications` and the link records
are changed by several threads without a lock; `destroy` unloads the index of a stream as if
it were a module's (`pulseaudio.cpp:168`); `passthroughFrom` reads an application before it
tests it (371); `changeSettings` to another backend does not take up the default source again;
`resume` ignores that a device did not start (`audio.cpp:233`); `readFrames` may pass the
length of a repeated sound (266); a page loaded while sounds play stops polling before its
first request (`app.js:1358`); an answer of `loadSounds` is shown whatever tab is current
(1000); the volume slider does not survive a default above 100 (`webserver.cpp:853`).

## Plan

Done so far: the core (queue, audio engine with seeking, window, library, sessions), both Linux
backends, the remote's page, the hotkeys and the Windows microphone. Left, in this order:

1. An abstract specification of the sessions (a set of remembered devices) implemented by
   `RemoteSessions`, and of what is held (keys, microphone) implemented by `PlaybackControl`
   and `Hotkeys`.
2. The PIN and the check of requests in the web server; the volume conversion against its
   inverse.
3. Tabs of the page and late answers of `loadSounds`.
