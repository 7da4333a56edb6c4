------------------------------ MODULE RemotePage ------------------------------
(***************************************************************************)
(* A page of the remote (src/helper/webserver/html/js/app.js) that follows *)
(* the sounds of the program through the endpoints of                      *)
(* src/helper/webserver/webserver.cpp.                                     *)
(*                                                                         *)
(* The handlers of the page run to their first await; what follows runs    *)
(* when the answer is there, on whatever the page is by then.  Requests    *)
(* are handled by a pool of threads and answered in any order, and any of  *)
(* them may fail before or after it was handled.  The page is loaded again *)
(* at any time, and the desk plays and ends sounds too.                    *)
(*                                                                         *)
(* Whether a sound is paused is left open: an answer says whether some     *)
(* sound goes on.  So the play/pause button, which changes nothing on the  *)
(* page, does nothing here.                                                *)
(***************************************************************************)
EXTENDS Naturals, FiniteSets, FiniteSetsExt

CONSTANTS
  Sounds,     \* the sounds there are
  MaxPlay,    \* bound: ids of playing sounds in any case
  Watched,    \* bound: the ids that liveness is checked for
  Slots,      \* bound: requests under way at a time
  MaxErrors,  \* soundProgress.maxErrors
  Cases       \* the cases considered: what may happen, and the bound on ids in it

Events == {"desk", "stop", "talk", "reload", "network", "refusal"}
ASSUME PageAssumption ==
  /\ MaxPlay \in Nat /\ Watched \subseteq 1..MaxPlay /\ MaxErrors \in Nat \ {0}
  /\ \A c \in Cases : c \in [may : SUBSET Events, ids : 0..MaxPlay]
  /\ Slots \subseteq Nat /\ Sounds \cap {"poll", "stop", "talk", "quiet"} = {}

VARIABLES
  case,     \* the case considered: never changes
  player,   \* [playing : id |-> sound, last : the last id given, talk : talk-through is on]
  net,      \* the network: slot |-> the request under way, or NoRequest
  remote,   \* the page: [tracked : activeSounds, id |-> sound; current : currentlyPlaying, sound |-> id;
            \*  polling, errors, unpaused : isAnythingPlayingUnpaused,
            \*  pressed : isTalkThroughButtonPressed]
  finger,   \* the talk button is held
  up        \* requests reach the program, and answers the page

pageVars == <<player, net, remote, finger, up>>

PlayIds == 1..MaxPlay
Empty == [x \in {} |-> x]
NoRequest == [state |-> "idle"]
Kinds == {"poll", "stop", "talk", "quiet"} \cup Sounds   \* a sound: play it

\* Maps from some of the ids.
Maps(ids, values) == UNION {[some -> values] : some \in SUBSET ids}

\* The answers: an id, or what plays and whether any of it goes on, or nothing to tell.
Reports == [playing : Maps(PlayIds, Sounds), any : BOOLEAN]
Requests ==
  [state : {"sent"}, kind : Kinds, mine : BOOLEAN]
    \cup [state : {"handled"}, kind : {"poll"}, mine : BOOLEAN, answer : Reports]
    \cup [state : {"handled"}, kind : Kinds \ {"poll"}, mine : BOOLEAN, answer : PlayIds \cup {0}]

Pages == [tracked : Maps(PlayIds, Sounds), current : Maps(Sounds, PlayIds), polling : BOOLEAN,
          errors : 0..MaxErrors, unpaused : BOOLEAN, pressed : BOOLEAN]

PageTypeOK ==
  /\ case \in Cases
  /\ player \in [playing : Maps(PlayIds, Sounds), last : 0..case.ids, talk : BOOLEAN]
  /\ net \in [Slots -> Requests \cup {NoRequest}]
  /\ remote \in Pages
  /\ DOMAIN player.playing \cup DOMAIN remote.tracked \subseteq 1..player.last
  /\ {finger, up} \subseteq BOOLEAN

FreshPage == [tracked |-> Empty, current |-> Empty, polling |-> FALSE, errors |-> 0,
              unpaused |-> FALSE, pressed |-> FALSE]

PageInit ==
  /\ case \in Cases
  /\ player = [playing |-> Empty, last |-> 0, talk |-> FALSE]
  /\ net = [k \in Slots |-> NoRequest]
  /\ remote = FreshPage
  /\ finger = FALSE
  /\ up = TRUE

-------------------------------------------------------------------------------
(* What the handlers of the page do between two awaits *)

Without(map, keys) == [x \in DOMAIN map \ keys |-> map[x]]
With(map, x, value) == [y \in DOMAIN map \cup {x} |-> IF y = x THEN value ELSE map[y]]

\* handleAllSoundsFinishedVisuals: the talk button goes up as well.
AllFinished(p) == [p EXCEPT !.unpaused = FALSE, !.pressed = FALSE]

\* stopProgressPolling.
StopPolling(p) == IF p.polling THEN AllFinished([p EXCEPT !.polling = FALSE]) ELSE p

\* stopAllSounds after its request, failed or not.
Cleared(p) == [p EXCEPT !.tracked = Empty, !.current = Empty]
Stopped(p) == AllFinished(StopPolling(Cleared(p)))

\* playSound after its answer, tracked under the id, and for its sound the last id.
Played(p, s, id) == [p EXCEPT !.current = With(@, s, id), !.tracked = With(@, id, s)]
NotPlayed(p, s) == [p EXCEPT !.current = Without(@, {s})]

\* startProgressPolling, if not polling: tracked is not empty, so a poll is sent at once.
Polls(p) == [p EXCEPT !.polling = TRUE, !.errors = IF p.polling THEN @ ELSE 0]

\* The answer to a play; a refused one holds no id.
PlayAnswered(p, s, failed, id) ==
  IF failed \/ id = 0 THEN NotPlayed(p, s) ELSE Polls(Played(p, s, id))

\* fetchSoundProgress after its answer.  First what plays is tracked, a sound without an
\* id under its first one.  Mutant: what is new is not tracked.
HeardOnly(p, playing) == p
Heard(p, playing) ==
  LET new == DOMAIN playing \ DOMAIN p.tracked
      named == {playing[id] : id \in new} \ DOMAIN p.current
  IN  [p EXCEPT !.tracked = [id \in DOMAIN @ \cup new |-> IF id \in new THEN playing[id] ELSE @[id]],
                !.current = [s \in DOMAIN @ \cup named |->
                               IF s \in named THEN Min({id \in new : playing[id] = s}) ELSE @[s]]]

\* Then what does not play is forgotten, and its sound with it.  Mutant: but for
\* its sound.
FinishedIdsOnly(p, playing) == [p EXCEPT !.tracked = Without(@, DOMAIN @ \ DOMAIN playing)]
Finished(p, playing) ==
  LET gone == DOMAIN p.tracked \ DOMAIN playing
  IN  [p EXCEPT !.tracked = Without(@, gone),
                !.current = Without(@, {p.tracked[id] : id \in gone})]

\* Last the state of the whole, and the end of the polling if nothing is left.
Reported(p, r) ==
  LET q == [Finished(Heard([p EXCEPT !.errors = 0], r.playing), r.playing) EXCEPT !.unpaused = r.any]
  IN  IF DOMAIN q.tracked = {} THEN StopPolling([q EXCEPT !.unpaused = FALSE]) ELSE q

\* A failed poll; the last one in a row gives up.  Mutant: it does not.
NotReportedForever(p) == [p EXCEPT !.unpaused = FALSE]
NotReported(p) ==
  LET q == [p EXCEPT !.errors = IF @ < MaxErrors THEN @ + 1 ELSE @, !.unpaused = FALSE]
  IN  IF q.errors = MaxErrors THEN AllFinished(Cleared(StopPolling(q))) ELSE q

-------------------------------------------------------------------------------
(* Requests *)

Sent(kind) == [state |-> "sent", kind |-> kind, mine |-> TRUE]
FreeIn(n) == {k \in Slots : n[k] = NoRequest}

\* n with a request more, if there is room for it.
Sends(n, kind) == /\ FreeIn(n) # {}
                  /\ net' = [n EXCEPT ![Min(FreeIn(n))] = Sent(kind)]

OnlyPage == UNCHANGED <<player, up>>

\* A tap on a card, on STOP.
TapSound(s) == Sends(net, s) /\ OnlyPage /\ UNCHANGED <<remote, finger>>
TapStop == "stop" \in case.may /\ Sends(net, "stop") /\ OnlyPage /\ UNCHANGED <<remote, finger>>

\* handleTalkThroughStart on pointerdown, handleTalkThroughEnd on pointerup or pointerleave.
PressTalk ==
  /\ "talk" \in case.may /\ ~finger /\ finger' = TRUE
  /\ IF remote.pressed THEN UNCHANGED <<net, remote>>
     ELSE Sends(net, "talk") /\ remote' = [remote EXCEPT !.pressed = TRUE]
  /\ OnlyPage
ReleaseTalk ==
  /\ finger /\ finger' = FALSE
  /\ IF remote.pressed THEN Sends(net, "quiet") /\ remote' = [remote EXCEPT !.pressed = FALSE]
     ELSE UNCHANGED <<net, remote>>
  /\ OnlyPage

\* The interval's call of fetchSoundProgress.
Tick ==
  /\ remote.polling
  /\ IF DOMAIN remote.tracked = {} THEN remote' = StopPolling(remote) /\ UNCHANGED net
     ELSE Sends(net, "poll") /\ UNCHANGED remote
  /\ OnlyPage /\ UNCHANGED finger

\* The page is loaded again: init, then checkForPlayingSounds once its tabs are there.
\* That tracks nothing yet, so the polling it starts ends before a request.
Reload ==
  /\ "reload" \in case.may
  /\ remote' = StopPolling([FreshPage EXCEPT !.polling = TRUE])
  /\ net' = [k \in Slots |-> IF net[k] = NoRequest THEN NoRequest ELSE [net[k] EXCEPT !.mine = FALSE]]
  /\ finger' = FALSE
  /\ OnlyPage

\* What a request's answer, or its failure, does to a page that waits for it.
Answers(p, kind, failed, answer) ==
  CASE kind = "poll"  -> IF failed THEN NotReported(p) ELSE Reported(p, answer)
    [] kind = "stop"  -> Stopped(p)
    [] kind = "talk"  -> IF failed THEN [p EXCEPT !.pressed = FALSE] ELSE p
    [] kind = "quiet" -> p
    [] kind \in Sounds -> PlayAnswered(p, kind, failed, answer)

\* The answer arrives; the one of a play that starts the polling sends a poll.
Answered(k) ==
  LET r == net[k]
      failed == ~up
      freed == [net EXCEPT ![k] = NoRequest]
  IN  /\ IF up THEN r.state = "handled" ELSE r.state # "idle"
      /\ remote' = IF r.mine THEN Answers(remote, r.kind, failed, IF failed THEN 0 ELSE r.answer) ELSE remote
      /\ IF remote'.polling /\ ~remote.polling THEN Sends(freed, "poll") ELSE net' = freed
      /\ OnlyPage /\ UNCHANGED finger

-------------------------------------------------------------------------------
(* The program *)

\* A play: a sound that is heard here and one for the others, and the others' end if
\* sounds must not overlap; or it is refused.
Starts(s) ==
  /\ player.last + 2 <= case.ids
  /\ \E before \in {player.playing, Empty} :
       player' = [player EXCEPT
         !.playing = With(With(before, player.last + 1, s), player.last + 2, s),
         !.last = @ + 2]

Handle(k) ==
  /\ up /\ net[k].state = "sent"
  /\ LET Tells(answer) == net' = [net EXCEPT ![k] = [state |-> "handled", kind |-> @.kind,
                                                     mine |-> @.mine, answer |-> answer]]
         kind == net[k].kind
     IN  \/ kind \in Sounds /\ Starts(kind) /\ Tells(player.last + 1)
         \/ kind \in Sounds /\ ("refusal" \in case.may \/ player.last + 2 > case.ids)
              /\ Tells(0) /\ UNCHANGED player
         \/ kind = "stop" /\ player' = [player EXCEPT !.playing = Empty] /\ Tells(0)
         \/ kind = "poll" /\ UNCHANGED player
              /\ \E any \in IF player.playing = Empty THEN {FALSE} ELSE BOOLEAN :
                   Tells([playing |-> player.playing, any |-> any])
         \* Ignored while everything is paused at the desk.
         \/ kind = "talk" /\ \E on \in {TRUE, player.talk} : player' = [player EXCEPT !.talk = on]
              /\ Tells(0)
         \/ kind = "quiet" /\ player' = [player EXCEPT !.talk = FALSE] /\ Tells(0)
  /\ UNCHANGED <<remote, finger, up>>

DeskPlays(s) == "desk" \in case.may /\ Starts(s) /\ UNCHANGED <<net, remote, finger, up>>
SoundEnds(id) ==
  /\ id \in DOMAIN player.playing
  /\ player' = [player EXCEPT !.playing = Without(@, {id})]
  /\ UNCHANGED <<net, remote, finger, up>>

NetworkTurns ==
  /\ "network" \in case.may
  /\ up' = ~up
  /\ UNCHANGED <<player, net, remote, finger>>

PageNext ==
  /\ \/ \E s \in Sounds : TapSound(s) \/ DeskPlays(s)
     \/ TapStop \/ PressTalk \/ ReleaseTalk \/ Tick \/ Reload \/ NetworkTurns
     \/ \E k \in Slots : Handle(k) \/ Answered(k)
     \/ \E id \in PlayIds : SoundEnds(id)
  /\ UNCHANGED case

PageSpec == PageInit /\ [][PageNext]_<<pageVars, case>>

\* The interval fires while the page polls, even if other requests took the last slot
\* in between: that bound is the model's.  The pool handles what it was sent, and the
\* browser hears the answer or gives the request up.  Nobody has to do anything else.
PageFairSpec ==
  /\ PageSpec
  /\ SF_pageVars(Tick)
  /\ \A k \in Slots : WF_pageVars(Handle(k) \/ Answered(k))

-------------------------------------------------------------------------------
(* Properties *)

\* A card that is shown as playing belongs to an instance that is tracked, of the same
\* sound, whatever plays of the same sound, reports and stops cross on the way: so the
\* report that the instance ended will clear the card.  A page that tracks nothing does
\* not show that something goes on: no late answer leaves the pause button behind.
ShownIsTracked ==
  /\ \A s \in DOMAIN remote.current :
       remote.current[s] \in DOMAIN remote.tracked /\ remote.tracked[remote.current[s]] = s
  /\ DOMAIN remote.tracked = {} => ~remote.unpaused

\* The invariant of the page as one.
PageInv == PageTypeOK /\ ShownIsTracked

\* As long as a page polls, an end is heard, whatever older answers come late, and a
\* sound that anyone started is tracked.
PollingCatchesUp ==
  \A id \in Watched :
    /\ (remote.polling /\ id \in DOMAIN remote.tracked /\ id \notin DOMAIN player.playing)
         ~> (id \notin DOMAIN remote.tracked \/ ~remote.polling)
    /\ (remote.polling /\ id \in DOMAIN player.playing)
         ~> (id \in DOMAIN remote.tracked \/ id \notin DOMAIN player.playing \/ ~remote.polling)

\* When the network is gone for good the page gives up instead of asking for ever.
PollingGivesUp == <>[]~up => <>[]~remote.polling

\* README.md:54: "Release to stop PTT and resume sounds/mic state."
ReleaseStopsTalk == ~finger ~> (finger \/ ~player.talk)
================================================================================
