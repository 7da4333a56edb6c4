----------------------------- MODULE PipeWireLinks -----------------------------
(***************************************************************************)
(* The PipeWire backend (src/helper/audio/linux/pipewire/pipewire.cpp)     *)
(* under the calls of the window (src/ui/ui.cpp).                          *)
(*                                                                         *)
(* The server announces the nodes of other programs and their ports; the   *)
(* backend hears of them only inside sync(), whose handlers call sync()    *)
(* again, and keeps them in a map of nodes.  Sound reaches an application  *)
(* over links that the backend makes from its sink to the ports it knows,  *)
(* and of which it notes the ids; a passed application is linked to the    *)
(* sink.  Links end when they are destroyed by id, when a port of theirs   *)
(* goes, and with the backend.                                             *)
(*                                                                         *)
(* Ports and links share one space of ids, and the server may give an id   *)
(* that became free to another object.  A stream is a node with at most    *)
(* one port; the two ports of the sink count as one.  A call of the window *)
(* is one step: what the server does meanwhile comes before or after it.   *)
(* Only the ends that stopSounds() without sync leaves to the queue come   *)
(* later (stopping).                                                       *)
(***************************************************************************)
EXTENDS Naturals, FiniteSets, Sequences, SequencesExt

CONSTANTS
  Apps,       \* applications, by the name of their binary
  Streams,    \* the nodes other programs may have
  AppOf,      \* [Streams -> Apps]
  Inputs,     \* the streams with an input port: programs that record
  MaxPlaying, \* bound: sounds playing at a time
  Cases       \* the cases considered: whether the server gives free ids again, the streams
              \* there may be, those there at first, the bounds on ids of ports and links
              \* and on announcements not yet heard

ASSUME StreamsAssumption ==
  AppOf \in [Streams -> Apps] /\ Inputs \subseteq Streams /\ IsFiniteSet(Streams)
ASSUME BoundsAssumption ==
  /\ MaxPlaying \in Nat
  /\ \A c \in Cases :
       /\ c \in [reuse : BOOLEAN, streams : SUBSET Streams, there : SUBSET Streams,
                 ids : Nat, events : Nat]
       /\ Cardinality(c.there) <= c.ids

NoPort == 0
Kinds == {"sound", "pass"}

VARIABLES
  server,   \* [nodes : those that exist, port : stream |-> the id of its port or NoPort,
            \*  links : Soundux's links, used : the ids ever given, kept if they are not given again]
  events,   \* announcements the backend has not heard
  known,    \* the map `nodes`: stream |-> the ids of the ports it holds for it
  record,   \* soundInputLinks, passthroughLinks: kind |-> app |-> ids of links
  outputs,  \* gSettings.outputs
  playing,  \* sounds playing
  phase,    \* "off" or "on"
  stopping, \* a stopAll of stopSounds() waits in the queue
  case      \* the case considered: never changes

vars == <<server, events, known, record, outputs, playing, phase, stopping>>

Ids == 1..case.ids
Link == [id : Ids, port : Ids, kind : Kinds, app : Apps]
Event == [type : {"node+", "node-"}, stream : Streams]
           \cup [type : {"port+", "port-"}, stream : Streams, id : Ids]

IdsOf(map) == UNION {map[a] : a \in DOMAIN map}
LinkIds(links) == {l.id : l \in links}
PortIds(s) == {s.port[n] : n \in Streams} \ {NoPort}

\* The server's part: ids are unique, a link's port exists.
ServerOK(s) ==
  /\ s \in [nodes : SUBSET Streams, port : [Streams -> Ids \cup {NoPort}],
            links : SUBSET Link, used : SUBSET Ids]
  /\ \A n \in Streams : s.port[n] # NoPort => n \in s.nodes
  /\ \A m, n \in Streams : s.port[m] = s.port[n] /\ s.port[m] # NoPort => m = n
  /\ \A k, l \in s.links : k.id = l.id => k = l
  /\ LinkIds(s.links) \cap PortIds(s) = {}
  /\ \A l \in s.links : l.port \in PortIds(s)
  /\ ~case.reuse => LinkIds(s.links) \cup PortIds(s) \subseteq s.used

TypeOK ==
  /\ ServerOK(server)
  /\ events \in Seq(Event)
  /\ DOMAIN known \subseteq Streams /\ \A n \in DOMAIN known : known[n] \subseteq Ids
  /\ DOMAIN record = Kinds
  /\ \A kind \in Kinds : DOMAIN record[kind] \subseteq Apps /\ IdsOf(record[kind]) \subseteq Ids
  /\ outputs \subseteq Apps /\ playing \in 0..MaxPlaying
  /\ phase \in {"off", "on"} /\ stopping \in BOOLEAN /\ case \in Cases

Nothing == [n \in {} |-> {}]
NoRecord == [kind \in Kinds |-> Nothing]

Init ==
  /\ case \in Cases
  /\ LET ports == SetToSeq(case.there) IN
     server = [nodes |-> case.there, links |-> {},
               port |-> [n \in Streams |-> IF n \in case.there
                           THEN CHOOSE i \in DOMAIN ports : ports[i] = n ELSE NoPort],
               used |-> IF case.reuse THEN {} ELSE DOMAIN ports]
  /\ events = <<>> /\ known = Nothing /\ record = NoRecord
  /\ outputs = {} /\ playing = 0
  /\ phase = "off" /\ stopping = FALSE

-------------------------------------------------------------------------------
(* sync: the announcements are heard *)

\* A handler's part before its nested sync.  heard is [nodes, ports]: the two maps,
\* a port with the stream its info names.
Before(heard, e) ==
  CASE e.type = "node+" ->
         [heard EXCEPT !.nodes = [n \in DOMAIN @ \cup {e.stream} |->
                                    IF n \in DOMAIN @ THEN @[n] ELSE {}]]
    [] e.type = "node-" ->
         [heard EXCEPT !.nodes = [n \in DOMAIN @ \ {e.stream} |-> @[n]]]
    [] e.type = "port+" -> [heard EXCEPT !.ports = @ \cup {[id |-> e.id, stream |-> e.stream]}]
    [] e.type = "port-" -> [heard EXCEPT !.ports = {p \in @ : p.id # e.id}]

\* Its part after it: a port that still is in the map moves to its node, if known.
\* A port already moved stays with its node when it goes.
After(e, heard) ==
  LET mine == {p \in heard.ports : e.type = "port+" /\ p.id = e.id
                                   /\ p.stream \in DOMAIN heard.nodes} IN
  [nodes |-> [n \in DOMAIN heard.nodes |->
                heard.nodes[n] \cup {p.id : p \in {q \in mine : q.stream = n}}],
   ports |-> heard.ports \ mine]

\* Every handler runs inside the nested sync of the one before: the parts before come
\* in the order of the announcements, the parts after in the opposite one.  A port
\* that is left over is never looked at again, but for the sink's own.
Begun(nodes, news) ==
  LET heard[i \in 0..Len(news)] ==
        IF i = 0 THEN [nodes |-> nodes, ports |-> {}] ELSE Before(heard[i - 1], news[i])
  IN  heard[Len(news)]

\* Mutant: the nested sync comes first, and the handlers run one after the other.
HeardInTurn(nodes, news) ==
  LET heard[i \in 0..Len(news)] ==
        IF i = 0 THEN [nodes |-> nodes, ports |-> {}]
        ELSE LET e == news[Len(news) + 1 - i] IN Before(After(e, heard[i - 1]), e)
  IN  heard[Len(news)].nodes
Heard(nodes, news) ==
  LET heard[i \in 0..Len(news)] ==
        IF i = 0 THEN Begun(nodes, news) ELSE After(news[Len(news) + 1 - i], heard[i - 1])
  IN  heard[Len(news)].nodes

\* An operation that makes or destroys a link has heard all; any other nothing.
Syncs(really) ==
  /\ known' = IF really THEN Heard(known, events) ELSE known
  /\ events' = IF really THEN <<>> ELSE events

-------------------------------------------------------------------------------
(* Links *)

Free(s) == Ids \ (IF case.reuse THEN LinkIds(s.links) \cup PortIds(s) ELSE s.used)

\* The streams the backend knows under an application's name, with a port for the kind.
Serves(n, kind) == (n \in Inputs) = (kind = "sound")
KnownOf(a) == {n \in DOMAIN known : AppOf[n] = a}

\* The ports that linkPorts is called for, each with the name it is recorded under ...
\* Mutant: every known stream counts as one of the application.
TargetsAnywhere(apps, kind) ==
  {t \in Apps \X Ids : t[1] \in apps /\ \E n \in DOMAIN known : Serves(n, kind) /\ t[2] \in known[n]}
Targets(apps, kind) ==
  {t \in Apps \X Ids : t[1] \in apps /\ \E n \in KnownOf(t[1]) : Serves(n, kind) /\ t[2] \in known[n]}

\* The streams that have a port: some may be deaf to being linked.
WithPort == {n \in Streams : server.port[n] # NoPort}

\* ... of which the server links those whose port exists, has the right direction, and
\* is not linked to the sink already; not those of deaf streams (no side, or an error).
Linkable(s, targets, kind, deaf) ==
  {t \in targets :
     /\ \E n \in Streams \ deaf : s.port[n] = t[2] /\ Serves(n, kind)
     /\ \A l \in s.links : ~(l.port = t[2] /\ l.kind = kind)}

\* The ids the server may give to the new links.
GivenIds(s, linked) ==
  LET fits == {f \in [linked -> Free(s)] : \A t, u \in linked : f[t] = f[u] => t = u}
  IN  IF case.reuse \/ fits = {} THEN fits ELSE {CHOOSE f \in fits : TRUE}

\* The server and a record once the links are made.  Mutant: the links replace what
\* was recorded for the application.
WithLinks(s, linked, kind, id) ==
  [s EXCEPT !.links = @ \cup {[id |-> id[t], port |-> t[2], kind |-> kind, app |-> t[1]] : t \in linked},
            !.used = @ \cup {id[t] : t \in {u \in linked : ~case.reuse}}]
RecordedAnew(map, apps, linked, id) ==
  [a \in DOMAIN map \cup apps |->
     IF a \in apps THEN {id[t] : t \in {u \in linked : u[1] = a}} ELSE map[a]]
Recorded(map, apps, linked, id) ==
  [a \in DOMAIN map \cup apps |->
     (IF a \in DOMAIN map THEN map[a] ELSE {}) \cup {id[t] : t \in {u \in linked : u[1] = a}}]

\* deleteLink of each of a set of ids, whatever has that id now; a port refuses.
Deleted(s, ids) == [s EXCEPT !.links = {l \in @ : l.id \notin ids}]

\* A state of the server and the records, while a call goes on.
Now == [server |-> server, record |-> record]

\* inputSoundTo(getRecordingApp(a)) for each of a set of applications: those unknown or
\* recorded before are passed over, the others recorded even if nothing is linked.
IntoApps(w, apps) == {a \in apps : KnownOf(a) # {} /\ a \notin DOMAIN w.record["sound"]}
InputTargets(w, apps) == Targets(IntoApps(w, apps), "sound")
InputLinked(w, apps, deaf) == Linkable(w.server, InputTargets(w, apps), "sound", deaf)
InputSoundTo(w, apps, deaf, id) ==
  LET linked == InputLinked(w, apps, deaf) IN
  [server |-> WithLinks(w.server, linked, "sound", id),
   record |-> [w.record EXCEPT !["sound"] =
                 Recorded(@, IntoApps(w, apps), linked, id)]]
\* inputSoundTo(a) answers true.
InputMoved(w, a, deaf) ==
  \/ KnownOf(a) # {} /\ a \in DOMAIN w.record["sound"]
  \/ InputLinked(w, {a}, deaf) # {}

\* stopSoundInput.
StopSoundInput(w) ==
  [server |-> Deleted(w.server, IdsOf(w.record["sound"])),
   record |-> [w.record EXCEPT !["sound"] = Nothing]]

\* passthroughFrom(getPlaybackApp(a)): links made before are left as they are.
PassLinked(w, a, deaf) == Linkable(w.server, Targets({a}, "pass"), "pass", deaf)
PassthroughFrom(w, a, deaf, id) ==
  LET linked == PassLinked(w, a, deaf) IN
  [server |-> WithLinks(w.server, linked, "pass", id),
   record |-> [w.record EXCEPT !["pass"] =
                 Recorded(@, {a} \cap {b \in Apps : KnownOf(b) # {}}, linked, id)]]

\* stopPassthrough of each of a set of applications; stopAllPassthrough.
\* Mutant: destroys the links of all, and forgets those it was asked to.
StopPassthroughOfAll(w, apps) ==
  [server |-> Deleted(w.server, IdsOf(w.record["pass"])),
   record |-> [w.record EXCEPT !["pass"] = [a \in DOMAIN @ \ apps |-> @[a]]]]
StopPassthroughOf(w, apps) ==
  [server |-> Deleted(w.server, UNION {w.record["pass"][a] : a \in apps \cap DOMAIN w.record["pass"]}),
   record |-> [w.record EXCEPT !["pass"] = [a \in DOMAIN @ \ apps |-> @[a]]]]

-------------------------------------------------------------------------------
(* The window's calls *)

On == phase = "on"

\* The call ends in w.  It has heard the news if it asked for or destroyed a link.
Ends(w, asked) ==
  /\ server' = w.server /\ record' = w.record
  /\ Syncs(asked # {} \/ \E kind \in Kinds :
                           ~(IdsOf(record[kind]) \subseteq IdsOf(w.record[kind])))
  /\ UNCHANGED phase

\* onAllSoundsFinished, if no sound plays.  Mutant: leaves the inputs linked.
SilenceKeeps(w, sounds) == w
Silence(w, sounds) ==
  IF sounds = 0 /\ DOMAIN w.record["pass"] = {} THEN StopSoundInput(w) ELSE w

\* What stopSounds has the backend do.
SoundsStopped(w) == StopPassthroughOf(StopSoundInput(w), Apps)

\* playSound, its devices opened; if no output application takes it, it is stopped.
PlaySound ==
  \E overlap \in BOOLEAN, deaf \in SUBSET WithPort :
    LET others == IF overlap THEN playing ELSE 0 IN
    \E before \in {IF overlap THEN Now ELSE SoundsStopped(Now)} :
    \E heard \in {outputs = {} \/ \E a \in outputs : InputMoved(before, a, deaf)} :
    \E id \in GivenIds(before.server, InputLinked(before, outputs, deaf)) :
    \E into \in {InputSoundTo(before, outputs, deaf, id)} :
      /\ On /\ others < MaxPlaying
      /\ Ends(IF heard THEN into ELSE Silence(into, others), InputTargets(before, outputs))
      /\ playing' = IF heard THEN others + 1 ELSE others
      /\ UNCHANGED <<outputs, stopping>>

SoundEnds ==
  /\ On /\ playing > 0
  /\ playing' = playing - 1
  /\ Ends(Silence(Now, playing - 1), {})
  /\ UNCHANGED <<outputs, stopping>>

\* stopSounds: with sync, or of the desk and the hotkey, whose sounds go when the queue
\* stops them.
StopSounds ==
  /\ On
  /\ \/ playing' = 0 /\ UNCHANGED stopping
     \/ stopping' = TRUE /\ UNCHANGED playing
  /\ Ends(SoundsStopped(Now), {})
  /\ UNCHANGED outputs

\* The queue runs stopAll: every sound goes, those played since too, and nobody is told.
StopAllRuns ==
  /\ stopping
  /\ stopping' = FALSE /\ playing' = 0
  /\ UNCHANGED <<server, events, known, record, outputs, phase>>

\* startPassthrough(a): goes on to the application once every output is moved.
StartPassthrough(a) ==
  \E deaf \in SUBSET WithPort :
  \E id \in GivenIds(server, InputLinked(Now, outputs, deaf)) :
  \E into \in {InputSoundTo(Now, outputs, deaf, id)} :
  \E moved \in {\A b \in outputs : InputMoved(Now, b, deaf)} :
  \E passId \in GivenIds(into.server, PassLinked(into, a, deaf)) :
    /\ On /\ outputs # {}
    /\ Ends(IF moved THEN PassthroughFrom(into, a, deaf, passId) ELSE into,
            InputTargets(Now, outputs) \cup (IF moved THEN Targets({a}, "pass") ELSE {}))
    /\ UNCHANGED <<outputs, playing, stopping>>

\* stopPassthrough(a): the last one takes the inputs along if nothing plays.
StopPassthrough(a) ==
  LET last == playing = 0 /\ Cardinality(DOMAIN record["pass"]) = 1 IN
  /\ On
  /\ Ends(StopPassthroughOf(IF last THEN StopSoundInput(Now) ELSE Now, {a}), {})
  /\ UNCHANGED <<outputs, playing, stopping>>

\* changeSettings with other outputs.
ChangeOutputs(new) ==
  \E deaf \in SUBSET WithPort :
    LET stopped == StopSoundInput(Now)
        apps == IF playing = 0 THEN {} ELSE new
    IN  \E id \in GivenIds(stopped.server, InputLinked(stopped, apps, deaf)) :
          /\ On /\ new # outputs
          /\ outputs' = new
          /\ Ends(InputSoundTo(stopped, apps, deaf, id), InputTargets(stopped, apps))
          /\ UNCHANGED <<playing, stopping>>

\* getRecordingApps, getPlaybackApps: the lists the window shows.
ListApps ==
  /\ On
  /\ Syncs(TRUE)
  /\ UNCHANGED <<server, record, outputs, playing, phase, stopping>>

\* setup: everything there is is announced, in some order.
Announced(s) ==
  {[type |-> "node+", stream |-> n] : n \in s.nodes} \cup
  {[type |-> "port+", stream |-> n, id |-> s.port[n]] : n \in {m \in Streams : s.port[m] # NoPort}}
Setup ==
  /\ phase = "off"
  /\ phase' = "on"
  /\ \E news \in SetToSeqs(Announced(server)) : known' = Heard(Nothing, news)
  /\ UNCHANGED <<server, events, record, outputs, playing, stopping>>

\* destroy: the server ends the links with the connection.
Destroy ==
  /\ On
  /\ phase' = "off"
  /\ server' = [server EXCEPT !.links = {}]
  /\ record' = NoRecord /\ known' = Nothing /\ events' = <<>> /\ playing' = 0
  /\ UNCHANGED <<outputs, stopping>>

-------------------------------------------------------------------------------
(* The server and the other programs *)

\* An announcement, heard by the next sync.
Announces(e) ==
  /\ Len(events) < case.events
  /\ events' = IF On THEN Append(events, e) ELSE events
  /\ UNCHANGED <<known, record, outputs, playing, phase, stopping>>

NodeAppears(n) ==
  /\ n \in case.streams \ server.nodes
  /\ server' = [server EXCEPT !.nodes = @ \cup {n}]
  /\ Announces([type |-> "node+", stream |-> n])

NodeGoes(n) ==
  /\ n \in server.nodes /\ server.port[n] = NoPort
  /\ server' = [server EXCEPT !.nodes = @ \ {n}]
  /\ Announces([type |-> "node-", stream |-> n])

PortAppears(n) ==
  /\ n \in server.nodes /\ server.port[n] = NoPort
  /\ \E id \in IF case.reuse \/ Free(server) = {} THEN Free(server)
               ELSE {CHOOSE i \in Free(server) : \A j \in Free(server) : i <= j} :
       /\ server' = [server EXCEPT !.port[n] = id, !.used = IF case.reuse THEN @ ELSE @ \cup {id}]
       /\ Announces([type |-> "port+", stream |-> n, id |-> id])

\* With the port go its links.  A stream may get a new port, as when its format changes.
PortGoes(n) ==
  /\ server.port[n] # NoPort
  /\ server' = [server EXCEPT !.port[n] = NoPort,
                              !.links = {l \in @ : l.port # server.port[n]}]
  /\ Announces([type |-> "port-", stream |-> n, id |-> server.port[n]])

Next ==
  /\ \/ Setup \/ Destroy
     \/ PlaySound \/ SoundEnds \/ StopSounds \/ StopAllRuns \/ ListApps
     \/ \E a \in {AppOf[n] : n \in Streams \ Inputs} : StartPassthrough(a) \/ StopPassthrough(a)
     \/ \E new \in SUBSET {AppOf[n] : n \in Inputs} : ChangeOutputs(new)
     \/ \E n \in Streams : NodeAppears(n) \/ NodeGoes(n) \/ PortAppears(n) \/ PortGoes(n)
  /\ UNCHANGED case

Spec == Init /\ [][Next]_<<vars, case>>

-------------------------------------------------------------------------------
(* Properties *)

\* Every link of Soundux is recorded under its kind and application, so that a stop
\* can end it: no sequence of failed, repeated or overlapping calls, and no port that
\* came or went unheard, leaves a link behind that nobody can name.
LinksRecorded ==
  \A l \in server.links :
    l.app \in DOMAIN record[l.kind] /\ l.id \in record[l.kind][l.app]

\* No link is left for nothing: when the last sound goes and nothing is recorded as
\* passed through, or the last recorded passthrough ends and nothing plays, all links go.
\* Two steps may leave some: a stopAll of the queue, of sounds played since it was asked
\* for, and a startPassthrough that has linked the outputs and not the application.
LinkedForNothing == playing = 0 /\ DOMAIN record["pass"] = {} /\ server.links # {}
SilenceUnlinks ==
  [][LinkedForNothing' =>
       LinkedForNothing \/ StopAllRuns \/ \E a \in Apps : StartPassthrough(a)]_vars

\* Unless ids are given again, an application that stays recorded as passed through
\* keeps its links as long as its ports: no other stop takes them.
PassthroughKept ==
  [][~case.reuse => \A l \in server.links :
       l.kind = "pass" /\ l.app \in DOMAIN record'["pass"] /\ l.port \in PortIds(server')
         => l \in server'.links]_vars

\* Unless ids are given again, sound goes to the applications chosen and comes from
\* the one passed through: a link recorded under a name ends at a port of that name,
\* though the map the names are taken from may be out of date.
LinksReachTheirApp ==
  ~case.reuse => \A l \in server.links :
    \E n \in Streams : server.port[n] = l.port /\ AppOf[n] = l.app /\ Serves(n, l.kind)

\* Once all announcements are heard the backend knows exactly the nodes there are, and
\* for each the port it has, in whatever order the nested handlers finished.
NewsUnderstood ==
  On /\ events = <<>> =>
    /\ DOMAIN known = server.nodes
    /\ \A n \in server.nodes : server.port[n] # NoPort => server.port[n] \in known[n]

\* The invariant of what the backend knows, with the types of all that is modelled.
KnowledgeInv == TypeOK /\ NewsUnderstood
================================================================================
