--------------------------- MODULE PulseRouting_proofs ---------------------------
(***************************************************************************)
(* Proofs about PulseRouting: the modules of the backend, the mute of its  *)
(* loopback and the records of the streams it moves, for any streams,      *)
(* devices, faults, crashes and restarts.                                  *)
(***************************************************************************)
EXTENDS PulseRouting, FiniteSetTheorems, TLAPS

\* The modules of a world: what OneLoopback and MuteIsUndoable say of every instance,
\* and that an instance that holds its modules back has none.
ModulesOK(w) ==
  /\ w.muted \subseteq w.loops
  /\ w.backend # "none" => w.loops \subseteq {w.loopBack} /\ w.muted \subseteq {w.loopBackSink}
  /\ w.backend = "bare" => ~w.sinks /\ w.loops = {}

Good(w) == w \in World /\ ModulesOK(w)

\* Only a running program has an instance.
PulseInv ==
  /\ Good(pulse) /\ settings \in Settings /\ phase \in {"off", "on", "crashed"}
  /\ phase # "on" => pulse.backend = "none"
  /\ stopping \in BOOLEAN

-------------------------------------------------------------------------------
(* Moving streams leaves the modules alone *)

\* v differs from w at most in where the streams are and what is recorded of that.
Routes(v, w) ==
  /\ v \in World
  /\ v.sinks = w.sinks /\ v.loops = w.loops /\ v.muted = w.muted /\ v.backend = w.backend
  /\ v.loopBack = w.loopBack /\ v.loopBackSink = w.loopBackSink
  /\ v.playing = w.playing

LEMMA RoutesGood ==
  ASSUME NEW v, NEW w, Good(w), Routes(v, w)
  PROVE  Good(v)
  BY DEF Good, Routes, ModulesOK

LEMMA MovedRoutes ==
  ASSUME NEW w \in World, NEW streams, NEW fail, NEW to,
         \A s \in streams \cap Streams : to[s] \in Devices \cup {"closed"}
  PROVE  Routes(Moved(w, streams, to, fail), w)
<1> DEFINE at == [s \in Streams |-> IF s \in streams \ fail THEN to[s] ELSE w.at[s]]
<1>1. at \in [Streams -> Devices \cup {"closed"}]
  BY DEF World
<1>2. Moved(w, streams, to, fail) = [w EXCEPT !.at = at]
  BY DEF Moved
<1> HIDE DEF at
<1> QED  BY <1>1, <1>2 DEF Routes, World

LEMMA ExcusedRoutes ==
  ASSUME NEW w \in World, NEW streams \in SUBSET Streams
  PROVE  Routes(Excused(w, streams), w)
<1>1. {AppOf[s] : s \in streams} \subseteq Apps
  BY StreamsAssumption
<1> QED  BY <1>1 DEF Excused, Routes, World

LEMMA ToSounduxRoutes ==
  ASSUME NEW w \in World, NEW streams, NEW fail
  PROVE  Routes(ToSoundux(w, streams, fail), w)
<1> DEFINE to == [s \in Streams |-> "soundux"]
<1>1. \A s \in streams \cap Streams : to[s] \in Devices \cup {"closed"}
  BY DEF Devices
<1> HIDE DEF to
<1> QED  BY <1>1, MovedRoutes DEF ToSoundux, to

LEMMA RoutesTransitive ==
  ASSUME NEW u, NEW v, NEW w, Routes(u, v), Routes(v, w)
  PROVE  Routes(u, w)
  BY DEF Routes

\* The record of moved, or of passed through, applications changes.
LEMMA RecordRoutes ==
  ASSUME NEW w \in World, NEW record \in [Apps -> Devices \cup {"none"}]
  PROVE  Routes([w EXCEPT !.moved = record], w) /\ Routes([w EXCEPT !.passed = record], w)
  BY DEF Routes, World

\* An application with open streams has a device.
LEMMA DeviceOfType ==
  ASSUME NEW w \in World, NEW kind \in {Inputs, Playbacks}, NEW a, StreamsOf(w, kind, a) # {}
  PROVE  DeviceOf(w, kind, a) \in Devices
<1> DEFINE open == StreamsOf(w, kind, a)
<1>1. open \in SUBSET Streams /\ open # {}
  BY DEF StreamsOf, Streams
<1>2. \E s \in open : \A t \in open : s <= t
  BY <1>1, StreamsAssumption
<1>3. First(open) \in open
  BY <1>2 DEF First
<1>4. w.at[First(open)] # "closed" /\ First(open) \in Streams
  BY <1>1, <1>3 DEF StreamsOf
<1>5. w.at[First(open)] \in Devices \cup {"closed"}
  BY <1>4 DEF World
<1> QED  BY <1>4, <1>5 DEF DeviceOf

LEMMA InputSoundToRoutes ==
  ASSUME NEW w \in World, NEW apps, NEW fail
  PROVE  Routes(InputSoundTo(w, apps, fail), w)
<1> DEFINE into == {a \in apps : HasInput(w, a) /\ w.moved[a] = "none"}
           there == ToSoundux(w, UNION {StreamsOf(w, Inputs, a) : a \in into}, fail)
           record == [a \in Apps |-> IF a \in into THEN DeviceOf(w, Inputs, a) ELSE w.moved[a]]
<1>1. Routes(there, w)
  BY ToSounduxRoutes
<1>2. record \in [Apps -> Devices \cup {"none"}]
  BY DeviceOfType DEF HasInput, World
<1>3. there.moved = w.moved
  BY DEF ToSoundux, Moved, World
<1>4. InputSoundTo(w, apps, fail) = [there EXCEPT !.moved = record]
  BY <1>3 DEF InputSoundTo
<1> HIDE DEF there, record
<1>5. Routes([there EXCEPT !.moved = record], there)
  BY <1>1, <1>2, RecordRoutes DEF Routes
<1> QED  BY <1>1, <1>4, <1>5, RoutesTransitive

LEMMA StopSoundInputRoutes ==
  ASSUME NEW w \in World, NEW fail
  PROVE  Routes(StopSoundInput(w, fail), w)
<1> DEFINE back == {s \in Inputs : w.moved[AppOf[s]] # "none" /\ w.at[s] # "closed"}
           to == [s \in Streams |-> w.moved[AppOf[s]]]
           done == Moved(w, back, to, fail)
<1>1. \A s \in back \cap Streams : to[s] \in Devices \cup {"closed"}
  BY StreamsAssumption DEF World
<1>2. back \cap fail \in SUBSET Streams
  BY DEF Streams
<1>3. Nowhere \in [Apps -> Devices \cup {"none"}]
  BY DEF Nowhere
<1>4. StopSoundInput(w, fail) = [Excused(done, back \cap fail) EXCEPT !.moved = Nowhere]
  BY DEF StopSoundInput
<1> HIDE DEF back, to
<1>5. Routes(done, w)
  BY <1>1, MovedRoutes
<1> HIDE DEF done
<1>6. Routes(Excused(done, back \cap fail), done)
  BY <1>2, <1>5, ExcusedRoutes DEF Routes
<1>7. Routes([Excused(done, back \cap fail) EXCEPT !.moved = Nowhere], Excused(done, back \cap fail))
  BY <1>3, <1>6, RecordRoutes DEF Routes
<1> QED  BY <1>4, <1>5, <1>6, <1>7, RoutesTransitive

LEMMA StopPassthroughRoutes ==
  ASSUME NEW w \in World, NEW apps, NEW fail
  PROVE  Routes(StopPassthroughOf(w, apps, fail), w)
<1> DEFINE back == {s \in Playbacks : /\ AppOf[s] \in apps /\ w.passed[AppOf[s]] # "none"
                                      /\ w.at[s] # "closed"}
           to == [s \in Streams |-> w.passed[AppOf[s]]]
           done == Moved(w, back, to, fail)
           record == [a \in Apps |-> IF a \in apps THEN "none" ELSE w.passed[a]]
<1>1. \A s \in back \cap Streams : to[s] \in Devices \cup {"closed"}
  BY StreamsAssumption DEF World
<1>2. back \cap fail \in SUBSET Streams
  BY DEF Streams
<1>3. record \in [Apps -> Devices \cup {"none"}]
  BY DEF World
<1>4. Excused(done, back \cap fail).passed = w.passed
  BY DEF Excused, Moved, World
<1>5. StopPassthroughOf(w, apps, fail) = [Excused(done, back \cap fail) EXCEPT !.passed = record]
  BY <1>4 DEF StopPassthroughOf
<1> HIDE DEF back, to, record
<1>6. Routes(done, w)
  BY <1>1, MovedRoutes
<1> HIDE DEF done
<1>7. Routes(Excused(done, back \cap fail), done)
  BY <1>2, <1>6, ExcusedRoutes DEF Routes
<1>8. Routes([Excused(done, back \cap fail) EXCEPT !.passed = record], Excused(done, back \cap fail))
  BY <1>3, <1>7, RecordRoutes DEF Routes
<1> QED  BY <1>5, <1>6, <1>7, <1>8, RoutesTransitive

LEMMA PassthroughFromRoutes ==
  ASSUME NEW w \in World, NEW a \in Apps, NEW fail, StreamsOf(w, Playbacks, a) # {}
  PROVE  Routes(PassthroughFrom(w, a, fail), w)
<1> DEFINE mine == StreamsOf(w, Playbacks, a)
           bad  == {s \in mine : s \in fail \/ ~w.sinks}
           done == {s \in mine : \A t \in bad : s < t}
           gone == ToSoundux(w, done, {})
           record == [w.passed EXCEPT ![a] = DeviceOf(w, Playbacks, a)]
<1>1. Routes(gone, w)
  BY ToSounduxRoutes
<1>2. done \in SUBSET Streams
  BY DEF StreamsOf, Streams
<1>3. record \in [Apps -> Devices \cup {"none"}]
  BY DeviceOfType DEF World
<1>4. gone.passed = w.passed
  BY DEF ToSoundux, Moved, World
<1>5. PassthroughFrom(w, a, fail) = IF w.passed[a] # "none" THEN w
                                    ELSE IF bad # {} THEN Excused(gone, done)
                                    ELSE [gone EXCEPT !.passed = record]
  BY <1>4 DEF PassthroughFrom
<1> HIDE DEF gone, done, bad, record
<1>6. Routes(Excused(gone, done), gone)
  BY <1>1, <1>2, ExcusedRoutes DEF Routes
<1>7. Routes([gone EXCEPT !.passed = record], gone)
  BY <1>1, <1>3, RecordRoutes DEF Routes
<1>8. Routes(w, w)
  BY DEF Routes
<1> QED  BY <1>1, <1>5, <1>6, <1>7, <1>8, RoutesTransitive

-------------------------------------------------------------------------------
(* The modules *)

\* v is good and belongs to the same instance, with as many sounds.
Follows(v, w) == Good(v) /\ v.backend = w.backend /\ v.playing = w.playing

LEMMA RoutesFollows ==
  ASSUME NEW v, NEW w, Good(w), Routes(v, w)
  PROVE  Follows(v, w)
  BY RoutesGood DEF Follows, Routes

LEMMA FollowsTransitive ==
  ASSUME NEW u, NEW v, NEW w, Follows(u, v), Follows(v, w)
  PROVE  Follows(u, w)
  BY DEF Follows

\* The sinks go; without a backend that has modules held back, that is all.
LEMMA WithoutSinksFollows ==
  ASSUME NEW w, w \in World
  PROVE  LET v == WithoutSinks(w) IN
         /\ v \in World /\ v.loops = w.loops /\ v.muted = w.muted /\ ~v.sinks
         /\ v.backend = w.backend /\ v.playing = w.playing
         /\ v.loopBack = w.loopBack /\ v.loopBackSink = w.loopBackSink
<1> DEFINE at == [s \in Streams |-> IF w.at[s] = "soundux" THEN "home" ELSE w.at[s]]
           u == [w EXCEPT !.sinks = FALSE, !.default = "home"]
           v == [u EXCEPT !.excused = {}, !.at = at]
<1>1. at \in [Streams -> Devices \cup {"closed"}]
  BY HomesAssumption DEF World, Devices
<1>2. WithoutSinks(w) = v
  BY DEF WithoutSinks
<1> HIDE DEF at
<1>3. /\ u \in World /\ u.loops = w.loops /\ u.muted = w.muted /\ u.sinks = FALSE
      /\ u.backend = w.backend /\ u.playing = w.playing
      /\ u.loopBack = w.loopBack /\ u.loopBackSink = w.loopBackSink
  BY DEF World
<1> HIDE DEF u
<1>4. /\ v \in World /\ v.loops = u.loops /\ v.muted = u.muted /\ v.sinks = u.sinks
      /\ v.backend = u.backend /\ v.playing = u.playing
      /\ v.loopBack = u.loopBack /\ v.loopBackSink = u.loopBackSink
  BY <1>1, <1>3 DEF World
<1> HIDE DEF v
<1> QED  BY <1>2, <1>3, <1>4

\* unloadLeftOvers.
LEMMA UnloadLeftOversFollows ==
  ASSUME NEW w, w \in World
  PROVE  /\ Follows(UnloadLeftOvers(w), w)
         /\ UnloadLeftOvers(w).loops = {}
<1> DEFINE u == WithoutSinks(w)
           v == UnloadLeftOvers(w)
<1>1. u \in World /\ ~u.sinks /\ u.backend = w.backend /\ u.playing = w.playing
  BY WithoutSinksFollows
<1>2. v = [u EXCEPT !.loops = {}, !.muted = {}]
  BY DEF UnloadLeftOvers
<1> HIDE DEF u, v
<1>3. /\ v \in World /\ v.backend = w.backend /\ v.playing = w.playing
      /\ v.loops = {} /\ v.muted = {} /\ ~v.sinks
  BY <1>1, <1>2 DEF World
<1> QED  BY <1>3 DEF v, Follows, Good, ModulesOK

\* The loopback that is unloaded was the only one.
LEMMA UnloadedFollows ==
  ASSUME NEW w, Good(w), NEW id
  PROVE  /\ Follows(Unloaded(w, id), w)
         /\ w.backend # "none" /\ id = w.loopBack
              => Unloaded(w, id).loops = {} /\ Unloaded(w, id).muted = {}
<1> DEFINE v == Unloaded(w, id)
<1>1. /\ v \in World /\ v.loops = w.loops \ {id} /\ v.muted = w.muted \ {id}
      /\ v.backend = w.backend /\ v.playing = w.playing /\ v.sinks = w.sinks
      /\ v.loopBack = w.loopBack /\ v.loopBackSink = w.loopBackSink
  BY DEF Unloaded, World, Good
<1> HIDE DEF v
<1> QED  BY <1>1 DEF v, Follows, Good, ModulesOK

\* A load, with no loopback there.
LEMMA LoadsFollows ==
  ASSUME NEW w, Good(w), w.loops = {}, w.loads < MaxLoads, w.sinks
  PROVE  /\ Follows(Loads(w), w)
         /\ Loads(w).loopBack = w.loads + 1 /\ Loads(w).loops = {w.loads + 1}
         /\ Loads(w).muted = {}
<1> DEFINE n == w.loads + 1
           v == Loads(w)
<1>1. n \in 1..MaxLoads /\ n \in 0..MaxLoads /\ n \in Ids
  BY BoundsAssumption DEF Good, World, Ids, Failed
<1>2. v = [w EXCEPT !.loads = n, !.loops = w.loops \cup {n}, !.loopBack = n]
  BY DEF Loads
<1> HIDE DEF n, v
<1>3. /\ v \in World /\ v.loops = {n} /\ v.muted = w.muted /\ v.loopBack = n
      /\ v.backend = w.backend /\ v.playing = w.playing /\ v.sinks = w.sinks
  BY <1>1, <1>2 DEF Good, World
<1>4. v.muted = {}
  BY <1>3 DEF Good, ModulesOK
<1> QED  BY <1>3, <1>4 DEF v, n, Follows, Good, ModulesOK

\* The field loopBack, of a world without a loopback.
LEMMA ForgottenFollows ==
  ASSUME NEW w, Good(w), w.loops = {}, NEW id \in Ids
  PROVE  Follows([w EXCEPT !.loopBack = id], w)
<1> DEFINE v == [w EXCEPT !.loopBack = id]
<1>1. /\ v \in World /\ v.loops = w.loops /\ v.muted = w.muted /\ v.sinks = w.sinks
      /\ v.backend = w.backend /\ v.playing = w.playing
  BY DEF Good, World
<1> HIDE DEF v
<1> QED  BY <1>1 DEF v, Follows, Good, ModulesOK

\* The default source.
LEMMA DefaultFollows ==
  ASSUME NEW w, Good(w), NEW d \in {"home", "soundux"}
  PROVE  Follows([w EXCEPT !.default = d], w)
<1> DEFINE v == [w EXCEPT !.default = d]
<1>1. /\ v \in World /\ v.loops = w.loops /\ v.muted = w.muted /\ v.sinks = w.sinks
      /\ v.backend = w.backend /\ v.playing = w.playing
      /\ v.loopBack = w.loopBack /\ v.loopBackSink = w.loopBackSink
  BY DEF Good, World
<1> HIDE DEF v
<1> QED  BY <1>1 DEF v, Follows, Good, ModulesOK

\* useAsDefault, of an instance.
LEMMA UseAsDefaultFollows ==
  ASSUME NEW w, Good(w), w.backend # "none", NEW ok
  PROVE  Follows(UseAsDefault(w, ok), w)
<1> DEFINE without == Unloaded(w, w.loopBack)
<1>1. Follows(without, w) /\ without.loops = {}
  BY UnloadedFollows
<1>2. UseAsDefault(w, ok) = IF CanLoad(without, ok) THEN [Loads(without) EXCEPT !.default = "soundux"]
                            ELSE [without EXCEPT !.loopBack = Unset]
  BY DEF UseAsDefault
<1> HIDE DEF without
<1>3. Unset \in Ids
  BY BoundsAssumption DEF Unset, Ids, Failed
<1>4. CASE CanLoad(without, ok)
  <2>1. Follows(Loads(without), without)
    BY <1>1, <1>4, LoadsFollows DEF CanLoad, Follows
  <2>2. Follows([Loads(without) EXCEPT !.default = "soundux"], Loads(without))
    BY <2>1, DefaultFollows DEF Follows
  <2> QED  BY <1>1, <1>2, <1>4, <2>1, <2>2, FollowsTransitive
<1>5. CASE ~CanLoad(without, ok)
  <2>1. Follows([without EXCEPT !.loopBack = Unset], without)
    BY <1>1, <1>3, ForgottenFollows DEF Follows
  <2> QED  BY <1>1, <1>2, <1>5, <2>1, FollowsTransitive
<1> QED  BY <1>4, <1>5

\* revertDefault, of an instance: with a loopback it leaves at most its own.
LEMMA RevertDefaultFollows ==
  ASSUME NEW w, Good(w), w.backend # "none", NEW ok
  PROVE  Follows(RevertDefault(w, ok), w)
<1> DEFINE without == Unloaded(w, w.loopBack)
           loaded == IF CanLoad(without, ok) THEN Loads(without)
                     ELSE [without EXCEPT !.loopBack = Failed]
<1>1. Follows(without, w) /\ without.loops = {}
  BY UnloadedFollows
<1>2. RevertDefault(w, ok) = IF w.loopBack = Unset THEN w ELSE [loaded EXCEPT !.default = "home"]
  BY DEF RevertDefault
<1> HIDE DEF without
<1>3. Failed \in Ids
  BY BoundsAssumption DEF Ids, Failed
<1>4. Follows(loaded, without)
  BY <1>1, <1>3, LoadsFollows, ForgottenFollows DEF CanLoad, Follows
<1> HIDE DEF loaded
<1>5. Follows([loaded EXCEPT !.default = "home"], loaded)
  BY <1>4, DefaultFollows DEF Follows
<1>6. Follows(w, w)
  BY DEF Follows
<1> QED  BY <1>1, <1>2, <1>4, <1>5, <1>6, FollowsTransitive

\* muteInput.
LEMMA MuteInputFollows ==
  ASSUME NEW w, Good(w), NEW on
  PROVE  Follows(MuteInput(w, on), w)
<1> DEFINE muted == IF on THEN w.muted \cup {w.loopBackSink} ELSE w.muted \ {w.loopBackSink}
           v == [w EXCEPT !.muted = muted]
<1>1. MuteInput(w, on) = IF w.loopBackSink \notin w.loops THEN w ELSE v
  BY DEF MuteInput
<1>2. Follows(w, w)
  BY DEF Follows
<1>3. ASSUME w.loopBackSink \in w.loops
      PROVE  Follows(v, w)
  <2>1. muted \subseteq w.loops /\ muted \subseteq w.muted \cup {w.loopBackSink}
    BY <1>3 DEF Good, ModulesOK
  <2>2. muted \in SUBSET (1..MaxLoads)
    BY <2>1 DEF Good, World
  <2> HIDE DEF muted
  <2>3. /\ v \in World /\ v.loops = w.loops /\ v.muted = muted /\ v.sinks = w.sinks
        /\ v.backend = w.backend /\ v.playing = w.playing
        /\ v.loopBack = w.loopBack /\ v.loopBackSink = w.loopBackSink
    BY <2>2 DEF Good, World
  <2> HIDE DEF v
  <2> QED  BY <2>1, <2>3 DEF Follows, Good, ModulesOK
<1> QED  BY <1>1, <1>2, <1>3

\* loadModules, with no loopback there.
LEMMA LoadModulesGood ==
  ASSUME NEW w, Good(w), w.loops = {}, NEW ok, NEW fail \in SUBSET Streams
  PROVE  Good(LoadModules(w, ok, fail)) /\ LoadModules(w, ok, fail).playing = w.playing
<1> DEFINE s == [w EXCEPT !.sinks = TRUE]
           new == Loads([w EXCEPT !.sinks = TRUE])
           found == [new EXCEPT !.loopBackSink = new.loopBack, !.backend = "ready"]
           drawn == {x \in fail : w.at[x] # "closed"}
           there == ToSoundux([found EXCEPT !.excused = {}], drawn, {})
<1>1. CASE ok /\ w.loads < MaxLoads
  <2>1. /\ s \in World /\ s.loops = w.loops /\ s.muted = w.muted /\ s.sinks = TRUE
        /\ s.loads = w.loads /\ s.playing = w.playing
    BY DEF Good, World
  <2>2. s.muted = {} /\ s.loops = {}
    BY <2>1 DEF Good, ModulesOK
  <2> DEFINE n == s.loads + 1
  <2>3. n \in 1..MaxLoads /\ n \in 0..MaxLoads /\ n \in Ids
    BY <1>1, <2>1, BoundsAssumption DEF World, Ids, Failed
  <2>4. new = [s EXCEPT !.loads = n, !.loops = s.loops \cup {n}, !.loopBack = n]
    BY DEF Loads
  <2> HIDE DEF s, n, new
  <2>5. /\ new \in World /\ new.loops = {n} /\ new.muted = {} /\ new.loopBack = n
        /\ new.playing = w.playing
    BY <2>1, <2>2, <2>3, <2>4 DEF World
  <2>6. /\ found \in World /\ found.loops = {n} /\ found.muted = {} /\ found.loopBack = n
        /\ found.backend = "ready" /\ found.playing = w.playing
    BY <2>3, <2>5 DEF World, Backends
  <2> HIDE DEF found
  <2> DEFINE clean == [found EXCEPT !.excused = {}]
  <2>7. /\ clean \in World /\ clean.loops = {n} /\ clean.muted = {} /\ clean.loopBack = n
        /\ clean.backend = "ready" /\ clean.playing = w.playing
    BY <2>6 DEF World
  <2> HIDE DEF clean
  <2>8. Good(clean)
    BY <2>7 DEF Good, ModulesOK
  <2>9. Good(there) /\ there.playing = w.playing /\ there \in World
    <3>1. there = ToSoundux(clean, drawn, {})
      BY DEF clean
    <3> HIDE DEF there
    <3>2. Routes(there, clean)
      BY <2>7, <3>1, ToSounduxRoutes
    <3> QED  BY <2>7, <2>8, <3>2, RoutesGood DEF Routes
  <2> HIDE DEF there
  <2>10. drawn \in SUBSET Streams
    OBVIOUS
  <2> HIDE DEF drawn
  <2>11. Routes(Excused(there, drawn), there)
    BY <2>9, <2>10, ExcusedRoutes
  <2>12. LoadModules(w, ok, fail) = Excused(there, drawn)
    BY <1>1 DEF LoadModules, there, drawn, found, new
  <2> QED  BY <2>9, <2>11, <2>12, RoutesGood DEF Routes
<1>2. CASE ~(ok /\ w.loads < MaxLoads)
  <2>1. LoadModules(w, ok, fail) = UnloadLeftOvers(w)
    BY <1>2 DEF LoadModules
  <2> QED  BY <2>1, UnloadLeftOversFollows DEF Follows, Good
<1> QED  BY <1>1, <1>2

\* What is left once the object is gone: the modules on the server.
LEMMA NoBackendGood ==
  ASSUME NEW w, Good(w)
  PROVE  LET v == NoBackend(w) IN
         Good(v) /\ v.backend = "none" /\ v.playing = w.playing /\ v.loops = w.loops
<1> DEFINE u == [w EXCEPT !.backend = "none", !.loopBack = Unset, !.loopBackSink = Unset]
           v == [u EXCEPT !.moved = Nowhere, !.passed = Nowhere]
<1>1. NoBackend(w) = v
  BY DEF NoBackend
<1>2. Unset \in Ids /\ Nowhere \in [Apps -> Devices \cup {"none"}]
  BY BoundsAssumption DEF Unset, Ids, Failed, Nowhere
<1>3. /\ u \in World /\ u.loops = w.loops /\ u.muted = w.muted /\ u.backend = "none"
      /\ u.playing = w.playing
  BY <1>2 DEF Good, World, Backends
<1> HIDE DEF u
<1>4. /\ v \in World /\ v.loops = w.loops /\ v.muted = w.muted /\ v.backend = "none"
      /\ v.playing = w.playing
  BY <1>2, <1>3 DEF World
<1> HIDE DEF v
<1> QED  BY <1>1, <1>4 DEF Good, ModulesOK

\* destroy.
LEMMA DestroyGood ==
  ASSUME NEW w, Good(w), NEW ok, NEW fail
  PROVE  LET v == Destroy(w, ok, fail) IN
         Good(v) /\ v.backend = "none" /\ v.playing = w.playing
<1>1. CASE w.backend = "none"
  BY <1>1 DEF Destroy
<1>2. CASE w.backend # "none"
  <2> DEFINE first == RevertDefault(w, ok)
             second == StopSoundInput(first, fail)
             returned == StopAllPassthrough(second, fail)
             bare == Unloaded(WithoutSinks(returned), returned.loopBack)
  <2>1. Follows(first, w)
    BY <1>2, RevertDefaultFollows
  <2>2. Follows(second, first)
    BY <2>1, StopSoundInputRoutes, RoutesFollows DEF Follows, Good
  <2>3. Follows(returned, second)
    BY <2>2, StopPassthroughRoutes, RoutesFollows DEF Follows, Good, StopAllPassthrough
  <2> HIDE DEF first, second
  <2>4. Good(returned) /\ returned.playing = w.playing
    BY <2>1, <2>2, <2>3 DEF Follows
  <2> HIDE DEF returned
  <2> DEFINE gone == WithoutSinks(returned)
  <2>5. gone \in World /\ gone.playing = w.playing /\ gone.muted \subseteq gone.loops
    BY <2>4, WithoutSinksFollows DEF Good, ModulesOK
  <2> HIDE DEF gone
  <2>6. /\ bare \in World /\ bare.playing = w.playing /\ bare.muted \subseteq bare.loops
    BY <2>5 DEF Unloaded, World, gone
  <2>7. Destroy(w, ok, fail) = NoBackend(bare)
    BY <1>2 DEF Destroy, returned, second, first
  <2> HIDE DEF bare
  <2> DEFINE u == [bare EXCEPT !.backend = "none", !.loopBack = Unset, !.loopBackSink = Unset]
             v == [u EXCEPT !.moved = Nowhere, !.passed = Nowhere]
  <2>8. NoBackend(bare) = v
    BY DEF NoBackend
  <2>9. Unset \in Ids /\ Nowhere \in [Apps -> Devices \cup {"none"}]
    BY BoundsAssumption DEF Unset, Ids, Failed, Nowhere
  <2>10. /\ u \in World /\ u.muted \subseteq u.loops /\ u.backend = "none" /\ u.playing = w.playing
    BY <2>6, <2>9 DEF World, Backends
  <2> HIDE DEF u
  <2>11. /\ v \in World /\ v.muted \subseteq v.loops /\ v.backend = "none" /\ v.playing = w.playing
    BY <2>9, <2>10 DEF World
  <2> HIDE DEF v
  <2> QED  BY <2>7, <2>8, <2>11 DEF Good, ModulesOK
<1> QED  BY <1>1, <1>2

\* createInstance.
LEMMA CreateInstanceGood ==
  ASSUME NEW w, Good(w), w.backend = "none", NEW found \in Backends, NEW ok,
         NEW fail \in SUBSET Streams
  PROVE  LET v == CreateInstance(w, found, ok, fail) IN Good(v) /\ v.playing = w.playing
<1> DEFINE clean == UnloadLeftOvers(w)
           v == [clean EXCEPT !.backend = "bare"]
<1>1. Good(clean) /\ clean.loops = {} /\ clean.playing = w.playing
  BY UnloadLeftOversFollows DEF Follows, Good
<1>2. ~clean.sinks
  BY WithoutSinksFollows DEF UnloadLeftOvers, Good, World
<1> HIDE DEF clean
<1>3. CASE found = "none"
  BY <1>3 DEF CreateInstance
<1>4. CASE found = "bare"
  <2>1. /\ v \in World /\ v.loops = {} /\ v.muted = clean.muted /\ v.backend = "bare"
        /\ v.sinks = clean.sinks /\ v.playing = w.playing
    BY <1>1 DEF Good, World, Backends
  <2>2. v.muted = {}
    BY <1>1, <2>1 DEF Good, ModulesOK
  <2>3. CreateInstance(w, found, ok, fail) = v
    BY <1>4 DEF CreateInstance, clean
  <2> HIDE DEF v
  <2> QED  BY <1>2, <2>1, <2>2, <2>3 DEF Good, ModulesOK
<1>5. CASE found = "ready"
  <2>1. CreateInstance(w, found, ok, fail) = LoadModules(clean, ok, fail)
    BY <1>5 DEF CreateInstance, clean
  <2> QED  BY <1>1, <2>1, LoadModulesGood
<1> QED  BY <1>3, <1>4, <1>5 DEF Backends

-------------------------------------------------------------------------------
(* The window's calls *)

\* onAllSoundsFinished.
LEMMA AllFinishedFollows ==
  ASSUME NEW w, Good(w), NEW mute, NEW fail
  PROVE  Follows(AllFinished(w, mute, fail), w)
<1> DEFINE unmuted == IF mute THEN MuteInput(w, FALSE) ELSE w
<1>1. Follows(unmuted, w)
  BY MuteInputFollows DEF Follows
<1>2. AllFinished(w, mute, fail) = IF NonePassed(w) THEN StopSoundInput(unmuted, fail) ELSE unmuted
  BY DEF AllFinished
<1> HIDE DEF unmuted
<1>3. Follows(StopSoundInput(unmuted, fail), unmuted)
  BY <1>1, StopSoundInputRoutes, RoutesFollows DEF Follows, Good
<1> QED  BY <1>1, <1>2, <1>3, FollowsTransitive

\* The number of sounds.
LEMMA PlayingGood ==
  ASSUME NEW w, Good(w), NEW n \in 0..MaxPlaying
  PROVE  LET v == [w EXCEPT !.playing = n] IN
         Good(v) /\ v.playing = n /\ v.backend = w.backend
<1> DEFINE v == [w EXCEPT !.playing = n]
<1>1. /\ v \in World /\ v.loops = w.loops /\ v.muted = w.muted /\ v.sinks = w.sinks
      /\ v.backend = w.backend /\ v.playing = n
      /\ v.loopBack = w.loopBack /\ v.loopBackSink = w.loopBackSink
  BY DEF Good, World
<1> HIDE DEF v
<1> QED  BY <1>1 DEF v, Good, ModulesOK

\* stopSounds.
LEMMA RoutingStoppedFollows ==
  ASSUME NEW w, Good(w), NEW mute, NEW fail
  PROVE  Follows(RoutingStopped(w, mute, fail), w)
<1> DEFINE first == AllFinished(w, mute, fail)
           second == StopSoundInput(first, fail)
<1>3. Follows(first, w)
  BY AllFinishedFollows
<1> HIDE DEF first
<1>4. Follows(second, first)
  BY <1>3, StopSoundInputRoutes, RoutesFollows DEF Follows, Good
<1> HIDE DEF second
<1>5. Follows(StopPassthroughOf(second, Apps, fail), second)
  BY <1>4, StopPassthroughRoutes, RoutesFollows DEF Follows, Good
<1> QED  BY <1>3, <1>4, <1>5 DEF Follows, RoutingStopped, StopAllPassthrough, second, first

LEMMA SoundsStoppedGood ==
  ASSUME NEW w, Good(w), NEW mute, NEW fail
  PROVE  LET v == SoundsStopped(w, mute, fail) IN
         Good(v) /\ v.playing = 0 /\ v.backend = w.backend
<1> DEFINE none == [w EXCEPT !.playing = 0]
<1>1. 0 \in 0..MaxPlaying
  BY BoundsAssumption
<1>2. Good(none) /\ none.playing = 0 /\ none.backend = w.backend
  BY <1>1, PlayingGood
<1>3. SoundsStopped(w, mute, fail) = RoutingStopped(none, mute, fail)
  BY DEF SoundsStopped
<1> HIDE DEF none
<1> QED  BY <1>2, <1>3, RoutingStoppedFollows DEF Follows

\* stopSounds, of either kind, and the stopAll it leaves to the queue.
LEMMA StopSoundsStep ==
  ASSUME PulseInv, StopSounds \/ StopAllRuns
  PROVE  Good(pulse')
<1>1. CASE StopSounds
  <2>1. PICK fail \in Faults : \/ pulse' = SoundsStopped(pulse, settings.mute, fail)
                              \/ pulse' = RoutingStopped(pulse, settings.mute, fail)
    BY <1>1 DEF StopSounds
  <2> QED  BY <2>1, SoundsStoppedGood, RoutingStoppedFollows DEF PulseInv, Follows
<1>2. CASE StopAllRuns
  <2>1. 0 \in 0..MaxPlaying
    BY BoundsAssumption
  <2> QED  BY <1>2, <2>1, PlayingGood DEF StopAllRuns, PulseInv
<1> QED  BY <1>1, <1>2

\* The end of one sound.
LEMMA SoundLessGood ==
  ASSUME NEW w, Good(w), w.playing > 0, NEW mute, NEW fail
  PROVE  LET v == SoundLess(w, mute, fail) IN Good(v) /\ v.backend = w.backend
<1> DEFINE n == w.playing - 1
           less == [w EXCEPT !.playing = n]
<1>1. n \in 0..MaxPlaying
  BY BoundsAssumption DEF Good, World
<1>2. SoundLess(w, mute, fail) = IF less.playing = 0 THEN AllFinished(less, mute, fail) ELSE less
  BY DEF SoundLess
<1> HIDE DEF n
<1>3. Good(less) /\ less.backend = w.backend
  BY <1>1, PlayingGood
<1> HIDE DEF less
<1>4. Follows(AllFinished(less, mute, fail), less)
  BY <1>3, AllFinishedFollows
<1> QED  BY <1>2, <1>3, <1>4 DEF Follows

LEMMA PlaySoundStep ==
  ASSUME PulseInv, PlaySound
  PROVE  Good(pulse')
<1>1. PICK overlap \in BOOLEAN, fail \in Faults : PlaySound!(overlap, fail)
  BY DEF PlaySound
<1> DEFINE before  == IF overlap THEN pulse ELSE SoundsStopped(pulse, settings.mute, fail)
           muted   == IF settings.mute THEN MuteInput(before, TRUE) ELSE before
           playing == [muted EXCEPT !.playing = @ + 1]
           outputs == IF pulse.backend = "none" THEN {} ELSE settings.outputs
           routed  == InputSoundTo(playing, outputs, fail)
           heard   == outputs = {} \/ \E a \in outputs : HasInput(playing, a)
<1>2. /\ before.playing < MaxPlaying
      /\ pulse' = IF heard THEN routed ELSE SoundLess(routed, settings.mute, fail)
  BY <1>1 DEF OnlyPulse
<1>3. Good(before)
  BY SoundsStoppedGood DEF PulseInv
<1> HIDE DEF before
<1>4. Follows(muted, before)
  BY <1>3, MuteInputFollows DEF Follows
<1> HIDE DEF muted
<1> DEFINE n == muted.playing + 1
<1>5. n \in 0..MaxPlaying /\ n > 0
  BY <1>2, <1>4, BoundsAssumption DEF Follows, Good, World
<1>6. playing = [muted EXCEPT !.playing = n]
  BY <1>4 DEF Follows, Good, World
<1> HIDE DEF playing
<1>7. Good(playing) /\ playing.playing > 0
  <2> HIDE DEF n
  <2> QED  BY <1>4, <1>5, <1>6, PlayingGood DEF Follows
<1>8. Good(routed) /\ routed.playing > 0
  BY <1>7, InputSoundToRoutes, RoutesFollows DEF Follows, Good
<1> HIDE DEF routed, heard
<1> QED  BY <1>2, <1>8, SoundLessGood

LEMMA StartPassthroughStep ==
  ASSUME PulseInv, NEW name \in Apps, StartPassthrough(name)
  PROVE  /\ Good(pulse') /\ settings' = settings
         /\ phase' = phase \/ (phase' = "crashed" /\ pulse'.backend = "none")
<1>1. PICK fail \in Faults : StartPassthrough(name)!(fail)
  BY DEF StartPassthrough
<1> DEFINE inputs == InputSoundTo(pulse, settings.outputs, fail)
<1>2. /\ settings' = settings
      /\ \/ pulse' = inputs /\ phase' = phase
         \/ /\ StreamsOf(pulse, Playbacks, name) # {}
            /\ pulse' = PassthroughFrom(inputs, name, fail) /\ phase' = phase
         \/ pulse' = [NoBackend(inputs) EXCEPT !.playing = 0] /\ phase' = "crashed"
  BY <1>1 DEF OnlyPulse, Dies
<1>3. Routes(inputs, pulse) /\ Good(inputs)
  BY InputSoundToRoutes, RoutesGood DEF PulseInv, Good
<1>4. StreamsOf(inputs, Playbacks, name) = StreamsOf(pulse, Playbacks, name)
  <2>1. \A s \in Streams : inputs.at[s] = "closed" <=> pulse.at[s] = "closed"
    <3> DEFINE into == {a \in settings.outputs : HasInput(pulse, a) /\ pulse.moved[a] = "none"}
               open == UNION {StreamsOf(pulse, Inputs, a) : a \in into}
    <3>1. \A s \in open : pulse.at[s] # "closed"
      BY DEF StreamsOf
    <3>2. inputs.at = ToSoundux(pulse, open, fail).at
      BY ToSounduxRoutes DEF InputSoundTo, PulseInv, Good, Routes, World
    <3> HIDE DEF open
    <3> QED  BY <3>1, <3>2 DEF ToSoundux, Moved, PulseInv, Good, World
  <2> HIDE DEF inputs
  <2> QED  BY <2>1 DEF StreamsOf, Streams
<1> HIDE DEF inputs
<1>8. settings' = settings
  BY <1>2
<1>5. CASE pulse' = inputs /\ phase' = phase
  BY <1>3, <1>5, <1>8
<1>6. CASE /\ StreamsOf(pulse, Playbacks, name) # {}
           /\ pulse' = PassthroughFrom(inputs, name, fail) /\ phase' = phase
  BY <1>3, <1>4, <1>6, <1>8, PassthroughFromRoutes, RoutesGood DEF Good
<1>7. CASE pulse' = [NoBackend(inputs) EXCEPT !.playing = 0] /\ phase' = "crashed"
  <2>1. 0 \in 0..MaxPlaying
    BY BoundsAssumption
  <2> QED  BY <1>3, <1>7, <1>8, <2>1, NoBackendGood, PlayingGood
<1> QED  BY <1>2, <1>5, <1>6, <1>7

LEMMA StopPassthroughStep ==
  ASSUME PulseInv, NEW name, StopPassthrough(name)
  PROVE  Good(pulse')
<1>1. PICK fail \in Faults : StopPassthrough(name)!(fail)
  BY DEF StopPassthrough
<1> DEFINE last == pulse.playing = 0 /\ Cardinality({a \in Apps : pulse.passed[a] # "none"}) = 1
           inputs == IF last THEN StopSoundInput(pulse, fail) ELSE pulse
<1>2. pulse' = StopPassthroughOf(inputs, {name}, fail)
  BY <1>1 DEF OnlyPulse
<1> HIDE DEF last
<1>3. Good(inputs)
  BY StopSoundInputRoutes, RoutesGood DEF PulseInv, Good
<1> HIDE DEF inputs
<1> QED  BY <1>2, <1>3, StopPassthroughRoutes, RoutesGood DEF Good

LEMMA ChangeSettingsStep ==
  ASSUME PulseInv, NEW new \in Settings, ChangeSettings(new)
  PROVE  Good(pulse') /\ settings' \in Settings
<1>1. PICK found \in (IF Restarts(new) THEN Backends ELSE {"none"}),
           ok \in BOOLEAN, fail \in Faults,
           apps \in {new.outputs} \cup {{a} : a \in new.outputs} :
        ChangeSettings(new)!2!(found, ok, fail, apps)
  BY DEF ChangeSettings
<1> DEFINE one   == WithBackend(pulse, new, found, ok, fail)
           mid   == WithMute(one, new)
           two   == WithDefault(mid, new, ok, fail)
           three == WithOutputs(two, new, apps, fail)
<1>2. /\ pulse' = IF one.backend = "none" THEN one ELSE three
      /\ settings' = [new EXCEPT
            !.backend = IF new.backend # settings.backend /\ one.backend = "none" THEN "none" ELSE @,
            !.outputs = IF one.backend # "none" /\ new.asDefault /\ ~settings.asDefault
                        THEN {} ELSE @]
  BY <1>1
<1>3. fail \in SUBSET Streams /\ found \in Backends
  BY DEF Faults, Backends
<1>4. Good(one)
  <2> DEFINE silent == SoundsStopped(pulse, new.mute, fail)
             ended == Destroy(silent, ok, fail)
  <2>1. Good(silent)
    BY SoundsStoppedGood DEF PulseInv
  <2> HIDE DEF silent
  <2>2. Good(ended) /\ ended.backend = "none"
    BY <2>1, DestroyGood
  <2>3. one = IF new.backend = settings.backend THEN pulse
              ELSE IF new.backend = "none" THEN ended ELSE CreateInstance(ended, found, ok, fail)
    BY DEF WithBackend, silent
  <2> HIDE DEF ended, one
  <2> QED  BY <1>3, <2>2, <2>3, CreateInstanceGood DEF PulseInv
<1> HIDE DEF one
<1>5. Good(mid) /\ mid.backend = one.backend
  BY <1>4, MuteInputFollows DEF WithMute, Follows
<1> HIDE DEF mid
<1>6. ASSUME one.backend # "none"
      PROVE  Good(three)
  <2> DEFINE back == StopSoundInput(mid, fail)
  <2>1. Good(back) /\ back.backend = mid.backend
    BY <1>5, StopSoundInputRoutes, RoutesFollows DEF Follows, Good
  <2>2. two = IF ~new.asDefault /\ settings.asDefault THEN RevertDefault(mid, ok)
              ELSE IF new.asDefault /\ ~settings.asDefault THEN UseAsDefault(back, ok)
              ELSE mid
    BY DEF WithDefault
  <2> HIDE DEF back, two
  <2>3. Good(two)
    BY <1>5, <1>6, <2>1, <2>2, RevertDefaultFollows, UseAsDefaultFollows DEF Follows
  <2> DEFINE stopped == StopSoundInput(two, fail)
  <2>4. Good(stopped)
    BY <2>3, StopSoundInputRoutes, RoutesGood DEF Good
  <2>5. three = IF new.outputs = settings.outputs THEN two
                ELSE IF two.playing = 0 THEN stopped ELSE InputSoundTo(stopped, apps, fail)
    BY DEF WithOutputs
  <2> HIDE DEF stopped, three
  <2> QED  BY <2>3, <2>4, <2>5, InputSoundToRoutes, RoutesGood DEF Good
<1>7. settings' \in Settings
  BY <1>2 DEF Settings
<1> HIDE DEF three
<1> QED  BY <1>2, <1>4, <1>6, <1>7

LEMMA StartStep ==
  ASSUME PulseInv, Start
  PROVE  Good(pulse') /\ settings' \in Settings
<1>1. PICK found \in Backends, ok \in BOOLEAN, again \in BOOLEAN, fail \in Faults :
        Start!(found, ok, again, fail)
  BY DEF Start
<1> DEFINE made == IF settings.backend = "none" THEN pulse
                   ELSE CreateInstance(pulse, found, ok, fail)
<1>2. /\ pulse' = IF made.backend # "none" /\ settings.asDefault
                  THEN UseAsDefault(made, again) ELSE made
      /\ settings' = [settings EXCEPT !.backend = IF made.backend = "none" THEN "none" ELSE @]
      /\ phase \in {"off", "crashed"}
  BY <1>1
<1>3. Good(made)
  <2>1. fail \in SUBSET Streams
    BY DEF Faults
  <2> QED  BY <1>2, <2>1, CreateInstanceGood DEF PulseInv
<1> HIDE DEF made
<1>4. Good(pulse')
  BY <1>2, <1>3, UseAsDefaultFollows DEF Follows
<1>5. settings' \in Settings
  BY <1>2 DEF PulseInv, Settings
<1> QED  BY <1>4, <1>5

\* The shutdown sequence, and an end without it.
LEMMA EndStep ==
  ASSUME PulseInv, Quit \/ Crash
  PROVE  Good(pulse') /\ pulse'.backend = "none"
<1>1. 0 \in 0..MaxPlaying
  BY BoundsAssumption
<1>2. CASE Quit
  <2>1. PICK ok \in BOOLEAN, fail \in Faults : pulse' = Destroy([pulse EXCEPT !.playing = 0], ok, fail)
    BY <1>2 DEF Quit
  <2>2. Good([pulse EXCEPT !.playing = 0])
    BY <1>1, PlayingGood DEF PulseInv
  <2> QED  BY <2>1, <2>2, DestroyGood
<1>3. CASE Crash
  BY <1>1, <1>3, NoBackendGood, PlayingGood DEF Crash, Dies, PulseInv
<1> QED  BY <1>2, <1>3

\* Applications open and close streams.
LEMMA AppStep ==
  ASSUME PulseInv, NEW s \in Streams, AppCloses(s) \/ \E device \in Devices : AppOpens(s, device)
  PROVE  Good(pulse')
<1>1. PICK device \in Devices \cup {"closed"}, more \in SUBSET Apps :
        pulse' = [pulse EXCEPT !.at[s] = device, !.excused = more]
  <2>1. CASE AppCloses(s)
    <3>1. pulse' = [pulse EXCEPT !.at[s] = "closed", !.excused = pulse.excused]
      BY <2>1 DEF AppCloses, OnlyPulse, PulseInv, Good, World
    <3> QED  BY <3>1 DEF PulseInv, Good, World
  <2>2. CASE \E device \in Devices : AppOpens(s, device)
    <3>1. PICK device \in Devices : AppOpens(s, device)
      BY <2>2
    <3> DEFINE more == IF device = "soundux" THEN pulse.excused \cup {AppOf[s]} ELSE pulse.excused
    <3>2. more \in SUBSET Apps
      BY StreamsAssumption DEF PulseInv, Good, World
    <3>3. pulse' = [pulse EXCEPT !.at[s] = device, !.excused = more]
      BY <3>1 DEF AppOpens, OnlyPulse
    <3> HIDE DEF more
    <3> QED  BY <3>2, <3>3
  <2> QED  BY <2>1, <2>2
<1> DEFINE at == [pulse.at EXCEPT ![s] = device]
<1>2. at \in [Streams -> Devices \cup {"closed"}]
  BY DEF PulseInv, Good, World
<1>3. pulse' = [pulse EXCEPT !.at = at, !.excused = more]
  BY <1>1
<1> HIDE DEF at
<1>4. Routes(pulse', pulse)
  BY <1>2, <1>3 DEF Routes, PulseInv, Good, World
<1> QED  BY <1>4, RoutesGood DEF PulseInv

-------------------------------------------------------------------------------
(* The specification *)

LEMMA InitGood == Init => PulseInv
<1> SUFFICES ASSUME Init PROVE PulseInv
  OBVIOUS
<1>1. pulse \in World
  BY BoundsAssumption DEF Init, World, Unset, Ids, Failed, Nowhere, Backends
<1>2. settings \in Settings
  BY DEF Init, Settings
<1> QED  BY <1>1, <1>2 DEF Init, PulseInv, Good, ModulesOK

\* A stopAll waits in the queue, or it does not.
LEMMA StoppingStep ==
  ASSUME stopping \in BOOLEAN, [Next]_vars
  PROVE  stopping' \in BOOLEAN
<1>1. CASE Start
  BY <1>1 DEF Start
<1>2. CASE Quit \/ Crash
  BY <1>2 DEF Quit, Crash, Dies
<1>3. CASE PlaySound \/ SoundEnds \/ UnloadSwitchOnConnect
  BY <1>3 DEF PlaySound, SoundEnds, UnloadSwitchOnConnect, OnlyPulse
<1>4. CASE StopSounds \/ StopAllRuns
  BY <1>4 DEF StopSounds, StopAllRuns
<1>5. CASE \E name \in {AppOf[s] : s \in Playbacks} : StartPassthrough(name) \/ StopPassthrough(name)
  BY <1>5 DEF StartPassthrough, StopPassthrough, OnlyPulse, Dies
<1>6. CASE \E new \in Settings : ChangeSettings(new)
  BY <1>6 DEF ChangeSettings
<1>7. CASE \E s \in Streams : AppCloses(s) \/ \E device \in Devices : AppOpens(s, device)
  BY <1>7 DEF AppCloses, AppOpens, OnlyPulse
<1>8. CASE UNCHANGED vars
  BY <1>8 DEF vars
<1> QED  BY <1>1, <1>2, <1>3, <1>4, <1>5, <1>6, <1>7, <1>8 DEF Next

LEMMA PulseInvHolds == Spec => []PulseInv
<1>1. PulseInv /\ [Next]_vars => PulseInv'
  <2> SUFFICES ASSUME PulseInv, [Next]_vars
               PROVE  PulseInv'
    OBVIOUS
  <2>9. stopping' \in BOOLEAN
    BY StoppingStep DEF PulseInv
  <2>1. CASE Start
    <3>1. phase' = "on"
      BY <2>1 DEF Start
    <3> QED  BY <2>1, <3>1, StartStep, <2>9 DEF PulseInv, Good, ModulesOK
  <2>2. CASE Quit \/ Crash
    <3>1. settings' = settings /\ phase' \in {"off", "crashed"}
      BY <2>2 DEF Quit, Crash, Dies
    <3> QED  BY <2>2, <3>1, EndStep, <2>9 DEF PulseInv, Good, ModulesOK
  <2>3. CASE PlaySound \/ SoundEnds \/ StopSounds \/ StopAllRuns \/ UnloadSwitchOnConnect
    <3>1. phase = "on" /\ phase' = phase /\ settings' = settings
      BY <2>3 DEF PlaySound, SoundEnds, StopSounds, StopAllRuns, UnloadSwitchOnConnect, On, OnlyPulse
    <3>2. Good(pulse')
      <4>1. CASE PlaySound
        BY <4>1, PlaySoundStep
      <4>2. CASE SoundEnds
        BY <4>2, SoundLessGood DEF SoundEnds, OnlyPulse, PulseInv
      <4>3. CASE StopSounds \/ StopAllRuns
        BY <4>3, StopSoundsStep
      <4>4. CASE UnloadSwitchOnConnect
        <5>1. PICK ok \in BOOLEAN, fail \in Faults : pulse' = LoadModules(pulse, ok, fail)
          BY <4>4 DEF UnloadSwitchOnConnect, OnlyPulse
        <5>2. pulse.loops = {} /\ fail \in SUBSET Streams
          BY <4>4 DEF UnloadSwitchOnConnect, PulseInv, Good, ModulesOK, Faults
        <5> QED  BY <5>1, <5>2, LoadModulesGood DEF PulseInv
      <4> QED  BY <2>3, <4>1, <4>2, <4>3, <4>4
    <3> QED  BY <3>1, <3>2, <2>9 DEF PulseInv, Good, ModulesOK
  <2>4. CASE \E name \in {AppOf[s] : s \in Playbacks} : StartPassthrough(name)
    <3>1. PICK name \in Apps : StartPassthrough(name)
      BY <2>4, StreamsAssumption DEF Streams
    <3>2. phase = "on"
      BY <3>1 DEF StartPassthrough, On
    <3>3. /\ Good(pulse') /\ settings' = settings
          /\ phase' = phase \/ (phase' = "crashed" /\ pulse'.backend = "none")
      BY <3>1, StartPassthroughStep
    <3> QED  BY <3>2, <3>3, <2>9 DEF PulseInv, Good, ModulesOK
  <2>5. CASE \E name \in {AppOf[s] : s \in Playbacks} : StopPassthrough(name)
    <3>1. phase' = phase /\ settings' = settings /\ phase = "on"
      BY <2>5 DEF StopPassthrough, OnlyPulse, On
    <3> QED  BY <2>5, <3>1, StopPassthroughStep, <2>9 DEF PulseInv, Good, ModulesOK
  <2>6. CASE \E new \in Settings : ChangeSettings(new)
    <3>1. phase' = phase /\ phase = "on"
      BY <2>6 DEF ChangeSettings, On
    <3> QED  BY <2>6, <3>1, ChangeSettingsStep, <2>9 DEF PulseInv, Good, ModulesOK
  <2>7. CASE \E s \in Streams : AppCloses(s) \/ \E device \in Devices : AppOpens(s, device)
    <3>1. PICK s \in Streams : AppCloses(s) \/ \E device \in Devices : AppOpens(s, device)
      BY <2>7
    <3>2. phase' = phase /\ settings' = settings /\ pulse'.backend = pulse.backend
      BY <3>1 DEF AppCloses, AppOpens, OnlyPulse, PulseInv, Good, World
    <3> QED  BY <3>1, <3>2, AppStep, <2>9 DEF PulseInv, Good, ModulesOK
  <2>8. CASE UNCHANGED vars
    BY <2>8, <2>9 DEF vars, PulseInv, Good, ModulesOK
  <2> QED  BY <2>1, <2>2, <2>3, <2>4, <2>5, <2>6, <2>7, <2>8 DEF Next
<1> QED  BY <1>1, InitGood, PTL DEF Spec

\* The types, of every field of the server, the backend and the settings.
THEOREM PulseTypes == Spec => []TypeOK
<1>1. PulseInv => TypeOK
  BY DEF PulseInv, Good, ModulesOK, TypeOK
<1> QED  BY <1>1, PulseInvHolds, PTL

\* Whatever loads fail and however the program ended before: the server holds at most
\* the one loopback the backend would unload.
THEOREM AtMostOneLoopback == Spec => []OneLoopback
<1>1. PulseInv => OneLoopback
  BY DEF PulseInv, Good, ModulesOK, OneLoopback
<1> QED  BY <1>1, PulseInvHolds, PTL

\* A muted loopback is the one muteInput(false) reaches.
THEOREM MutedCanBeUnmuted == Spec => []MuteIsUndoable
<1>1. PulseInv => MuteIsUndoable
  BY DEF PulseInv, Good, ModulesOK, MuteIsUndoable
<1> QED  BY <1>1, PulseInvHolds, PTL

-------------------------------------------------------------------------------
(* Where the streams are, and what is recorded of it *)

\* Every stream on a device of Soundux has a record or an excuse.  A record may itself
\* name a device of Soundux, of an application that opened its stream there or that a
\* failed move left there: its excuse outlives the record.
Recorded(w) ==
  /\ \A s \in Streams : w.at[s] = "soundux" =>
       \/ (IF s \in Inputs THEN w.moved ELSE w.passed)[AppOf[s]] # "none"
       \/ AppOf[s] \in w.excused
  /\ \A a \in Apps : w.moved[a] = "soundux" \/ w.passed[a] = "soundux" => a \in w.excused

\* No device of Soundux is in use or in a record.
NoneThere(w) ==
  /\ w.default = "home"
  /\ \A s \in Streams : w.at[s] # "soundux"
  /\ \A a \in Apps : w.moved[a] # "soundux" /\ w.passed[a] # "soundux"

\* While the sinks are not loaded nothing is on them, or recorded as coming from them,
\* so that loading them can forget the excuses; without an instance nothing is recorded.
RoutingOK(w) ==
  /\ ~w.sinks => NoneThere(w)
  /\ w.backend # "none" => Recorded(w)
  /\ w.backend = "none" => w.moved = Nowhere /\ w.passed = Nowhere

\* v routes the streams as w does.
SameRouting(v, w) ==
  /\ v.at = w.at /\ v.default = w.default /\ v.sinks = w.sinks /\ v.backend = w.backend
  /\ v.moved = w.moved /\ v.passed = w.passed /\ v.excused = w.excused

LEMMA SameRoutingOK ==
  ASSUME NEW v, NEW w, RoutingOK(w), SameRouting(v, w)
  PROVE  RoutingOK(v)
  BY DEF RoutingOK, SameRouting, Recorded, NoneThere

LEMMA SameRoutingTransitive ==
  ASSUME NEW u, NEW v, NEW w, SameRouting(u, v), SameRouting(v, w)
  PROVE  SameRouting(u, w)
  BY DEF SameRouting

LEMMA DevicesAreNoMarks == \A d \in Devices : d # "none" /\ d # "closed"
  BY HomesAssumption DEF Devices

\* What a move leaves and changes.
LEMMA MovedFields ==
  ASSUME NEW w \in World, NEW streams, NEW to, NEW fail
  PROVE  LET v == Moved(w, streams, to, fail) IN
         /\ v.at = [s \in Streams |-> IF s \in streams \ fail THEN to[s] ELSE w.at[s]]
         /\ v.default = w.default /\ v.sinks = w.sinks /\ v.backend = w.backend
         /\ v.moved = w.moved /\ v.passed = w.passed /\ v.excused = w.excused
  BY DEF Moved, World

LEMMA ToSounduxFields ==
  ASSUME NEW w \in World, NEW streams \in SUBSET Streams, NEW fail
  PROVE  LET v == ToSoundux(w, streams, fail) IN
         /\ \A s \in Streams :
              v.at[s] = IF s \in streams /\ w.sinks /\ s \notin fail THEN "soundux" ELSE w.at[s]
         /\ v.default = w.default /\ v.sinks = w.sinks /\ v.backend = w.backend
         /\ v.moved = w.moved /\ v.passed = w.passed /\ v.excused = w.excused
<1> DEFINE to == [s \in Streams |-> "soundux"]
           f == IF w.sinks THEN fail ELSE streams
           v == Moved(w, streams, to, f)
<1>1. ToSoundux(w, streams, fail) = v
  BY DEF ToSoundux
<1>2. /\ v.at = [s \in Streams |-> IF s \in streams \ f THEN to[s] ELSE w.at[s]]
      /\ v.default = w.default /\ v.sinks = w.sinks /\ v.backend = w.backend
      /\ v.moved = w.moved /\ v.passed = w.passed /\ v.excused = w.excused
  <2> HIDE DEF to, f
  <2> QED  BY MovedFields
<1> HIDE DEF v
<1>3. \A s \in Streams :
        v.at[s] = IF s \in streams /\ w.sinks /\ s \notin fail THEN "soundux" ELSE w.at[s]
  BY <1>2
<1> HIDE DEF f, to
<1> QED  BY <1>1, <1>2, <1>3

\* inputSoundTo: whoever is moved is recorded.
LEMMA InputSoundToRouting ==
  ASSUME NEW w \in World, RoutingOK(w), NEW apps, NEW fail, w.backend # "none" \/ apps = {}
  PROVE  LET v == InputSoundTo(w, apps, fail) IN
         RoutingOK(v) /\ v.passed = w.passed /\ (apps = {} => v.moved = w.moved)
<1> DEFINE into == {a \in apps : HasInput(w, a) /\ w.moved[a] = "none"}
           open == UNION {StreamsOf(w, Inputs, a) : a \in into}
           there == ToSoundux(w, open, fail)
           record == [a \in Apps |-> IF a \in into THEN DeviceOf(w, Inputs, a) ELSE w.moved[a]]
           v == InputSoundTo(w, apps, fail)
<1>1. open \in SUBSET Streams
  BY DEF StreamsOf, Streams
<1>2. \A s \in open : s \in Inputs /\ AppOf[s] \in into
  BY DEF StreamsOf
<1>3. \A a \in into : DeviceOf(w, Inputs, a) \in Devices
  BY DeviceOfType DEF HasInput
<1>4. /\ \A s \in Streams :
           there.at[s] = IF s \in open /\ w.sinks /\ s \notin fail THEN "soundux" ELSE w.at[s]
      /\ there.default = w.default /\ there.sinks = w.sinks /\ there.backend = w.backend
      /\ there.moved = w.moved /\ there.passed = w.passed /\ there.excused = w.excused
  <2> HIDE DEF open
  <2> QED  BY <1>1, ToSounduxFields
<1>5. v = [there EXCEPT !.moved = record]
  BY <1>4 DEF InputSoundTo
<1>6. there \in World
  BY ToSounduxRoutes DEF Routes
<1>7. apps = {} => into = {}
  OBVIOUS
<1>8. \A a \in into : DeviceOf(w, Inputs, a) = "soundux" =>
        \E s \in Inputs : AppOf[s] = a /\ w.at[s] = "soundux" /\ w.moved[a] = "none"
  <2> SUFFICES ASSUME NEW a \in into, DeviceOf(w, Inputs, a) = "soundux"
               PROVE  \E s \in Inputs : AppOf[s] = a /\ w.at[s] = "soundux" /\ w.moved[a] = "none"
    OBVIOUS
  <2> DEFINE mine == StreamsOf(w, Inputs, a)
  <2>1. mine \in SUBSET Streams /\ mine # {}
    BY DEF StreamsOf, Streams, HasInput
  <2>2. First(mine) \in mine
    BY <2>1, StreamsAssumption DEF First
  <2> QED  BY <2>2 DEF DeviceOf, StreamsOf
<1> HIDE DEF there, open
<1>9. /\ v.at = there.at /\ v.default = w.default /\ v.sinks = w.sinks /\ v.backend = w.backend
      /\ v.moved = record /\ v.passed = w.passed /\ v.excused = w.excused
  <2> HIDE DEF record, v
  <2> QED  BY <1>4, <1>5, <1>6 DEF World
<1> HIDE DEF into, v
<1>10. apps = {} => record = w.moved
  BY <1>7 DEF World
<1>11. ~w.sinks => NoneThere(v)
  <2> SUFFICES ASSUME ~w.sinks PROVE NoneThere(v)
    OBVIOUS
  <2>1. NoneThere(w)
    BY DEF RoutingOK
  <2>2. \A a \in into : DeviceOf(w, Inputs, a) # "soundux"
    BY <1>8, <2>1 DEF NoneThere, Streams
  <2> QED  BY <1>4, <1>9, <2>1, <2>2 DEF NoneThere
<1>12. w.backend # "none" => Recorded(v)
  <2> SUFFICES ASSUME w.backend # "none" PROVE Recorded(v)
    OBVIOUS
  <2>1. Recorded(w)
    BY DEF RoutingOK
  <2>2. ASSUME NEW s \in Streams, v.at[s] = "soundux"
        PROVE  \/ (IF s \in Inputs THEN v.moved ELSE v.passed)[AppOf[s]] # "none"
               \/ AppOf[s] \in v.excused
    <3>1. AppOf[s] \in Apps
      BY StreamsAssumption
    <3>2. CASE s \in open
      BY <1>2, <1>3, <1>9, <3>1, <3>2, DevicesAreNoMarks
    <3>3. CASE s \notin open
      BY <1>3, <1>4, <1>9, <2>1, <2>2, <3>1, <3>3, DevicesAreNoMarks DEF Recorded
    <3> QED  BY <3>2, <3>3
  <2>3. ASSUME NEW a \in Apps, v.moved[a] = "soundux" \/ v.passed[a] = "soundux"
        PROVE  a \in v.excused
    <3>1. CASE v.moved[a] = "soundux" /\ a \in into
      BY <1>8, <1>9, <2>1, <3>1 DEF Recorded, Streams
    <3>2. CASE ~(v.moved[a] = "soundux" /\ a \in into)
      BY <1>9, <2>1, <2>3, <3>2 DEF Recorded
    <3> QED  BY <3>1, <3>2
  <2> QED  BY <2>2, <2>3 DEF Recorded
<1>13. v.backend = "none" => v.moved = Nowhere /\ v.passed = Nowhere
  BY <1>9, <1>10 DEF RoutingOK
<1> QED  BY <1>9, <1>10, <1>11, <1>12, <1>13 DEF RoutingOK, v

\* Streams of the set back go to the device recorded for them, or stay and are excused;
\* the applications of the set done lose their record.
LEMMA StopSoundInputRouting ==
  ASSUME NEW w \in World, RoutingOK(w), NEW fail
  PROVE  LET v == StopSoundInput(w, fail) IN
         RoutingOK(v) /\ v.moved = Nowhere /\ v.passed = w.passed
<1> DEFINE back == {s \in Inputs : w.moved[AppOf[s]] # "none" /\ w.at[s] # "closed"}
           to == [s \in Streams |-> w.moved[AppOf[s]]]
           done == Moved(w, back, to, fail)
           more == {AppOf[s] : s \in back \cap fail}
           v == StopSoundInput(w, fail)
<1>1. v = [Excused(done, back \cap fail) EXCEPT !.moved = Nowhere]
  BY DEF StopSoundInput
<1>2. Excused(done, back \cap fail) = [done EXCEPT !.excused = done.excused \cup more]
  BY DEF Excused
<1>3. /\ done.at = [s \in Streams |-> IF s \in back \ fail THEN to[s] ELSE w.at[s]]
      /\ done.default = w.default /\ done.sinks = w.sinks /\ done.backend = w.backend
      /\ done.moved = w.moved /\ done.passed = w.passed /\ done.excused = w.excused
  <2> HIDE DEF back, to
  <2> QED  BY MovedFields
<1>4. done \in World
  <2>1. \A s \in back \cap Streams : to[s] \in Devices \cup {"closed"}
    BY StreamsAssumption DEF World
  <2> HIDE DEF back, to
  <2> QED  BY <2>1, MovedRoutes DEF Routes
<1>5. \A s \in Streams : AppOf[s] \in Apps
  BY StreamsAssumption
<1> HIDE DEF more, done, v
<1>6. /\ v.at = done.at /\ v.default = w.default /\ v.sinks = w.sinks /\ v.backend = w.backend
      /\ v.moved = Nowhere /\ v.passed = w.passed /\ v.excused = w.excused \cup more
  BY <1>1, <1>2, <1>3, <1>4 DEF World
<1>7. ~w.sinks => NoneThere(v)
  BY <1>3, <1>5, <1>6 DEF NoneThere, RoutingOK, Nowhere
<1>8. w.backend # "none" => Recorded(v)
  <2> SUFFICES ASSUME w.backend # "none" PROVE Recorded(v)
    OBVIOUS
  <2>1. Recorded(w)
    BY DEF RoutingOK
  <2>2. ASSUME NEW s \in Streams, v.at[s] = "soundux"
        PROVE  \/ s \notin Inputs /\ v.passed[AppOf[s]] # "none"
               \/ AppOf[s] \in v.excused
    <3>1. CASE s \in back \ fail
      BY <1>3, <1>5, <1>6, <2>1, <2>2, <3>1 DEF Recorded
    <3>2. CASE s \in back \cap fail
      BY <1>6, <3>2 DEF more
    <3>3. CASE s \notin back
      <4>1. w.at[s] = "soundux"
        BY <1>3, <1>6, <2>2, <3>3
      <4> QED  BY <1>6, <2>1, <3>3, <4>1 DEF Recorded
    <3> QED  BY <3>1, <3>2, <3>3
  <2>3. \A a \in Apps : v.moved[a] = "soundux" \/ v.passed[a] = "soundux" => a \in v.excused
    BY <1>6, <2>1 DEF Recorded, Nowhere
  <2> QED  BY <2>2, <2>3 DEF Recorded
<1> QED  BY <1>6, <1>7, <1>8 DEF RoutingOK, v

\* stopPassthrough.
LEMMA StopPassthroughRouting ==
  ASSUME NEW w \in World, RoutingOK(w), NEW apps, NEW fail
  PROVE  LET v == StopPassthroughOf(w, apps, fail) IN
         /\ RoutingOK(v) /\ v.moved = w.moved
         /\ v.passed = [a \in Apps |-> IF a \in apps THEN "none" ELSE w.passed[a]]
<1> DEFINE back == {s \in Playbacks : /\ AppOf[s] \in apps /\ w.passed[AppOf[s]] # "none"
                                      /\ w.at[s] # "closed"}
           to == [s \in Streams |-> w.passed[AppOf[s]]]
           done == Moved(w, back, to, fail)
           more == {AppOf[s] : s \in back \cap fail}
           record == [a \in Apps |-> IF a \in apps THEN "none" ELSE w.passed[a]]
           v == StopPassthroughOf(w, apps, fail)
<1>1. /\ done.at = [s \in Streams |-> IF s \in back \ fail THEN to[s] ELSE w.at[s]]
      /\ done.default = w.default /\ done.sinks = w.sinks /\ done.backend = w.backend
      /\ done.moved = w.moved /\ done.passed = w.passed /\ done.excused = w.excused
  <2> HIDE DEF back, to
  <2> QED  BY MovedFields
<1>2. done \in World
  <2>1. \A s \in back \cap Streams : to[s] \in Devices \cup {"closed"}
    BY StreamsAssumption DEF World
  <2> HIDE DEF back, to
  <2> QED  BY <2>1, MovedRoutes DEF Routes
<1>3. Excused(done, back \cap fail) = [done EXCEPT !.excused = done.excused \cup more]
  BY DEF Excused
<1>4. [done EXCEPT !.excused = done.excused \cup more].passed = w.passed
  <2> HIDE DEF done, more
  <2> QED  BY <1>1, <1>2 DEF World
<1>5. v = [[done EXCEPT !.excused = done.excused \cup more] EXCEPT !.passed = record]
  BY <1>3, <1>4 DEF StopPassthroughOf
<1>6. \A s \in Streams : AppOf[s] \in Apps
  BY StreamsAssumption
<1>7. Playbacks \cap Inputs = {} /\ \A s \in Streams : s \in Inputs \/ s \in Playbacks
  BY StreamsAssumption DEF Streams
<1> HIDE DEF more, done, v
<1>8. /\ v.at = done.at /\ v.default = w.default /\ v.sinks = w.sinks /\ v.backend = w.backend
      /\ v.moved = w.moved /\ v.passed = record /\ v.excused = w.excused \cup more
  <2> HIDE DEF record
  <2> QED  BY <1>1, <1>2, <1>5 DEF World
<1>9. ~w.sinks => NoneThere(v)
  BY <1>1, <1>6, <1>8 DEF NoneThere, RoutingOK
<1>10. w.backend # "none" => Recorded(v)
  <2> SUFFICES ASSUME w.backend # "none" PROVE Recorded(v)
    OBVIOUS
  <2>1. Recorded(w)
    BY DEF RoutingOK
  <2>2. ASSUME NEW s \in Streams, v.at[s] = "soundux"
        PROVE  \/ (IF s \in Inputs THEN v.moved ELSE v.passed)[AppOf[s]] # "none"
               \/ AppOf[s] \in v.excused
    <3>1. CASE s \in back \ fail
      BY <1>1, <1>6, <1>8, <2>1, <2>2, <3>1 DEF Recorded
    <3>2. CASE s \in back \cap fail
      BY <1>8, <3>2 DEF more
    <3>3. CASE s \notin back
      <4>1. w.at[s] = "soundux"
        BY <1>1, <1>8, <2>2, <3>3
      <4>2. CASE s \in Inputs
        BY <1>8, <2>1, <4>1, <4>2 DEF Recorded
      <4>3. CASE s \in Playbacks
        <5>1. s \notin Inputs
          BY <1>7, <4>3
        <5>2. AppOf[s] \in w.excused \/ w.passed[AppOf[s]] # "none"
          BY <2>1, <4>1, <5>1 DEF Recorded
        <5>3. w.passed[AppOf[s]] # "none" => AppOf[s] \notin apps
          BY <3>3, <4>1, <4>3
        <5> QED  BY <1>6, <1>8, <5>1, <5>2, <5>3
      <4> QED  BY <1>7, <4>2, <4>3
    <3> QED  BY <3>1, <3>2, <3>3
  <2>3. \A a \in Apps : v.moved[a] = "soundux" \/ v.passed[a] = "soundux" => a \in v.excused
    BY <1>8, <2>1 DEF Recorded
  <2> QED  BY <2>2, <2>3 DEF Recorded
<1>11. v.backend = "none" => v.moved = Nowhere /\ v.passed = Nowhere
  BY <1>8 DEF RoutingOK, Nowhere
<1> QED  BY <1>8, <1>9, <1>10, <1>11 DEF RoutingOK, v

\* passthroughFrom, of an application with streams: all of them moved and recorded, or
\* the earlier ones moved and excused.
LEMMA PassthroughFromRouting ==
  ASSUME NEW w \in World, RoutingOK(w), w.backend # "none", NEW a \in Apps, NEW fail,
         StreamsOf(w, Playbacks, a) # {}
  PROVE  LET v == PassthroughFrom(w, a, fail) IN RoutingOK(v) /\ v.moved = w.moved
<1> DEFINE mine == StreamsOf(w, Playbacks, a)
           bad  == {s \in mine : s \in fail \/ ~w.sinks}
           done == {s \in mine : \A t \in bad : s < t}
           gone == ToSoundux(w, done, {})
           more == {AppOf[s] : s \in done}
           record == [w.passed EXCEPT ![a] = DeviceOf(w, Playbacks, a)]
           v == PassthroughFrom(w, a, fail)
<1>1. done \in SUBSET Streams /\ mine \in SUBSET Streams
  BY DEF StreamsOf, Streams
<1>2. /\ \A s \in Streams : gone.at[s] = IF s \in done /\ w.sinks /\ s \notin {} THEN "soundux" ELSE w.at[s]
      /\ gone.default = w.default /\ gone.sinks = w.sinks /\ gone.backend = w.backend
      /\ gone.moved = w.moved /\ gone.passed = w.passed /\ gone.excused = w.excused
  <2> HIDE DEF done
  <2> QED  BY <1>1, ToSounduxFields
<1>3. gone \in World
  BY ToSounduxRoutes DEF Routes
<1>4. DeviceOf(w, Playbacks, a) \in Devices
  BY DeviceOfType
<1>5. \A s \in mine : s \in Playbacks /\ s \notin Inputs /\ AppOf[s] = a
  BY StreamsAssumption DEF StreamsOf
<1>6. v = IF w.passed[a] # "none" THEN w
          ELSE IF bad # {} THEN [gone EXCEPT !.excused = gone.excused \cup more]
          ELSE [gone EXCEPT !.passed = record]
  BY <1>2 DEF PassthroughFrom, Excused
<1>7. w.passed[a] = "none" /\ DeviceOf(w, Playbacks, a) = "soundux" => a \in w.excused /\ w.sinks
  <2> SUFFICES ASSUME w.passed[a] = "none", DeviceOf(w, Playbacks, a) = "soundux"
               PROVE  a \in w.excused /\ w.sinks
    OBVIOUS
  <2>1. First(mine) \in mine
    BY <1>1, StreamsAssumption DEF First
  <2>2. /\ First(mine) \in Streams /\ First(mine) \notin Inputs /\ AppOf[First(mine)] = a
        /\ w.at[First(mine)] = "soundux"
    BY <1>1, <1>5, <2>1 DEF DeviceOf
  <2> HIDE DEF mine
  <2> QED  BY <2>2 DEF RoutingOK, Recorded, NoneThere
<1>8. CASE w.passed[a] # "none"
  BY <1>6, <1>8
<1>9. CASE w.passed[a] = "none" /\ bad # {}
  <2> HIDE DEF gone, more, v
  <2>1. /\ v.at = gone.at /\ v.default = w.default /\ v.sinks = w.sinks /\ v.backend = w.backend
        /\ v.moved = w.moved /\ v.passed = w.passed /\ v.excused = w.excused \cup more
    <3> HIDE DEF bad, record
    <3> QED  BY <1>2, <1>3, <1>6, <1>9 DEF World
  <2>2. \A s \in Streams : v.at[s] = "soundux" => w.at[s] = "soundux" \/ AppOf[s] \in v.excused
    BY <1>2, <2>1 DEF more
  <2>3. ~w.sinks => NoneThere(v)
    BY <1>2, <2>1 DEF NoneThere, RoutingOK
  <2>4. Recorded(v)
    BY <2>1, <2>2 DEF Recorded, RoutingOK
  <2> QED  BY <2>1, <2>3, <2>4 DEF RoutingOK, v
<1>10. CASE w.passed[a] = "none" /\ bad = {}
  <2>1. v = [gone EXCEPT !.passed = record]
    BY <1>6, <1>10
  <2>2. done = mine /\ mine # {} /\ w.sinks
    BY <1>10
  <2> HIDE DEF gone, v, record, bad, done
  <2>3. /\ v.at = gone.at /\ v.default = w.default /\ v.sinks = w.sinks /\ v.backend = w.backend
        /\ v.moved = w.moved /\ v.passed = record /\ v.excused = w.excused
    BY <1>2, <1>3, <2>1 DEF World
  <2>4. \A b \in Apps : record[b] = IF b = a THEN DeviceOf(w, Playbacks, a) ELSE w.passed[b]
    BY DEF record, World
  <2>5. \A s \in Streams : v.at[s] = "soundux" => w.at[s] = "soundux" \/ s \in mine
    BY <1>2, <2>2, <2>3
  <2> HIDE DEF mine
  <2>6. ASSUME NEW s \in Streams, v.at[s] = "soundux"
        PROVE  \/ (IF s \in Inputs THEN v.moved ELSE v.passed)[AppOf[s]] # "none"
               \/ AppOf[s] \in v.excused
    <3>1. CASE s \in mine
      BY <1>4, <1>5, <2>3, <2>4, <3>1, DevicesAreNoMarks
    <3>2. CASE s \notin mine
      <4>1. w.at[s] = "soundux" /\ AppOf[s] \in Apps
        BY <2>5, <2>6, <3>2, StreamsAssumption
      <4>2. \/ (IF s \in Inputs THEN w.moved ELSE w.passed)[AppOf[s]] # "none"
            \/ AppOf[s] \in w.excused
        BY <4>1 DEF RoutingOK, Recorded
      <4> QED  BY <1>4, <2>3, <2>4, <4>1, <4>2, DevicesAreNoMarks
    <3> QED  BY <3>1, <3>2
  <2>7. \A b \in Apps : v.moved[b] = "soundux" \/ v.passed[b] = "soundux" => b \in v.excused
    BY <1>7, <1>10, <2>3, <2>4 DEF RoutingOK, Recorded
  <2>8. Recorded(v)
    BY <2>6, <2>7 DEF Recorded
  <2> QED  BY <2>2, <2>3, <2>8 DEF RoutingOK, v
<1> QED  BY <1>8, <1>9, <1>10

-------------------------------------------------------------------------------
(* The modules, and what they do to the routing *)

LEMMA UnloadedRouting ==
  ASSUME NEW w \in World, NEW id
  PROVE  SameRouting(Unloaded(w, id), w) /\ Unloaded(w, id).playing = w.playing
  BY DEF Unloaded, World, SameRouting

LEMMA LoadsRouting ==
  ASSUME NEW w \in World
  PROVE  SameRouting(Loads(w), w)
  BY DEF Loads, World, SameRouting

LEMMA MuteInputRouting ==
  ASSUME NEW w \in World, NEW on
  PROVE  SameRouting(MuteInput(w, on), w)
<1> DEFINE muted == IF on THEN w.muted \cup {w.loopBackSink} ELSE w.muted \ {w.loopBackSink}
<1>1. MuteInput(w, on) = IF w.loopBackSink \notin w.loops THEN w ELSE [w EXCEPT !.muted = muted]
  BY DEF MuteInput
<1> HIDE DEF muted
<1> QED  BY <1>1 DEF World, SameRouting

LEMMA PlayingRouting ==
  ASSUME NEW w \in World, NEW n
  PROVE  SameRouting([w EXCEPT !.playing = n], w)
  BY DEF World, SameRouting

\* useAsDefault: the default source is Soundux's only with its sinks there.
LEMMA UseAsDefaultRouting ==
  ASSUME NEW w, Good(w), RoutingOK(w), w.backend # "none", NEW ok
  PROVE  LET v == UseAsDefault(w, ok) IN
         RoutingOK(v) /\ v.moved = w.moved /\ v.passed = w.passed
<1> DEFINE without == Unloaded(w, w.loopBack)
           v == UseAsDefault(w, ok)
<1>1. SameRouting(without, w) /\ without \in World
  BY UnloadedRouting, UnloadedFollows DEF Good, Follows
<1>2. v = IF CanLoad(without, ok) THEN [Loads(without) EXCEPT !.default = "soundux"]
          ELSE [without EXCEPT !.loopBack = Unset]
  BY DEF UseAsDefault
<1>3. without.loops = {} /\ Good(without)
  BY UnloadedFollows DEF Follows
<1> HIDE DEF without
<1>4. CASE CanLoad(without, ok)
  <2>1. SameRouting(Loads(without), without) /\ Loads(without) \in World
    BY <1>1, <1>3, <1>4, LoadsRouting, LoadsFollows DEF CanLoad, Follows, Good
  <2> DEFINE u == Loads(without)
  <2>2. v = [u EXCEPT !.default = "soundux"]
    BY <1>2, <1>4
  <2> HIDE DEF u, v
  <2>3. /\ v.at = w.at /\ v.sinks = w.sinks /\ v.backend = w.backend
        /\ v.moved = w.moved /\ v.passed = w.passed /\ v.excused = w.excused /\ w.sinks
    BY <1>1, <1>4, <2>1, <2>2 DEF CanLoad, SameRouting, World, u
  <2> QED  BY <2>3 DEF RoutingOK, Recorded, v
<1>5. CASE ~CanLoad(without, ok)
  <2>1. SameRouting(v, w)
    BY <1>1, <1>2, <1>5 DEF SameRouting, World
  <2> QED  BY <2>1, SameRoutingOK DEF SameRouting
<1> QED  BY <1>4, <1>5

\* revertDefault.
LEMMA RevertDefaultRouting ==
  ASSUME NEW w, Good(w), RoutingOK(w), w.backend # "none", NEW ok
  PROVE  LET v == RevertDefault(w, ok) IN
         RoutingOK(v) /\ v.moved = w.moved /\ v.passed = w.passed
<1> DEFINE without == Unloaded(w, w.loopBack)
           loaded == IF CanLoad(without, ok) THEN Loads(without)
                     ELSE [without EXCEPT !.loopBack = Failed]
           v == RevertDefault(w, ok)
<1>1. SameRouting(without, w) /\ without \in World /\ without.loops = {} /\ Good(without)
  BY UnloadedRouting, UnloadedFollows DEF Good, Follows
<1>2. v = IF w.loopBack = Unset THEN w ELSE [loaded EXCEPT !.default = "home"]
  BY DEF RevertDefault
<1> HIDE DEF without
<1>3. SameRouting(loaded, w) /\ loaded \in World
  <2>1. CASE CanLoad(without, ok)
    BY <1>1, <2>1, LoadsRouting, LoadsFollows DEF CanLoad, Follows, Good, SameRouting
  <2>2. CASE ~CanLoad(without, ok)
    <3>1. Failed \in Ids
      BY BoundsAssumption DEF Ids, Failed
    <3> QED  BY <1>1, <2>2, <3>1 DEF SameRouting, World
  <2> QED  BY <2>1, <2>2
<1> HIDE DEF loaded
<1>4. CASE w.loopBack = Unset
  BY <1>2, <1>4
<1>5. CASE w.loopBack # Unset
  <2>1. v = [loaded EXCEPT !.default = "home"]
    BY <1>2, <1>5
  <2> HIDE DEF v
  <2>2. /\ v.at = w.at /\ v.sinks = w.sinks /\ v.backend = w.backend /\ v.default = "home"
        /\ v.moved = w.moved /\ v.passed = w.passed /\ v.excused = w.excused
    BY <1>3, <2>1 DEF SameRouting, World
  <2> QED  BY <2>2 DEF RoutingOK, Recorded, NoneThere, v
<1> QED  BY <1>4, <1>5

\* The sinks go.
LEMMA WithoutSinksFields ==
  ASSUME NEW w \in World
  PROVE  LET v == WithoutSinks(w) IN
         /\ \A s \in Streams : v.at[s] = IF w.at[s] = "soundux" THEN "home" ELSE w.at[s]
         /\ v.default = "home" /\ v.sinks = FALSE /\ v.backend = w.backend
         /\ v.moved = w.moved /\ v.passed = w.passed
<1> DEFINE at == [s \in Streams |-> IF w.at[s] = "soundux" THEN "home" ELSE w.at[s]]
           v == WithoutSinks(w)
<1>1. v = [w EXCEPT !.sinks = FALSE, !.default = "home", !.excused = {}, !.at = at]
  BY DEF WithoutSinks
<1> HIDE DEF at, v
<1>2. /\ v.at = at /\ v.default = "home" /\ v.sinks = FALSE /\ v.backend = w.backend
      /\ v.moved = w.moved /\ v.passed = w.passed
  BY <1>1 DEF World
<1> QED  BY <1>2 DEF at, v

\* unloadLeftOvers, before the sinks are used: with no instance, or by one that has
\* no sinks.
LEMMA UnloadLeftOversRouting ==
  ASSUME NEW w \in World, RoutingOK(w), w.backend = "none" \/ ~w.sinks
  PROVE  LET v == UnloadLeftOvers(w) IN
         /\ RoutingOK(v) /\ ~v.sinks /\ v.backend = w.backend
         /\ v.moved = w.moved /\ v.passed = w.passed
<1> DEFINE u == WithoutSinks(w)
           v == UnloadLeftOvers(w)
<1>1. v = [u EXCEPT !.loops = {}, !.muted = {}]
  BY DEF UnloadLeftOvers
<1>2. /\ \A s \in Streams : u.at[s] = IF w.at[s] = "soundux" THEN "home" ELSE w.at[s]
      /\ u.default = "home" /\ u.sinks = FALSE /\ u.backend = w.backend
      /\ u.moved = w.moved /\ u.passed = w.passed
  BY WithoutSinksFields
<1>3. u \in World
  BY WithoutSinksFollows
<1> HIDE DEF u, v
<1>4. /\ v.at = u.at /\ v.default = u.default /\ v.sinks = FALSE /\ v.backend = w.backend
      /\ v.moved = w.moved /\ v.passed = w.passed
  BY <1>1, <1>2, <1>3 DEF World
<1>5. \A a \in Apps : w.moved[a] # "soundux" /\ w.passed[a] # "soundux"
  BY DEF RoutingOK, NoneThere, Nowhere
<1>6. NoneThere(v)
  BY <1>2, <1>4, <1>5 DEF NoneThere
<1>7. Recorded(v)
  BY <1>6 DEF Recorded, NoneThere
<1> QED  BY <1>4, <1>6, <1>7 DEF RoutingOK, v

\* loadModules, with no sinks there.
LEMMA LoadModulesRouting ==
  ASSUME NEW w, Good(w), RoutingOK(w), w.loops = {}, ~w.sinks, NEW ok, NEW fail \in SUBSET Streams
  PROVE  LET v == LoadModules(w, ok, fail) IN
         RoutingOK(v) /\ v.moved = w.moved /\ v.passed = w.passed
<1> DEFINE s == [w EXCEPT !.sinks = TRUE]
           new == Loads(s)
           found == [new EXCEPT !.loopBackSink = new.loopBack, !.backend = "ready"]
           clean == [found EXCEPT !.excused = {}]
           drawn == {x \in fail : w.at[x] # "closed"}
           there == ToSoundux(clean, drawn, {})
           more == {AppOf[x] : x \in drawn}
           v == LoadModules(w, ok, fail)
<1>1. CASE ok /\ w.loads < MaxLoads
  <2>1. /\ s \in World /\ s.sinks = TRUE /\ s.loads = w.loads
        /\ s.at = w.at /\ s.moved = w.moved /\ s.passed = w.passed
    BY DEF Good, World
  <2> DEFINE n == s.loads + 1
  <2>2. n \in 1..MaxLoads /\ n \in 0..MaxLoads /\ n \in Ids
    BY <1>1, <2>1, BoundsAssumption DEF World, Ids, Failed
  <2>3. new = [s EXCEPT !.loads = n, !.loops = s.loops \cup {n}, !.loopBack = n]
    BY DEF Loads
  <2> HIDE DEF s, n, new
  <2>4. /\ new \in World /\ new.sinks = TRUE /\ new.loopBack = n
        /\ new.at = w.at /\ new.moved = w.moved /\ new.passed = w.passed
    BY <2>1, <2>2, <2>3 DEF World
  <2>5. /\ found \in World /\ found.sinks = TRUE /\ found.backend = "ready"
        /\ found.at = w.at /\ found.moved = w.moved /\ found.passed = w.passed
    BY <2>2, <2>4 DEF World, Backends
  <2> HIDE DEF found
  <2>6. /\ clean \in World /\ clean.sinks = TRUE /\ clean.backend = "ready" /\ clean.excused = {}
        /\ clean.at = w.at /\ clean.moved = w.moved /\ clean.passed = w.passed
    BY <2>5 DEF World
  <2>7. v = [there EXCEPT !.excused = there.excused \cup more]
    <3>1. v = Excused(there, drawn)
      BY <1>1 DEF LoadModules, found, new, s
    <3> HIDE DEF v, there, drawn
    <3> QED  BY <3>1 DEF Excused
  <2> HIDE DEF clean
  <2>8. drawn \in SUBSET Streams
    OBVIOUS
  <2> HIDE DEF drawn
  <2>9. /\ \A x \in Streams : there.at[x] = IF x \in drawn /\ clean.sinks /\ x \notin {}
                                            THEN "soundux" ELSE clean.at[x]
        /\ there.sinks = TRUE /\ there.backend = "ready" /\ there.excused = {}
        /\ there.moved = w.moved /\ there.passed = w.passed
    <3>1. /\ \A x \in Streams : there.at[x] = IF x \in drawn /\ clean.sinks /\ x \notin {}
                                              THEN "soundux" ELSE clean.at[x]
          /\ there.sinks = clean.sinks /\ there.backend = clean.backend
          /\ there.excused = clean.excused
          /\ there.moved = clean.moved /\ there.passed = clean.passed
      BY <2>6, <2>8, ToSounduxFields
    <3> HIDE DEF there
    <3> QED  BY <2>6, <3>1
  <2>10. there \in World
    BY <2>6, ToSounduxRoutes DEF Routes
  <2> HIDE DEF there, more, v
  <2>11. /\ v.at = there.at /\ v.sinks = TRUE /\ v.backend = "ready" /\ v.excused = more
         /\ v.moved = w.moved /\ v.passed = w.passed
    BY <2>7, <2>9, <2>10 DEF World
  <2>12. NoneThere(w)
    BY DEF RoutingOK
  <2>13. \A x \in Streams : v.at[x] = "soundux" => AppOf[x] \in v.excused
    BY <2>6, <2>9, <2>11, <2>12 DEF NoneThere, more
  <2>14. Recorded(v)
    BY <2>11, <2>12, <2>13 DEF Recorded, NoneThere
  <2> QED  BY <2>11, <2>14 DEF RoutingOK, v
<1>2. CASE ~(ok /\ w.loads < MaxLoads)
  <2>1. v = UnloadLeftOvers(w)
    BY <1>2 DEF LoadModules
  <2> QED  BY <2>1, UnloadLeftOversRouting DEF Good
<1> QED  BY <1>1, <1>2

\* What is left once the object is gone.
LEMMA NoBackendFields ==
  ASSUME NEW w \in World
  PROVE  LET v == NoBackend(w) IN
         /\ v.at = w.at /\ v.default = w.default /\ v.sinks = w.sinks
         /\ v.backend = "none" /\ v.moved = Nowhere /\ v.passed = Nowhere
         /\ v.playing = w.playing
  BY DEF NoBackend, World

LEMMA NoBackendRouting ==
  ASSUME NEW w \in World,
         ~w.sinks => w.default = "home" /\ \A s \in Streams : w.at[s] # "soundux"
  PROVE  RoutingOK(NoBackend(w))
<1> DEFINE v == NoBackend(w)
<1>1. /\ v.at = w.at /\ v.default = w.default /\ v.sinks = w.sinks
      /\ v.backend = "none" /\ v.moved = Nowhere /\ v.passed = Nowhere
  BY NoBackendFields
<1> HIDE DEF v
<1>2. RoutingOK(v)
  BY <1>1 DEF RoutingOK, NoneThere, Nowhere
<1> QED  BY <1>2 DEF v

\* destroy.
LEMMA DestroyRouting ==
  ASSUME NEW w, Good(w), RoutingOK(w), NEW ok, NEW fail
  PROVE  LET v == Destroy(w, ok, fail) IN RoutingOK(v) /\ v.moved = Nowhere
<1>1. CASE w.backend = "none"
  BY <1>1 DEF Destroy, RoutingOK
<1>2. CASE w.backend # "none"
  <2> DEFINE first == RevertDefault(w, ok)
             second == StopSoundInput(first, fail)
             returned == StopAllPassthrough(second, fail)
             gone == WithoutSinks(returned)
             bare == Unloaded(gone, returned.loopBack)
  <2>1. first \in World
    BY <1>2, RevertDefaultFollows DEF Follows, Good
  <2>2. second \in World
    BY <2>1, StopSoundInputRoutes DEF Routes
  <2>3. returned \in World
    BY <2>2, StopPassthroughRoutes DEF Routes, StopAllPassthrough
  <2>4. Destroy(w, ok, fail) = NoBackend(bare)
    BY <1>2 DEF Destroy
  <2> HIDE DEF first, second, returned
  <2>5. gone \in World
    BY <2>3, WithoutSinksFollows
  <2>6. /\ gone.default = "home"
        /\ \A s \in Streams : gone.at[s] # "soundux"
    <3>1. /\ \A s \in Streams : gone.at[s] = IF returned.at[s] = "soundux" THEN "home" ELSE returned.at[s]
          /\ gone.default = "home"
      BY <2>3, WithoutSinksFields
    <3> HIDE DEF gone
    <3> QED  BY <3>1
  <2> HIDE DEF gone
  <2>7. SameRouting(bare, gone) /\ bare \in World
    BY <2>5, UnloadedRouting DEF Unloaded, World
  <2> HIDE DEF bare
  <2>8. RoutingOK(NoBackend(bare)) /\ NoBackend(bare).moved = Nowhere
    BY <2>6, <2>7, NoBackendRouting, NoBackendFields DEF SameRouting
  <2> QED  BY <2>4, <2>8
<1> QED  BY <1>1, <1>2

\* createInstance.
LEMMA CreateInstanceRouting ==
  ASSUME NEW w, Good(w), RoutingOK(w), w.backend = "none", NEW found \in Backends, NEW ok,
         NEW fail \in SUBSET Streams
  PROVE  LET v == CreateInstance(w, found, ok, fail) IN RoutingOK(v) /\ v.moved = Nowhere
<1> DEFINE clean == UnloadLeftOvers(w)
           v == [clean EXCEPT !.backend = "bare"]
<1>1. Good(clean) /\ clean.loops = {}
  BY UnloadLeftOversFollows DEF Follows, Good
<1>2. /\ RoutingOK(clean) /\ ~clean.sinks /\ clean.backend = "none"
      /\ clean.moved = Nowhere /\ clean.passed = Nowhere
  BY UnloadLeftOversRouting DEF Good, RoutingOK
<1>3. CASE found = "none"
  BY <1>3 DEF CreateInstance, RoutingOK
<1>4. CASE found = "bare"
  <2>1. CreateInstance(w, found, ok, fail) = v
    BY <1>4 DEF CreateInstance
  <2> HIDE DEF clean
  <2>2. /\ v.at = clean.at /\ v.default = clean.default /\ v.sinks = clean.sinks
        /\ v.moved = Nowhere /\ v.passed = Nowhere /\ v.backend = "bare"
    BY <1>1, <1>2 DEF Good, World
  <2> HIDE DEF v
  <2>3. NoneThere(v)
    BY <1>2, <2>2 DEF RoutingOK, NoneThere
  <2>4. Recorded(v)
    BY <2>3 DEF Recorded, NoneThere
  <2> QED  BY <2>1, <2>2, <2>3, <2>4 DEF RoutingOK
<1>5. CASE found = "ready"
  <2>1. CreateInstance(w, found, ok, fail) = LoadModules(clean, ok, fail)
    BY <1>5 DEF CreateInstance
  <2> HIDE DEF clean
  <2> QED  BY <1>1, <1>2, <2>1, LoadModulesRouting
<1> QED  BY <1>3, <1>4, <1>5 DEF Backends

-------------------------------------------------------------------------------
(* The window's calls: the routing, and what silence leaves recorded *)

\* onAllSoundsFinished.
LEMMA AllFinishedRouting ==
  ASSUME NEW w, Good(w), RoutingOK(w), NEW mute, NEW fail
  PROVE  LET v == AllFinished(w, mute, fail) IN
         RoutingOK(v) /\ v.passed = w.passed /\ (NonePassed(w) => v.moved = Nowhere)
<1> DEFINE unmuted == IF mute THEN MuteInput(w, FALSE) ELSE w
           v == AllFinished(w, mute, fail)
<1>1. SameRouting(unmuted, w) /\ unmuted \in World
  BY MuteInputRouting, MuteInputFollows DEF Follows, Good, SameRouting
<1>2. v = IF NonePassed(w) THEN StopSoundInput(unmuted, fail) ELSE unmuted
  BY DEF AllFinished
<1> HIDE DEF unmuted
<1>3. RoutingOK(unmuted) /\ unmuted.passed = w.passed
  BY <1>1, SameRoutingOK DEF SameRouting
<1>4. /\ RoutingOK(StopSoundInput(unmuted, fail))
      /\ StopSoundInput(unmuted, fail).moved = Nowhere
      /\ StopSoundInput(unmuted, fail).passed = w.passed
  BY <1>1, <1>3, StopSoundInputRouting
<1> QED  BY <1>2, <1>3, <1>4

\* stopSounds: nothing is recorded as moved.
LEMMA RoutingStoppedRouting ==
  ASSUME NEW w, Good(w), RoutingOK(w), NEW mute, NEW fail
  PROVE  LET v == RoutingStopped(w, mute, fail) IN RoutingOK(v) /\ v.moved = Nowhere
<1> DEFINE first == AllFinished(w, mute, fail)
           second == StopSoundInput(first, fail)
<1>1. Good(first) /\ RoutingOK(first)
  BY AllFinishedFollows, AllFinishedRouting DEF Follows
<1> HIDE DEF first
<1>2. second \in World /\ RoutingOK(second) /\ second.moved = Nowhere
  BY <1>1, StopSoundInputRoutes, StopSoundInputRouting DEF Routes, Good
<1> HIDE DEF second
<1>3. /\ RoutingOK(StopPassthroughOf(second, Apps, fail))
      /\ StopPassthroughOf(second, Apps, fail).moved = Nowhere
  BY <1>2, StopPassthroughRouting
<1> QED  BY <1>3 DEF RoutingStopped, StopAllPassthrough, second, first

LEMMA SoundsStoppedRouting ==
  ASSUME NEW w, Good(w), RoutingOK(w), NEW mute, NEW fail
  PROVE  LET v == SoundsStopped(w, mute, fail) IN RoutingOK(v) /\ v.moved = Nowhere
<1> DEFINE none == [w EXCEPT !.playing = 0]
<1>1. 0 \in 0..MaxPlaying
  BY BoundsAssumption
<1>2. Good(none) /\ RoutingOK(none)
  BY <1>1, PlayingGood, PlayingRouting, SameRoutingOK DEF Good
<1>3. SoundsStopped(w, mute, fail) = RoutingStopped(none, mute, fail)
  BY DEF SoundsStopped
<1> HIDE DEF none
<1> QED  BY <1>2, <1>3, RoutingStoppedRouting

\* One sound less: with none left and nothing passed through, nothing is recorded as moved.
LEMMA SoundLessRouting ==
  ASSUME NEW w, Good(w), RoutingOK(w), w.playing > 0, NEW mute, NEW fail
  PROVE  LET v == SoundLess(w, mute, fail) IN
         RoutingOK(v) /\ (v.playing = 0 /\ NonePassed(v) => v.moved = Nowhere)
<1> DEFINE n == w.playing - 1
           less == [w EXCEPT !.playing = n]
           v == SoundLess(w, mute, fail)
<1>1. n \in 0..MaxPlaying
  BY BoundsAssumption DEF Good, World
<1>2. v = IF less.playing = 0 THEN AllFinished(less, mute, fail) ELSE less
  BY DEF SoundLess
<1> HIDE DEF n
<1>3. Good(less) /\ RoutingOK(less)
  BY <1>1, PlayingGood, PlayingRouting, SameRoutingOK DEF Good
<1> HIDE DEF less, v
<1>4. CASE less.playing = 0
  <2> DEFINE u == AllFinished(less, mute, fail)
  <2>1. RoutingOK(u) /\ u.passed = less.passed /\ (NonePassed(less) => u.moved = Nowhere)
    BY <1>3, AllFinishedRouting
  <2>2. v = u
    BY <1>2, <1>4
  <2> HIDE DEF u
  <2> QED  BY <2>1, <2>2 DEF NonePassed, v
<1>5. CASE less.playing # 0
  BY <1>2, <1>3, <1>5 DEF v
<1> QED  BY <1>4, <1>5

\* The types and the modules, and the routing.
RoutingInv == PulseInv /\ RoutingOK(pulse)

\* The step of InputsReturnWithSilence.
ReturnsWithSilence ==
  MovedForNothing(pulse)' =>
    \/ MovedForNothing(pulse)
    \/ StopAllRuns
    \/ \E name \in Apps : StartPassthrough(name)

LEMMA PlaySoundRouting ==
  ASSUME RoutingInv, PlaySound
  PROVE  RoutingOK(pulse') /\ ReturnsWithSilence
<1>1. PICK overlap \in BOOLEAN, fail \in Faults : PlaySound!(overlap, fail)
  BY DEF PlaySound
<1> DEFINE before  == IF overlap THEN pulse ELSE SoundsStopped(pulse, settings.mute, fail)
           muted   == IF settings.mute THEN MuteInput(before, TRUE) ELSE before
           playing == [muted EXCEPT !.playing = @ + 1]
           outputs == IF pulse.backend = "none" THEN {} ELSE settings.outputs
           routed  == InputSoundTo(playing, outputs, fail)
           heard   == outputs = {} \/ \E a \in outputs : HasInput(playing, a)
<1>2. /\ before.playing < MaxPlaying
      /\ pulse' = IF heard THEN routed ELSE SoundLess(routed, settings.mute, fail)
  BY <1>1 DEF OnlyPulse
<1>3. Good(before) /\ RoutingOK(before) /\ before.backend = pulse.backend
  BY SoundsStoppedGood, SoundsStoppedRouting DEF RoutingInv, PulseInv
<1> HIDE DEF before
<1>4. Follows(muted, before) /\ RoutingOK(muted)
  BY <1>3, MuteInputFollows, MuteInputRouting, SameRoutingOK DEF Follows, Good
<1> HIDE DEF muted
<1> DEFINE n == muted.playing + 1
<1>5. n \in 0..MaxPlaying /\ n > 0
  BY <1>2, <1>4, BoundsAssumption DEF Follows, Good, World
<1>6. playing = [muted EXCEPT !.playing = n]
  BY <1>4 DEF Follows, Good, World
<1> HIDE DEF playing
<1>7. Good(playing) /\ playing.playing > 0 /\ RoutingOK(playing) /\ playing.backend = pulse.backend
  <2> HIDE DEF n
  <2> QED  BY <1>3, <1>4, <1>5, <1>6, PlayingGood, PlayingRouting, SameRoutingOK DEF Follows, Good
<1>8. playing.backend # "none" \/ outputs = {}
  BY <1>7
<1> HIDE DEF outputs
<1>9. Good(routed) /\ routed.playing > 0 /\ RoutingOK(routed)
  BY <1>7, <1>8, InputSoundToRoutes, RoutesFollows, InputSoundToRouting DEF Follows, Good
<1> HIDE DEF routed, heard
<1>10. LET v == SoundLess(routed, settings.mute, fail) IN
       RoutingOK(v) /\ (v.playing = 0 /\ NonePassed(v) => v.moved = Nowhere)
  BY <1>9, SoundLessRouting
<1>11. routed.playing # 0
  BY <1>9 DEF Good, World
<1> QED  BY <1>2, <1>9, <1>10, <1>11 DEF ReturnsWithSilence, MovedForNothing

LEMMA StartPassthroughRouting ==
  ASSUME RoutingInv, NEW name \in Apps, StartPassthrough(name)
  PROVE  RoutingOK(pulse')
<1>1. PICK fail \in Faults : StartPassthrough(name)!(fail)
  BY DEF StartPassthrough
<1> DEFINE inputs == InputSoundTo(pulse, settings.outputs, fail)
<1>2. /\ pulse.backend # "none"
      /\ \/ pulse' = inputs
         \/ /\ StreamsOf(pulse, Playbacks, name) # {}
            /\ pulse' = PassthroughFrom(inputs, name, fail)
         \/ pulse' = [NoBackend(inputs) EXCEPT !.playing = 0]
  BY <1>1 DEF OnlyPulse, Dies
<1>3. /\ inputs \in World /\ RoutingOK(inputs) /\ inputs.backend # "none"
      /\ inputs.playing = pulse.playing
  BY <1>2, InputSoundToRoutes, InputSoundToRouting DEF RoutingInv, PulseInv, Good, Routes
<1>4. StreamsOf(inputs, Playbacks, name) = StreamsOf(pulse, Playbacks, name)
  <2>1. \A s \in Streams : inputs.at[s] = "closed" <=> pulse.at[s] = "closed"
    <3> DEFINE into == {a \in settings.outputs : HasInput(pulse, a) /\ pulse.moved[a] = "none"}
               open == UNION {StreamsOf(pulse, Inputs, a) : a \in into}
    <3>1. \A s \in open : pulse.at[s] # "closed"
      BY DEF StreamsOf
    <3>2. inputs.at = ToSoundux(pulse, open, fail).at
      BY ToSounduxRoutes DEF InputSoundTo, RoutingInv, PulseInv, Good, Routes, World
    <3> HIDE DEF open
    <3> QED  BY <3>1, <3>2 DEF ToSoundux, Moved, RoutingInv, PulseInv, Good, World
  <2> HIDE DEF inputs
  <2> QED  BY <2>1 DEF StreamsOf, Streams
<1> HIDE DEF inputs
<1>5. CASE pulse' = inputs
  BY <1>3, <1>5
<1>6. CASE StreamsOf(pulse, Playbacks, name) # {} /\ pulse' = PassthroughFrom(inputs, name, fail)
  BY <1>3, <1>4, <1>6, PassthroughFromRouting
<1>7. CASE pulse' = [NoBackend(inputs) EXCEPT !.playing = 0]
  <2> DEFINE u == NoBackend(inputs)
  <2>1. RoutingOK(u) /\ u.moved = Nowhere
    <3>1. ~inputs.sinks => inputs.default = "home" /\ \A s \in Streams : inputs.at[s] # "soundux"
      BY <1>3 DEF RoutingOK, NoneThere
    <3> QED  BY <1>3, <3>1, NoBackendRouting, NoBackendFields
  <2>2. SameRouting([u EXCEPT !.playing = 0], u)
    BY DEF SameRouting, NoBackend
  <2> HIDE DEF u
  <2> QED  BY <1>7, <2>1, <2>2, SameRoutingOK DEF u
<1> QED  BY <1>2, <1>5, <1>6, <1>7

\* The last passthrough to end in silence takes the inputs back; another leaves one.
LEMMA StopPassthroughStepRouting ==
  ASSUME RoutingInv, NEW name, StopPassthrough(name)
  PROVE  RoutingOK(pulse') /\ ReturnsWithSilence
<1>1. PICK fail \in Faults : StopPassthrough(name)!(fail)
  BY DEF StopPassthrough
<1> DEFINE through == {a \in Apps : pulse.passed[a] # "none"}
           last == pulse.playing = 0 /\ Cardinality(through) = 1
           inputs == IF last THEN StopSoundInput(pulse, fail) ELSE pulse
<1>2. pulse' = StopPassthroughOf(inputs, {name}, fail)
  BY <1>1 DEF OnlyPulse
<1>3. Cardinality({name}) = 1
  BY FS_Singleton
<1>4. pulse.passed = [a \in Apps |-> pulse.passed[a]]
  BY DEF RoutingInv, PulseInv, Good, World
<1>5. last => inputs.moved = Nowhere
  BY StopSoundInputRouting DEF RoutingInv, PulseInv, Good
<1>6. ~last => inputs = pulse
  OBVIOUS
<1>7. last <=> pulse.playing = 0 /\ Cardinality(through) = 1
  OBVIOUS
<1> HIDE DEF last
<1>8. /\ inputs \in World /\ RoutingOK(inputs) /\ inputs.playing = pulse.playing
      /\ inputs.passed = pulse.passed
  BY StopSoundInputRoutes, StopSoundInputRouting DEF RoutingInv, PulseInv, Good, Routes
<1> HIDE DEF inputs
<1> DEFINE record == [a \in Apps |-> IF a \in {name} THEN "none" ELSE pulse.passed[a]]
<1>9. /\ RoutingOK(pulse') /\ pulse'.moved = inputs.moved /\ pulse'.passed = record
      /\ pulse'.playing = pulse.playing
  BY <1>2, <1>8, StopPassthroughRoutes, StopPassthroughRouting DEF Routes
<1>10. ASSUME MovedForNothing(pulse') PROVE MovedForNothing(pulse)
  <2>1. record = Nowhere /\ pulse'.moved # Nowhere /\ pulse.playing = 0
    BY <1>9, <1>10 DEF MovedForNothing, NonePassed
  <2>2. ~last
    BY <1>5, <1>9, <2>1
  <2>3. \A a \in Apps : a # name => pulse.passed[a] = "none"
    BY <2>1 DEF Nowhere
  <2>4. through \subseteq {name}
    BY <2>3
  <2>5. through # {name}
    BY <1>3, <1>7, <2>1, <2>2
  <2>6. through = {}
    BY <2>4, <2>5
  <2>7. \A a \in Apps : pulse.passed[a] = "none"
    BY <2>6
  <2> HIDE DEF through, record
  <2>8. pulse.passed = Nowhere
    BY <1>4, <2>7 DEF Nowhere
  <2> QED  BY <1>6, <1>9, <2>1, <2>2, <2>8 DEF MovedForNothing, NonePassed
<1> QED  BY <1>9, <1>10 DEF ReturnsWithSilence, MovedForNothing, NonePassed

LEMMA ChangeSettingsRouting ==
  ASSUME RoutingInv, NEW new \in Settings, ChangeSettings(new)
  PROVE  RoutingOK(pulse') /\ ReturnsWithSilence
<1>1. PICK found \in (IF Restarts(new) THEN Backends ELSE {"none"}),
           ok \in BOOLEAN, fail \in Faults,
           apps \in {new.outputs} \cup {{a} : a \in new.outputs} :
        ChangeSettings(new)!2!(found, ok, fail, apps)
  BY DEF ChangeSettings
<1> DEFINE one   == WithBackend(pulse, new, found, ok, fail)
           mid   == WithMute(one, new)
           two   == WithDefault(mid, new, ok, fail)
           three == WithOutputs(two, new, apps, fail)
           Quiet(w) == Good(w) /\ RoutingOK(w)
<1>2. pulse' = IF one.backend = "none" THEN one ELSE three
  BY <1>1
<1>3. fail \in SUBSET Streams /\ found \in Backends
  BY DEF Faults, Backends
<1>4. Quiet(one) /\ (one = pulse \/ one.moved = Nowhere)
  <2> DEFINE silent == SoundsStopped(pulse, new.mute, fail)
             ended == Destroy(silent, ok, fail)
  <2>1. Quiet(silent) /\ silent.playing = 0
    BY SoundsStoppedGood, SoundsStoppedRouting DEF RoutingInv, PulseInv
  <2> HIDE DEF silent
  <2>2. Quiet(ended) /\ ended.backend = "none" /\ ended.playing = 0 /\ ended.moved = Nowhere
    BY <2>1, DestroyGood, DestroyRouting
  <2>3. one = IF new.backend = settings.backend THEN pulse
              ELSE IF new.backend = "none" THEN ended ELSE CreateInstance(ended, found, ok, fail)
    BY DEF WithBackend, silent
  <2> HIDE DEF ended, one
  <2>4. LET v == CreateInstance(ended, found, ok, fail) IN
        Quiet(v) /\ v.playing = 0 /\ v.moved = Nowhere
    BY <1>3, <2>2, CreateInstanceGood, CreateInstanceRouting
  <2> QED  BY <2>2, <2>3, <2>4 DEF RoutingInv, PulseInv
<1> HIDE DEF one
<1>5. /\ Quiet(mid) /\ mid.backend = one.backend /\ mid.playing = one.playing
      /\ mid.moved = one.moved /\ mid.passed = one.passed
  <2>1. Good(mid) /\ mid.backend = one.backend /\ mid.playing = one.playing
    BY <1>4, MuteInputFollows DEF WithMute, Follows
  <2>2. SameRouting(mid, one)
    BY <1>4, MuteInputRouting DEF WithMute, SameRouting, Good
  <2> QED  BY <1>4, <2>1, <2>2, SameRoutingOK DEF SameRouting
<1> HIDE DEF mid
<1>6. ASSUME one.backend # "none"
      PROVE  /\ Quiet(three)
             /\ MovedForNothing(three) => MovedForNothing(one)
  <2> DEFINE back == StopSoundInput(mid, fail)
  <2>1. /\ Quiet(back) /\ back.backend = mid.backend /\ back.playing = mid.playing
        /\ back.moved = Nowhere /\ back.passed = mid.passed
    BY <1>5, StopSoundInputRoutes, RoutesFollows, StopSoundInputRouting DEF Follows, Good
  <2>2. two = IF ~new.asDefault /\ settings.asDefault THEN RevertDefault(mid, ok)
              ELSE IF new.asDefault /\ ~settings.asDefault THEN UseAsDefault(back, ok)
              ELSE mid
    BY DEF WithDefault
  <2> HIDE DEF back, two
  <2>3. LET v == RevertDefault(mid, ok) IN
        Follows(v, mid) /\ RoutingOK(v) /\ v.moved = mid.moved /\ v.passed = mid.passed
    BY <1>5, <1>6, RevertDefaultFollows, RevertDefaultRouting
  <2>4. LET v == UseAsDefault(back, ok) IN
        Follows(v, back) /\ RoutingOK(v) /\ v.moved = back.moved /\ v.passed = back.passed
    BY <1>5, <1>6, <2>1, UseAsDefaultFollows, UseAsDefaultRouting
  <2>5. /\ Quiet(two) /\ two.backend # "none" /\ two.playing = one.playing
        /\ two.moved = one.moved \/ two.moved = Nowhere
        /\ two.passed = one.passed
    BY <1>5, <1>6, <2>1, <2>2, <2>3, <2>4 DEF Follows
  <2> DEFINE stopped == StopSoundInput(two, fail)
  <2>6. /\ Quiet(stopped) /\ stopped.backend # "none" /\ stopped.playing = two.playing
        /\ stopped.moved = Nowhere
    BY <2>5, StopSoundInputRoutes, RoutesFollows, StopSoundInputRouting DEF Follows, Good
  <2>7. three = IF new.outputs = settings.outputs THEN two
                ELSE IF two.playing = 0 THEN stopped ELSE InputSoundTo(stopped, apps, fail)
    BY DEF WithOutputs
  <2> HIDE DEF stopped, three
  <2>8. LET v == InputSoundTo(stopped, apps, fail) IN
        Quiet(v) /\ v.playing = stopped.playing
    BY <2>6, InputSoundToRoutes, InputSoundToRouting, RoutesGood DEF Good, Routes
  <2> QED  BY <2>5, <2>6, <2>7, <2>8 DEF MovedForNothing, NonePassed
<1> HIDE DEF three
<1>7. CASE one.backend = "none"
  <2>1. one.moved = Nowhere
    BY <1>4, <1>7 DEF RoutingOK
  <2> QED  BY <1>2, <1>4, <1>7, <2>1 DEF ReturnsWithSilence, MovedForNothing
<1>8. CASE one.backend # "none"
  <2>1. MovedForNothing(one) => MovedForNothing(pulse)
    BY <1>4 DEF MovedForNothing
  <2>2. pulse' = three
    BY <1>2, <1>8
  <2>3. MovedForNothing(pulse)' = MovedForNothing(pulse')
    BY DEF MovedForNothing, NonePassed
  <2> QED  BY <1>6, <1>8, <2>1, <2>2, <2>3 DEF ReturnsWithSilence
<1> QED  BY <1>7, <1>8

LEMMA StartRouting ==
  ASSUME RoutingInv, Start
  PROVE  RoutingOK(pulse') /\ pulse'.moved = Nowhere
<1>1. PICK found \in Backends, ok \in BOOLEAN, again \in BOOLEAN, fail \in Faults :
        Start!(found, ok, again, fail)
  BY DEF Start
<1> DEFINE made == IF settings.backend = "none" THEN pulse
                   ELSE CreateInstance(pulse, found, ok, fail)
<1>2. /\ pulse' = IF made.backend # "none" /\ settings.asDefault
                  THEN UseAsDefault(made, again) ELSE made
      /\ phase \in {"off", "crashed"}
  BY <1>1
<1>3. Good(made) /\ RoutingOK(made) /\ made.moved = Nowhere
  <2>1. fail \in SUBSET Streams
    BY DEF Faults
  <2> QED  BY <1>2, <2>1, CreateInstanceGood, CreateInstanceRouting DEF RoutingInv, PulseInv, RoutingOK
<1> HIDE DEF made
<1> QED  BY <1>2, <1>3, UseAsDefaultFollows, UseAsDefaultRouting DEF Follows

LEMMA EndRouting ==
  ASSUME RoutingInv, Quit \/ Crash
  PROVE  RoutingOK(pulse') /\ pulse'.moved = Nowhere
<1>1. 0 \in 0..MaxPlaying
  BY BoundsAssumption
<1>2. CASE Quit
  <2>1. PICK ok \in BOOLEAN, fail \in Faults : pulse' = Destroy([pulse EXCEPT !.playing = 0], ok, fail)
    BY <1>2 DEF Quit
  <2>2. Good([pulse EXCEPT !.playing = 0]) /\ RoutingOK([pulse EXCEPT !.playing = 0])
    BY <1>1, PlayingGood, PlayingRouting, SameRoutingOK DEF RoutingInv, PulseInv, Good
  <2> QED  BY <2>1, <2>2, DestroyRouting
<1>3. CASE Crash
  <2> DEFINE u == NoBackend(pulse)
  <2>1. RoutingOK(u) /\ u.moved = Nowhere
    <3>1. ~pulse.sinks => pulse.default = "home" /\ \A s \in Streams : pulse.at[s] # "soundux"
      BY DEF RoutingInv, RoutingOK, NoneThere
    <3> QED  BY <3>1, NoBackendRouting, NoBackendFields DEF RoutingInv, PulseInv, Good
  <2>2. SameRouting([u EXCEPT !.playing = 0], u)
    BY DEF SameRouting, NoBackend
  <2>3. pulse' = [u EXCEPT !.playing = 0]
    BY <1>3 DEF Crash, Dies
  <2> HIDE DEF u
  <2> QED  BY <2>1, <2>2, <2>3, SameRoutingOK DEF SameRouting
<1> QED  BY <1>2, <1>3

\* An application opens or closes a stream: on Soundux's monitor only while that is the
\* default source, and excused.
LEMMA AppRouting ==
  ASSUME RoutingInv, NEW s \in Streams, AppCloses(s) \/ \E device \in Devices : AppOpens(s, device)
  PROVE  RoutingOK(pulse') /\ ReturnsWithSilence
<1>1. PICK device \in Devices \cup {"closed"}, more \in SUBSET Apps :
        /\ pulse' = [pulse EXCEPT !.at[s] = device, !.excused = pulse.excused \cup more]
        /\ device = "soundux" => pulse.default = "soundux" /\ AppOf[s] \in more
  <2>1. CASE AppCloses(s)
    <3> DEFINE closed == "closed"
               none == {}
    <3>1. pulse' = [pulse EXCEPT !.at[s] = closed, !.excused = pulse.excused \cup none]
      BY <2>1 DEF AppCloses, OnlyPulse, RoutingInv, PulseInv, Good, World
    <3>2. closed \in Devices \cup {"closed"} /\ closed # "soundux" /\ none \in SUBSET Apps
      OBVIOUS
    <3> HIDE DEF closed, none
    <3> QED  BY <3>1, <3>2
  <2>2. CASE \E device \in Devices : AppOpens(s, device)
    <3>1. PICK device \in Devices : AppOpens(s, device)
      BY <2>2
    <3> DEFINE more == IF device = "soundux" THEN {AppOf[s]} ELSE {}
    <3>2. more \in SUBSET Apps
      BY StreamsAssumption
    <3>3. pulse' = [pulse EXCEPT !.at[s] = device, !.excused = pulse.excused \cup more]
      BY <3>1 DEF AppOpens, OnlyPulse
    <3>4. device = "soundux" => pulse.default = "soundux" /\ AppOf[s] \in more
      BY <3>1 DEF AppOpens
    <3> HIDE DEF more
    <3> QED  BY <3>2, <3>3, <3>4
  <2> QED  BY <2>1, <2>2
<1> DEFINE at == [pulse.at EXCEPT ![s] = device]
<1>2. pulse' = [pulse EXCEPT !.at = at, !.excused = pulse.excused \cup more]
  BY <1>1
<1>3. \A t \in Streams : at[t] = IF t = s THEN device ELSE pulse.at[t]
  BY DEF RoutingInv, PulseInv, Good, World
<1> HIDE DEF at
<1>4. /\ pulse'.at = at /\ pulse'.default = pulse.default /\ pulse'.sinks = pulse.sinks
      /\ pulse'.backend = pulse.backend /\ pulse'.moved = pulse.moved
      /\ pulse'.passed = pulse.passed /\ pulse'.excused = pulse.excused \cup more
      /\ pulse'.playing = pulse.playing
  BY <1>2 DEF RoutingInv, PulseInv, Good, World
<1>5. ~pulse.sinks => NoneThere(pulse')
  BY <1>1, <1>3, <1>4 DEF RoutingInv, RoutingOK, NoneThere
<1>6. pulse.backend # "none" => Recorded(pulse')
  BY <1>1, <1>3, <1>4 DEF RoutingInv, RoutingOK, Recorded
<1> QED  BY <1>4, <1>5, <1>6
         DEF RoutingInv, RoutingOK, ReturnsWithSilence, MovedForNothing, NonePassed

-------------------------------------------------------------------------------
(* The specification: where the streams are *)

LEMMA RoutingStep ==
  ASSUME RoutingInv, [Next]_vars
  PROVE  RoutingOK(pulse') /\ ReturnsWithSilence
<1>1. CASE Start
  BY <1>1, StartRouting DEF ReturnsWithSilence, MovedForNothing
<1>2. CASE Quit \/ Crash
  BY <1>2, EndRouting DEF ReturnsWithSilence, MovedForNothing
<1>3. CASE PlaySound
  BY <1>3, PlaySoundRouting
<1>4. CASE SoundEnds
  <2>1. PICK fail \in Faults : pulse' = SoundLess(pulse, settings.mute, fail)
    BY <1>4 DEF SoundEnds, OnlyPulse
  <2>2. pulse.playing > 0
    BY <1>4 DEF SoundEnds
  <2> QED  BY <2>1, <2>2, SoundLessRouting
           DEF RoutingInv, PulseInv, ReturnsWithSilence, MovedForNothing, NonePassed
<1>5. CASE StopSounds
  <2>1. PICK fail \in Faults : \/ pulse' = SoundsStopped(pulse, settings.mute, fail)
                              \/ pulse' = RoutingStopped(pulse, settings.mute, fail)
    BY <1>5 DEF StopSounds
  <2> QED  BY <2>1, SoundsStoppedRouting, RoutingStoppedRouting
           DEF RoutingInv, PulseInv, ReturnsWithSilence, MovedForNothing
<1>12. CASE StopAllRuns
  <2>1. pulse' = [pulse EXCEPT !.playing = 0]
    BY <1>12 DEF StopAllRuns
  <2> QED  BY <1>12, <2>1, PlayingRouting, SameRoutingOK
           DEF RoutingInv, PulseInv, Good, ReturnsWithSilence
<1>6. CASE UnloadSwitchOnConnect
  <2>1. PICK ok \in BOOLEAN, fail \in Faults : pulse' = LoadModules(pulse, ok, fail)
    BY <1>6 DEF UnloadSwitchOnConnect, OnlyPulse
  <2>2. pulse.loops = {} /\ ~pulse.sinks /\ fail \in SUBSET Streams
    BY <1>6 DEF UnloadSwitchOnConnect, RoutingInv, PulseInv, Good, ModulesOK, Faults
  <2> QED  BY <2>1, <2>2, LoadModulesGood, LoadModulesRouting
           DEF RoutingInv, PulseInv, ReturnsWithSilence, MovedForNothing, NonePassed
<1>7. CASE \E name \in {AppOf[s] : s \in Playbacks} : StartPassthrough(name)
  <2>1. PICK name \in Apps : StartPassthrough(name)
    BY <1>7, StreamsAssumption DEF Streams
  <2> QED  BY <2>1, StartPassthroughRouting DEF ReturnsWithSilence
<1>8. CASE \E name \in {AppOf[s] : s \in Playbacks} : StopPassthrough(name)
  BY <1>8, StopPassthroughStepRouting
<1>9. CASE \E new \in Settings : ChangeSettings(new)
  BY <1>9, ChangeSettingsRouting
<1>10. CASE \E s \in Streams : AppCloses(s) \/ \E device \in Devices : AppOpens(s, device)
  BY <1>10, AppRouting
<1>11. CASE UNCHANGED vars
  BY <1>11 DEF vars, RoutingInv, RoutingOK, Recorded, NoneThere, ReturnsWithSilence, MovedForNothing,
               NonePassed
<1> QED  BY <1>1, <1>2, <1>3, <1>4, <1>5, <1>6, <1>7, <1>8, <1>9, <1>10, <1>11, <1>12 DEF Next

LEMMA RoutingInvHolds == Spec => []RoutingInv
<1>1. Init => RoutingOK(pulse)
  <2> SUFFICES ASSUME Init PROVE RoutingOK(pulse)
    OBVIOUS
  <2>1. /\ pulse.at = [s \in Streams |-> "closed"] /\ pulse.default = "home"
        /\ pulse.backend = "none" /\ pulse.moved = Nowhere /\ pulse.passed = Nowhere
    BY DEF Init
  <2> QED  BY <2>1 DEF RoutingOK, NoneThere, Nowhere
<1>2. PulseInv /\ RoutingOK(pulse) /\ [Next]_vars => RoutingOK(pulse)'
  BY RoutingStep DEF RoutingInv, RoutingOK, NoneThere, Recorded
<1> QED  BY <1>1, <1>2, PulseInvHolds, PTL DEF Spec, RoutingInv

\* A stream on a device of Soundux belongs to an application that is recorded, or whose
\* excuse is known.
THEOREM NoStreamIsForgotten == Spec => []RecordedOrExcused
<1>1. RoutingInv => RecordedOrExcused
  BY DEF RoutingInv, RoutingOK, Recorded, RecordedOrExcused
<1> QED  BY <1>1, RoutingInvHolds, PTL

\* No application stays moved for nothing, but by a late stopAll of the queue or by a
\* startPassthrough that fails.
THEOREM SilenceReturnsInputs == Spec => InputsReturnWithSilence
<1>1. RoutingInv /\ [Next]_vars => [ReturnsWithSilence]_vars
  BY RoutingStep
<1> QED  BY <1>1, RoutingInvHolds, PTL DEF Spec, InputsReturnWithSilence, ReturnsWithSilence
================================================================================
