-------------------------- MODULE PipeWireLinks_proofs --------------------------
(***************************************************************************)
(* Proofs about PipeWireLinks: what the calls do to the links and to the   *)
(* record of them, and what the backend knows of the streams, for any      *)
(* streams, applications and announcements.                                *)
(***************************************************************************)
EXTENDS PipeWireLinks, FiniteSetTheorems, SequenceTheorems, WellFoundedInduction, TLAPS

\* A state of the server and the records, with every link on record.
Fields == {"nodes", "port", "links", "used"}
Kept(w) ==
  /\ DOMAIN w.server = Fields /\ DOMAIN w.record = Kinds
  /\ \A l \in w.server.links :
       l.kind \in Kinds /\ l.app \in DOMAIN w.record[l.kind] /\ l.id \in w.record[l.kind][l.app]

LinkInv == Kept(Now) /\ playing \in Nat

-------------------------------------------------------------------------------
(* What the parts of a call do *)

\* stopSoundInput ends every link it has on record.
LEMMA StopSoundInputKeeps ==
  ASSUME NEW w, Kept(w)
  PROVE  /\ Kept(StopSoundInput(w))
         /\ DOMAIN StopSoundInput(w).record["sound"] = {}
         /\ StopSoundInput(w).record["pass"] = w.record["pass"]
  BY DEF Kept, StopSoundInput, Deleted, IdsOf, Nothing, Kinds, Fields

\* stopPassthrough, of any applications, likewise.
LEMMA StopPassthroughKeeps ==
  ASSUME NEW w, Kept(w), NEW apps
  PROVE  /\ Kept(StopPassthroughOf(w, apps))
         /\ DOMAIN StopPassthroughOf(w, apps).record["pass"] = DOMAIN w.record["pass"] \ apps
         /\ StopPassthroughOf(w, apps).record["sound"] = w.record["sound"]
  BY DEF Kept, StopPassthroughOf, Deleted, Kinds, Fields

\* linkPorts and the record of what it made.
LEMMA LinkingKeeps ==
  ASSUME NEW w, Kept(w), NEW kind \in Kinds, NEW apps, NEW id, NEW linked,
         \A t \in linked : t[1] \in apps \cup DOMAIN w.record[kind]
  PROVE  Kept([server |-> WithLinks(w.server, linked, kind, id),
               record |-> [w.record EXCEPT ![kind] = Recorded(@, apps, linked, id)]])
<1> DEFINE done == [server |-> WithLinks(w.server, linked, kind, id),
                    record |-> [w.record EXCEPT ![kind] = Recorded(@, apps, linked, id)]]
           map == w.record[kind]
<1>1. DOMAIN done.server = Fields /\ DOMAIN done.record = Kinds
  BY DEF Kept, WithLinks, Kinds, Fields
<1>2. done.record[kind] = Recorded(map, apps, linked, id)
  BY DEF Kept
<1>3. done.server.links = w.server.links \cup
        {[id |-> id[t], port |-> t[2], kind |-> kind, app |-> t[1]] : t \in linked}
  BY DEF Kept, WithLinks, Fields
<1>4. ASSUME NEW t \in linked
      PROVE  t[1] \in DOMAIN done.record[kind] /\ id[t] \in done.record[kind][t[1]]
  <2>1. t[1] \in DOMAIN map \cup apps
    OBVIOUS
  <2> QED  BY <1>2, <2>1 DEF Recorded
<1>5. ASSUME NEW l \in w.server.links
      PROVE  /\ l.kind \in Kinds /\ l.app \in DOMAIN done.record[l.kind]
             /\ l.id \in done.record[l.kind][l.app]
  <2>1. l.kind \in Kinds /\ l.app \in DOMAIN w.record[l.kind] /\ l.id \in w.record[l.kind][l.app]
    BY DEF Kept
  <2>2. CASE l.kind = kind
    BY <1>2, <2>1, <2>2 DEF Recorded
  <2>3. CASE l.kind # kind
    BY <2>1, <2>3 DEF Kept
  <2> QED  BY <2>2, <2>3
<1> HIDE DEF done
<1>6. ASSUME NEW l \in done.server.links
      PROVE  /\ l.kind \in Kinds /\ l.app \in DOMAIN done.record[l.kind]
             /\ l.id \in done.record[l.kind][l.app]
  <2>1. CASE l \in w.server.links
    BY <1>5, <2>1
  <2>2. CASE \E t \in linked : l = [id |-> id[t], port |-> t[2], kind |-> kind, app |-> t[1]]
    BY <1>4, <2>2
  <2> QED  BY <1>3, <2>1, <2>2
<1>7. Kept(done)
  BY <1>1, <1>6 DEF Kept
<1> QED  BY <1>7 DEF done

\* inputSoundTo.
LEMMA InputSoundToKeeps ==
  ASSUME NEW w, Kept(w), NEW apps, NEW deaf, NEW id
  PROVE  /\ Kept(InputSoundTo(w, apps, deaf, id))
         /\ InputSoundTo(w, apps, deaf, id).record["pass"] = w.record["pass"]
<1> DEFINE linked == InputLinked(w, apps, deaf)
<1>1. \A t \in linked : t[1] \in IntoApps(w, apps)
  BY DEF InputLinked, Linkable, InputTargets, Targets
<1>2. Kept(InputSoundTo(w, apps, deaf, id))
  <2> HIDE DEF linked
  <2>1. \A t \in linked : t[1] \in IntoApps(w, apps) \cup DOMAIN w.record["sound"]
    BY <1>1
  <2>2. "sound" \in Kinds
    BY DEF Kinds
  <2> QED  BY <2>1, <2>2, LinkingKeeps DEF InputSoundTo, linked
<1>3. InputSoundTo(w, apps, deaf, id).record["pass"] = w.record["pass"]
  BY DEF InputSoundTo, Kept, Kinds
<1> QED  BY <1>2, <1>3

\* passthroughFrom: what is linked has a known stream, and is recorded.
LEMMA PassthroughFromKeeps ==
  ASSUME NEW w, Kept(w), NEW a, NEW deaf, NEW id
  PROVE  Kept(PassthroughFrom(w, a, deaf, id))
<1> DEFINE linked == PassLinked(w, a, deaf)
           mine == {a} \cap {b \in Apps : KnownOf(b) # {}}
<1>1. \A t \in linked : t[1] \in mine
  BY DEF PassLinked, Linkable, Targets
<1>2. "pass" \in Kinds /\ \A t \in linked : t[1] \in mine \cup DOMAIN w.record["pass"]
  BY <1>1 DEF Kinds
<1> HIDE DEF linked, mine
<1> QED  BY <1>2, LinkingKeeps DEF PassthroughFrom, linked, mine

\* stopSounds.
LEMMA SoundsStoppedKeeps ==
  ASSUME NEW w, Kept(w)
  PROVE  /\ Kept(SoundsStopped(w))
         /\ DOMAIN SoundsStopped(w).record["sound"] = {}
  BY StopSoundInputKeeps, StopPassthroughKeeps DEF SoundsStopped

\* onAllSoundsFinished: with nothing playing or passed through the inputs come back.
LEMMA SilenceKeepsLinks ==
  ASSUME NEW w, Kept(w), NEW sounds
  PROVE  /\ Kept(Silence(w, sounds))
         /\ Silence(w, sounds).record["pass"] = w.record["pass"]
         /\ sounds = 0 /\ DOMAIN w.record["pass"] = {}
              => DOMAIN Silence(w, sounds).record["sound"] = {}
  BY StopSoundInputKeeps DEF Silence

\* With nothing on record there is no link.
LEMMA NoRecordNoLink ==
  ASSUME NEW w, Kept(w), \A kind \in Kinds : DOMAIN w.record[kind] = {}
  PROVE  w.server.links = {}
  BY DEF Kept

-------------------------------------------------------------------------------
(* The calls *)

\* The step of SilenceUnlinks.
Quieted ==
  LinkedForNothing' => LinkedForNothing \/ StopAllRuns \/ \E a \in Apps : StartPassthrough(a)

\* A call that ends in w.
LEMMA EndsKeeps ==
  ASSUME NEW w, Kept(w), NEW asked, Ends(w, asked)
  PROVE  Kept(Now)' /\ server' = w.server /\ record' = w.record
  BY DEF Kept, Now, Ends

LEMMA PlaySoundStep ==
  ASSUME LinkInv, PlaySound, MaxPlaying \in Nat
  PROVE  LinkInv' /\ Quieted
<1>1. PICK overlap \in BOOLEAN, deaf \in SUBSET WithPort :
        PlaySound!(overlap, deaf)
  BY DEF PlaySound
<1> DEFINE before == IF overlap THEN Now ELSE SoundsStopped(Now)
           others == IF overlap THEN playing ELSE 0
           heard  == outputs = {} \/ \E a \in outputs : InputMoved(before, a, deaf)
<1>2. PICK id \in GivenIds(before.server, InputLinked(before, outputs, deaf)) :
        /\ Ends(IF heard THEN InputSoundTo(before, outputs, deaf, id)
                ELSE Silence(InputSoundTo(before, outputs, deaf, id), others),
                InputTargets(before, outputs))
        /\ playing' = IF heard THEN others + 1 ELSE others
  BY <1>1
<1> DEFINE into == InputSoundTo(before, outputs, deaf, id)
<1>3. Kept(before) /\ others \in Nat
  BY SoundsStoppedKeeps DEF LinkInv
<1>4. Kept(into)
  BY <1>3, InputSoundToKeeps
<1> HIDE DEF before, others, heard, into
<1>5. CASE heard
  <2>1. Kept(Now)' /\ playing' = others + 1
    BY <1>2, <1>4, <1>5, EndsKeeps DEF into
  <2> QED  BY <2>1, <1>3 DEF LinkInv, Quieted, LinkedForNothing
<1>6. CASE ~heard
  <2>1. Kept(Silence(into, others)) /\ Silence(into, others).record["pass"] = into.record["pass"]
    BY <1>4, SilenceKeepsLinks
  <2>2. /\ Kept(Now)' /\ playing' = others
        /\ server' = Silence(into, others).server /\ record' = Silence(into, others).record
    BY <1>2, <2>1, <1>6, EndsKeeps DEF into
  <2>3. ASSUME others = 0, DOMAIN record'["pass"] = {}
        PROVE  server'.links = {}
    <3>1. DOMAIN Silence(into, others).record["sound"] = {}
      BY <2>1, <2>2, <2>3, <1>4, SilenceKeepsLinks
    <3> QED  BY <3>1, <2>1, <2>2, <2>3, NoRecordNoLink DEF Kinds
  <2> QED  BY <2>2, <2>3, <1>3 DEF LinkInv, Quieted, LinkedForNothing
<1> QED  BY <1>5, <1>6

LEMMA SoundEndsStep ==
  ASSUME LinkInv, SoundEnds
  PROVE  LinkInv' /\ Quieted
<1> DEFINE w == Silence(Now, playing - 1)
<1>1. Kept(w) /\ w.record["pass"] = Now.record["pass"]
  BY SilenceKeepsLinks DEF LinkInv
<1>2. Kept(Now)' /\ server' = w.server /\ record' = w.record /\ playing' = playing - 1 /\ playing > 0
  BY <1>1, EndsKeeps DEF SoundEnds
<1>3. ASSUME playing' = 0, DOMAIN record'["pass"] = {}
      PROVE  server'.links = {}
  <2>1. DOMAIN w.record["sound"] = {}
    BY <1>1, <1>2, <1>3, SilenceKeepsLinks DEF LinkInv
  <2> QED  BY <2>1, <1>1, <1>2, <1>3, NoRecordNoLink DEF Kinds
<1> HIDE DEF w
<1> QED  BY <1>2, <1>3 DEF LinkInv, Quieted, LinkedForNothing

LEMMA StopSoundsStep ==
  ASSUME LinkInv, StopSounds
  PROVE  LinkInv' /\ Quieted
<1> DEFINE w == SoundsStopped(Now)
<1>1. Kept(w) /\ DOMAIN w.record["sound"] = {}
  BY SoundsStoppedKeeps DEF LinkInv
<1>2. Kept(Now)' /\ server' = w.server /\ record' = w.record /\ playing' \in {0, playing}
  BY <1>1, EndsKeeps DEF StopSounds
<1>3. ASSUME DOMAIN record'["pass"] = {}
      PROVE  server'.links = {}
  BY <1>1, <1>2, <1>3, NoRecordNoLink DEF Kinds
<1> HIDE DEF w
<1> QED  BY <1>2, <1>3 DEF LinkInv, Quieted, LinkedForNothing

\* The queue's stopAll touches no link.
LEMMA StopAllStep ==
  ASSUME LinkInv, StopAllRuns
  PROVE  LinkInv' /\ Quieted
  BY DEF LinkInv, StopAllRuns, Kept, Now, Quieted

LEMMA StartPassthroughStep ==
  ASSUME LinkInv, NEW a \in Apps, StartPassthrough(a)
  PROVE  LinkInv' /\ Quieted
<1>1. PICK deaf \in SUBSET WithPort :
      \E id \in GivenIds(server, InputLinked(Now, outputs, deaf)) :
        LET into == InputSoundTo(Now, outputs, deaf, id)
            moved == \A b \in outputs : InputMoved(Now, b, deaf)
        IN  \E passId, asked :
              Ends(IF moved THEN PassthroughFrom(into, a, deaf, passId) ELSE into, asked)
              /\ playing' = playing
  BY DEF StartPassthrough
<1>2. PICK id, passId, asked :
        LET into == InputSoundTo(Now, outputs, deaf, id)
            moved == \A b \in outputs : InputMoved(Now, b, deaf)
        IN  Ends(IF moved THEN PassthroughFrom(into, a, deaf, passId) ELSE into, asked)
            /\ playing' = playing
  BY <1>1
<1> DEFINE into == InputSoundTo(Now, outputs, deaf, id)
           moved == \A b \in outputs : InputMoved(Now, b, deaf)
<1>3. Kept(into) /\ into.record["pass"] = record["pass"]
  BY InputSoundToKeeps DEF LinkInv, Now
<1>4. Kept(PassthroughFrom(into, a, deaf, passId))
  BY <1>3, PassthroughFromKeeps
<1> HIDE DEF into, moved
<1>5. Kept(Now)' /\ playing' = playing
  BY <1>2, <1>3, <1>4, EndsKeeps DEF into, moved
<1> QED  BY <1>5 DEF LinkInv, Quieted

LEMMA StopPassthroughStep ==
  ASSUME LinkInv, NEW a, StopPassthrough(a)
  PROVE  LinkInv' /\ Quieted
<1> DEFINE last == playing = 0 /\ Cardinality(DOMAIN record["pass"]) = 1
           before == IF last THEN StopSoundInput(Now) ELSE Now
           w == StopPassthroughOf(before, {a})
<1>1. /\ Kept(before) /\ before.record["pass"] = record["pass"]
      /\ last => DOMAIN before.record["sound"] = {}
  BY StopSoundInputKeeps DEF LinkInv, Now
<1>2. /\ Kept(w) /\ DOMAIN w.record["pass"] = DOMAIN before.record["pass"] \ {a}
      /\ w.record["sound"] = before.record["sound"]
  BY <1>1, StopPassthroughKeeps
<1>3. Kept(Now)' /\ server' = w.server /\ record' = w.record /\ playing' = playing
  BY <1>2, EndsKeeps DEF StopPassthrough
<1>4. ASSUME playing = 0, DOMAIN record["pass"] # {}, DOMAIN record'["pass"] = {}
      PROVE  server'.links = {}
  <2>1. DOMAIN record["pass"] = {a}
    BY <1>1, <1>2, <1>3, <1>4
  <2>2. last
    BY <2>1, <1>4, FS_Singleton
  <2> QED  BY <2>2, <1>1, <1>2, <1>3, <1>4, NoRecordNoLink DEF Kinds
<1>5. ASSUME DOMAIN record["pass"] = {}, server'.links # {}
      PROVE  server.links # {}
  <2>1. ~last
    BY <1>5, FS_EmptySet
  <2>2. w = StopPassthroughOf(Now, {a})
    BY <2>1
  <2>3. w.server.links \subseteq server.links
    BY <2>2 DEF StopPassthroughOf, Deleted, Now, LinkInv, Kept, Fields
  <2> QED  BY <1>3, <1>5, <2>3
<1> HIDE DEF w
<1> QED  BY <1>3, <1>4, <1>5 DEF LinkInv, Quieted, LinkedForNothing

LEMMA ChangeOutputsStep ==
  ASSUME LinkInv, NEW new, ChangeOutputs(new)
  PROVE  LinkInv' /\ Quieted
<1>1. PICK deaf, id, apps, asked :
        /\ Ends(InputSoundTo(StopSoundInput(Now), apps, deaf, id), asked)
        /\ playing = 0 => apps = {}
        /\ playing' = playing
  BY DEF ChangeOutputs
<1> DEFINE w == InputSoundTo(StopSoundInput(Now), apps, deaf, id)
<1>2. Kept(w) /\ w.record["pass"] = record["pass"]
  BY StopSoundInputKeeps, InputSoundToKeeps DEF LinkInv, Now
<1>3. Kept(Now)' /\ server' = w.server /\ record' = w.record
  BY <1>1, <1>2, EndsKeeps
<1>4. ASSUME playing = 0, DOMAIN record'["pass"] = {}
      PROVE  server'.links = {}
  <2>1. /\ DOMAIN StopSoundInput(Now).record["sound"] = {}
        /\ Kept(StopSoundInput(Now))
    BY StopSoundInputKeeps DEF LinkInv
  <2> DEFINE none == {}
  <2>2. w = InputSoundTo(StopSoundInput(Now), none, deaf, id)
    BY <1>1, <1>4
  <2> HIDE DEF none
  <2>3. DOMAIN w.record["sound"] = {}
    <3> DEFINE v == StopSoundInput(Now)
               linked == InputLinked(v, none, deaf)
               map == Recorded(v.record["sound"], IntoApps(v, none), linked, id)
    <3>1. w.record = [v.record EXCEPT !["sound"] = map]
      BY <2>2 DEF InputSoundTo
    <3>2. DOMAIN map = DOMAIN v.record["sound"] \cup IntoApps(v, none)
      BY DEF Recorded
    <3>3. IntoApps(v, none) = {}
      BY DEF IntoApps, none
    <3>4. DOMAIN v.record = Kinds
      BY <2>1 DEF Kept
    <3> HIDE DEF v, map
    <3> QED  BY <2>1, <3>1, <3>2, <3>3, <3>4 DEF Kinds, v
  <2> QED  BY <1>2, <1>3, <1>4, <2>3, NoRecordNoLink DEF Kinds
<1> HIDE DEF w
<1> QED  BY <1>1, <1>3, <1>4 DEF LinkInv, Quieted, LinkedForNothing

\* What the server does on its own leaves the record alone and makes no link.
LEMMA WorldStep ==
  ASSUME LinkInv, NEW n \in Streams,
         NodeAppears(n) \/ NodeGoes(n) \/ PortAppears(n) \/ PortGoes(n)
  PROVE  LinkInv' /\ Quieted
<1>1. /\ record' = record /\ playing' = playing
      /\ DOMAIN server' = Fields /\ server'.links \subseteq server.links
  <2>1. CASE NodeAppears(n)
    BY <2>1 DEF NodeAppears, Announces, LinkInv, Kept, Now, Fields
  <2>2. CASE NodeGoes(n)
    BY <2>2 DEF NodeGoes, Announces, LinkInv, Kept, Now, Fields
  <2>3. CASE PortAppears(n)
    BY <2>3 DEF PortAppears, Announces, LinkInv, Kept, Now, Fields
  <2>4. CASE PortGoes(n)
    BY <2>4 DEF PortGoes, Announces, LinkInv, Kept, Now, Fields
  <2> QED  BY <2>1, <2>2, <2>3, <2>4
<1> QED  BY <1>1 DEF LinkInv, Kept, Now, Quieted, LinkedForNothing

-------------------------------------------------------------------------------
(* The specification *)

\* LinkInv is inductive, and a step from it to silence leaves no link.
LEMMA LinkInvHolds == Spec => []LinkInv /\ [][Quieted]_vars
<1>1. Init => LinkInv
  BY DEF Init, LinkInv, Kept, Now, NoRecord, Kinds, Fields
<1>2. LinkInv /\ [Next]_<<vars, case>> => LinkInv' /\ (Quieted \/ UNCHANGED vars)
  <2> SUFFICES ASSUME LinkInv, [Next]_<<vars, case>>
               PROVE  LinkInv' /\ (Quieted \/ UNCHANGED vars)
    OBVIOUS
  <2>1. CASE Setup \/ ListApps
    <3>1. server' = server /\ record' = record /\ playing' = playing
      BY <2>1 DEF Setup, ListApps
    <3>2. LinkInv'
      BY <3>1 DEF LinkInv, Kept, Now
    <3> QED  BY <3>1, <3>2 DEF Quieted, LinkedForNothing
  <2>2. CASE Destroy
    BY <2>2 DEF Destroy, LinkInv, Kept, Now, NoRecord, Kinds, Fields, Quieted, LinkedForNothing
  <2>3. CASE PlaySound
    BY <2>3, PlaySoundStep, BoundsAssumption
  <2>4. CASE SoundEnds \/ StopSounds \/ StopAllRuns
    BY <2>4, SoundEndsStep, StopSoundsStep, StopAllStep
  <2>5. CASE \E a \in {AppOf[n] : n \in Streams \ Inputs} : StartPassthrough(a) \/ StopPassthrough(a)
    <3>1. PICK a \in Apps : StartPassthrough(a) \/ StopPassthrough(a)
      BY <2>5, StreamsAssumption
    <3> QED  BY <3>1, StartPassthroughStep, StopPassthroughStep
  <2>6. CASE \E new \in SUBSET {AppOf[n] : n \in Inputs} : ChangeOutputs(new)
    BY <2>6, ChangeOutputsStep
  <2>7. CASE \E n \in Streams : NodeAppears(n) \/ NodeGoes(n) \/ PortAppears(n) \/ PortGoes(n)
    BY <2>7, WorldStep
  <2>8. CASE UNCHANGED <<vars, case>>
    BY <2>8 DEF vars, LinkInv, Kept, Now
  <2> QED  BY <2>1, <2>2, <2>3, <2>4, <2>5, <2>6, <2>7, <2>8 DEF Next
<1> QED  BY <1>1, <1>2, PTL DEF Spec

\* Whatever streams come and go and whichever links fail: every link the backend has
\* made and the server still holds is on record under its kind and application.
THEOREM LinksStayRecorded == Spec => []LinksRecorded
<1>1. LinkInv => LinksRecorded
  BY DEF LinkInv, Kept, Now, LinksRecorded
<1> QED  BY <1>1, LinkInvHolds, PTL

\* No link is left for nothing, but by a late stopAll of the queue or by a startPassthrough
\* that gets only as far as the outputs.
THEOREM SilenceEndsAllLinks == Spec => SilenceUnlinks
  BY LinkInvHolds, PTL DEF SilenceUnlinks, Quieted

-------------------------------------------------------------------------------
(* What sync hears: the recursion over the announcements *)

LEMMA SetOfAllNumbers ==
  ASSUME NEW T, 0 \in T, \A n \in Nat : n \in T => n + 1 \in T
  PROVE  Nat \subseteq T
<1> DEFINE R == OpToRel(<, Nat)
           Missing == Nat \ T
<1>1. IsWellFoundedOn(R, Nat)
  BY NatLessThanWellFounded
<1>2. \A x, y \in Nat : x < y => <<x, y>> \in R
  BY DEF OpToRel
<1> HIDE DEF R
<1>3. ASSUME Missing # {}
      PROVE  FALSE
  <2>1. PICK x \in Missing : \A y \in Missing : ~(<<y, x>> \in R)
    BY <1>1, <1>3, WFMin
  <2>2. x # 0 /\ x - 1 \in Nat /\ x - 1 < x
    BY <2>1
  <2>3. x - 1 \in T
    BY <2>1, <2>2, <1>2
  <2> QED BY <2>1, <2>2, <2>3
<1> QED BY <1>3

\* f tells what is heard before the nested syncs, g what is heard after them.
Begins(f, N, nodes, news) ==
  f = [i \in 0..N |-> IF i = 0 THEN [nodes |-> nodes, ports |-> {}] ELSE Before(f[i - 1], news[i])]
Finishes(g, N, nodes, news) ==
  g = [i \in 0..N |-> IF i = 0 THEN Begun(nodes, news) ELSE After(news[Len(news) + 1 - i], g[i - 1])]

LEMMA BeginsExists ==
  ASSUME NEW nodes, NEW news, NEW N \in Nat
  PROVE  \E f : Begins(f, N, nodes, news)
<1> DEFINE T == {n \in Nat : \E f : Begins(f, n, nodes, news)}
           g == [i \in 0..0 |-> [nodes |-> nodes, ports |-> {}]]
<1>1. Begins(g, 0, nodes, news)
  BY DEF Begins
<1>2. ASSUME NEW n \in Nat, NEW f, Begins(f, n, nodes, news)
      PROVE  \E h : Begins(h, n + 1, nodes, news)
  <2> DEFINE h == [i \in 0..n + 1 |-> IF i = n + 1 THEN Before(f[n], news[i]) ELSE f[i]]
             k == [i \in 0..n + 1 |-> IF i = 0 THEN [nodes |-> nodes, ports |-> {}]
                                      ELSE Before(h[i - 1], news[i])]
  <2>1. \A i \in 0..n : f[i] = IF i = 0 THEN [nodes |-> nodes, ports |-> {}] ELSE Before(f[i - 1], news[i])
    BY <1>2 DEF Begins
  <2>2. ASSUME NEW i \in 0..n + 1
        PROVE  h[i] = k[i]
    <3>1. CASE i = 0
      BY <3>1, <2>1
    <3>2. CASE i # 0
      <4>1. i - 1 \in 0..n /\ h[i - 1] = f[i - 1]
        BY <3>2
      <4> QED BY <4>1, <3>2, <2>1
    <3> QED BY <3>1, <3>2
  <2>3. h = k
    BY <2>2
  <2> QED BY <2>3 DEF Begins
<1>3. 0 \in T /\ \A n \in Nat : n \in T => n + 1 \in T
  BY <1>1, <1>2
<1> HIDE DEF T
<1>4. N \in T
  BY <1>3, SetOfAllNumbers
<1> QED BY <1>4 DEF T

LEMMA FinishesExists ==
  ASSUME NEW nodes, NEW news, NEW N \in Nat
  PROVE  \E g : Finishes(g, N, nodes, news)
<1> DEFINE T == {n \in Nat : \E f : Finishes(f, n, nodes, news)}
           g == [i \in 0..0 |-> Begun(nodes, news)]
<1>1. Finishes(g, 0, nodes, news)
  BY DEF Finishes
<1>2. ASSUME NEW n \in Nat, NEW f, Finishes(f, n, nodes, news)
      PROVE  \E h : Finishes(h, n + 1, nodes, news)
  <2> DEFINE h == [i \in 0..n + 1 |-> IF i = n + 1 THEN After(news[Len(news) + 1 - i], f[n]) ELSE f[i]]
             k == [i \in 0..n + 1 |-> IF i = 0 THEN Begun(nodes, news)
                                      ELSE After(news[Len(news) + 1 - i], h[i - 1])]
  <2>1. \A i \in 0..n : f[i] = IF i = 0 THEN Begun(nodes, news) ELSE After(news[Len(news) + 1 - i], f[i - 1])
    BY <1>2 DEF Finishes
  <2>2. ASSUME NEW i \in 0..n + 1
        PROVE  h[i] = k[i]
    <3>1. CASE i = 0
      BY <3>1, <2>1
    <3>2. CASE i # 0
      <4>1. i - 1 \in 0..n /\ h[i - 1] = f[i - 1]
        BY <3>2
      <4> QED BY <4>1, <3>2, <2>1
    <3> QED BY <3>1, <3>2
  <2>3. h = k
    BY <2>2
  <2> QED BY <2>3 DEF Finishes
<1>3. 0 \in T /\ \A n \in Nat : n \in T => n + 1 \in T
  BY <1>1, <1>2
<1> HIDE DEF T
<1>4. N \in T
  BY <1>3, SetOfAllNumbers
<1> QED BY <1>4 DEF T

\* What is reached through the announcements, if every one of them leads from one set to the next.
LEMMA BegunReaches ==
  ASSUME NEW nodes, NEW news, Len(news) \in Nat, NEW S,
         [nodes |-> nodes, ports |-> {}] \in S[0],
         \A i \in 1..Len(news) : \A h \in S[i - 1] : Before(h, news[i]) \in S[i]
  PROVE  Begun(nodes, news) \in S[Len(news)]
<1> DEFINE N == Len(news)
<1>1. \E f : Begins(f, N, nodes, news)
  BY BeginsExists
<1>2. PICK f : Begins(f, N, nodes, news) /\ Begun(nodes, news) = f[N]
  BY <1>1 DEF Begun, Begins
<1>3. \A i \in 0..N : f[i] = IF i = 0 THEN [nodes |-> nodes, ports |-> {}] ELSE Before(f[i - 1], news[i])
  BY <1>2 DEF Begins
<1> DEFINE T == {i \in Nat : i <= N => f[i] \in S[i]}
<1>4. 0 \in T
  BY <1>3
<1>5. ASSUME NEW i \in Nat, i \in T
      PROVE  i + 1 \in T
  <2>1. CASE i + 1 <= N
    <3>1. i + 1 \in 1..N /\ i + 1 \in 0..N /\ (i + 1) - 1 = i /\ i + 1 # 0 /\ f[i] \in S[i]
      BY <2>1, <1>5
    <3>2. f[i + 1] = Before(f[i], news[i + 1])
      BY <3>1, <1>3
    <3> QED BY <3>1, <3>2
  <2> QED BY <2>1
<1> HIDE DEF T
<1>6. N \in T
  BY <1>4, <1>5, SetOfAllNumbers
<1> QED BY <1>2, <1>6 DEF T

LEMMA HeardReaches ==
  ASSUME NEW nodes, NEW news, Len(news) \in Nat, NEW S,
         Begun(nodes, news) \in S[0],
         \A i \in 1..Len(news) : \A h \in S[i - 1] : After(news[Len(news) + 1 - i], h) \in S[i]
  PROVE  \E h \in S[Len(news)] : Heard(nodes, news) = h.nodes
<1> DEFINE N == Len(news)
<1>1. \E f : Finishes(f, N, nodes, news)
  BY FinishesExists
<1>2. PICK f : Finishes(f, N, nodes, news) /\ Heard(nodes, news) = f[N].nodes
  BY <1>1 DEF Heard, Finishes
<1>3. \A i \in 0..N : f[i] = IF i = 0 THEN Begun(nodes, news) ELSE After(news[N + 1 - i], f[i - 1])
  BY <1>2 DEF Finishes
<1> DEFINE T == {i \in Nat : i <= N => f[i] \in S[i]}
<1>4. 0 \in T
  BY <1>3
<1>5. ASSUME NEW i \in Nat, i \in T
      PROVE  i + 1 \in T
  <2>1. CASE i + 1 <= N
    <3>1. i + 1 \in 1..N /\ i + 1 \in 0..N /\ (i + 1) - 1 = i /\ i + 1 # 0 /\ f[i] \in S[i]
      BY <2>1, <1>5
    <3>2. f[i + 1] = After(news[N + 1 - (i + 1)], f[i])
      BY <3>1, <1>3
    <3> QED BY <3>1, <3>2
  <2> QED BY <2>1
<1> HIDE DEF T
<1>6. N \in T
  BY <1>4, <1>5, SetOfAllNumbers
<1> QED BY <1>2, <1>6 DEF T

LEMMA BegunNothing ==
  ASSUME NEW nodes
  PROVE  Begun(nodes, <<>>) = [nodes |-> nodes, ports |-> {}]
<1> DEFINE S == [i \in 0..0 |-> {[nodes |-> nodes, ports |-> {}]}]
<1>1. Begun(nodes, <<>>) \in S[Len(<<>>)]
  <2>1. Len(<<>>) = 0 /\ [nodes |-> nodes, ports |-> {}] \in S[0]
    OBVIOUS
  <2> HIDE DEF S
  <2> QED BY <2>1, BegunReaches
<1> QED BY <1>1

\* The next announcement is begun after all that came before it.
LEMMA BegunAppend ==
  ASSUME NEW nodes, NEW R, NEW news \in Seq(R), NEW e \in R
  PROVE  Begun(nodes, Append(news, e)) = Before(Begun(nodes, news), e)
<1> DEFINE N == Len(news)
           more == Append(news, e)
<1>0. N \in Nat /\ Len(more) = N + 1 /\ more[N + 1] = e /\ \A i \in 1..N : more[i] = news[i]
  OBVIOUS
<1>a. \E f : Begins(f, N, nodes, news)
  BY <1>0, BeginsExists
<1>1. PICK f : Begins(f, N, nodes, news) /\ Begun(nodes, news) = f[N]
  BY <1>a DEF Begun, Begins
<1> HIDE DEF N, more
<1>2. \A i \in 0..N : f[i] = IF i = 0 THEN [nodes |-> nodes, ports |-> {}] ELSE Before(f[i - 1], news[i])
  BY <1>1 DEF Begins
<1> DEFINE S == [i \in 0..N + 1 |-> IF i = N + 1 THEN {Before(f[N], e)} ELSE {f[i]}]
<1>3. [nodes |-> nodes, ports |-> {}] \in S[0]
  <2>1. 0 \in 0..N /\ 0 \in 0..N + 1 /\ 0 # N + 1
    BY <1>0
  <2>2. f[0] = [nodes |-> nodes, ports |-> {}]
    BY <2>1, <1>2
  <2> QED BY <2>1, <2>2
<1>4. ASSUME NEW i \in 1..N + 1, NEW h \in S[i - 1]
      PROVE  Before(h, more[i]) \in S[i]
  <2>1. i - 1 \in 0..N /\ h = f[i - 1]
    BY <1>0, <1>4
  <2>2. CASE i = N + 1
    BY <2>1, <2>2, <1>0
  <2>3. CASE i # N + 1
    <3>1. i \in 0..N /\ i \in 1..N /\ i # 0
      BY <2>3, <1>0
    <3> QED BY <3>1, <2>1, <1>0, <1>2
  <2> QED BY <2>2, <2>3
<1>5. S[N + 1] = {Before(f[N], e)}
  BY <1>0
<1> HIDE DEF S
<1>6. Len(more) \in Nat
  BY <1>0
<1>7. Begun(nodes, more) \in S[Len(more)]
  BY <1>0, <1>3, <1>4, <1>6, BegunReaches
<1> QED BY <1>0, <1>1, <1>5, <1>7 DEF more

-------------------------------------------------------------------------------
(* What the handlers make of an announcement *)

NodeMaps == UNION {[D -> SUBSET Ids] : D \in SUBSET Streams}
HeardSet == [nodes : NodeMaps, ports : SUBSET [id : Ids, stream : Streams]]

\* The ports heard of and not yet moved to their node.
Pending(h, n) == {p.id : p \in {q \in h.ports : q.stream = n}}

LEMMA NodeMapParts ==
  ASSUME NEW f \in NodeMaps
  PROVE  /\ DOMAIN f \subseteq Streams /\ \A n \in DOMAIN f : f[n] \subseteq Ids
         /\ f = [n \in DOMAIN f |-> f[n]]
  BY DEF NodeMaps

LEMMA NodeMapMade ==
  ASSUME NEW D \in SUBSET Streams, NEW f \in [D -> SUBSET Ids]
  PROVE  f \in NodeMaps
  BY DEF NodeMaps

LEMMA EventParts ==
  ASSUME NEW e \in Event
  PROVE  /\ e.stream \in Streams
         /\ \/ e.type \in {"node+", "node-"}
            \/ e.type \in {"port+", "port-"} /\ e.id \in Ids
  BY DEF Event

LEMMA BeforeNodeComes ==
  ASSUME NEW h \in HeardSet, NEW e \in Event, e.type = "node+"
  PROVE  /\ Before(h, e) \in HeardSet
         /\ DOMAIN Before(h, e).nodes = DOMAIN h.nodes \cup {e.stream}
         /\ \A n \in DOMAIN h.nodes : Before(h, e).nodes[n] = h.nodes[n]
         /\ \A n \in Streams \ DOMAIN h.nodes : n = e.stream => Before(h, e).nodes[n] = {}
         /\ Before(h, e).ports = h.ports
<1> DEFINE D == DOMAIN h.nodes \cup {e.stream}
           f == [n \in D |-> IF n \in DOMAIN h.nodes THEN h.nodes[n] ELSE {}]
<1>1. h.nodes \in NodeMaps /\ h.ports \subseteq [id : Ids, stream : Streams]
      /\ h = [nodes |-> h.nodes, ports |-> h.ports]
  BY DEF HeardSet
<1>2. Before(h, e) = [nodes |-> f, ports |-> h.ports]
  BY <1>1 DEF Before
<1>3. f \in [D -> SUBSET Ids] /\ D \in SUBSET Streams
  BY <1>1, NodeMapParts, EventParts
<1>4. f \in NodeMaps
  BY <1>3, NodeMapMade
<1> QED BY <1>1, <1>2, <1>4 DEF HeardSet

LEMMA BeforeNodeGoes ==
  ASSUME NEW h \in HeardSet, NEW e \in Event, e.type = "node-"
  PROVE  /\ Before(h, e) \in HeardSet
         /\ DOMAIN Before(h, e).nodes = DOMAIN h.nodes \ {e.stream}
         /\ \A n \in DOMAIN h.nodes \ {e.stream} : Before(h, e).nodes[n] = h.nodes[n]
         /\ Before(h, e).ports = h.ports
<1> DEFINE D == DOMAIN h.nodes \ {e.stream}
           f == [n \in D |-> h.nodes[n]]
<1>1. h.nodes \in NodeMaps /\ h.ports \subseteq [id : Ids, stream : Streams]
      /\ h = [nodes |-> h.nodes, ports |-> h.ports]
  BY DEF HeardSet
<1>2. Before(h, e) = [nodes |-> f, ports |-> h.ports]
  BY <1>1 DEF Before
<1>3. f \in [D -> SUBSET Ids] /\ D \in SUBSET Streams
  BY <1>1, NodeMapParts
<1>4. f \in NodeMaps
  BY <1>3, NodeMapMade
<1> QED BY <1>1, <1>2, <1>4 DEF HeardSet

LEMMA BeforePort ==
  ASSUME NEW h \in HeardSet, NEW e \in Event, e.type \in {"port+", "port-"}
  PROVE  /\ Before(h, e) \in HeardSet
         /\ Before(h, e).nodes = h.nodes
         /\ e.type = "port+" =>
              Before(h, e).ports = h.ports \cup {[id |-> e.id, stream |-> e.stream]}
         /\ e.type = "port-" => Before(h, e).ports = {p \in h.ports : p.id # e.id}
<1>1. h.nodes \in NodeMaps /\ h.ports \subseteq [id : Ids, stream : Streams]
      /\ h = [nodes |-> h.nodes, ports |-> h.ports]
  BY DEF HeardSet
<1>2. e.id \in Ids /\ e.stream \in Streams
  BY EventParts
<1>3. CASE e.type = "port+"
  <2>1. Before(h, e) = [nodes |-> h.nodes, ports |-> h.ports \cup {[id |-> e.id, stream |-> e.stream]}]
    BY <1>1, <1>3 DEF Before
  <2> QED BY <1>1, <1>2, <1>3, <2>1 DEF HeardSet
<1>4. CASE e.type = "port-"
  <2>1. Before(h, e) = [nodes |-> h.nodes, ports |-> {p \in h.ports : p.id # e.id}]
    BY <1>1, <1>4 DEF Before
  <2> QED BY <1>1, <1>4, <2>1 DEF HeardSet
<1> QED BY <1>3, <1>4

LEMMA BeforeTyped ==
  ASSUME NEW h \in HeardSet, NEW e \in Event
  PROVE  Before(h, e) \in HeardSet
  BY EventParts, BeforeNodeComes, BeforeNodeGoes, BeforePort

\* The end of a handler moves ports to their nodes and does nothing else.
LEMMA AfterMoves ==
  ASSUME NEW h \in HeardSet, NEW e \in Event
  PROVE  /\ After(e, h) \in HeardSet
         /\ DOMAIN After(e, h).nodes = DOMAIN h.nodes
         /\ \A n \in DOMAIN h.nodes :
              /\ h.nodes[n] \subseteq After(e, h).nodes[n]
              /\ After(e, h).nodes[n] \subseteq h.nodes[n] \cup Pending(h, n)
         /\ After(e, h).ports \subseteq h.ports
         /\ \A p \in h.ports :
              \/ p \in After(e, h).ports
              \/ p.stream \in DOMAIN h.nodes /\ p.id \in After(e, h).nodes[p.stream]
         /\ e.type = "port+" =>
              \A p \in After(e, h).ports : p.id = e.id => p.stream \notin DOMAIN h.nodes
<1> DEFINE mine == {p \in h.ports : e.type = "port+" /\ p.id = e.id /\ p.stream \in DOMAIN h.nodes}
           D == DOMAIN h.nodes
           f == [n \in D |-> h.nodes[n] \cup {p.id : p \in {q \in mine : q.stream = n}}]
<1>1. h.nodes \in NodeMaps /\ h.ports \subseteq [id : Ids, stream : Streams]
      /\ h = [nodes |-> h.nodes, ports |-> h.ports]
  BY DEF HeardSet
<1>2. After(e, h) = [nodes |-> f, ports |-> h.ports \ mine]
  BY DEF After
<1>3. D \in SUBSET Streams /\ \A n \in D : h.nodes[n] \subseteq Ids
  BY <1>1, NodeMapParts
<1>4. \A p \in mine : p \in h.ports /\ p.id \in Ids /\ p.stream \in D
  BY <1>1
<1>5. f \in [D -> SUBSET Ids]
  BY <1>3, <1>4
<1>6. f \in NodeMaps
  BY <1>3, <1>5, NodeMapMade
<1>7. \A n \in D : h.nodes[n] \subseteq f[n] /\ f[n] \subseteq h.nodes[n] \cup Pending(h, n)
  BY <1>4 DEF Pending
<1>8. \A p \in h.ports : p \in h.ports \ mine \/ (p.stream \in D /\ p.id \in f[p.stream])
  <2> SUFFICES ASSUME NEW p \in mine PROVE p.stream \in D /\ p.id \in f[p.stream]
    OBVIOUS
  <2> QED BY <1>4
<1>9. e.type = "port+" => \A p \in h.ports \ mine : p.id = e.id => p.stream \notin D
  OBVIOUS
<1>10. DOMAIN f = D
  OBVIOUS
<1> HIDE DEF f, mine, D
<1>11. After(e, h) \in HeardSet
  BY <1>1, <1>2, <1>6 DEF HeardSet
<1> QED BY <1>2, <1>7, <1>8, <1>9, <1>10, <1>11 DEF mine, D

-------------------------------------------------------------------------------
(* What sync hears *)

LEMMA SeqOfEvents ==
  ASSUME NEW news \in Seq(Event)
  PROVE  Len(news) \in Nat /\ \A i \in 1..Len(news) : news[i] \in Event
  OBVIOUS

\* Every port begun and not removed was announced.
LEMMA BegunTyped ==
  ASSUME NEW nodes \in NodeMaps, NEW news \in Seq(Event)
  PROVE  /\ Begun(nodes, news) \in HeardSet
         /\ \A p \in Begun(nodes, news).ports :
              \E j \in 1..Len(news) : news[j].type = "port+" /\ news[j].id = p.id
<1> DEFINE N == Len(news)
           S == [i \in 0..N |-> {h \in HeardSet : \A p \in h.ports :
                   \E j \in 1..N : news[j].type = "port+" /\ news[j].id = p.id}]
<1>1. N \in Nat /\ \A i \in 1..N : news[i] \in Event
  BY SeqOfEvents
<1>2. [nodes |-> nodes, ports |-> {}] \in S[0]
  BY <1>1 DEF HeardSet
<1>3. ASSUME NEW i \in 1..N, NEW h \in S[i - 1]
      PROVE  Before(h, news[i]) \in S[i]
  <2>1. h \in HeardSet /\ news[i] \in Event /\ i - 1 \in 0..N /\ i \in 0..N
    BY <1>1, <1>3
  <2>2. \A p \in h.ports : \E j \in 1..N : news[j].type = "port+" /\ news[j].id = p.id
    BY <2>1, <1>3
  <2>3. Before(h, news[i]) \in HeardSet
    BY <2>1, BeforeTyped
  <2>4. ASSUME NEW p \in Before(h, news[i]).ports
        PROVE  p \in h.ports \/ (news[i].type = "port+" /\ news[i].id = p.id)
    BY <2>1, EventParts, BeforeNodeComes, BeforeNodeGoes, BeforePort
  <2>5. \A p \in Before(h, news[i]).ports :
          \E j \in 1..N : news[j].type = "port+" /\ news[j].id = p.id
    BY <2>2, <2>4
  <2> QED BY <2>1, <2>3, <2>5
<1>4. S[N] = {h \in HeardSet : \A p \in h.ports :
                \E j \in 1..N : news[j].type = "port+" /\ news[j].id = p.id}
  BY <1>1
<1> HIDE DEF S
<1>5. Begun(nodes, news) \in S[N]
  BY <1>1, <1>2, <1>3, BegunReaches
<1> QED BY <1>4, <1>5

\* The nested handlers: whatever their order, once all have finished every port heard of
\* and not removed is at its node, if that is known.
LEMMA HeardIs ==
  ASSUME NEW nodes \in NodeMaps, NEW news \in Seq(Event)
  PROVE  LET b == Begun(nodes, news) IN
         /\ Heard(nodes, news) \in NodeMaps
         /\ DOMAIN Heard(nodes, news) = DOMAIN b.nodes
         /\ \A n \in DOMAIN b.nodes : Heard(nodes, news)[n] = b.nodes[n] \cup Pending(b, n)
<1> DEFINE N == Len(news)
           b == Begun(nodes, news)
           D == DOMAIN b.nodes
           Within(h) == /\ DOMAIN h.nodes = D /\ h.ports \subseteq b.ports
                        /\ \A n \in D : /\ b.nodes[n] \subseteq h.nodes[n]
                                        /\ h.nodes[n] \subseteq b.nodes[n] \cup Pending(b, n)
                        /\ \A p \in b.ports : p.stream \in D =>
                             p \in h.ports \/ p.id \in h.nodes[p.stream]
           Moved(h, i) == \A j \in 1..N : j > N - i /\ news[j].type = "port+" =>
                            \A p \in h.ports : p.id = news[j].id => p.stream \notin D
           S == [i \in 0..N |-> {h \in HeardSet : Within(h) /\ Moved(h, i)}]
<1>1. N \in Nat /\ \A i \in 1..N : news[i] \in Event
  BY SeqOfEvents
<1>2. b \in HeardSet
      /\ \A p \in b.ports : \E j \in 1..N : news[j].type = "port+" /\ news[j].id = p.id
  BY BegunTyped
<1> HIDE DEF N, b
<1>3. b \in S[0]
  <2>1. Within(b)
    OBVIOUS
  <2>2. \A j \in 1..N : ~(j > N - 0)
    BY <1>1
  <2>3. Moved(b, 0)
    BY <2>2
  <2> HIDE DEF Within, Moved
  <2> QED BY <1>1, <1>2, <2>1, <2>3
<1>4. ASSUME NEW i \in 1..N, NEW h \in S[i - 1]
      PROVE  After(news[N + 1 - i], h) \in S[i]
  <2>1. i - 1 \in 0..N /\ i \in 0..N /\ N + 1 - i \in 1..N
    BY <1>1, <1>4
  <2>2. h \in HeardSet /\ Within(h) /\ Moved(h, i - 1) /\ news[N + 1 - i] \in Event
    <3> HIDE DEF Within, Moved
    <3> QED BY <2>1, <1>4, <1>1
  <2> DEFINE e == news[N + 1 - i]
             a == After(e, h)
  <2> HIDE DEF e, a
  <2>3. e \in Event
    BY <2>2 DEF e
  <2>4. /\ a \in HeardSet
        /\ DOMAIN a.nodes = DOMAIN h.nodes
        /\ \A n \in DOMAIN h.nodes :
              /\ h.nodes[n] \subseteq a.nodes[n]
              /\ a.nodes[n] \subseteq h.nodes[n] \cup Pending(h, n)
        /\ a.ports \subseteq h.ports
        /\ \A p \in h.ports :
              p \in a.ports \/ (p.stream \in DOMAIN h.nodes /\ p.id \in a.nodes[p.stream])
        /\ e.type = "port+" => \A p \in a.ports : p.id = e.id => p.stream \notin DOMAIN h.nodes
    BY <2>2, <2>3, AfterMoves DEF a
  <2>5. Within(a)
    <3>1. DOMAIN h.nodes = D /\ h.ports \subseteq b.ports
      BY <2>2
    <3>2. \A n \in D : Pending(h, n) \subseteq Pending(b, n)
      BY <3>1 DEF Pending
    <3>3. \A n \in D : /\ b.nodes[n] \subseteq h.nodes[n]
                       /\ h.nodes[n] \subseteq b.nodes[n] \cup Pending(b, n)
      BY <2>2
    <3>4. \A n \in D : /\ b.nodes[n] \subseteq a.nodes[n]
                       /\ a.nodes[n] \subseteq b.nodes[n] \cup Pending(b, n)
      BY <2>4, <3>1, <3>2, <3>3
    <3>5. ASSUME NEW p \in b.ports, p.stream \in D
          PROVE  p \in a.ports \/ p.id \in a.nodes[p.stream]
      <4>1. p \in h.ports \/ p.id \in h.nodes[p.stream]
        BY <2>2, <3>5
      <4> QED BY <4>1, <2>4, <3>1, <3>5
    <3> QED BY <2>4, <3>1, <3>4, <3>5
  <2>6. Moved(a, i)
    <3> SUFFICES ASSUME NEW j \in 1..N, j > N - i, news[j].type = "port+",
                        NEW p \in a.ports, p.id = news[j].id
                 PROVE  p.stream \notin D
      OBVIOUS
    <3>1. CASE j = N + 1 - i
      <4>1. e.type = "port+" /\ p.id = e.id
        BY <3>1 DEF e
      <4> QED BY <4>1, <2>4, <2>2
    <3>2. CASE j # N + 1 - i
      <4>1. j > N - (i - 1)
        BY <3>2, <1>1
      <4> QED BY <4>1, <2>2, <2>4
    <3> QED BY <3>1, <3>2
  <2> HIDE DEF Within, Moved
  <2>7. a \in S[i]
    BY <2>1, <2>4, <2>5, <2>6
  <2> QED BY <2>7 DEF a, e
<1>5. S[N] = {h \in HeardSet : Within(h) /\ Moved(h, N)}
  BY <1>1
<1> HIDE DEF S
<1>6. PICK h \in S[N] : Heard(nodes, news) = h.nodes
  BY <1>1, <1>3, <1>4, HeardReaches DEF N, b
<1>7. h \in HeardSet /\ Within(h) /\ Moved(h, N)
  <2> HIDE DEF Within, Moved
  <2> QED BY <1>5
<1>8. ASSUME NEW p \in b.ports, p.stream \in D
      PROVE  p.id \in h.nodes[p.stream]
  <2>1. PICK j \in 1..N : news[j].type = "port+" /\ news[j].id = p.id
    BY <1>2
  <2>2. j > N - N
    BY <1>1
  <2>3. p \notin h.ports
    BY <1>7, <1>8, <2>1, <2>2
  <2> QED BY <2>3, <1>7, <1>8
<1>9. \A n \in D : Pending(b, n) \subseteq h.nodes[n]
  BY <1>8 DEF Pending
<1>10. h.nodes \in NodeMaps
  BY <1>7 DEF HeardSet
<1> QED BY <1>6, <1>7, <1>9, <1>10 DEF b

-------------------------------------------------------------------------------
(* What a call keeps of the server and the records *)

\* The link joins the sink with a port of its application.
Reaches(s, l) == \E n \in Streams : s.port[n] = l.port /\ AppOf[n] = l.app /\ Serves(n, l.kind)

\* An id on record is, or was, that of a link made under that name.
OwnIds(w) ==
  \A kind \in Kinds : \A a \in DOMAIN w.record[kind] : \A id \in w.record[kind][a] :
    /\ id \in w.server.used
    /\ \A l \in w.server.links : l.id = id => l.kind = kind /\ l.app = a

RecordOK(book) ==
  /\ DOMAIN book = Kinds
  /\ \A kind \in Kinds : /\ DOMAIN book[kind] \subseteq Apps
                         /\ \A a \in DOMAIN book[kind] : book[kind][a] \subseteq Ids

WorldOK(w) ==
  /\ ServerOK(w.server) /\ RecordOK(w.record)
  /\ ~case.reuse => OwnIds(w) /\ \A l \in w.server.links : Reaches(w.server, l)

\* v has the streams and ports of w, and may have given more ids.
SameStreams(s, t) == s.nodes = t.nodes /\ s.port = t.port /\ t.used \subseteq s.used

\* v has the passthroughs of w, and the links that make them.
SamePass(v, w) ==
  /\ v.record["pass"] = w.record["pass"]
  /\ ~case.reuse => \A l \in w.server.links : l.kind = "pass" => l \in v.server.links

ServerSet == [nodes : SUBSET Streams, port : [Streams -> Ids \cup {NoPort}],
              links : SUBSET Link, used : SUBSET Ids]

LEMMA ServerParts ==
  ASSUME NEW s, ServerOK(s)
  PROVE  /\ s \in ServerSet
         /\ \A n \in Streams : s.port[n] # NoPort => n \in s.nodes
         /\ \A m, n \in Streams : s.port[m] = s.port[n] /\ s.port[m] # NoPort => m = n
         /\ \A k, l \in s.links : k.id = l.id => k = l
         /\ LinkIds(s.links) \cap PortIds(s) = {}
         /\ \A l \in s.links : l.port \in PortIds(s)
         /\ ~case.reuse => LinkIds(s.links) \cup PortIds(s) \subseteq s.used
  BY DEF ServerOK, ServerSet

LEMMA ServerMade ==
  ASSUME NEW s, s \in ServerSet,
         \A n \in Streams : s.port[n] # NoPort => n \in s.nodes,
         \A m, n \in Streams : s.port[m] = s.port[n] /\ s.port[m] # NoPort => m = n,
         \A k, l \in s.links : k.id = l.id => k = l,
         LinkIds(s.links) \cap PortIds(s) = {},
         \A l \in s.links : l.port \in PortIds(s),
         ~case.reuse => LinkIds(s.links) \cup PortIds(s) \subseteq s.used
  PROVE  ServerOK(s)
  BY DEF ServerOK, ServerSet

LEMMA ServerFields ==
  ASSUME NEW s, s \in ServerSet
  PROVE  /\ s = [nodes |-> s.nodes, port |-> s.port, links |-> s.links, used |-> s.used]
         /\ s.nodes \subseteq Streams /\ s.port \in [Streams -> Ids \cup {NoPort}]
         /\ s.links \subseteq Link /\ s.used \subseteq Ids
  BY DEF ServerSet

LEMMA ServerExcept ==
  ASSUME NEW s, s = [nodes |-> s.nodes, port |-> s.port, links |-> s.links, used |-> s.used],
         NEW L, NEW U
  PROVE  /\ [s EXCEPT !.links = L] = [nodes |-> s.nodes, port |-> s.port, links |-> L, used |-> s.used]
         /\ [s EXCEPT !.links = L, !.used = U]
              = [nodes |-> s.nodes, port |-> s.port, links |-> L, used |-> U]
<1>1. PICK a, b, c, d : s = [nodes |-> a, port |-> b, links |-> c, used |-> d]
  OBVIOUS
<1>2. s.nodes = a /\ s.port = b /\ s.links = c /\ s.used = d
  BY <1>1
<1>3. [s EXCEPT !.links = L] = [nodes |-> a, port |-> b, links |-> L, used |-> d]
  BY <1>1
<1>4. PICK r : r = [s EXCEPT !.links = L]
  OBVIOUS
<1>5. r = [nodes |-> a, port |-> b, links |-> L, used |-> d]
  BY <1>3, <1>4
<1>6. [r EXCEPT !.used = U] = [nodes |-> a, port |-> b, links |-> L, used |-> U]
  BY <1>5
<1>7. [s EXCEPT !.links = L, !.used = U] = [r EXCEPT !.used = U]
  BY <1>4
<1> QED BY <1>2, <1>3, <1>6, <1>7

\* Fewer links.
LEMMA DeletedOK ==
  ASSUME NEW s, ServerOK(s), NEW ids
  PROVE  /\ ServerOK(Deleted(s, ids)) /\ SameStreams(Deleted(s, ids), s)
         /\ Deleted(s, ids).links = {l \in s.links : l.id \notin ids}
         /\ Deleted(s, ids).used = s.used
<1> DEFINE L == {l \in s.links : l.id \notin ids}
           t == Deleted(s, ids)
<1>1. s \in ServerSet
  BY ServerParts
<1>2. t = [nodes |-> s.nodes, port |-> s.port, links |-> L, used |-> s.used]
  <2>1. s = [nodes |-> s.nodes, port |-> s.port, links |-> s.links, used |-> s.used]
    BY <1>1, ServerFields
  <2>2. t = [s EXCEPT !.links = L]
    BY DEF Deleted
  <2> HIDE DEF t, L
  <2> QED BY <2>1, <2>2, ServerExcept
<1>3. t \in ServerSet
  BY <1>1, <1>2, ServerFields DEF ServerSet
<1>4. L \subseteq s.links
  OBVIOUS
<1>5. t.nodes = s.nodes /\ t.port = s.port /\ t.links = L /\ t.used = s.used
  BY <1>2
<1> HIDE DEF L, t
<1>6. PortIds(t) = PortIds(s)
  BY <1>5 DEF PortIds
<1>7. LinkIds(t.links) \subseteq LinkIds(s.links)
  BY <1>4, <1>5 DEF LinkIds
<1>8. ServerOK(t)
  BY <1>3, <1>4, <1>5, <1>6, <1>7, ServerParts, ServerMade
<1> QED BY <1>5, <1>8 DEF SameStreams, t, L

LEMMA FreeIsNew ==
  ASSUME NEW s, ServerOK(s), NEW i \in Free(s)
  PROVE  /\ i \in Ids /\ i \notin LinkIds(s.links) /\ i \notin PortIds(s)
         /\ ~case.reuse => i \notin s.used
  BY ServerParts DEF Free

LEMMA GivenAreFree ==
  ASSUME NEW s, NEW linked, NEW id \in GivenIds(s, linked)
  PROVE  id \in [linked -> Free(s)] /\ \A t, u \in linked : id[t] = id[u] => t = u
<1> DEFINE fits == {f \in [linked -> Free(s)] : \A t, u \in linked : f[t] = f[u] => t = u}
<1>1. id \in fits
  <2>1. CASE case.reuse \/ fits = {}
    BY <2>1 DEF GivenIds
  <2>2. CASE ~(case.reuse \/ fits = {})
    <3>1. GivenIds(s, linked) = {CHOOSE f \in fits : TRUE}
      BY <2>2 DEF GivenIds
    <3>2. (CHOOSE f \in fits : TRUE) \in fits
      BY <2>2
    <3> QED BY <3>1, <3>2
  <2> QED BY <2>1, <2>2
<1> QED BY <1>1

\* New links, to ports there are.
LEMMA WithLinksOK ==
  ASSUME NEW s, ServerOK(s), NEW kind \in Kinds, NEW linked \in SUBSET (Apps \X Ids),
         \A t \in linked : t[2] \in PortIds(s), NEW id \in GivenIds(s, linked)
  PROVE  LET t == WithLinks(s, linked, kind, id)
             new == {[id |-> id[u], port |-> u[2], kind |-> kind, app |-> u[1]] : u \in linked} IN
         /\ ServerOK(t) /\ SameStreams(t, s)
         /\ t.links = s.links \cup new
         /\ \A u \in linked : id[u] \in Ids /\ (~case.reuse => id[u] \in t.used /\ id[u] \notin s.used)
<1> DEFINE t == WithLinks(s, linked, kind, id)
           new == {[id |-> id[u], port |-> u[2], kind |-> kind, app |-> u[1]] : u \in linked}
           given == {id[u] : u \in {v \in linked : ~case.reuse}}
<1>1. s \in ServerSet
  BY ServerParts
<1>2. t = [nodes |-> s.nodes, port |-> s.port, links |-> s.links \cup new, used |-> s.used \cup given]
  <2>1. s = [nodes |-> s.nodes, port |-> s.port, links |-> s.links, used |-> s.used]
    BY <1>1, ServerFields
  <2>2. t = [s EXCEPT !.links = s.links \cup new, !.used = s.used \cup given]
    BY DEF WithLinks
  <2> HIDE DEF t, new, given
  <2> QED BY <2>1, <2>2, ServerExcept
<1>3. /\ \A u \in linked : id[u] \in Free(s)
      /\ \A u, v \in linked : id[u] = id[v] => u = v
  BY GivenAreFree
<1>4. \A u \in linked : /\ id[u] \in Ids /\ id[u] \notin LinkIds(s.links) /\ id[u] \notin PortIds(s)
                        /\ ~case.reuse => id[u] \notin s.used
  BY <1>3, FreeIsNew
<1>5. new \subseteq Link
  BY <1>4 DEF Link
<1>6. given \subseteq Ids
  BY <1>4
<1>7. t.nodes = s.nodes /\ t.port = s.port /\ t.links = s.links \cup new /\ t.used = s.used \cup given
  BY <1>2
<1>8. t \in ServerSet
  <2> HIDE DEF new, given, t
  <2> QED BY <1>1, <1>2, <1>5, <1>6, ServerFields DEF ServerSet
<1>9. PortIds(t) = PortIds(s)
  BY <1>7 DEF PortIds
<1>10. \A l \in new : \E u \in linked : l.id = id[u] /\ l.port = u[2]
                        /\ l = [id |-> id[u], port |-> u[2], kind |-> kind, app |-> u[1]]
  OBVIOUS
<1>11. \A u \in linked : ~case.reuse => id[u] \in given
  OBVIOUS
<1> HIDE DEF new, given, t
<1>12. \A k, l \in t.links : k.id = l.id => k = l
  <2> SUFFICES ASSUME NEW k \in s.links \cup new, NEW l \in s.links \cup new, k.id = l.id
               PROVE  k = l
    BY <1>7
  <2>1. \A x \in s.links : x.id \in LinkIds(s.links)
    BY DEF LinkIds
  <2>2. \A x \in new : x.id \notin LinkIds(s.links)
    BY <1>4, <1>10
  <2>3. CASE k \in s.links /\ l \in s.links
    BY <2>3, ServerParts
  <2>4. CASE k \in new /\ l \in new
    BY <2>4, <1>3, <1>10
  <2> QED BY <2>1, <2>2, <2>3, <2>4
<1>13. LinkIds(t.links) \cap PortIds(t) = {}
  <2> SUFFICES ASSUME NEW l \in s.links \cup new PROVE l.id \notin PortIds(s)
    BY <1>7, <1>9 DEF LinkIds
  <2>1. CASE l \in s.links
    BY <2>1, ServerParts DEF LinkIds
  <2> QED BY <2>1, <1>4, <1>10
<1>14. \A l \in t.links : l.port \in PortIds(t)
  BY <1>7, <1>9, <1>10, ServerParts
<1>15. ~case.reuse => LinkIds(t.links) \cup PortIds(t) \subseteq t.used
  <2> SUFFICES ASSUME ~case.reuse PROVE LinkIds(t.links) \cup PortIds(t) \subseteq t.used
    OBVIOUS
  <2>1. PortIds(s) \subseteq s.used /\ LinkIds(s.links) \subseteq s.used
    BY ServerParts
  <2>2. \A l \in new : l.id \in given
    BY <1>10, <1>11
  <2>3. \A l \in s.links \cup new : l.id \in s.used \cup given
    BY <2>1, <2>2 DEF LinkIds
  <2> QED BY <2>1, <2>3, <1>7, <1>9 DEF LinkIds
<1>16. ServerOK(t)
  <2>1. /\ \A n \in Streams : t.port[n] # NoPort => n \in t.nodes
        /\ \A m, n \in Streams : t.port[m] = t.port[n] /\ t.port[m] # NoPort => m = n
    <3>1. /\ \A n \in Streams : s.port[n] # NoPort => n \in s.nodes
          /\ \A m, n \in Streams : s.port[m] = s.port[n] /\ s.port[m] # NoPort => m = n
      BY ServerParts
    <3> QED BY <3>1, <1>7
  <2> QED BY <2>1, <1>8, <1>12, <1>13, <1>14, <1>15, ServerMade
<1>17. SameStreams(t, s)
  BY <1>7 DEF SameStreams
<1>18. \A u \in linked : id[u] \in Ids /\ (~case.reuse => id[u] \in t.used /\ id[u] \notin s.used)
  BY <1>4, <1>7, <1>11
<1> QED BY <1>7, <1>16, <1>17, <1>18 DEF t, new

\* Links destroyed, and names forgotten.
LEMMA LessOK ==
  ASSUME NEW w, WorldOK(w), NEW v, NEW ids, v.server = Deleted(w.server, ids),
         DOMAIN v.record = Kinds,
         \A kind \in Kinds :
           /\ DOMAIN v.record[kind] \subseteq DOMAIN w.record[kind]
           /\ \A a \in DOMAIN v.record[kind] : v.record[kind][a] = w.record[kind][a]
  PROVE  WorldOK(v) /\ SameStreams(v.server, w.server)
<1>1. /\ ServerOK(v.server) /\ SameStreams(v.server, w.server)
      /\ v.server.links = {l \in w.server.links : l.id \notin ids}
      /\ v.server.used = w.server.used
  BY DeletedOK DEF WorldOK
<1>2. RecordOK(v.record)
  BY DEF WorldOK, RecordOK
<1>3. ASSUME ~case.reuse
      PROVE  OwnIds(v) /\ \A l \in v.server.links : Reaches(v.server, l)
  <2>1. OwnIds(w) /\ \A l \in w.server.links : Reaches(w.server, l)
    BY <1>3 DEF WorldOK
  <2>2. v.server.links \subseteq w.server.links
    BY <1>1
  <2>3. OwnIds(v)
    BY <1>1, <2>1, <2>2 DEF OwnIds
  <2>4. \A l \in v.server.links : Reaches(v.server, l)
    BY <1>1, <2>1, <2>2 DEF Reaches, SameStreams
  <2> QED BY <2>3, <2>4
<1> QED BY <1>1, <1>2, <1>3 DEF WorldOK

LEMMA StopSoundInputOK ==
  ASSUME NEW w, WorldOK(w)
  PROVE  /\ WorldOK(StopSoundInput(w)) /\ SameStreams(StopSoundInput(w).server, w.server)
         /\ SamePass(StopSoundInput(w), w)
<1> DEFINE v == StopSoundInput(w)
           ids == IdsOf(w.record["sound"])
<1>1. DOMAIN w.record = Kinds
  BY DEF WorldOK, RecordOK
<1>2. /\ v.server = Deleted(w.server, ids) /\ DOMAIN v.record = Kinds
      /\ v.record["sound"] = Nothing /\ v.record["pass"] = w.record["pass"]
  BY <1>1 DEF StopSoundInput, Kinds
<1> HIDE DEF v
<1>3. WorldOK(v) /\ SameStreams(v.server, w.server)
  <2>1. \A kind \in Kinds :
           /\ DOMAIN v.record[kind] \subseteq DOMAIN w.record[kind]
           /\ \A a \in DOMAIN v.record[kind] : v.record[kind][a] = w.record[kind][a]
    BY <1>2 DEF Kinds, Nothing
  <2> HIDE DEF ids
  <2> QED BY <1>2, <2>1, LessOK
<1>4. ASSUME ~case.reuse, NEW l \in w.server.links, l.kind = "pass"
      PROVE  l \in v.server.links
  <2>1. OwnIds(w)
    BY <1>4 DEF WorldOK
  <2>2. l.id \notin ids
    BY <1>4, <2>1 DEF OwnIds, IdsOf, Kinds
  <2>3. v.server.links = {k \in w.server.links : k.id \notin ids}
    BY <1>2, DeletedOK DEF WorldOK
  <2> QED BY <2>2, <2>3
<1> QED BY <1>2, <1>3, <1>4 DEF SamePass, v

\* Only the links of the applications that stay recorded remain.
LEMMA StopPassthroughOK ==
  ASSUME NEW w, WorldOK(w), NEW apps
  PROVE  LET v == StopPassthroughOf(w, apps) IN
         /\ WorldOK(v) /\ SameStreams(v.server, w.server)
         /\ DOMAIN v.record["pass"] = DOMAIN w.record["pass"] \ apps
         /\ v.record["sound"] = w.record["sound"]
         /\ ~case.reuse => \A l \in w.server.links :
              l.kind = "pass" /\ l.app \notin apps => l \in v.server.links
<1> DEFINE v == StopPassthroughOf(w, apps)
           ids == UNION {w.record["pass"][a] : a \in apps \cap DOMAIN w.record["pass"]}
<1>1. DOMAIN w.record = Kinds
  BY DEF WorldOK, RecordOK
<1>2. /\ v.server = Deleted(w.server, ids) /\ DOMAIN v.record = Kinds
      /\ v.record["pass"] = [a \in DOMAIN w.record["pass"] \ apps |-> w.record["pass"][a]]
      /\ v.record["sound"] = w.record["sound"]
  BY <1>1 DEF StopPassthroughOf, Kinds
<1> HIDE DEF v
<1>3. WorldOK(v) /\ SameStreams(v.server, w.server)
  <2>1. \A kind \in Kinds :
           /\ DOMAIN v.record[kind] \subseteq DOMAIN w.record[kind]
           /\ \A a \in DOMAIN v.record[kind] : v.record[kind][a] = w.record[kind][a]
    BY <1>2 DEF Kinds
  <2> HIDE DEF ids
  <2> QED BY <1>2, <2>1, LessOK
<1>4. ASSUME ~case.reuse, NEW l \in w.server.links, l.kind = "pass", l.app \notin apps
      PROVE  l \in v.server.links
  <2>1. OwnIds(w)
    BY <1>4 DEF WorldOK
  <2>2. l.id \notin ids
    BY <1>4, <2>1 DEF OwnIds, Kinds
  <2>3. v.server.links = {k \in w.server.links : k.id \notin ids}
    BY <1>2, DeletedOK DEF WorldOK
  <2> QED BY <2>2, <2>3
<1> QED BY <1>2, <1>3, <1>4 DEF v

\* What is linked, where the backend knows the truth of the ports.
KnowsPorts(s) ==
  \A n \in DOMAIN known : n \in Streams /\ \A i \in known[n] : \A m \in Streams : s.port[m] = i => m = n

LEMMA LinkableIsTheirs ==
  ASSUME NEW s, ServerOK(s), NEW apps, NEW kind, NEW deaf
  PROVE  LET linked == Linkable(s, Targets(apps, kind), kind, deaf) IN
         /\ linked \in SUBSET (Apps \X Ids)
         /\ \A t \in linked : /\ t[1] \in apps /\ KnownOf(t[1]) # {} /\ t[2] \in PortIds(s)
                              /\ KnowsPorts(s) => \E n \in Streams :
                                   s.port[n] = t[2] /\ AppOf[n] = t[1] /\ Serves(n, kind)
<1> DEFINE linked == Linkable(s, Targets(apps, kind), kind, deaf)
<1>1. ASSUME NEW t \in linked
      PROVE  /\ t \in Apps \X Ids /\ t[1] \in apps /\ KnownOf(t[1]) # {} /\ t[2] \in PortIds(s)
             /\ KnowsPorts(s) => \E n \in Streams :
                  s.port[n] = t[2] /\ AppOf[n] = t[1] /\ Serves(n, kind)
  <2>1. t \in Targets(apps, kind) /\ \E m \in Streams \ deaf : s.port[m] = t[2]
    BY DEF Linkable
  <2>2. t \in Apps \X Ids /\ t[1] \in apps
        /\ \E n \in KnownOf(t[1]) : Serves(n, kind) /\ t[2] \in known[n]
    BY <2>1 DEF Targets
  <2>3. PICK m \in Streams : s.port[m] = t[2]
    BY <2>1
  <2>4. PICK n \in KnownOf(t[1]) : Serves(n, kind) /\ t[2] \in known[n]
    BY <2>2
  <2>5. n \in DOMAIN known /\ AppOf[n] = t[1]
    BY <2>4 DEF KnownOf
  <2>6. t[2] # NoPort
    BY <2>2 DEF Ids, NoPort
  <2>7. t[2] \in PortIds(s)
    BY <2>3, <2>6 DEF PortIds
  <2>8. KnowsPorts(s) => m = n
    BY <2>3, <2>4, <2>5 DEF KnowsPorts
  <2> QED BY <2>2, <2>3, <2>4, <2>5, <2>7, <2>8
<1> QED BY <1>1

\* Links made and put on record.
LEMMA LinkingOK ==
  ASSUME NEW w, WorldOK(w), NEW kind \in Kinds, NEW apps \in SUBSET Apps,
         NEW linked \in SUBSET (Apps \X Ids), NEW id \in GivenIds(w.server, linked),
         \A t \in linked :
           /\ t[1] \in apps /\ t[2] \in PortIds(w.server)
           /\ ~case.reuse => \E n \in Streams :
                w.server.port[n] = t[2] /\ AppOf[n] = t[1] /\ Serves(n, kind),
         NEW v, v = [server |-> WithLinks(w.server, linked, kind, id),
                     record |-> [w.record EXCEPT ![kind] = Recorded(@, apps, linked, id)]]
  PROVE  /\ WorldOK(v) /\ SameStreams(v.server, w.server)
         /\ w.server.links \subseteq v.server.links
<1> DEFINE s == w.server
           t == v.server
           new == {[id |-> id[u], port |-> u[2], kind |-> kind, app |-> u[1]] : u \in linked}
           map == w.record[kind]
<1>1. DOMAIN w.record = Kinds /\ ServerOK(s)
  BY DEF WorldOK, RecordOK
<1>2. /\ t = WithLinks(s, linked, kind, id) /\ DOMAIN v.record = Kinds
      /\ v.record[kind] = Recorded(map, apps, linked, id)
      /\ \A k \in Kinds \ {kind} : v.record[k] = w.record[k]
  BY <1>1
<1>3. /\ ServerOK(t) /\ SameStreams(t, s) /\ t.links = s.links \cup new
      /\ \A u \in linked : id[u] \in Ids /\ (~case.reuse => id[u] \in t.used /\ id[u] \notin s.used)
  <2>1. \A u \in linked : u[2] \in PortIds(s)
    OBVIOUS
  <2> HIDE DEF t
  <2> QED BY <1>1, <1>2, <2>1, WithLinksOK
<1>4. \A l \in new : \E u \in linked : l.id = id[u] /\ l.port = u[2] /\ l.kind = kind /\ l.app = u[1]
  OBVIOUS
<1>5. /\ DOMAIN v.record[kind] = DOMAIN map \cup apps
      /\ \A a \in DOMAIN v.record[kind] : \A i \in v.record[kind][a] :
           \/ a \in DOMAIN map /\ i \in map[a]
           \/ \E u \in linked : u[1] = a /\ i = id[u]
  BY <1>2 DEF Recorded
<1> HIDE DEF s, t, new, map
<1>6. RecordOK(v.record)
  <2>1. DOMAIN map \subseteq Apps /\ \A a \in DOMAIN map : map[a] \subseteq Ids
    BY DEF WorldOK, RecordOK, map
  <2>2. DOMAIN v.record[kind] \subseteq Apps
        /\ \A a \in DOMAIN v.record[kind] : v.record[kind][a] \subseteq Ids
    BY <1>3, <1>5, <2>1
  <2>3. ASSUME NEW k \in Kinds
        PROVE  DOMAIN v.record[k] \subseteq Apps
               /\ \A a \in DOMAIN v.record[k] : v.record[k][a] \subseteq Ids
    <3>1. CASE k = kind
      BY <2>2, <3>1
    <3>2. CASE k # kind
      BY <1>2, <3>2 DEF WorldOK, RecordOK
    <3> QED BY <3>1, <3>2
  <2> QED BY <1>2, <2>3 DEF RecordOK
<1>7. ASSUME ~case.reuse
      PROVE  OwnIds(v) /\ \A l \in t.links : Reaches(t, l)
  <2>1. OwnIds(w) /\ \A l \in s.links : Reaches(s, l)
    BY <1>7 DEF WorldOK, s
  <2>2. \A l \in s.links : l.id \in s.used
    BY <1>1, <1>7, ServerParts DEF LinkIds
  <2>3. \A l \in new : l.id \notin s.used /\ l.id \in t.used
    BY <1>3, <1>4, <1>7
  <2>4. s.port = t.port /\ s.used \subseteq t.used
    BY <1>3 DEF SameStreams
  <2>5. ASSUME NEW k \in Kinds, NEW a \in DOMAIN w.record[k], NEW i \in w.record[k][a]
        PROVE  i \in t.used /\ \A l \in t.links : l.id = i => l.kind = k /\ l.app = a
    <3>1. i \in s.used /\ \A l \in s.links : l.id = i => l.kind = k /\ l.app = a
      BY <2>1 DEF OwnIds, s
    <3> QED BY <3>1, <2>3, <2>4, <1>3
  <2>6. ASSUME NEW u \in linked
        PROVE  id[u] \in t.used /\ \A l \in t.links : l.id = id[u] => l.kind = kind /\ l.app = u[1]
    <3>1. id[u] \in t.used /\ id[u] \notin s.used
      BY <1>3, <1>7
    <3>2. \A x \in linked : id[x] = id[u] => x = u
      BY GivenAreFree
    <3> QED BY <3>1, <3>2, <1>3, <1>4, <2>2
  <2>7. ASSUME NEW k \in Kinds, NEW a \in DOMAIN v.record[k], NEW i \in v.record[k][a]
        PROVE  i \in t.used /\ \A l \in t.links : l.id = i => l.kind = k /\ l.app = a
    <3>1. CASE k = kind
      <4>1. \/ a \in DOMAIN map /\ i \in map[a]
            \/ \E u \in linked : u[1] = a /\ i = id[u]
        BY <1>5, <3>1
      <4>2. CASE a \in DOMAIN map /\ i \in map[a]
        BY <4>2, <2>5, <3>1 DEF map
      <4>3. CASE \E u \in linked : u[1] = a /\ i = id[u]
        BY <4>3, <2>6, <3>1
      <4> QED BY <4>1, <4>2, <4>3
    <3>2. CASE k # kind
      <4>1. v.record[k] = w.record[k]
        BY <1>2, <3>2
      <4> QED BY <4>1, <2>5
    <3> QED BY <3>1, <3>2
  <2>8. OwnIds(v)
    BY <2>7 DEF OwnIds, t
  <2>9. ASSUME NEW l \in t.links PROVE Reaches(t, l)
    <3>1. CASE l \in s.links
      BY <2>1, <2>4, <3>1 DEF Reaches
    <3>2. CASE l \in new
      <4>1. PICK u \in linked : l.id = id[u] /\ l.port = u[2] /\ l.kind = kind /\ l.app = u[1]
        BY <1>4, <3>2
      <4>2. \E n \in Streams : t.port[n] = u[2] /\ AppOf[n] = u[1] /\ Serves(n, kind)
        BY <1>7, <2>4 DEF s
      <4> QED BY <4>1, <4>2 DEF Reaches
    <3> QED BY <1>3, <3>1, <3>2
  <2> QED BY <2>8, <2>9
<1>8. WorldOK(v)
  BY <1>3, <1>6, <1>7 DEF WorldOK, t
<1> QED BY <1>3, <1>8 DEF s, t

LEMMA SameStreamsTransitive ==
  ASSUME NEW r, NEW s, NEW t, SameStreams(r, s), SameStreams(s, t)
  PROVE  SameStreams(r, t)
  BY DEF SameStreams

LEMMA KnownAreApps ==
  ASSUME NEW a, KnownOf(a) # {}, DOMAIN known \subseteq Streams
  PROVE  a \in Apps
  BY StreamsAssumption DEF KnownOf

LEMMA InputSoundToOK ==
  ASSUME NEW w, WorldOK(w), ~case.reuse => KnowsPorts(w.server), DOMAIN known \subseteq Streams,
         NEW apps, NEW deaf, NEW id \in GivenIds(w.server, InputLinked(w, apps, deaf))
  PROVE  LET v == InputSoundTo(w, apps, deaf, id) IN
         WorldOK(v) /\ SameStreams(v.server, w.server) /\ SamePass(v, w)
<1> DEFINE v == InputSoundTo(w, apps, deaf, id)
           into == IntoApps(w, apps)
           linked == InputLinked(w, apps, deaf)
<1>1. v = [server |-> WithLinks(w.server, linked, "sound", id),
           record |-> [w.record EXCEPT !["sound"] = Recorded(@, into, linked, id)]]
  BY DEF InputSoundTo
<1>2. into \in SUBSET Apps
  BY KnownAreApps DEF IntoApps
<1>3. ServerOK(w.server) /\ "sound" \in Kinds /\ DOMAIN w.record = Kinds
  BY DEF WorldOK, RecordOK, Kinds
<1>4. linked = Linkable(w.server, Targets(into, "sound"), "sound", deaf)
  BY DEF InputLinked, InputTargets
<1> HIDE DEF v, into, linked
<1>5. /\ linked \in SUBSET (Apps \X Ids)
      /\ \A t \in linked :
           /\ t[1] \in into /\ t[2] \in PortIds(w.server)
           /\ ~case.reuse => \E n \in Streams :
                w.server.port[n] = t[2] /\ AppOf[n] = t[1] /\ Serves(n, "sound")
  BY <1>3, <1>4, LinkableIsTheirs
<1>6. id \in GivenIds(w.server, linked)
  BY DEF linked
<1>7. WorldOK(v) /\ SameStreams(v.server, w.server) /\ w.server.links \subseteq v.server.links
  BY <1>1, <1>2, <1>3, <1>5, <1>6, LinkingOK
<1>8. v.record["pass"] = w.record["pass"]
  BY <1>1, <1>3 DEF Kinds
<1> QED BY <1>7, <1>8 DEF SamePass, v

LEMMA PassthroughFromOK ==
  ASSUME NEW w, WorldOK(w), ~case.reuse => KnowsPorts(w.server), DOMAIN known \subseteq Streams,
         NEW a, NEW deaf, NEW id \in GivenIds(w.server, PassLinked(w, a, deaf))
  PROVE  LET v == PassthroughFrom(w, a, deaf, id) IN
         WorldOK(v) /\ SameStreams(v.server, w.server) /\ w.server.links \subseteq v.server.links
<1> DEFINE v == PassthroughFrom(w, a, deaf, id)
           mine == {a} \cap {b \in Apps : KnownOf(b) # {}}
           linked == PassLinked(w, a, deaf)
<1>1. v = [server |-> WithLinks(w.server, linked, "pass", id),
           record |-> [w.record EXCEPT !["pass"] = Recorded(@, mine, linked, id)]]
  BY DEF PassthroughFrom
<1>2. mine \in SUBSET Apps
  OBVIOUS
<1>3. ServerOK(w.server) /\ "pass" \in Kinds
  BY DEF WorldOK, Kinds
<1>4. linked = Linkable(w.server, Targets({a}, "pass"), "pass", deaf)
  BY DEF PassLinked
<1>5. \A t \in linked : t[1] \in {a} /\ KnownOf(t[1]) # {} /\ t[1] \in Apps => t[1] \in mine
  OBVIOUS
<1> HIDE DEF v, mine, linked
<1>6. /\ linked \in SUBSET (Apps \X Ids)
      /\ \A t \in linked :
           /\ t[1] \in mine /\ t[2] \in PortIds(w.server)
           /\ ~case.reuse => \E n \in Streams :
                w.server.port[n] = t[2] /\ AppOf[n] = t[1] /\ Serves(n, "pass")
  <2>1. /\ linked \in SUBSET (Apps \X Ids)
        /\ \A t \in linked :
             /\ t[1] \in {a} /\ KnownOf(t[1]) # {} /\ t[2] \in PortIds(w.server)
             /\ KnowsPorts(w.server) => \E n \in Streams :
                  w.server.port[n] = t[2] /\ AppOf[n] = t[1] /\ Serves(n, "pass")
    BY <1>3, <1>4, LinkableIsTheirs
  <2>2. \A t \in linked : t[1] \in Apps
    BY <2>1
  <2> QED BY <2>1, <2>2, <1>5
<1>7. id \in GivenIds(w.server, linked)
  BY DEF linked
<1>8. WorldOK(v) /\ SameStreams(v.server, w.server) /\ w.server.links \subseteq v.server.links
  BY <1>1, <1>2, <1>3, <1>6, <1>7, LinkingOK
<1> QED BY <1>8 DEF v

LEMMA SilenceOK ==
  ASSUME NEW w, WorldOK(w), NEW sounds
  PROVE  LET v == Silence(w, sounds) IN
         WorldOK(v) /\ SameStreams(v.server, w.server) /\ SamePass(v, w)
<1>1. SameStreams(w.server, w.server) /\ SamePass(w, w)
  BY DEF SameStreams, SamePass
<1> QED BY <1>1, StopSoundInputOK DEF Silence

LEMMA SoundsStoppedOK ==
  ASSUME NEW w, WorldOK(w)
  PROVE  LET v == SoundsStopped(w) IN
         WorldOK(v) /\ SameStreams(v.server, w.server) /\ DOMAIN v.record["pass"] = {}
<1> DEFINE u == StopSoundInput(w)
           v == StopPassthroughOf(u, Apps)
<1>1. WorldOK(u) /\ SameStreams(u.server, w.server)
  BY StopSoundInputOK
<1> HIDE DEF u
<1>2. WorldOK(v) /\ SameStreams(v.server, u.server)
      /\ DOMAIN v.record["pass"] = DOMAIN u.record["pass"] \ Apps
  BY <1>1, StopPassthroughOK
<1>3. DOMAIN u.record["pass"] \subseteq Apps
  BY <1>1 DEF WorldOK, RecordOK, Kinds
<1> HIDE DEF v
<1>4. SameStreams(v.server, w.server) /\ DOMAIN v.record["pass"] = {}
  BY <1>1, <1>2, <1>3, SameStreamsTransitive
<1>5. v = SoundsStopped(w)
  BY DEF SoundsStopped, u, v
<1> QED BY <1>2, <1>4, <1>5

-------------------------------------------------------------------------------
(* What the backend knows, or will know once the handlers have finished *)

\* The nodes there are, and the port of each: noted at the node, or about to be.
Understands(h, s) ==
  /\ DOMAIN h.nodes = s.nodes
  /\ \A n \in s.nodes : s.port[n] # NoPort => s.port[n] \in h.nodes[n] \cup Pending(h, n)

\* An id once given to a port of the stream, and to no port of another.
OnlyOf(s, i, n) == i \in s.used /\ \A m \in Streams : s.port[m] = i => m = n

\* The ids noted are never those of another stream's port.
Truthful(h, s) ==
  /\ \A n \in DOMAIN h.nodes : \A i \in h.nodes[n] : OnlyOf(s, i, n)
  /\ \A p \in h.ports : OnlyOf(s, p.id, p.stream)

AsKnown == [nodes |-> known, ports |-> {}]

KnownInv ==
  /\ known \in NodeMaps /\ events \in Seq(Event)
  /\ phase \in {"off", "on"}
  /\ ~On => events = <<>> /\ known = Nothing
  /\ On => Understands(Begun(known, events), server)
  /\ ~case.reuse => Truthful(AsKnown, server) /\ Truthful(Begun(known, events), server)

\* The inductive invariant.
WholeInv ==
  /\ WorldOK(Now) /\ KnownInv
  /\ outputs \subseteq Apps /\ playing \in 0..MaxPlaying /\ case \in Cases

LEMMA KnowledgeTyped ==
  ASSUME NEW h \in HeardSet
  PROVE  /\ h.nodes \in NodeMaps /\ DOMAIN h.nodes \subseteq Streams
         /\ \A n \in DOMAIN h.nodes : h.nodes[n] \subseteq Ids
         /\ \A p \in h.ports : p.id \in Ids /\ p.stream \in Streams
  BY NodeMapParts DEF HeardSet

\* The handlers finish: nothing is lost or made up.
LEMMA SyncedKnows ==
  ASSUME NEW nodes \in NodeMaps, NEW news \in Seq(Event), NEW s,
         NEW h, h = [nodes |-> Heard(nodes, news), ports |-> {}]
  PROVE  /\ h \in HeardSet
         /\ Understands(Begun(nodes, news), s) => Understands(h, s)
         /\ Truthful(Begun(nodes, news), s) => Truthful(h, s)
<1> DEFINE b == Begun(nodes, news)
<1>1. /\ h.nodes \in NodeMaps /\ DOMAIN h.nodes = DOMAIN b.nodes /\ h.ports = {}
      /\ \A n \in DOMAIN b.nodes : h.nodes[n] = b.nodes[n] \cup Pending(b, n)
  BY HeardIs
<1> HIDE DEF b
<1>2. h \in HeardSet
  BY <1>1 DEF HeardSet
<1>3. Understands(b, s) => Understands(h, s)
  <2> SUFFICES ASSUME Understands(b, s) PROVE Understands(h, s)
    OBVIOUS
  <2>1. DOMAIN h.nodes = s.nodes
    BY <1>1 DEF Understands
  <2>2. ASSUME NEW n \in s.nodes, s.port[n] # NoPort PROVE s.port[n] \in h.nodes[n]
    BY <1>1, <2>1, <2>2 DEF Understands
  <2> QED BY <2>1, <2>2 DEF Understands
<1>4. Truthful(b, s) => Truthful(h, s)
  <2> SUFFICES ASSUME Truthful(b, s), NEW n \in DOMAIN h.nodes, NEW i \in h.nodes[n]
               PROVE  OnlyOf(s, i, n)
    BY <1>1 DEF Truthful
  <2>1. i \in b.nodes[n] \/ i \in Pending(b, n)
    BY <1>1
  <2>2. CASE i \in b.nodes[n]
    BY <1>1, <2>2 DEF Truthful
  <2>3. CASE i \in Pending(b, n)
    BY <2>3 DEF Truthful, Pending
  <2> QED BY <2>1, <2>2, <2>3
<1> QED BY <1>2, <1>3, <1>4 DEF b

\* What is true of the ids stays true while no stream gets one of them.
LEMMA TruthStays ==
  ASSUME NEW h \in HeardSet, NEW s, Truthful(h, s), NEW t, s.used \subseteq t.used,
         \A n \in Streams : t.port[n] = s.port[n] \/ t.port[n] \notin s.used
  PROVE  Truthful(h, t)
<1>1. ASSUME NEW n \in Streams, NEW i, OnlyOf(s, i, n)
      PROVE  OnlyOf(t, i, n)
  BY <1>1 DEF OnlyOf
<1> QED BY <1>1, KnowledgeTyped DEF Truthful

LEMMA TruthHeard ==
  ASSUME NEW h \in HeardSet, NEW s, Truthful(h, s), NEW e \in Event,
         e.type = "port+" => OnlyOf(s, e.id, e.stream)
  PROVE  Truthful(Before(h, e), s)
<1>1. CASE e.type = "node+"
  <2> DEFINE b == Before(h, e)
  <2>1. /\ b.ports = h.ports /\ DOMAIN b.nodes = DOMAIN h.nodes \cup {e.stream}
        /\ \A n \in DOMAIN h.nodes : b.nodes[n] = h.nodes[n]
        /\ \A n \in Streams \ DOMAIN h.nodes : n = e.stream => b.nodes[n] = {}
    BY <1>1, BeforeNodeComes
  <2> HIDE DEF b
  <2>2. ASSUME NEW n \in DOMAIN b.nodes, NEW i \in b.nodes[n]
        PROVE  OnlyOf(s, i, n)
    <3>1. CASE n \in DOMAIN h.nodes
      BY <2>1, <3>1 DEF Truthful
    <3>2. CASE n \notin DOMAIN h.nodes
      BY <2>1, <3>2, EventParts
    <3> QED BY <3>1, <3>2
  <2> QED BY <2>1, <2>2 DEF Truthful, b
<1>2. CASE e.type = "node-"
  <2> DEFINE b == Before(h, e)
  <2>1. /\ b.ports = h.ports /\ DOMAIN b.nodes \subseteq DOMAIN h.nodes
        /\ \A n \in DOMAIN b.nodes : b.nodes[n] = h.nodes[n]
    BY <1>2, BeforeNodeGoes
  <2> HIDE DEF b
  <2> QED BY <2>1 DEF Truthful, b
<1>3. CASE e.type \in {"port+", "port-"}
  <2> DEFINE b == Before(h, e)
  <2>1. /\ b.nodes = h.nodes
        /\ \A p \in b.ports : p \in h.ports \/ (e.type = "port+" /\ p.id = e.id /\ p.stream = e.stream)
    BY <1>3, BeforePort
  <2> HIDE DEF b
  <2>2. ASSUME NEW p \in b.ports
        PROVE  OnlyOf(s, p.id, p.stream)
    BY <2>1 DEF Truthful
  <2> QED BY <2>1, <2>2 DEF Truthful, b
<1> QED BY <1>1, <1>2, <1>3, EventParts

\* Each announcement, heard, tells what has changed.
LEMMA NodeComesHeard ==
  ASSUME NEW h \in HeardSet, NEW s, Understands(h, s), NEW t, NEW n \in Streams \ s.nodes,
         t.nodes = s.nodes \cup {n}, t.port = s.port, s.port[n] = NoPort,
         NEW e \in Event, e.type = "node+", e.stream = n
  PROVE  Understands(Before(h, e), t)
<1> DEFINE b == Before(h, e)
<1>1. /\ DOMAIN b.nodes = DOMAIN h.nodes \cup {n} /\ b.ports = h.ports
      /\ \A m \in DOMAIN h.nodes : b.nodes[m] = h.nodes[m]
  BY BeforeNodeComes
<1> HIDE DEF b
<1>2. \A m \in Streams : Pending(b, m) = Pending(h, m)
  BY <1>1 DEF Pending
<1>3. DOMAIN b.nodes = t.nodes
  BY <1>1 DEF Understands
<1>4. ASSUME NEW m \in t.nodes, t.port[m] # NoPort
      PROVE  t.port[m] \in b.nodes[m] \cup Pending(b, m)
  <2>1. m \in s.nodes /\ m \in DOMAIN h.nodes
    BY <1>4 DEF Understands
  <2>2. s.port[m] \in h.nodes[m] \cup Pending(h, m)
    BY <2>1, <1>4 DEF Understands
  <2>3. m \in Streams
    BY <2>1, KnowledgeTyped
  <2> QED BY <2>1, <2>2, <2>3, <1>1, <1>2
<1> QED BY <1>3, <1>4 DEF Understands, b

LEMMA NodeGoesHeard ==
  ASSUME NEW h \in HeardSet, NEW s, Understands(h, s), NEW t, NEW n,
         t.nodes = s.nodes \ {n}, t.port = s.port,
         NEW e \in Event, e.type = "node-", e.stream = n
  PROVE  Understands(Before(h, e), t)
<1> DEFINE b == Before(h, e)
<1>1. /\ DOMAIN b.nodes = DOMAIN h.nodes \ {n} /\ b.ports = h.ports
      /\ \A m \in DOMAIN h.nodes \ {n} : b.nodes[m] = h.nodes[m]
  BY BeforeNodeGoes
<1> HIDE DEF b
<1>2. \A m \in Streams : Pending(b, m) = Pending(h, m)
  BY <1>1 DEF Pending
<1>3. DOMAIN b.nodes = t.nodes
  BY <1>1 DEF Understands
<1>4. ASSUME NEW m \in t.nodes, t.port[m] # NoPort
      PROVE  t.port[m] \in b.nodes[m] \cup Pending(b, m)
  <2>1. m \in s.nodes /\ m \in DOMAIN h.nodes \ {n}
    BY <1>4 DEF Understands
  <2>2. s.port[m] \in h.nodes[m] \cup Pending(h, m)
    BY <2>1, <1>4 DEF Understands
  <2>3. m \in Streams
    BY <2>1, KnowledgeTyped
  <2> QED BY <2>1, <2>2, <2>3, <1>1, <1>2
<1> QED BY <1>3, <1>4 DEF Understands, b

LEMMA PortComesHeard ==
  ASSUME NEW h \in HeardSet, NEW s, Understands(h, s), NEW t, NEW n \in Streams,
         t.nodes = s.nodes, \A m \in Streams \ {n} : t.port[m] = s.port[m],
         NEW e \in Event, e.type = "port+", e.stream = n, t.port[n] = e.id
  PROVE  Understands(Before(h, e), t)
<1> DEFINE b == Before(h, e)
           q == [id |-> e.id, stream |-> n]
<1>1. b.nodes = h.nodes /\ b.ports = h.ports \cup {q}
  BY BeforePort
<1>2. q.id = e.id /\ q.stream = n
  OBVIOUS
<1> HIDE DEF b, q
<1>3. \A m : Pending(h, m) \subseteq Pending(b, m)
  BY <1>1 DEF Pending
<1>4. e.id \in Pending(b, n)
  BY <1>1, <1>2 DEF Pending
<1>5. ASSUME NEW m \in t.nodes, t.port[m] # NoPort
      PROVE  t.port[m] \in b.nodes[m] \cup Pending(b, m)
  <2>1. m \in s.nodes /\ m \in Streams
    BY KnowledgeTyped DEF Understands
  <2>2. CASE m = n
    BY <2>2, <1>4
  <2>3. CASE m # n
    <3>1. s.port[m] \in h.nodes[m] \cup Pending(h, m) /\ t.port[m] = s.port[m]
      BY <2>1, <2>3, <1>5 DEF Understands
    <3> QED BY <3>1, <1>1, <1>3
  <2> QED BY <2>2, <2>3
<1> QED BY <1>1, <1>5 DEF Understands, b

LEMMA PortGoesHeard ==
  ASSUME NEW h \in HeardSet, NEW s, Understands(h, s), NEW t, NEW n \in Streams,
         t.nodes = s.nodes, \A m \in Streams \ {n} : t.port[m] = s.port[m], t.port[n] = NoPort,
         \A m \in Streams : s.port[m] = s.port[n] => m = n,
         NEW e \in Event, e.type = "port-", e.id = s.port[n]
  PROVE  Understands(Before(h, e), t)
<1> DEFINE b == Before(h, e)
<1>1. b.nodes = h.nodes /\ b.ports = {p \in h.ports : p.id # e.id}
  BY BeforePort
<1> HIDE DEF b
<1>2. ASSUME NEW m \in t.nodes, t.port[m] # NoPort
      PROVE  t.port[m] \in b.nodes[m] \cup Pending(b, m)
  <2>1. m \in s.nodes /\ m \in Streams
    BY KnowledgeTyped DEF Understands
  <2>2. m # n
    BY <1>2
  <2>3. s.port[m] \in h.nodes[m] \cup Pending(h, m) /\ t.port[m] = s.port[m] /\ s.port[m] # e.id
    BY <2>1, <2>2, <1>2 DEF Understands
  <2>4. s.port[m] \in Pending(h, m) => s.port[m] \in Pending(b, m)
    BY <2>3, <1>1 DEF Pending
  <2> QED BY <2>3, <2>4, <1>1
<1> QED BY <1>1, <1>2 DEF Understands, b

-------------------------------------------------------------------------------
(* What the server does on its own *)

PassKept ==
  ~case.reuse => \A l \in server.links :
    l.kind = "pass" /\ l.app \in DOMAIN record'["pass"] /\ l.port \in PortIds(server')
      => l \in server'.links

LEMMA SameCase ==
  ASSUME case' = case
  PROVE  /\ Ids' = Ids /\ Link' = Link /\ Event' = Event /\ NodeMaps' = NodeMaps
         /\ HeardSet' = HeardSet
  BY DEF Ids, Link, Event, NodeMaps, HeardSet

\* A world that is reached.
LEMMA WorldReached ==
  ASSUME NEW w, WorldOK(w), case' = case, server' = w.server, record' = w.record
  PROVE  WorldOK(Now)'
<1>1. Now' = [server |-> w.server, record |-> w.record]
  BY DEF Now
<1>2. ServerOK(w.server) /\ RecordOK(w.record)
  BY DEF WorldOK
<1>3. ServerOK(server)'
  BY <1>2, SameCase DEF ServerOK
<1>4. RecordOK(record)'
  BY <1>2, SameCase DEF RecordOK
<1>5. ~case.reuse => (OwnIds(Now) /\ \A l \in server.links : Reaches(server, l))'
  BY <1>1 DEF WorldOK, OwnIds, Reaches
<1> QED BY <1>3, <1>4, <1>5 DEF WorldOK, Now

LEMMA ServerExceptNodes ==
  ASSUME NEW s \in ServerSet, NEW N
  PROVE  [s EXCEPT !.nodes = N] = [nodes |-> N, port |-> s.port, links |-> s.links, used |-> s.used]
<1>1. s = [nodes |-> s.nodes, port |-> s.port, links |-> s.links, used |-> s.used]
  BY ServerFields
<1>2. PICK a, b, c, d : s = [nodes |-> a, port |-> b, links |-> c, used |-> d]
  BY <1>1
<1> QED BY <1>2

LEMMA ServerExceptPortUsed ==
  ASSUME NEW s \in ServerSet, NEW n \in Streams, NEW i, NEW U
  PROVE  [s EXCEPT !.port[n] = i, !.used = U]
           = [nodes |-> s.nodes, port |-> [s.port EXCEPT ![n] = i], links |-> s.links, used |-> U]
<1>1. s = [nodes |-> s.nodes, port |-> s.port, links |-> s.links, used |-> s.used]
  BY ServerFields
<1>2. PICK a, b, c, d : s = [nodes |-> a, port |-> b, links |-> c, used |-> d]
  BY <1>1
<1>3. PICK p : p = [b EXCEPT ![n] = i]
  OBVIOUS
<1>4. PICK r : r = [s EXCEPT !.port[n] = i]
  OBVIOUS
<1>5. r = [nodes |-> a, port |-> p, links |-> c, used |-> d]
  BY <1>2, <1>3, <1>4
<1>6. [r EXCEPT !.used = U] = [nodes |-> a, port |-> p, links |-> c, used |-> U]
  BY <1>5
<1>7. [s EXCEPT !.port[n] = i, !.used = U] = [r EXCEPT !.used = U]
  BY <1>4
<1>8. s.nodes = a /\ s.port = b /\ s.links = c /\ s.used = d
  BY <1>2
<1> QED BY <1>3, <1>6, <1>7, <1>8

LEMMA ServerExceptPortLinks ==
  ASSUME NEW s \in ServerSet, NEW n \in Streams, NEW i, NEW L
  PROVE  [s EXCEPT !.port[n] = i, !.links = L]
           = [nodes |-> s.nodes, port |-> [s.port EXCEPT ![n] = i], links |-> L, used |-> s.used]
<1>1. s = [nodes |-> s.nodes, port |-> s.port, links |-> s.links, used |-> s.used]
  BY ServerFields
<1>2. PICK a, b, c, d : s = [nodes |-> a, port |-> b, links |-> c, used |-> d]
  BY <1>1
<1>3. PICK p : p = [b EXCEPT ![n] = i]
  OBVIOUS
<1>4. PICK r : r = [s EXCEPT !.port[n] = i]
  OBVIOUS
<1>5. r = [nodes |-> a, port |-> p, links |-> c, used |-> d]
  BY <1>2, <1>3, <1>4
<1>6. [r EXCEPT !.links = L] = [nodes |-> a, port |-> p, links |-> L, used |-> d]
  BY <1>5
<1>7. [s EXCEPT !.port[n] = i, !.links = L] = [r EXCEPT !.links = L]
  BY <1>4
<1>8. s.nodes = a /\ s.port = b /\ s.links = c /\ s.used = d
  BY <1>2
<1> QED BY <1>3, <1>6, <1>7, <1>8

\* A stream's node comes or goes: links and ports stay.
LEMMA NodesChangedOK ==
  ASSUME NEW w, WorldOK(w), NEW N \in SUBSET Streams,
         \A n \in Streams : w.server.port[n] # NoPort => n \in N,
         NEW v, v.server = [w.server EXCEPT !.nodes = N], v.record = w.record
  PROVE  WorldOK(v)
<1> DEFINE s == w.server
           t == v.server
<1>1. ServerOK(s) /\ s \in ServerSet
  BY ServerParts DEF WorldOK
<1>2. t = [nodes |-> N, port |-> s.port, links |-> s.links, used |-> s.used] /\ v.record = w.record
  BY <1>1, ServerExceptNodes
<1>3. t.nodes = N /\ t.port = s.port /\ t.links = s.links /\ t.used = s.used
  BY <1>2
<1> HIDE DEF s, t
<1>4. t \in ServerSet
  BY <1>1, <1>2, ServerFields DEF ServerSet
<1>5. PortIds(t) = PortIds(s)
  BY <1>3 DEF PortIds
<1>6. ServerOK(t)
  <2>1. \A n \in Streams : t.port[n] # NoPort => n \in t.nodes
    BY <1>3 DEF s
  <2> QED BY <2>1, <1>1, <1>3, <1>4, <1>5, ServerParts, ServerMade
<1>7. ~case.reuse => OwnIds(v) /\ \A l \in t.links : Reaches(t, l)
  <2>1. ~case.reuse => OwnIds(w) /\ \A l \in s.links : Reaches(s, l)
    BY DEF WorldOK, s
  <2>2. OwnIds(w) => OwnIds(v)
    BY <1>2, <1>3 DEF OwnIds, s, t
  <2>3. \A l : Reaches(s, l) => Reaches(t, l)
    BY <1>3 DEF Reaches
  <2> QED BY <2>1, <2>2, <2>3, <1>3
<1>8. RecordOK(v.record)
  BY <1>2 DEF WorldOK
<1> QED BY <1>6, <1>7, <1>8 DEF WorldOK, t

LEMMA PortComesOK ==
  ASSUME NEW w, WorldOK(w), NEW n \in w.server.nodes, w.server.port[n] = NoPort,
         NEW i \in Free(w.server), NEW U \in SUBSET Ids, w.server.used \subseteq U,
         ~case.reuse => i \in U,
         NEW v, v.record = w.record,
         v.server = [nodes |-> w.server.nodes, port |-> [w.server.port EXCEPT ![n] = i],
                     links |-> w.server.links, used |-> U]
  PROVE  WorldOK(v)
<1> DEFINE s == w.server
           t == v.server
           p == [s.port EXCEPT ![n] = i]
<1>1. ServerOK(s) /\ s \in ServerSet /\ n \in Streams
  BY ServerParts, ServerFields DEF WorldOK
<1>2. t = [nodes |-> s.nodes, port |-> p, links |-> s.links, used |-> U] /\ v.record = w.record
  OBVIOUS
<1>3. t.nodes = s.nodes /\ t.port = p /\ t.links = s.links /\ t.used = U
  BY <1>2
<1>4. /\ i \in Ids /\ i \notin LinkIds(s.links) /\ i \notin PortIds(s)
      /\ ~case.reuse => i \notin s.used
  BY <1>1, FreeIsNew
<1>5. p \in [Streams -> Ids \cup {NoPort}] /\ p[n] = i /\ \A m \in Streams \ {n} : p[m] = s.port[m]
  BY <1>1, <1>4, ServerFields
<1>a. s.port[n] = NoPort /\ n \in s.nodes /\ s.used \subseteq U
  OBVIOUS
<1> HIDE DEF s, t, p
<1>6. t \in ServerSet
  BY <1>1, <1>2, <1>5, ServerFields DEF ServerSet
<1>7. PortIds(t) = PortIds(s) \cup {i}
  <2>1. i # NoPort
    BY <1>4 DEF Ids, NoPort
  <2>2. \A m \in Streams : t.port[m] = IF m = n THEN i ELSE s.port[m]
    BY <1>3, <1>5
  <2> QED BY <2>1, <2>2, <1>1, <1>a DEF PortIds
<1>8. ServerOK(t)
  <2>1. \A m \in Streams : t.port[m] # NoPort => m \in t.nodes
    BY <1>1, <1>3, <1>5, <1>a, ServerParts
  <2>2. \A m \in Streams : s.port[m] # i
    BY <1>4 DEF PortIds, Ids, NoPort
  <2>3. ASSUME NEW m \in Streams, NEW k \in Streams, t.port[m] = t.port[k], t.port[m] # NoPort
        PROVE  m = k
    <3>1. CASE m # n /\ k # n
      BY <3>1, <2>3, <1>1, <1>3, <1>5, ServerParts
    <3> QED BY <3>1, <2>2, <2>3, <1>3, <1>5
  <2>4. LinkIds(t.links) \cap PortIds(t) = {}
    BY <1>1, <1>3, <1>4, <1>7, ServerParts
  <2>5. ~case.reuse => LinkIds(t.links) \cup PortIds(t) \subseteq t.used
    BY <1>1, <1>3, <1>7, <1>a, ServerParts
  <2>6. /\ \A k, l \in t.links : k.id = l.id => k = l
        /\ \A l \in t.links : l.port \in PortIds(t)
    BY <1>1, <1>3, <1>7, ServerParts
  <2> QED BY <2>1, <2>3, <2>4, <2>5, <2>6, <1>6, ServerMade
<1>9. ~case.reuse => OwnIds(v) /\ \A l \in t.links : Reaches(t, l)
  <2>1. ~case.reuse => OwnIds(w) /\ \A l \in s.links : Reaches(s, l)
    BY DEF WorldOK, s
  <2>2. OwnIds(w) => OwnIds(v)
    BY <1>2, <1>3, <1>a DEF OwnIds, s, t
  <2>3. ASSUME NEW l \in s.links, Reaches(s, l)
        PROVE  Reaches(t, l)
    <3>1. PICK m \in Streams : s.port[m] = l.port /\ AppOf[m] = l.app /\ Serves(m, l.kind)
      BY <2>3 DEF Reaches
    <3>2. l.port # NoPort
      BY <1>1, ServerParts DEF PortIds
    <3>3. m # n
      BY <3>1, <3>2, <1>a
    <3> QED BY <3>1, <3>3, <1>3, <1>5 DEF Reaches
  <2> QED BY <2>1, <2>2, <2>3, <1>3
<1>10. RecordOK(v.record)
  BY <1>2 DEF WorldOK
<1> QED BY <1>8, <1>9, <1>10 DEF WorldOK, t

LEMMA PortGoesOK ==
  ASSUME NEW w, WorldOK(w), NEW n \in Streams,
         NEW L, L = {l \in w.server.links : l.port # w.server.port[n]},
         NEW v, v.record = w.record,
         v.server = [nodes |-> w.server.nodes, port |-> [w.server.port EXCEPT ![n] = NoPort],
                     links |-> L, used |-> w.server.used]
  PROVE  WorldOK(v)
<1> DEFINE s == w.server
           t == v.server
           p == [s.port EXCEPT ![n] = NoPort]
<1>1. ServerOK(s) /\ s \in ServerSet
  BY ServerParts DEF WorldOK
<1>2. t = [nodes |-> s.nodes, port |-> p, links |-> L, used |-> s.used] /\ v.record = w.record
  OBVIOUS
<1>3. t.nodes = s.nodes /\ t.port = p /\ t.links = L /\ t.used = s.used
  BY <1>2
<1>4. p \in [Streams -> Ids \cup {NoPort}] /\ p[n] = NoPort /\ \A m \in Streams \ {n} : p[m] = s.port[m]
  BY <1>1, ServerFields
<1>5. L \subseteq s.links /\ \A l \in L : l.port # s.port[n]
  OBVIOUS
<1> HIDE DEF s, t, p
<1>6. t \in ServerSet
  BY <1>1, <1>2, <1>4, <1>5, ServerFields DEF ServerSet
<1>7. PortIds(t) \subseteq PortIds(s) /\ \A i \in PortIds(s) : i # s.port[n] => i \in PortIds(t)
  <2>1. \A m \in Streams : t.port[m] = IF m = n THEN NoPort ELSE s.port[m]
    BY <1>3, <1>4
  <2> QED BY <2>1 DEF PortIds
<1>8. ServerOK(t)
  <2>1. \A m \in Streams : t.port[m] # NoPort => m \in t.nodes
    BY <1>1, <1>3, <1>4, ServerParts
  <2>2. \A m, k \in Streams : t.port[m] = t.port[k] /\ t.port[m] # NoPort => m = k
    BY <1>1, <1>3, <1>4, ServerParts
  <2>3. LinkIds(t.links) \subseteq LinkIds(s.links)
    BY <1>3, <1>5 DEF LinkIds
  <2>4. LinkIds(t.links) \cap PortIds(t) = {}
        /\ (~case.reuse => LinkIds(t.links) \cup PortIds(t) \subseteq t.used)
    BY <2>3, <1>1, <1>3, <1>7, ServerParts
  <2>5. /\ \A k, l \in t.links : k.id = l.id => k = l
        /\ \A l \in t.links : l.port \in PortIds(t)
    BY <1>1, <1>3, <1>5, <1>7, ServerParts
  <2> QED BY <2>1, <2>2, <2>4, <2>5, <1>6, ServerMade
<1>9. ~case.reuse => OwnIds(v) /\ \A l \in t.links : Reaches(t, l)
  <2>1. ~case.reuse => OwnIds(w) /\ \A l \in s.links : Reaches(s, l)
    BY DEF WorldOK, s
  <2>2. ASSUME OwnIds(w), NEW kind \in Kinds, NEW a \in DOMAIN v.record[kind], NEW i \in v.record[kind][a]
        PROVE  i \in t.used /\ \A l \in t.links : l.id = i => l.kind = kind /\ l.app = a
    <3>1. i \in s.used /\ \A l \in s.links : l.id = i => l.kind = kind /\ l.app = a
      BY <2>2, <1>2 DEF OwnIds, s
    <3> QED BY <3>1, <1>3, <1>5
  <2>3. ASSUME NEW l \in L, Reaches(s, l)
        PROVE  Reaches(t, l)
    <3>1. PICK m \in Streams : s.port[m] = l.port /\ AppOf[m] = l.app /\ Serves(m, l.kind)
      BY <2>3 DEF Reaches
    <3>2. m # n
      BY <3>1, <1>5
    <3> QED BY <3>1, <3>2, <1>3, <1>4 DEF Reaches
  <2>4. OwnIds(w) => OwnIds(v)
    BY <2>2 DEF OwnIds, t
  <2> QED BY <2>1, <2>3, <2>4, <1>3, <1>5
<1>10. RecordOK(v.record)
  BY <1>2 DEF WorldOK
<1> QED BY <1>8, <1>9, <1>10 DEF WorldOK, t

LEMMA LeastExists ==
  ASSUME NEW S \in SUBSET Nat, S # {}
  PROVE  \E x \in S : \A y \in S : x <= y
<1> DEFINE R == OpToRel(<, Nat)
<1>1. IsWellFoundedOn(R, Nat)
  BY NatLessThanWellFounded
<1>2. \A x, y \in Nat : x < y => <<x, y>> \in R
  BY DEF OpToRel
<1> HIDE DEF R
<1>3. PICK x \in S : \A y \in S : ~(<<y, x>> \in R)
  BY <1>1, WFMin
<1>4. ASSUME NEW y \in S PROVE x <= y
  <2>1. ~(y < x) /\ x \in Nat /\ y \in Nat
    BY <1>2, <1>3
  <2> QED BY <2>1
<1> QED BY <1>4

\* An announcement added to those not heard.
LEMMA NewsKeeps ==
  ASSUME KnownInv, case' = case, NEW e \in Event, Announces(e),
         On => Understands(Before(Begun(known, events), e), server'),
         ~case.reuse =>
           /\ server.used \subseteq server'.used
           /\ \A n \in Streams : server'.port[n] = server.port[n] \/ server'.port[n] \notin server.used
           /\ e.type = "port+" => OnlyOf(server', e.id, e.stream)
  PROVE  KnownInv'
<1> DEFINE b == Begun(known, events)
           c == Begun(known, events)'
<1>1. known' = known /\ phase' = phase /\ events' = IF On THEN Append(events, e) ELSE events
  BY DEF Announces
<1>2. known \in NodeMaps /\ events \in Seq(Event)
  BY DEF KnownInv
<1>3. b \in HeardSet
  BY <1>2, BegunTyped
<1>4. c = IF On THEN Before(b, e) ELSE b
  <2>1. CASE On
    BY <1>1, <1>2, <2>1, BegunAppend
  <2>2. CASE ~On
    BY <1>1, <2>2
  <2> QED BY <2>1, <2>2
<1>5. AsKnown \in HeardSet /\ AsKnown' = AsKnown
  BY <1>1, <1>2 DEF AsKnown, HeardSet
<1> HIDE DEF b, c
<1>6. ~case.reuse => Truthful(AsKnown, server') /\ Truthful(b, server')
  BY <1>3, <1>5, TruthStays DEF KnownInv, b
<1>7. ~case.reuse => Truthful(c, server')
  BY <1>3, <1>4, <1>6, TruthHeard
<1>8. On => Understands(c, server')
  BY <1>4 DEF b
<1>9. events' \in Seq(Event)
  BY <1>1, <1>2
<1> QED BY <1>1, <1>5, <1>6, <1>7, <1>8, <1>9, SameCase DEF KnownInv, On, c

LEMMA RestStays ==
  ASSUME WholeInv, case' = case, NEW e, Announces(e), WorldOK(Now)', KnownInv'
  PROVE  WholeInv'
  BY DEF WholeInv, Announces

LEMMA NodeAppearsStep ==
  ASSUME WholeInv, case' = case, NEW n \in Streams, NodeAppears(n)
  PROVE  WholeInv' /\ PassKept
<1> DEFINE e == [type |-> "node+", stream |-> n]
<1>1. ServerOK(server) /\ server \in ServerSet /\ WorldOK(Now) /\ KnownInv
  BY ServerParts DEF WholeInv, WorldOK, Now
<1>2. /\ n \notin server.nodes /\ server' = [server EXCEPT !.nodes = server.nodes \cup {n}]
      /\ Announces(e) /\ record' = record
  BY DEF NodeAppears, Announces
<1>3. server.port[n] = NoPort /\ server.nodes \cup {n} \in SUBSET Streams
      /\ \A m \in Streams : server.port[m] # NoPort => m \in server.nodes \cup {n}
  BY <1>1, <1>2, ServerParts, ServerFields
<1>4. server' = [nodes |-> server.nodes \cup {n}, port |-> server.port, links |-> server.links,
                 used |-> server.used]
  BY <1>1, <1>2, ServerExceptNodes
<1>5. WorldOK(Now)'
  <2> DEFINE v == [server |-> server', record |-> record]
  <2>1. v.server = [server EXCEPT !.nodes = server.nodes \cup {n}] /\ v.record = record /\ v.server = server'
    BY <1>2
  <2> HIDE DEF v
  <2>2. WorldOK(v)
    BY <1>1, <1>3, <2>1, NodesChangedOK DEF Now
  <2> QED BY <2>1, <2>2, <1>2, WorldReached
<1>6. e \in Event /\ e.type = "node+" /\ e.stream = n
  BY DEF Event
<1> HIDE DEF e
<1>7. Begun(known, events) \in HeardSet
  BY <1>1, BegunTyped DEF KnownInv
<1>8. On => Understands(Before(Begun(known, events), e), server')
  <2>1. server'.nodes = server.nodes \cup {n} /\ server'.port = server.port
    BY <1>4
  <2> QED BY <1>1, <1>2, <1>3, <1>6, <1>7, <2>1, NodeComesHeard DEF KnownInv
<1>9. KnownInv'
  <2>1. server'.port = server.port /\ server'.used = server.used
    BY <1>4
  <2> QED BY <1>1, <1>2, <1>6, <1>8, <2>1, NewsKeeps
<1>10. PassKept
  BY <1>4 DEF PassKept
<1> QED BY <1>2, <1>5, <1>9, <1>10, RestStays

LEMMA NodeGoesStep ==
  ASSUME WholeInv, case' = case, NEW n \in Streams, NodeGoes(n)
  PROVE  WholeInv' /\ PassKept
<1> DEFINE e == [type |-> "node-", stream |-> n]
<1>1. ServerOK(server) /\ server \in ServerSet /\ WorldOK(Now) /\ KnownInv
  BY ServerParts DEF WholeInv, WorldOK, Now
<1>2. /\ server.port[n] = NoPort /\ server' = [server EXCEPT !.nodes = server.nodes \ {n}]
      /\ Announces(e) /\ record' = record
  BY DEF NodeGoes, Announces
<1>3. server.nodes \ {n} \in SUBSET Streams
      /\ \A m \in Streams : server.port[m] # NoPort => m \in server.nodes \ {n}
  BY <1>1, <1>2, ServerParts, ServerFields
<1>4. server' = [nodes |-> server.nodes \ {n}, port |-> server.port, links |-> server.links,
                 used |-> server.used]
  BY <1>1, <1>2, ServerExceptNodes
<1>5. WorldOK(Now)'
  <2> DEFINE v == [server |-> server', record |-> record]
  <2>1. v.server = [server EXCEPT !.nodes = server.nodes \ {n}] /\ v.record = record /\ v.server = server'
    BY <1>2
  <2> HIDE DEF v
  <2>2. WorldOK(v)
    BY <1>1, <1>3, <2>1, NodesChangedOK DEF Now
  <2> QED BY <2>1, <2>2, <1>2, WorldReached
<1>6. e \in Event /\ e.type = "node-" /\ e.stream = n
  BY DEF Event
<1> HIDE DEF e
<1>7. Begun(known, events) \in HeardSet
  BY <1>1, BegunTyped DEF KnownInv
<1>8. On => Understands(Before(Begun(known, events), e), server')
  <2>1. server'.nodes = server.nodes \ {n} /\ server'.port = server.port
    BY <1>4
  <2> QED BY <1>1, <1>6, <1>7, <2>1, NodeGoesHeard DEF KnownInv
<1>9. KnownInv'
  <2>1. server'.port = server.port /\ server'.used = server.used
    BY <1>4
  <2> QED BY <1>1, <1>2, <1>6, <1>8, <2>1, NewsKeeps
<1>10. PassKept
  BY <1>4 DEF PassKept
<1> QED BY <1>2, <1>5, <1>9, <1>10, RestStays

LEMMA PortAppearsStep ==
  ASSUME WholeInv, case' = case, NEW n \in Streams, PortAppears(n)
  PROVE  WholeInv' /\ PassKept
<1>1. ServerOK(server) /\ server \in ServerSet /\ WorldOK(Now) /\ KnownInv
  BY ServerParts DEF WholeInv, WorldOK, Now
<1>a. PICK i \in IF case.reuse \/ Free(server) = {} THEN Free(server)
                 ELSE {CHOOSE x \in Free(server) : \A j \in Free(server) : x <= j} :
        /\ server' = [server EXCEPT !.port[n] = i, !.used = IF case.reuse THEN @ ELSE @ \cup {i}]
        /\ Announces([type |-> "port+", stream |-> n, id |-> i])
  BY DEF PortAppears
<1> DEFINE e == [type |-> "port+", stream |-> n, id |-> i]
           U == IF case.reuse THEN server.used ELSE server.used \cup {i}
<1>2. /\ n \in server.nodes /\ server.port[n] = NoPort
      /\ server' = [server EXCEPT !.port[n] = i, !.used = U]
      /\ Announces(e) /\ record' = record
  BY <1>a DEF PortAppears, Announces
<1>3. i \in Free(server)
  <2>1. CASE case.reuse \/ Free(server) = {}
    BY <2>1
  <2>2. CASE ~(case.reuse \/ Free(server) = {})
    <3>1. i = CHOOSE x \in Free(server) : \A j \in Free(server) : x <= j
      BY <2>2
    <3>2. Free(server) \subseteq Nat /\ Free(server) # {}
      BY <2>2 DEF Free, Ids
    <3>3. \E x \in Free(server) : \A j \in Free(server) : x <= j
      BY <3>2, LeastExists
    <3> QED BY <3>1, <3>3
  <2> QED BY <2>1, <2>2
<1>4. i \in Ids /\ i \notin PortIds(server) /\ (~case.reuse => i \notin server.used)
  BY <1>1, <1>3, FreeIsNew
<1>5. U \in SUBSET Ids /\ server.used \subseteq U /\ (~case.reuse => i \in U)
  BY <1>1, <1>4, ServerFields
<1>b. e \in Event /\ e.type = "port+" /\ e.stream = n /\ e.id = i
  BY <1>4 DEF Event
<1> HIDE DEF U, e
<1>6. server' = [nodes |-> server.nodes, port |-> [server.port EXCEPT ![n] = i],
                 links |-> server.links, used |-> U]
  BY <1>1, <1>2, ServerExceptPortUsed
<1>7. /\ server'.nodes = server.nodes /\ server'.links = server.links /\ server'.used = U
      /\ server'.port[n] = i /\ \A m \in Streams \ {n} : server'.port[m] = server.port[m]
  BY <1>1, <1>6, ServerFields
<1>8. WorldOK(Now)'
  <2> DEFINE v == [server |-> server', record |-> record]
  <2>1. v.server = server' /\ v.record = record
    OBVIOUS
  <2> HIDE DEF v
  <2>2. WorldOK(v)
    <3>1. Now.server = server /\ Now.record = record
      BY DEF Now
    <3>2. /\ n \in Now.server.nodes /\ Now.server.port[n] = NoPort /\ i \in Free(Now.server)
          /\ Now.server.used \subseteq U /\ v.record = Now.record
          /\ v.server = [nodes |-> Now.server.nodes, port |-> [Now.server.port EXCEPT ![n] = i],
                         links |-> Now.server.links, used |-> U]
      BY <1>2, <1>3, <1>5, <1>6, <2>1, <3>1
    <3> HIDE DEF Now
    <3> QED BY <1>1, <1>5, <3>2, PortComesOK
  <2> QED BY <2>1, <2>2, <1>2, WorldReached
<1>9. Begun(known, events) \in HeardSet
  BY <1>1, BegunTyped DEF KnownInv
<1>10. On => Understands(Before(Begun(known, events), e), server')
  BY <1>1, <1>7, <1>9, <1>b, PortComesHeard DEF KnownInv
<1>11. KnownInv'
  <2>1. ~case.reuse => OnlyOf(server', i, n)
    <3> SUFFICES ASSUME ~case.reuse PROVE OnlyOf(server', i, n)
      OBVIOUS
    <3>1. \A m \in Streams : server.port[m] # i
      BY <1>4 DEF PortIds, Ids, NoPort
    <3> QED BY <3>1, <1>5, <1>7 DEF OnlyOf
  <2>2. ~case.reuse =>
          /\ server.used \subseteq server'.used
          /\ \A m \in Streams : server'.port[m] = server.port[m] \/ server'.port[m] \notin server.used
    BY <1>4, <1>5, <1>7
  <2> QED BY <1>1, <1>2, <1>b, <1>10, <2>1, <2>2, NewsKeeps
<1>12. PassKept
  BY <1>7 DEF PassKept
<1> QED BY <1>2, <1>8, <1>11, <1>12, RestStays

LEMMA PortGoesStep ==
  ASSUME WholeInv, case' = case, NEW n \in Streams, PortGoes(n)
  PROVE  WholeInv' /\ PassKept
<1> DEFINE e == [type |-> "port-", stream |-> n, id |-> server.port[n]]
           L == {l \in server.links : l.port # server.port[n]}
<1>1. ServerOK(server) /\ server \in ServerSet /\ WorldOK(Now) /\ KnownInv
  BY ServerParts DEF WholeInv, WorldOK, Now
<1>2. /\ server.port[n] # NoPort
      /\ server' = [server EXCEPT !.port[n] = NoPort, !.links = L]
      /\ Announces(e) /\ record' = record
  BY DEF PortGoes, Announces
<1>3. server.port[n] \in Ids
  BY <1>1, <1>2, ServerFields
<1>b. e \in Event /\ e.type = "port-" /\ e.stream = n /\ e.id = server.port[n]
  BY <1>3 DEF Event
<1>4. L = {l \in server.links : l.port # server.port[n]}
  OBVIOUS
<1> HIDE DEF L, e
<1>6. server' = [nodes |-> server.nodes, port |-> [server.port EXCEPT ![n] = NoPort],
                 links |-> L, used |-> server.used]
  BY <1>1, <1>2, ServerExceptPortLinks
<1>7. /\ server'.nodes = server.nodes /\ server'.links = L /\ server'.used = server.used
      /\ server'.port[n] = NoPort /\ \A m \in Streams \ {n} : server'.port[m] = server.port[m]
  BY <1>1, <1>6, ServerFields
<1>8. WorldOK(Now)'
  <2> DEFINE v == [server |-> server', record |-> record]
  <2>1. v.server = server' /\ v.record = record
    OBVIOUS
  <2> HIDE DEF v
  <2>2. WorldOK(v)
    BY <1>1, <1>4, <1>6, <2>1, PortGoesOK DEF Now
  <2> QED BY <2>1, <2>2, <1>2, WorldReached
<1>9. Begun(known, events) \in HeardSet
  BY <1>1, BegunTyped DEF KnownInv
<1>10. On => Understands(Before(Begun(known, events), e), server')
  <2>1. \A m \in Streams : server.port[m] = server.port[n] => m = n
    BY <1>1, <1>2, ServerParts
  <2> QED BY <1>1, <1>7, <1>9, <1>b, <2>1, PortGoesHeard DEF KnownInv
<1>11. KnownInv'
  <2>1. ~case.reuse => NoPort \notin server.used
    BY <1>1, ServerFields DEF Ids, NoPort
  <2>2. ~case.reuse =>
          /\ server.used \subseteq server'.used
          /\ \A m \in Streams : server'.port[m] = server.port[m] \/ server'.port[m] \notin server.used
    BY <1>7, <2>1
  <2> QED BY <1>1, <1>2, <1>b, <1>10, <2>2, NewsKeeps
<1>12. PassKept
  <2>1. server.port[n] \notin PortIds(server')
    <3>1. \A m \in Streams : server.port[m] = server.port[n] => m = n
      BY <1>1, <1>2, ServerParts
    <3> QED BY <3>1, <1>2, <1>7 DEF PortIds
  <2> QED BY <2>1, <1>4, <1>7 DEF PassKept
<1> QED BY <1>2, <1>8, <1>11, <1>12, RestStays

-------------------------------------------------------------------------------
(* The calls: what is known, and what is passed through *)

\* Where the news is heard the handlers finish; the streams have not changed meanwhile.
LEMMA SyncKeeps ==
  ASSUME KnownInv, On, case' = case, phase' = phase, NEW really, Syncs(really),
         SameStreams(server', server)
  PROVE  KnownInv'
<1> DEFINE b == Begun(known, events)
           c == Begun(known, events)'
           k == AsKnown'
<1>1. known \in NodeMaps /\ events \in Seq(Event) /\ b \in HeardSet /\ AsKnown \in HeardSet
  BY BegunTyped DEF KnownInv, AsKnown, HeardSet
<1>2. server'.nodes = server.nodes /\ server'.port = server.port /\ server.used \subseteq server'.used
  BY DEF SameStreams
<1>3. /\ Understands(b, server)
      /\ ~case.reuse => Truthful(AsKnown, server) /\ Truthful(b, server)
  BY DEF KnownInv
<1>4. /\ k = [nodes |-> known', ports |-> {}]
      /\ c = IF really THEN k ELSE b
      /\ known' = IF really THEN Heard(known, events) ELSE known
  <2>1. CASE really
    <3>1. events' = <<>> /\ known' = Heard(known, events)
      BY <2>1 DEF Syncs
    <3> QED BY <2>1, <3>1, BegunNothing DEF AsKnown
  <2>2. CASE ~really
    BY <2>2 DEF Syncs, AsKnown
  <2> QED BY <2>1, <2>2
<1>5. events' \in Seq(Event)
  BY <1>1 DEF Syncs
<1>6. /\ k \in HeardSet /\ c \in HeardSet
      /\ Understands(c, server) /\ (~case.reuse => Truthful(k, server) /\ Truthful(c, server))
  <2>1. CASE really
    <3>1. k = [nodes |-> Heard(known, events), ports |-> {}] /\ c = k
      BY <1>4, <2>1
    <3> HIDE DEF k, c
    <3>2. k \in HeardSet /\ Understands(k, server) /\ (~case.reuse => Truthful(k, server))
      BY <3>1, <1>1, <1>3, SyncedKnows
    <3> QED BY <3>1, <3>2
  <2>2. CASE ~really
    <3>1. k = AsKnown /\ c = b
      BY <1>4, <2>2 DEF AsKnown
    <3> HIDE DEF k, c
    <3> QED BY <3>1, <1>1, <1>3
  <2> QED BY <2>1, <2>2
<1> HIDE DEF b, c, k
<1>7. Understands(c, server')
  BY <1>2, <1>6 DEF Understands
<1>8. ~case.reuse => Truthful(k, server') /\ Truthful(c, server')
  BY <1>2, <1>6, TruthStays
<1>9. known' \in NodeMaps
  BY <1>4, <1>6 DEF HeardSet
<1> QED BY <1>5, <1>7, <1>8, <1>9, SameCase DEF KnownInv, On, c, k

\* The backend knows which stream a port is of, unless ids are given again.
LEMMA PortsKnown ==
  ASSUME KnownInv, NEW s, s.port = server.port
  PROVE  DOMAIN known \subseteq Streams /\ (~case.reuse => KnowsPorts(s))
<1>1. DOMAIN known \subseteq Streams
  BY NodeMapParts DEF KnownInv
<1>2. ASSUME ~case.reuse, NEW n \in DOMAIN known, NEW i \in known[n], NEW m \in Streams, s.port[m] = i
      PROVE  m = n
  <2>1. Truthful(AsKnown, server) /\ AsKnown.nodes = known
    BY <1>2 DEF KnownInv, AsKnown
  <2>2. OnlyOf(server, i, n)
    BY <1>2, <2>1 DEF Truthful
  <2> QED BY <1>2, <2>2 DEF OnlyOf
<1> QED BY <1>1, <1>2 DEF KnowsPorts

\* A call that ends in w leaves the links of what stays passed through.
PassLeft(w) ==
  ~case.reuse => \A l \in server.links :
    l.kind = "pass" /\ l.app \in DOMAIN w.record["pass"] => l \in w.server.links

LEMMA CallEnds ==
  ASSUME WholeInv, On, case' = case, NEW w, WorldOK(w), SameStreams(w.server, server), PassLeft(w),
         NEW asked, Ends(w, asked)
  PROVE  WorldOK(Now)' /\ KnownInv' /\ PassKept
<1>1. server' = w.server /\ record' = w.record /\ phase' = phase
  BY DEF Ends
<1>2. WorldOK(Now)'
  BY <1>1, WorldReached
<1>3. KnownInv'
  <2>1. SameStreams(server', server) /\ KnownInv
    BY <1>1 DEF WholeInv
  <2>2. \E really : Syncs(really)
    BY DEF Ends
  <2> QED BY <1>1, <2>1, <2>2, SyncKeeps
<1>4. PassKept
  BY <1>1 DEF PassKept, PassLeft
<1> QED BY <1>2, <1>3, <1>4

LEMMA SamePassLeft ==
  ASSUME NEW w, SamePass(w, Now)
  PROVE  PassLeft(w)
  BY DEF SamePass, PassLeft, Now

LEMMA SamePassTransitive ==
  ASSUME NEW u, NEW v, NEW w, SamePass(u, v), SamePass(v, w)
  PROVE  SamePass(u, w)
  BY DEF SamePass

LEMMA SamePassMore ==
  ASSUME NEW v, NEW w, SamePass(v, Now), v.server.links \subseteq w.server.links
  PROVE  PassLeft(w)
  BY DEF SamePass, PassLeft, Now

LEMMA NowOK ==
  ASSUME WholeInv
  PROVE  WorldOK(Now) /\ SameStreams(Now.server, server) /\ SamePass(Now, Now) /\ KnownInv
  BY DEF WholeInv, Now, SameStreams, SamePass

LEMMA InputSoundToMoves ==
  ASSUME KnownInv, NEW w, WorldOK(w), SameStreams(w.server, server), NEW apps, NEW deaf,
         NEW id \in GivenIds(w.server, InputLinked(w, apps, deaf)),
         NEW v, v = InputSoundTo(w, apps, deaf, id)
  PROVE  WorldOK(v) /\ SameStreams(v.server, server) /\ SamePass(v, w)
<1>1. w.server.port = server.port
  BY DEF SameStreams
<1>2. DOMAIN known \subseteq Streams /\ (~case.reuse => KnowsPorts(w.server))
  BY <1>1, PortsKnown
<1>3. WorldOK(v) /\ SameStreams(v.server, w.server) /\ SamePass(v, w)
  BY <1>2, InputSoundToOK
<1> QED BY <1>3, SameStreamsTransitive

LEMMA PlaySoundKeeps ==
  ASSUME WholeInv, case' = case, PlaySound
  PROVE  WholeInv' /\ PassKept
<1>1. PICK overlap \in BOOLEAN, deaf \in SUBSET WithPort :
        PlaySound!(overlap, deaf)
  BY DEF PlaySound
<1> DEFINE before == IF overlap THEN Now ELSE SoundsStopped(Now)
           others == IF overlap THEN playing ELSE 0
           heard  == outputs = {} \/ \E a \in outputs : InputMoved(before, a, deaf)
<1>2. PICK id \in GivenIds(before.server, InputLinked(before, outputs, deaf)) :
        /\ On /\ others < MaxPlaying
        /\ Ends(IF heard THEN InputSoundTo(before, outputs, deaf, id)
                ELSE Silence(InputSoundTo(before, outputs, deaf, id), others),
                InputTargets(before, outputs))
        /\ playing' = IF heard THEN others + 1 ELSE others
        /\ UNCHANGED outputs
  BY <1>1
<1> DEFINE into == InputSoundTo(before, outputs, deaf, id)
           w == IF heard THEN into ELSE Silence(into, others)
<1>3. WorldOK(before) /\ SameStreams(before.server, server)
      /\ (overlap => before = Now) /\ (~overlap => DOMAIN before.record["pass"] = {})
  <2>1. CASE overlap
    BY <2>1, NowOK
  <2>2. CASE ~overlap
    <3>1. before = SoundsStopped(Now)
      BY <2>2
    <3> HIDE DEF before
    <3> QED BY <2>2, <3>1, NowOK, SoundsStoppedOK, SameStreamsTransitive
  <2> QED BY <2>1, <2>2
<1>4. others \in 0..MaxPlaying
  BY BoundsAssumption DEF WholeInv
<1> HIDE DEF before, heard, others
<1>5. WorldOK(into) /\ SameStreams(into.server, server) /\ SamePass(into, before)
  BY <1>2, <1>3, NowOK, InputSoundToMoves
<1> HIDE DEF into
<1>6. WorldOK(w) /\ SameStreams(w.server, server) /\ SamePass(w, before)
  <2>1. CASE heard
    BY <1>5, <2>1
  <2>2. CASE ~heard
    <3>1. w = Silence(into, others)
      BY <2>2
    <3>2. WorldOK(w) /\ SameStreams(w.server, into.server) /\ SamePass(w, into)
      BY <3>1, <1>5, SilenceOK
    <3> HIDE DEF w
    <3> QED BY <3>2, <1>5, SameStreamsTransitive, SamePassTransitive
  <2> QED BY <2>1, <2>2
<1>7. Ends(w, InputTargets(before, outputs))
  BY <1>2 DEF into
<1> HIDE DEF w
<1>8. PassLeft(w)
  <2>1. CASE overlap
    BY <2>1, <1>3, <1>6, SamePassLeft
  <2>2. CASE ~overlap
    BY <2>2, <1>3, <1>6 DEF SamePass, PassLeft
  <2> QED BY <2>1, <2>2
<1>9. WorldOK(Now)' /\ KnownInv' /\ PassKept
  BY <1>2, <1>6, <1>7, <1>8, CallEnds
<1>10. playing' \in 0..MaxPlaying
  BY <1>2, <1>4, BoundsAssumption
<1> QED BY <1>2, <1>9, <1>10 DEF WholeInv

LEMMA SoundEndsKeeps ==
  ASSUME WholeInv, case' = case, SoundEnds
  PROVE  WholeInv' /\ PassKept
<1> DEFINE w == Silence(Now, playing - 1)
<1>1. WorldOK(w) /\ SameStreams(w.server, Now.server) /\ SamePass(w, Now)
  BY NowOK, SilenceOK
<1>2. On /\ Ends(w, {}) /\ playing' = playing - 1 /\ playing > 0 /\ outputs' = outputs
  BY DEF SoundEnds
<1> HIDE DEF w
<1>3. SameStreams(w.server, server) /\ PassLeft(w)
  BY <1>1, NowOK, SameStreamsTransitive, SamePassLeft
<1>4. WorldOK(Now)' /\ KnownInv' /\ PassKept
  BY <1>1, <1>2, <1>3, CallEnds
<1>5. playing' \in 0..MaxPlaying
  BY <1>2, BoundsAssumption DEF WholeInv
<1> QED BY <1>2, <1>4, <1>5 DEF WholeInv

LEMMA StopSoundsKeeps ==
  ASSUME WholeInv, case' = case, StopSounds
  PROVE  WholeInv' /\ PassKept
<1> DEFINE w == SoundsStopped(Now)
<1>1. WorldOK(w) /\ SameStreams(w.server, Now.server) /\ DOMAIN w.record["pass"] = {}
  BY NowOK, SoundsStoppedOK
<1>2. On /\ Ends(w, {}) /\ playing' \in {0, playing} /\ outputs' = outputs
  BY DEF StopSounds
<1> HIDE DEF w
<1>3. SameStreams(w.server, server) /\ PassLeft(w)
  BY <1>1, NowOK, SameStreamsTransitive DEF PassLeft
<1>4. WorldOK(Now)' /\ KnownInv' /\ PassKept
  BY <1>1, <1>2, <1>3, CallEnds
<1> QED BY <1>2, <1>4, BoundsAssumption DEF WholeInv

LEMMA StartPassthroughKeeps ==
  ASSUME WholeInv, case' = case, NEW a, StartPassthrough(a)
  PROVE  WholeInv' /\ PassKept
<1>1. PICK deaf \in SUBSET WithPort :
      \E id \in GivenIds(server, InputLinked(Now, outputs, deaf)) :
        LET into == InputSoundTo(Now, outputs, deaf, id)
            moved == \A b \in outputs : InputMoved(Now, b, deaf)
        IN  \E passId, asked :
              passId \in GivenIds(into.server, PassLinked(into, a, deaf))
              /\ Ends(IF moved THEN PassthroughFrom(into, a, deaf, passId) ELSE into, asked)
              /\ On /\ playing' = playing /\ outputs' = outputs
  BY DEF StartPassthrough
<1>2. PICK id \in GivenIds(server, InputLinked(Now, outputs, deaf)) :
        LET into == InputSoundTo(Now, outputs, deaf, id)
            moved == \A b \in outputs : InputMoved(Now, b, deaf)
        IN  \E passId, asked :
              passId \in GivenIds(into.server, PassLinked(into, a, deaf))
              /\ Ends(IF moved THEN PassthroughFrom(into, a, deaf, passId) ELSE into, asked)
              /\ On /\ playing' = playing /\ outputs' = outputs
  BY <1>1
<1> DEFINE into == InputSoundTo(Now, outputs, deaf, id)
           moved == \A b \in outputs : InputMoved(Now, b, deaf)
<1>3. PICK passId, asked :
        passId \in GivenIds(into.server, PassLinked(into, a, deaf))
        /\ Ends(IF moved THEN PassthroughFrom(into, a, deaf, passId) ELSE into, asked)
        /\ On /\ playing' = playing /\ outputs' = outputs
  BY <1>2
<1> DEFINE w == IF moved THEN PassthroughFrom(into, a, deaf, passId) ELSE into
<1> HIDE DEF moved
<1>4. WorldOK(into) /\ SameStreams(into.server, server) /\ SamePass(into, Now)
  <2>1. id \in GivenIds(Now.server, InputLinked(Now, outputs, deaf)) /\ into = InputSoundTo(Now, outputs, deaf, id)
    BY DEF Now
  <2> HIDE DEF into
  <2> QED BY <2>1, NowOK, InputSoundToMoves
<1> HIDE DEF into
<1>5. WorldOK(w) /\ SameStreams(w.server, server) /\ PassLeft(w)
  <2>1. CASE ~moved
    BY <2>1, <1>4, SamePassLeft
  <2>2. CASE moved
    <3>1. w = PassthroughFrom(into, a, deaf, passId)
      BY <2>2
    <3>2. into.server.port = server.port
      BY <1>4 DEF SameStreams
    <3>3. DOMAIN known \subseteq Streams /\ (~case.reuse => KnowsPorts(into.server))
      BY <3>2, NowOK, PortsKnown
    <3> HIDE DEF w
    <3>4. WorldOK(w) /\ SameStreams(w.server, into.server) /\ into.server.links \subseteq w.server.links
      BY <3>1, <3>3, <1>3, <1>4, PassthroughFromOK
    <3> QED BY <3>4, <1>4, SameStreamsTransitive, SamePassMore
  <2> QED BY <2>1, <2>2
<1>6. Ends(w, asked)
  BY <1>3
<1> HIDE DEF w
<1>7. WorldOK(Now)' /\ KnownInv' /\ PassKept
  BY <1>3, <1>5, <1>6, CallEnds
<1> QED BY <1>3, <1>7 DEF WholeInv

LEMMA StopPassthroughKeepsRest ==
  ASSUME WholeInv, case' = case, NEW a, StopPassthrough(a)
  PROVE  WholeInv' /\ PassKept
<1> DEFINE last == playing = 0 /\ Cardinality(DOMAIN record["pass"]) = 1
           before == IF last THEN StopSoundInput(Now) ELSE Now
           w == StopPassthroughOf(before, {a})
<1>1. On /\ Ends(w, {}) /\ playing' = playing /\ outputs' = outputs
  BY DEF StopPassthrough
<1>2. WorldOK(before) /\ SameStreams(before.server, server) /\ SamePass(before, Now)
  <2> HIDE DEF last
  <2>1. CASE last
    <3>1. before = StopSoundInput(Now)
      BY <2>1
    <3> HIDE DEF before
    <3> QED BY <3>1, NowOK, StopSoundInputOK, SameStreamsTransitive
  <2>2. CASE ~last
    BY <2>2, NowOK
  <2> QED BY <2>1, <2>2
<1> HIDE DEF before
<1>3. /\ WorldOK(w) /\ SameStreams(w.server, before.server)
      /\ DOMAIN w.record["pass"] = DOMAIN before.record["pass"] \ {a}
      /\ ~case.reuse => \A l \in before.server.links :
           l.kind = "pass" /\ l.app \notin {a} => l \in w.server.links
  BY <1>2, StopPassthroughOK
<1> HIDE DEF w
<1>4. SameStreams(w.server, server)
  BY <1>2, <1>3, SameStreamsTransitive
<1>5. PassLeft(w)
  BY <1>2, <1>3 DEF PassLeft, SamePass, Now
<1>6. WorldOK(Now)' /\ KnownInv' /\ PassKept
  BY <1>1, <1>3, <1>4, <1>5, CallEnds
<1> QED BY <1>1, <1>6 DEF WholeInv

LEMMA ChangeOutputsKeeps ==
  ASSUME WholeInv, case' = case, NEW new \in SUBSET Apps, ChangeOutputs(new)
  PROVE  WholeInv' /\ PassKept
<1> DEFINE stopped == StopSoundInput(Now)
           apps == IF playing = 0 THEN {} ELSE new
<1>1. PICK deaf : \E id, asked :
        /\ id \in GivenIds(stopped.server, InputLinked(stopped, apps, deaf))
        /\ On /\ outputs' = new
        /\ Ends(InputSoundTo(stopped, apps, deaf, id), asked)
        /\ playing' = playing
  BY DEF ChangeOutputs
<1>2. PICK id, asked :
        /\ id \in GivenIds(stopped.server, InputLinked(stopped, apps, deaf))
        /\ On /\ outputs' = new
        /\ Ends(InputSoundTo(stopped, apps, deaf, id), asked)
        /\ playing' = playing
  BY <1>1
<1> DEFINE w == InputSoundTo(stopped, apps, deaf, id)
<1>3. WorldOK(stopped) /\ SameStreams(stopped.server, Now.server) /\ SamePass(stopped, Now)
  BY NowOK, StopSoundInputOK
<1> HIDE DEF stopped, apps
<1>4. SameStreams(stopped.server, server)
  BY <1>3, NowOK, SameStreamsTransitive
<1>5. WorldOK(w) /\ SameStreams(w.server, server) /\ SamePass(w, stopped)
  BY <1>2, <1>3, <1>4, NowOK, InputSoundToMoves
<1>6. Ends(w, asked)
  BY <1>2
<1> HIDE DEF w
<1>7. PassLeft(w)
  BY <1>3, <1>5, SamePassTransitive, SamePassLeft
<1>8. WorldOK(Now)' /\ KnownInv' /\ PassKept
  BY <1>2, <1>5, <1>6, <1>7, CallEnds
<1> QED BY <1>2, <1>8 DEF WholeInv

LEMMA ListAppsKeeps ==
  ASSUME WholeInv, case' = case, ListApps
  PROVE  WholeInv' /\ PassKept
<1>1. On /\ Syncs(TRUE) /\ UNCHANGED <<server, record, outputs, playing, phase, stopping>>
  BY DEF ListApps
<1>2. KnownInv'
  BY <1>1, SyncKeeps DEF WholeInv, SameStreams
<1>3. WorldOK(Now)'
  BY <1>1, NowOK, WorldReached DEF Now
<1>4. PassKept
  BY <1>1 DEF PassKept
<1> QED BY <1>1, <1>2, <1>3, <1>4 DEF WholeInv

-------------------------------------------------------------------------------
(* Setting up, and the end *)

\* A set in some order: all of it.
LEMMA OrderOfAll ==
  ASSUME NEW S, IsFiniteSet(S), NEW f \in SetToSeqs(S)
  PROVE  /\ f \in Seq(S) /\ Len(f) \in Nat
         /\ \A x \in S : \E i \in 1..Len(f) : f[i] = x
<1> DEFINE N == Cardinality(S)
<1>1. N \in Nat
  BY FS_CardinalityType
<1>2. f \in [1..N -> S] /\ \A i, j \in 1..N : i # j => f[i] # f[j]
  BY DEF SetToSeqs
<1>3. IsFiniteSet(1..N) /\ Cardinality(1..N) = N
  BY <1>1, FS_Interval
<1> HIDE DEF N
<1>4. f \in Injection(1..N, S)
  BY <1>2 DEF Injection, IsInjective
<1>5. f \in Surjection(1..N, S)
  BY <1>3, <1>4, FS_Injection DEF N
<1>6. \A x \in S : \E i \in 1..N : f[i] = x
  BY <1>5 DEF Surjection
<1>7. f \in Seq(S) /\ Len(f) = N
  BY <1>1, <1>2
<1> QED BY <1>1, <1>6, <1>7

LEMMA AnnouncedFinite ==
  ASSUME NEW s, ServerOK(s)
  PROVE  IsFiniteSet(Announced(s)) /\ Announced(s) \subseteq Event
<1> DEFINE A == {[type |-> "node+", stream |-> n] : n \in s.nodes}
           P == {m \in Streams : s.port[m] # NoPort}
           B == {[type |-> "port+", stream |-> n, id |-> s.port[n]] : n \in P}
           f == [n \in s.nodes |-> [type |-> "node+", stream |-> n]]
           g == [n \in P |-> [type |-> "port+", stream |-> n, id |-> s.port[n]]]
<1>1. s.nodes \subseteq Streams /\ s.port \in [Streams -> Ids \cup {NoPort}]
  BY ServerParts, ServerFields
<1>2. IsFiniteSet(s.nodes) /\ IsFiniteSet(P)
  BY <1>1, StreamsAssumption, FS_Subset
<1>3. f \in Surjection(s.nodes, A)
  BY DEF Surjection
<1>4. g \in Surjection(P, B)
  BY DEF Surjection
<1>5. Announced(s) = A \cup B
  BY DEF Announced
<1>6. A \subseteq Event
  BY <1>1 DEF Event
<1>7. B \subseteq Event
  BY <1>1 DEF Event
<1> HIDE DEF A, B, P, f, g
<1>8. IsFiniteSet(A) /\ IsFiniteSet(B)
  BY <1>2, <1>3, <1>4, FS_Surjection
<1> QED BY <1>5, <1>6, <1>7, <1>8, FS_Union

LEMMA NothingKnown ==
  /\ Nothing \in NodeMaps /\ DOMAIN Nothing = {}
  /\ \A h, s : h = [nodes |-> Nothing, ports |-> {}] => Truthful(h, s)
<1>1. Nothing \in [{} -> SUBSET Ids] /\ {} \in SUBSET Streams /\ DOMAIN Nothing = {}
  BY DEF Nothing
<1>2. Nothing \in NodeMaps
  BY <1>1, NodeMapMade
<1>3. \A h, s : h = [nodes |-> Nothing, ports |-> {}] => Truthful(h, s)
  BY <1>1 DEF Truthful
<1> QED BY <1>1, <1>2, <1>3

\* In whatever order all is announced, all is understood.
LEMMA AnnouncedHeard ==
  ASSUME NEW s, ServerOK(s), NEW news \in SetToSeqs(Announced(s))
  PROVE  /\ news \in Seq(Event) /\ Nothing \in NodeMaps
         /\ Understands(Begun(Nothing, news), s)
         /\ ~case.reuse => Truthful(Begun(Nothing, news), s)
<1> DEFINE N == Len(news)
           b == Begun(Nothing, news)
           Within(h) == /\ DOMAIN h.nodes \subseteq s.nodes
                        /\ \A n \in DOMAIN h.nodes : h.nodes[n] = {}
                        /\ \A p \in h.ports : s.port[p.stream] = p.id /\ p.id # NoPort
           Told(h, i) == \A j \in 1..N : j <= i =>
                           /\ news[j].type = "node+" => news[j].stream \in DOMAIN h.nodes
                           /\ news[j].type = "port+" =>
                                \E p \in h.ports : p.id = news[j].id /\ p.stream = news[j].stream
           S == [i \in 0..N |-> {h \in HeardSet : Within(h) /\ Told(h, i)}]
<1>1. /\ news \in Seq(Announced(s)) /\ N \in Nat
      /\ \A x \in Announced(s) : \E i \in 1..N : news[i] = x
  BY AnnouncedFinite, OrderOfAll
<1>2. news \in Seq(Event) /\ \A i \in 1..N : news[i] \in Announced(s) /\ news[i] \in Event
  BY <1>1, AnnouncedFinite
<1>3. \A e \in Announced(s) :
        \/ e.type = "node+" /\ e.stream \in s.nodes
        \/ e.type = "port+" /\ e.stream \in Streams /\ e.id = s.port[e.stream] /\ e.id # NoPort
  BY DEF Announced
<1>4. Nothing \in NodeMaps
  BY NothingKnown
<1>a. s.nodes \subseteq Streams
  BY ServerParts, ServerFields
<1> HIDE DEF N, b
<1>5. [nodes |-> Nothing, ports |-> {}] \in S[0]
  <2> DEFINE h == [nodes |-> Nothing, ports |-> {}]
  <2>1. h \in HeardSet
    BY <1>4 DEF HeardSet
  <2>2. Within(h)
    BY DEF Nothing
  <2>3. Told(h, 0)
    OBVIOUS
  <2> HIDE DEF Within, Told, h
  <2>4. h \in S[0]
    BY <1>1, <2>1, <2>2, <2>3
  <2> QED BY <2>4 DEF h
<1>6. ASSUME NEW i \in 1..N, NEW h \in S[i - 1]
      PROVE  Before(h, news[i]) \in S[i]
  <2>1. i - 1 \in 0..N /\ i \in 0..N
    BY <1>1
  <2>2. h \in HeardSet /\ Within(h) /\ Told(h, i - 1)
    <3> HIDE DEF Within, Told
    <3> QED BY <2>1
  <2> DEFINE e == news[i]
             a == Before(h, e)
  <2>3. e \in Event /\ e \in Announced(s) /\ news[i] = e
    BY <1>2
  <2> HIDE DEF a, e
  <2>a. h \in HeardSet
    BY <2>2
  <2>4. a \in HeardSet
    BY <2>a, <2>3, BeforeTyped DEF a
  <2>5. CASE e.type = "node+"
    <3>1. /\ DOMAIN a.nodes = DOMAIN h.nodes \cup {e.stream} /\ a.ports = h.ports
          /\ \A n \in DOMAIN h.nodes : a.nodes[n] = h.nodes[n]
          /\ \A n \in Streams \ DOMAIN h.nodes : n = e.stream => a.nodes[n] = {}
      <4> HIDE DEF S, Within, Told
      <4> QED BY <2>a, <2>3, <2>5, BeforeNodeComes, ZenonT(60) DEF a
    <3>2. e.stream \in s.nodes
      BY <1>3, <2>3, <2>5
    <3>3. Within(a)
      <4>1. \A n \in DOMAIN a.nodes : a.nodes[n] = {}
        <5> SUFFICES ASSUME NEW n \in DOMAIN a.nodes PROVE a.nodes[n] = {}
          OBVIOUS
        <5>1. CASE n \in DOMAIN h.nodes
          BY <5>1, <3>1, <2>2
        <5>2. CASE n \notin DOMAIN h.nodes
          BY <5>2, <3>1, <3>2, <1>a
        <5> QED BY <5>1, <5>2
      <4> QED BY <4>1, <3>1, <3>2, <2>2
    <3>4. Told(a, i)
      <4> SUFFICES ASSUME NEW j \in 1..N, j <= i
                   PROVE  /\ news[j].type = "node+" => news[j].stream \in DOMAIN a.nodes
                          /\ news[j].type = "port+" =>
                               \E p \in a.ports : p.id = news[j].id /\ p.stream = news[j].stream
        OBVIOUS
      <4>1. CASE j = i
        BY <4>1, <3>1, <2>5, <2>3
      <4>2. CASE j # i
        <5>1. j <= i - 1
          BY <4>2, <1>1
        <5> QED BY <5>1, <2>2, <3>1
      <4> QED BY <4>1, <4>2
    <3> HIDE DEF Within, Told
    <3> QED BY <2>1, <2>3, <2>4, <3>3, <3>4 DEF a
  <2>6. CASE e.type = "port+"
    <3> DEFINE q == [id |-> e.id, stream |-> e.stream]
    <3>1. a.nodes = h.nodes /\ a.ports = h.ports \cup {q}
      BY <2>a, <2>3, <2>6, BeforePort DEF a
    <3>2. q.id = e.id /\ q.stream = e.stream /\ q.id = s.port[q.stream] /\ q.id # NoPort
      BY <1>3, <2>3, <2>6
    <3> HIDE DEF q
    <3>3. Within(a)
      BY <3>1, <3>2, <2>2
    <3>4. Told(a, i)
      <4> SUFFICES ASSUME NEW j \in 1..N, j <= i
                   PROVE  /\ news[j].type = "node+" => news[j].stream \in DOMAIN a.nodes
                          /\ news[j].type = "port+" =>
                               \E p \in a.ports : p.id = news[j].id /\ p.stream = news[j].stream
        OBVIOUS
      <4>1. CASE j = i
        BY <4>1, <3>1, <3>2, <2>6, <2>3
      <4>2. CASE j # i
        <5>1. j <= i - 1
          BY <4>2, <1>1
        <5> QED BY <5>1, <2>2, <3>1
      <4> QED BY <4>1, <4>2
    <3> HIDE DEF Within, Told
    <3> QED BY <2>1, <2>3, <2>4, <3>3, <3>4 DEF a
  <2> QED BY <2>3, <2>5, <2>6, <1>3
<1>7. S[N] = {h \in HeardSet : Within(h) /\ Told(h, N)}
  BY <1>1
<1> HIDE DEF S
<1>8. b \in S[N]
  BY <1>1, <1>5, <1>6, BegunReaches DEF N, b
<1>9. b \in HeardSet /\ Within(b) /\ Told(b, N)
  <2> HIDE DEF Within, Told
  <2> QED BY <1>7, <1>8
<1>10. Understands(b, s)
  <2>1. \A n \in s.nodes : n \in DOMAIN b.nodes
    <3> SUFFICES ASSUME NEW n \in s.nodes PROVE n \in DOMAIN b.nodes
      OBVIOUS
    <3> DEFINE e == [type |-> "node+", stream |-> n]
    <3>1. e \in Announced(s) /\ e.type = "node+" /\ e.stream = n
      BY DEF Announced
    <3> HIDE DEF e
    <3>2. PICK j \in 1..N : news[j] = e
      BY <1>1, <3>1
    <3> QED BY <3>1, <3>2, <1>1, <1>9
  <2>2. ASSUME NEW n \in s.nodes, s.port[n] # NoPort PROVE s.port[n] \in Pending(b, n)
    <3> DEFINE e == [type |-> "port+", stream |-> n, id |-> s.port[n]]
    <3>1. e \in Announced(s) /\ e.type = "port+" /\ e.stream = n /\ e.id = s.port[n]
      BY <2>2, <1>a DEF Announced
    <3> HIDE DEF e
    <3>2. PICK j \in 1..N : news[j] = e
      BY <1>1, <3>1
    <3>3. PICK p \in b.ports : p.id = s.port[n] /\ p.stream = n
      BY <3>1, <3>2, <1>1, <1>9
    <3> QED BY <3>3 DEF Pending
  <2> QED BY <2>1, <2>2, <1>9 DEF Understands
<1>11. ~case.reuse => Truthful(b, s)
  <2> SUFFICES ASSUME ~case.reuse, NEW p \in b.ports
               PROVE  OnlyOf(s, p.id, p.stream)
    BY <1>9 DEF Truthful
  <2>1. p.stream \in Streams /\ s.port[p.stream] = p.id /\ p.id # NoPort
    BY <1>9, KnowledgeTyped
  <2>2. p.id \in s.used
    BY <2>1, ServerParts DEF PortIds
  <2>3. \A m \in Streams : s.port[m] = p.id => m = p.stream
    BY <2>1, ServerParts
  <2> QED BY <2>2, <2>3 DEF OnlyOf
<1> QED BY <1>2, <1>4, <1>10, <1>11 DEF b

LEMMA SetupKeeps ==
  ASSUME WholeInv, case' = case, Setup
  PROVE  WholeInv' /\ PassKept
<1>1. PICK news \in SetToSeqs(Announced(server)) : known' = Heard(Nothing, news)
  BY DEF Setup
<1>2. /\ phase' = "on" /\ events' = <<>>
      /\ server' = server /\ record' = record /\ outputs' = outputs /\ playing' = playing
  BY DEF Setup, WholeInv, KnownInv, On
<1>3. ServerOK(server)
  BY DEF WholeInv, WorldOK, Now
<1> DEFINE h == [nodes |-> Heard(Nothing, news), ports |-> {}]
<1>4. h.nodes = known' /\ h.ports = {}
  BY <1>1
<1>5. /\ news \in Seq(Event) /\ Nothing \in NodeMaps
      /\ Understands(Begun(Nothing, news), server)
      /\ ~case.reuse => Truthful(Begun(Nothing, news), server)
  BY <1>3, AnnouncedHeard
<1>6. h = [nodes |-> Heard(Nothing, news), ports |-> {}]
  OBVIOUS
<1>7. AsKnown' = h /\ Begun(known, events)' = h
  BY <1>1, <1>2, BegunNothing DEF AsKnown
<1> HIDE DEF h
<1>8. h \in HeardSet /\ Understands(h, server) /\ (~case.reuse => Truthful(h, server))
  BY <1>5, <1>6, SyncedKnows
<1>9. known' \in NodeMaps /\ events' \in Seq(Event)
  BY <1>2, <1>4, <1>8 DEF HeardSet
<1>10. KnownInv'
  BY <1>2, <1>7, <1>8, <1>9, SameCase DEF KnownInv, On
<1>11. WorldOK(Now)'
  BY <1>2, NowOK, WorldReached DEF Now
<1>12. PassKept
  BY <1>2 DEF PassKept
<1> QED BY <1>2, <1>10, <1>11, <1>12 DEF WholeInv

LEMMA DestroyKeeps ==
  ASSUME WholeInv, case' = case, Destroy
  PROVE  WholeInv' /\ PassKept
<1>1. /\ phase' = "off" /\ server' = [server EXCEPT !.links = {}]
      /\ record' = NoRecord /\ known' = Nothing /\ events' = <<>> /\ playing' = 0 /\ outputs' = outputs
  BY DEF Destroy
<1> DEFINE ids == LinkIds(server.links)
           v == [server |-> Deleted(server, ids), record |-> NoRecord]
<1>2. Deleted(server, ids) = server'
  <2>1. {l \in server.links : l.id \notin ids} = {}
    BY DEF LinkIds
  <2> QED BY <2>1, <1>1 DEF Deleted
<1>3. WorldOK(v)
  <2>1. v.server = Deleted(Now.server, ids) /\ v.record = NoRecord
    BY DEF Now
  <2>2. DOMAIN NoRecord = Kinds /\ \A kind \in Kinds : DOMAIN NoRecord[kind] = {}
    BY DEF NoRecord, Nothing
  <2> HIDE DEF v, ids
  <2> QED BY <2>1, <2>2, NowOK, LessOK
<1>4. WorldOK(Now)'
  <2>1. v.server = server' /\ v.record = record'
    BY <1>1, <1>2
  <2> HIDE DEF v
  <2> QED BY <2>1, <1>3, WorldReached
<1>5. AsKnown' = [nodes |-> Nothing, ports |-> {}] /\ Begun(known, events)' = [nodes |-> Nothing, ports |-> {}]
  BY <1>1, BegunNothing DEF AsKnown
<1>6. KnownInv'
  <2>1. \A s : Truthful(AsKnown', s) /\ Truthful(Begun(known, events)', s)
    BY <1>5, NothingKnown
  <2>2. known' \in NodeMaps' /\ events' \in Seq(Event')
    BY <1>1, NothingKnown, SameCase
  <2> QED BY <1>1, <2>1, <2>2 DEF KnownInv, On
<1>7. PassKept
  BY <1>1 DEF PassKept, NoRecord, Nothing, Kinds
<1> QED BY <1>1, <1>4, <1>6, <1>7, BoundsAssumption DEF WholeInv

LEMMA FirstWorld ==
  ASSUME Init
  PROVE  WholeInv
<1> DEFINE T == case.there
           ports == SetToSeq(T)
           N == Cardinality(T)
           port == [n \in Streams |-> IF n \in T THEN CHOOSE i \in DOMAIN ports : ports[i] = n ELSE NoPort]
<1>1. /\ server = [nodes |-> T, links |-> {}, port |-> port,
                   used |-> IF case.reuse THEN {} ELSE DOMAIN ports]
      /\ events = <<>> /\ known = Nothing /\ record = NoRecord
      /\ outputs = {} /\ playing = 0 /\ phase = "off" /\ case \in Cases
  BY DEF Init
<1>2. T \subseteq Streams /\ case.ids \in Nat /\ N <= case.ids
  BY <1>1, BoundsAssumption
<1>3. IsFiniteSet(T)
  BY <1>2, StreamsAssumption, FS_Subset
<1>4. N \in Nat /\ IsFiniteSet(1..N) /\ Cardinality(1..N) = N /\ ExistsBijection(1..N, T)
  BY <1>3, FS_CardinalityType, FS_Interval
<1>5. PICK f \in Bijection(1..N, T) : TRUE
  BY <1>4 DEF ExistsBijection
<1>6. ports \in [1..N -> T] /\ IsInjective(ports)
  BY <1>5 DEF Bijection, Injection, SetToSeq
<1>7. ports \in Surjection(1..N, T)
  <2> HIDE DEF ports, N
  <2>1. ports \in Injection(1..N, T)
    BY <1>6 DEF Injection
  <2> QED BY <2>1, <1>3, <1>4, FS_Injection DEF N
<1> HIDE DEF ports, N
<1>8. DOMAIN ports = 1..N /\ 1..N \subseteq Ids
  BY <1>2, <1>4, <1>6 DEF Ids
<1>9. ASSUME NEW n \in T
      PROVE  port[n] \in 1..N /\ ports[port[n]] = n
  <2>1. \E i \in DOMAIN ports : ports[i] = n
    BY <1>7, <1>8 DEF Surjection
  <2>2. port[n] = CHOOSE i \in DOMAIN ports : ports[i] = n
    BY <1>2
  <2> HIDE DEF port, T
  <2> QED BY <2>1, <2>2, <1>8
<1>10. \A n \in Streams \ T : port[n] = NoPort
  OBVIOUS
<1>11. DOMAIN port = Streams /\ port = [n \in Streams |-> port[n]]
  OBVIOUS
<1> HIDE DEF port, T
<1>12. port \in [Streams -> Ids \cup {NoPort}]
  BY <1>8, <1>9, <1>10, <1>11
<1>13. /\ server.nodes = T /\ server.links = {} /\ server.port = port
       /\ server.used = IF case.reuse THEN {} ELSE DOMAIN ports
  BY <1>1
<1>14. server \in ServerSet
  <2>1. (IF case.reuse THEN {} ELSE DOMAIN ports) \subseteq Ids
    BY <1>8
  <2> QED BY <1>1, <1>2, <1>12, <2>1 DEF ServerSet
<1>15. ServerOK(server)
  <2>1. \A n \in Streams : server.port[n] # NoPort => n \in T /\ server.port[n] \in 1..N /\ ports[server.port[n]] = n
    BY <1>9, <1>10, <1>13
  <2>2. \A m, n \in Streams : server.port[m] = server.port[n] /\ server.port[m] # NoPort => m = n
    BY <2>1
  <2>3. LinkIds(server.links) = {} /\ PortIds(server) \subseteq 1..N
    BY <2>1, <1>13 DEF LinkIds, PortIds
  <2>4. ~case.reuse => LinkIds(server.links) \cup PortIds(server) \subseteq server.used
    BY <2>3, <1>8, <1>13
  <2> QED BY <2>1, <2>2, <2>3, <2>4, <1>13, <1>14, ServerMade
<1>16. RecordOK(record) /\ OwnIds(Now)
  BY <1>1 DEF RecordOK, OwnIds, Now, NoRecord, Nothing
<1>17. WorldOK(Now)
  BY <1>13, <1>15, <1>16 DEF WorldOK, Now
<1>18. AsKnown = [nodes |-> Nothing, ports |-> {}] /\ Begun(known, events) = [nodes |-> Nothing, ports |-> {}]
  BY <1>1, BegunNothing DEF AsKnown
<1>19. KnownInv
  <2>1. Truthful(AsKnown, server) /\ Truthful(Begun(known, events), server)
    BY <1>18, NothingKnown
  <2>2. known \in NodeMaps /\ events \in Seq(Event)
    BY <1>1, NothingKnown
  <2> QED BY <1>1, <2>1, <2>2 DEF KnownInv, On
<1> QED BY <1>1, <1>17, <1>19, BoundsAssumption DEF WholeInv

\* WholeInv is inductive, and a step from it takes no link of what stays passed through.
LEMMA WholeInvHolds == Spec => []WholeInv /\ [][PassKept]_vars
<1>1. Init => WholeInv
  BY FirstWorld
<1>2. WholeInv /\ [Next]_<<vars, case>> => WholeInv' /\ (PassKept \/ UNCHANGED vars)
  <2> SUFFICES ASSUME WholeInv, [Next]_<<vars, case>>
               PROVE  WholeInv' /\ (PassKept \/ UNCHANGED vars)
    OBVIOUS
  <2>1. CASE UNCHANGED <<vars, case>> \/ (StopAllRuns /\ case' = case)
    <3>1. case' = case /\ server' = server /\ record' = record /\ known' = known /\ events' = events
          /\ phase' = phase /\ outputs' = outputs /\ playing' \in 0..MaxPlaying
      BY <2>1, BoundsAssumption DEF vars, StopAllRuns, WholeInv
    <3>2. WorldOK(Now)'
      BY <3>1, NowOK, WorldReached DEF Now
    <3>3. KnownInv'
      BY <3>1, SameCase DEF WholeInv, KnownInv, On, AsKnown
    <3>4. PassKept
      BY <3>1 DEF PassKept
    <3> QED BY <2>1, <3>1, <3>2, <3>3, <3>4 DEF WholeInv
  <2>2. CASE Next
    <3>1. case' = case
      BY <2>2 DEF Next
    <3>2. CASE Setup \/ Destroy \/ ListApps
      BY <3>1, <3>2, SetupKeeps, DestroyKeeps, ListAppsKeeps
    <3>3. CASE PlaySound \/ SoundEnds \/ StopSounds
      BY <3>1, <3>3, PlaySoundKeeps, SoundEndsKeeps, StopSoundsKeeps
    <3>4. CASE \E a \in {AppOf[n] : n \in Streams \ Inputs} : StartPassthrough(a) \/ StopPassthrough(a)
      BY <3>1, <3>4, StartPassthroughKeeps, StopPassthroughKeepsRest
    <3>5. CASE \E new \in SUBSET {AppOf[n] : n \in Inputs} : ChangeOutputs(new)
      <4>1. SUBSET {AppOf[n] : n \in Inputs} \subseteq SUBSET Apps
        BY StreamsAssumption
      <4> QED BY <3>1, <3>5, <4>1, ChangeOutputsKeeps
    <3>6. CASE \E n \in Streams : NodeAppears(n) \/ NodeGoes(n) \/ PortAppears(n) \/ PortGoes(n)
      BY <3>1, <3>6, NodeAppearsStep, NodeGoesStep, PortAppearsStep, PortGoesStep
    <3> QED BY <2>1, <2>2, <3>1, <3>2, <3>3, <3>4, <3>5, <3>6 DEF Next
  <2> QED BY <2>1, <2>2
<1> QED BY <1>1, <1>2, PTL DEF Spec

\* A stopAll waits in the queue, or it does not.
StoppingTyped == stopping \in BOOLEAN
LEMMA StoppingHolds == Spec => []StoppingTyped
<1>1. Init => StoppingTyped
  BY DEF Init, StoppingTyped
<1>2. StoppingTyped /\ [Next]_<<vars, case>> => StoppingTyped'
  <2> SUFFICES ASSUME stopping \in BOOLEAN, [Next]_<<vars, case>>
               PROVE  stopping' \in BOOLEAN
    BY DEF StoppingTyped
  <2>1. CASE Setup \/ Destroy \/ ListApps
    BY <2>1 DEF Setup, Destroy, ListApps
  <2>2. CASE PlaySound \/ SoundEnds \/ StopSounds \/ StopAllRuns
    BY <2>2 DEF PlaySound, SoundEnds, StopSounds, StopAllRuns
  <2>3. CASE \E a \in {AppOf[n] : n \in Streams \ Inputs} : StartPassthrough(a) \/ StopPassthrough(a)
    BY <2>3 DEF StartPassthrough, StopPassthrough
  <2>4. CASE \E new \in SUBSET {AppOf[n] : n \in Inputs} : ChangeOutputs(new)
    BY <2>4 DEF ChangeOutputs
  <2>5. CASE \E n \in Streams : NodeAppears(n) \/ NodeGoes(n) \/ PortAppears(n) \/ PortGoes(n)
    BY <2>5 DEF NodeAppears, NodeGoes, PortAppears, PortGoes, Announces
  <2>6. CASE UNCHANGED <<vars, case>>
    BY <2>6 DEF vars
  <2> QED BY <2>1, <2>2, <2>3, <2>4, <2>5, <2>6 DEF Next
<1> QED BY <1>1, <1>2, PTL DEF Spec

\* Sound goes to the applications chosen and comes from the one passed through, however
\* far the map of nodes is behind the server's: while ids are not given again, an id the
\* backend holds for a stream is never that of another stream's port.
THEOREM LinksFindTheirApp == Spec => []LinksReachTheirApp
<1>1. WholeInv => LinksReachTheirApp
  BY DEF WholeInv, WorldOK, Now, Reaches, LinksReachTheirApp
<1> QED BY <1>1, WholeInvHolds, PTL

\* Whatever the order of the announcements, and though every handler of one runs inside
\* that of the one before: when all are heard, every node there is is known, with its port.
THEOREM NewsIsUnderstood == Spec => []KnowledgeInv
<1>1. WholeInv /\ StoppingTyped => KnowledgeInv
  <2> SUFFICES ASSUME WholeInv, StoppingTyped PROVE TypeOK /\ NewsUnderstood
    BY DEF KnowledgeInv
  <2>1. TypeOK
    <3>1. ServerOK(server) /\ RecordOK(record)
      BY DEF WholeInv, WorldOK, Now
    <3>2. DOMAIN known \subseteq Streams /\ \A n \in DOMAIN known : known[n] \subseteq Ids
      BY NodeMapParts DEF WholeInv, KnownInv
    <3>3. \A kind \in Kinds : IdsOf(record[kind]) \subseteq Ids
      BY <3>1 DEF RecordOK, IdsOf
    <3>4. /\ DOMAIN record = Kinds /\ \A kind \in Kinds : DOMAIN record[kind] \subseteq Apps
      BY <3>1 DEF RecordOK
    <3> QED BY <3>1, <3>2, <3>3, <3>4 DEF WholeInv, KnownInv, TypeOK, StoppingTyped
  <2>2. NewsUnderstood
    <3> SUFFICES ASSUME On, events = <<>>
                 PROVE  /\ DOMAIN known = server.nodes
                        /\ \A n \in server.nodes : server.port[n] # NoPort => server.port[n] \in known[n]
      BY DEF NewsUnderstood
    <3> DEFINE h == [nodes |-> known, ports |-> {}]
    <3>1. Understands(h, server)
      BY BegunNothing DEF WholeInv, KnownInv
    <3>2. h.nodes = known /\ \A n : Pending(h, n) = {}
      BY DEF Pending
    <3> HIDE DEF h
    <3> QED BY <3>1, <3>2 DEF Understands
  <2> QED BY <2>1, <2>2
<1> QED BY <1>1, WholeInvHolds, StoppingHolds, PTL

\* While ids are not given again, an application that stays passed through keeps its links
\* as long as its ports: no stop of sounds, inputs or another passthrough takes them, and
\* nothing but a port's end.
THEOREM PassthroughIsKept == Spec => PassthroughKept
<1>1. PassKept = (~case.reuse => \A l \in server.links :
                    l.kind = "pass" /\ l.app \in DOMAIN record'["pass"] /\ l.port \in PortIds(server')
                      => l \in server'.links)
  BY DEF PassKept
<1> QED BY WholeInvHolds, PTL DEF PassthroughKept, PassKept
================================================================================
