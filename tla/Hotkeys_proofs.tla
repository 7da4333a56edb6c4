----------------------------- MODULE Hotkeys_proofs -----------------------------
(***************************************************************************)
(* Proofs about Hotkeys, for any keys, sounds, configurations and number   *)
(* of plays, and for calls that cross in any way: the program lets go of   *)
(* its keys, but for those the code is known to forget; the listener knows *)
(* what the user holds; the search finds the best hotkey; and the          *)
(* program's own keys call for nothing while calls do not cross.           *)
(***************************************************************************)
EXTENDS Hotkeys, FiniteSetTheorems, SequenceTheorems, WellFoundedInduction, TLAPS

\* What a call has left to do: a stop of the sounds comes before a release of the keys,
\* pressing keys comes before opening a sound.
Shaped(q) ==
  \A i \in 1..Len(q) :
    /\ q[i] = "silence" => i < Len(q) /\ q[i + 1] = "release"
    /\ q[i] \in {"press", "down"} => q[Len(q)] = "open"

Numbered == opened \in Nat /\ playing \subseteq 1..opened /\ ending \in 0..opened
Calls == todo \in [Threads -> Seq(Steps)] /\ \A t \in Threads : Shaped(todo[t])
HeldInv == Numbered /\ Calls /\ KeysAreExplained

-------------------------------------------------------------------------------
(* Sequences of steps *)

LEMMA InToSet ==
  ASSUME NEW S, NEW q \in Seq(S), NEW i \in 1..Len(q)
  PROVE  q[i] \in ToSet(q)
BY DEF ToSet

LEMMA ToSetTail ==
  ASSUME NEW S, NEW q \in Seq(S), q # <<>>
  PROVE  /\ Tail(q) \in Seq(S) /\ Head(q) \in ToSet(q)
         /\ \A x \in ToSet(q) : x = Head(q) \/ x \in ToSet(Tail(q))
<1>1. Len(q) \in Nat \ {0} /\ Len(Tail(q)) = Len(q) - 1
      /\ \A i \in 1..Len(Tail(q)) : Tail(q)[i] = q[i + 1]
  OBVIOUS
<1>2. ASSUME NEW i \in 1..Len(q) PROVE q[i] = Head(q) \/ q[i] \in ToSet(Tail(q))
  <2>1. CASE i = 1
    BY <2>1
  <2>2. CASE i # 1
    <3>1. i - 1 \in 1..Len(Tail(q)) /\ Tail(q)[i - 1] = q[i]
      BY <2>2, <1>1
    <3> QED BY <3>1 DEF ToSet
  <2> QED BY <2>1, <2>2
<1> QED BY <1>1, <1>2 DEF ToSet

LEMMA ShapedTail ==
  ASSUME NEW q \in Seq(Steps), q # <<>>, Shaped(q)
  PROVE  /\ Shaped(Tail(q))
         /\ Head(q) = "silence" => "release" \in ToSet(Tail(q))
         /\ Head(q) \in {"press", "down"} => "open" \in ToSet(Tail(q))
<1>0. Tail(q) \in Seq(Steps)
  OBVIOUS
<1>1. /\ Len(q) \in Nat \ {0} /\ Len(Tail(q)) = Len(q) - 1
      /\ \A i \in 1..Len(Tail(q)) : Tail(q)[i] = q[i + 1]
      /\ Head(q) = q[1]
  OBVIOUS
<1>2. Shaped(Tail(q))
  <2> SUFFICES ASSUME NEW i \in 1..Len(Tail(q))
               PROVE  /\ Tail(q)[i] = "silence" => i < Len(Tail(q)) /\ Tail(q)[i + 1] = "release"
                      /\ Tail(q)[i] \in {"press", "down"} => Tail(q)[Len(Tail(q))] = "open"
    BY DEF Shaped
  <2>1. i + 1 \in 1..Len(q) /\ Tail(q)[i] = q[i + 1] /\ Tail(q)[Len(Tail(q))] = q[Len(q)]
    BY <1>1
  <2>2. ASSUME Tail(q)[i] = "silence" PROVE i < Len(Tail(q)) /\ Tail(q)[i + 1] = "release"
    <3>1. i + 1 < Len(q) /\ q[i + 1 + 1] = "release"
      BY <2>1, <2>2 DEF Shaped
    <3> QED BY <3>1, <1>1
  <2> QED BY <2>1, <2>2 DEF Shaped
<1>3. ASSUME Head(q) = "silence" PROVE "release" \in ToSet(Tail(q))
  <2>1. 1 < Len(q) /\ q[2] = "release"
    BY <1>1, <1>3 DEF Shaped
  <2>2. 1 \in 1..Len(Tail(q)) /\ Tail(q)[1] = "release"
    BY <2>1, <1>1
  <2> QED BY <2>2, <1>0, InToSet
<1>4. ASSUME Head(q) \in {"press", "down"} PROVE "open" \in ToSet(Tail(q))
  <2>1. q[Len(q)] = "open" /\ Len(q) # 1
    BY <1>1, <1>4 DEF Shaped
  <2>2. Len(q) - 1 \in 1..Len(Tail(q)) /\ Tail(q)[Len(q) - 1] = "open"
    BY <2>1, <1>1
  <2> QED BY <2>2, <1>0, InToSet
<1> QED BY <1>2, <1>3, <1>4

\* A call goes on to a second half of the step it was at.
LEMMA ShapedCons ==
  ASSUME NEW q \in Seq(Steps), Shaped(q), NEW x \in {"up", "down"},
         x = "down" => q # <<>> /\ q[Len(q)] = "open"
  PROVE  /\ <<x>> \o q \in Seq(Steps) /\ Shaped(<<x>> \o q)
         /\ x \in ToSet(<<x>> \o q) /\ ToSet(q) \subseteq ToSet(<<x>> \o q)
<1> DEFINE r == <<x>> \o q
<1>1. /\ r \in Seq(Steps) /\ Len(r) = Len(q) + 1 /\ Len(q) \in Nat /\ r[1] = x
      /\ \A i \in 1..Len(q) : r[i + 1] = q[i]
  BY DEF Steps
<1>2. Shaped(r)
  <2> SUFFICES ASSUME NEW i \in 1..Len(r)
               PROVE  /\ r[i] = "silence" => i < Len(r) /\ r[i + 1] = "release"
                      /\ r[i] \in {"press", "down"} => r[Len(r)] = "open"
    BY DEF Shaped
  <2>1. CASE i = 1
    BY <2>1, <1>1
  <2>2. CASE i # 1
    <3>1. /\ i - 1 \in 1..Len(q) /\ r[i] = q[i - 1] /\ Len(q) > 0
          /\ r[Len(r)] = q[Len(q)]
          /\ i - 1 < Len(q) => r[i + 1] = q[i]
      BY <2>2, <1>1
    <3>2. /\ q[i - 1] = "silence" => i - 1 < Len(q) /\ q[i - 1 + 1] = "release"
          /\ q[i - 1] \in {"press", "down"} => q[Len(q)] = "open"
      BY <3>1 DEF Shaped
    <3> QED BY <3>1, <3>2, <1>1
  <2> QED BY <2>1, <2>2
<1>3. x \in ToSet(r) /\ ToSet(q) \subseteq ToSet(r)
  <2>1. 1 \in 1..Len(r) /\ \A i \in 1..Len(q) : i + 1 \in 1..Len(r)
    BY <1>1
  <2>2. x \in ToSet(r) /\ \A i \in 1..Len(q) : q[i] \in ToSet(r)
    BY <2>1, <1>1, InToSet
  <2>3. ToSet(q) = {q[i] : i \in 1..Len(q)}
    BY DEF ToSet
  <2> QED BY <2>2, <2>3
<1> QED BY <1>1, <1>2, <1>3

LEMMA ProgramsShaped ==
  /\ Shaped(<<>>) /\ Shaped(PlaySound) /\ PlaySound \in Seq(Steps)
  /\ \A sync \in BOOLEAN : Shaped(StopSounds(sync)) /\ StopSounds(sync) \in Seq(Steps)
<1>1. \A sync \in BOOLEAN : Shaped(StopSounds(sync)) /\ StopSounds(sync) \in Seq(Steps)
  BY DEF StopSounds, Shaped, Steps
<1>2. Shaped(PlaySound) /\ PlaySound \in Seq(Steps)
  <2>1. CASE usage.overlap
    BY <2>1 DEF PlaySound, Shaped, Steps
  <2>2. CASE ~usage.overlap
    BY <2>2 DEF PlaySound, Shaped, Steps
  <2> QED BY <2>1, <2>2
<1>3. Shaped(<<>>)
  BY DEF Shaped
<1> QED BY <1>1, <1>2, <1>3

-------------------------------------------------------------------------------
(* What a step does to the calls in progress *)

LEMMA CallBegins ==
  ASSUME Calls, NEW t \in Threads, todo[t] = <<>>,
         NEW steps \in Seq(Steps), Shaped(steps), Runs(t, steps)
  PROVE  /\ Calls' /\ \A x : Has(x) => Has(x)'
         /\ \A x \in ToSet(steps) : Has(x)'
<1>1. /\ todo' \in [Threads -> Seq(Steps)] /\ todo'[t] = steps
      /\ \A r \in Threads \ {t} : todo'[r] = todo[r]
  BY DEF Calls, Runs
<1>2. ToSet(todo[t]) = {}
  BY DEF ToSet
<1> QED BY <1>1, <1>2 DEF Calls, Has

LEMMA CallContinues ==
  ASSUME Calls, NEW t \in Threads, todo[t] # <<>>, Continues(t)
  PROVE  /\ Calls' /\ \A x : Has(x) /\ x # Head(todo[t]) => Has(x)'
         /\ Head(todo[t]) = "silence" => Has("release")'
         /\ Head(todo[t]) \in {"press", "down"} => Has("open")'
<1>1. /\ todo[t] \in Seq(Steps) /\ Shaped(todo[t])
      /\ \A r \in Threads \ {t} : todo'[r] = todo[r]
      /\ todo'[t] = Tail(todo[t])
  BY DEF Calls, Continues, Rest
<1>2. /\ Tail(todo[t]) \in Seq(Steps) /\ Shaped(Tail(todo[t]))
      /\ \A x \in ToSet(todo[t]) : x = Head(todo[t]) \/ x \in ToSet(Tail(todo[t]))
      /\ Head(todo[t]) = "silence" => "release" \in ToSet(Tail(todo[t]))
      /\ Head(todo[t]) \in {"press", "down"} => "open" \in ToSet(Tail(todo[t]))
  BY <1>1, ToSetTail, ShapedTail
<1>3. todo' \in [Threads -> Seq(Steps)]
  BY <1>2 DEF Calls, Continues, Rest
<1> QED BY <1>1, <1>2, <1>3 DEF Calls, Has

LEMMA NonEmpty ==
  ASSUME NEW S, NEW q \in Seq(S), Len(q) # 0
  PROVE  q # <<>>
OBVIOUS

LEMMA CallSplits ==
  ASSUME Calls, NEW t \in Threads, todo[t] # <<>>, NEW x \in {"up", "down"},
         Runs(t, <<x>> \o Rest(t)), x = "down" => Head(todo[t]) = "press"
  PROVE  /\ Calls' /\ Has(x)' /\ \A y : Has(y) /\ y # Head(todo[t]) => Has(y)'
         /\ Head(todo[t]) = "press" => Has("open")'
<1> DEFINE q == Tail(todo[t])
<1>1. /\ todo[t] \in Seq(Steps) /\ Shaped(todo[t])
      /\ \A r \in Threads \ {t} : todo'[r] = todo[r]
      /\ todo'[t] = <<x>> \o q
  BY DEF Calls, Runs, Rest
<1>2. /\ q \in Seq(Steps) /\ Shaped(q)
      /\ \A y \in ToSet(todo[t]) : y = Head(todo[t]) \/ y \in ToSet(q)
      /\ Head(todo[t]) = "press" => "open" \in ToSet(q)
  BY <1>1, ToSetTail, ShapedTail
<1>3. x = "down" => q # <<>> /\ q[Len(q)] = "open"
  <2> SUFFICES ASSUME x = "down" PROVE q # <<>> /\ q[Len(q)] = "open"
    OBVIOUS
  <2>1. /\ Len(todo[t]) \in Nat \ {0} /\ Head(todo[t]) = todo[t][1]
        /\ Len(q) = Len(todo[t]) - 1 /\ \A i \in 1..Len(q) : q[i] = todo[t][i + 1]
    BY <1>1
  <2>2. todo[t][Len(todo[t])] = "open" /\ Len(todo[t]) # 1
    BY <2>1, <1>1 DEF Shaped
  <2>3. Len(q) \in 1..Len(q) /\ Len(q) + 1 = Len(todo[t])
    BY <2>1, <2>2
  <2>4. q[Len(q)] = todo[t][Len(q) + 1]
    BY <2>1, <2>3
  <2>5. q # <<>>
    <3> HIDE DEF q
    <3>1. Len(q) \in Nat
      BY <1>2
    <3>2. Len(q) # 0
      BY <3>1, <2>3
    <3> QED BY <1>2, <3>2, NonEmpty
  <2> QED BY <2>2, <2>3, <2>4, <2>5
<1>4. /\ <<x>> \o q \in Seq(Steps) /\ Shaped(<<x>> \o q)
      /\ x \in ToSet(<<x>> \o q) /\ ToSet(q) \subseteq ToSet(<<x>> \o q)
  BY <1>2, <1>3, ShapedCons
<1>5. todo' \in [Threads -> Seq(Steps)]
  BY <1>4 DEF Calls, Runs, Rest
<1> HIDE DEF q
<1> QED BY <1>1, <1>2, <1>4, <1>5 DEF Calls, Has

-------------------------------------------------------------------------------
(* The invariant *)

\* A step that presses nothing and takes no reason away.
LEMMA StillExplained ==
  ASSUME KeysAreExplained, ptt' = ptt, keysToPress' = keysToPress, ownDown' \subseteq ownDown,
         strayed \subseteq strayed', Reason => Reason', Has("up") => Has("up")'
  PROVE  KeysAreExplained'
BY DEF KeysAreExplained

LEMMA HeldInit == Init => HeldInv
<1> SUFFICES ASSUME Init PROVE HeldInv
  OBVIOUS
<1>1. Numbered
  BY DEF Init, Numbered
<1>2. Calls
  <2>1. todo = [t \in Threads |-> <<>>] /\ <<>> \in Seq(Steps)
    BY DEF Init
  <2> QED BY <2>1, ProgramsShaped DEF Calls
<1>3. ToSet(keysToPress) = {} /\ ownDown = {}
  BY DEF Init, ToSet
<1> QED BY <1>1, <1>2, <1>3 DEF HeldInv, KeysAreExplained

\* The user and the listener.
LEMMA HeldUser ==
  ASSUME HeldInv, UserNext
  PROVE  HeldInv'
<1>1. /\ ownDown' \subseteq ownDown
      /\ UNCHANGED <<keysToPress, strayed, ptt, todo, playing, opened, ending>>
  BY DEF UserNext, UserPresses, KeyRepeats, UserReleases, held, config, player
<1>2. Numbered' /\ Calls'
  BY <1>1 DEF HeldInv, Numbered, Calls
<1>3. (Reason => Reason') /\ (Has("up") => Has("up")')
  BY <1>1 DEF Reason, Has
<1> QED BY <1>1, <1>2, <1>3, StillExplained DEF HeldInv

LEMMA HeldListen ==
  ASSUME HeldInv, Listen
  PROVE  HeldInv'
<1>1. UNCHANGED <<keysToPress, ownDown, strayed, ptt, playing, opened, ending>>
  BY DEF Listen, held
<1>2. todo["listener"] = <<>> /\ "listener" \in Threads
  BY DEF Listen, MayListen, Threads
<1>3. \/ todo' = todo
      \/ Runs("listener", PlaySound)
      \/ Runs("listener", StopSounds(FALSE))
  <2> DEFINE e == Head(events)
  <2>1. CASE e.kind = "release"
    BY <2>1 DEF Listen, OnKeyUp
  <2>2. CASE OnKeyDown(e.key, e.by)
    BY <2>2 DEF OnKeyDown
  <2> QED BY <2>1, <2>2 DEF Listen
<1>4. Calls' /\ \A x : Has(x) => Has(x)'
  <2>1. CASE todo' = todo
    BY <2>1 DEF HeldInv, Calls, Has
  <2>2. CASE Runs("listener", PlaySound)
    BY <2>2, <1>2, CallBegins, ProgramsShaped DEF HeldInv
  <2>3. CASE Runs("listener", StopSounds(FALSE))
    BY <2>3, <1>2, CallBegins, ProgramsShaped DEF HeldInv
  <2> QED BY <1>3, <2>1, <2>2, <2>3
<1>5. Numbered'
  BY <1>1 DEF HeldInv, Numbered
<1>6. Reason => Reason'
  BY <1>1, <1>4 DEF Reason
<1> QED BY <1>1, <1>4, <1>5, <1>6, StillExplained DEF HeldInv

\* pressKeys and releaseKeys.
LEMMA HeldPress ==
  ASSUME HeldInv, NEW t \in Threads, Press(t)
  PROVE  HeldInv'
<1>1. /\ todo[t] # <<>> /\ Head(todo[t]) = "press"
      /\ UNCHANGED <<ownDown, strayed, ptt, playing, opened, ending>>
  BY DEF Press, At, config, player
<1>2. Calls' /\ Has("open")' /\ (Has("up") => Has("up")')
  <2>1. CASE Runs(t, Rest(t))
    BY <2>1, <1>1, CallContinues DEF HeldInv, Runs, Continues
  <2>2. CASE Runs(t, <<"down">> \o Rest(t))
    BY <2>2, <1>1, CallSplits DEF HeldInv
  <2> QED BY <2>1, <2>2 DEF Press
<1>3. Numbered'
  BY <1>1 DEF HeldInv, Numbered
<1>4. KeysAreExplained'
  <2>1. Reason'
    BY <1>2 DEF Reason
  <2>2. keysToPress' = keysToPress \/ keysToPress' = ptt
    BY DEF Press
  <2> QED BY <2>1, <2>2, <1>1 DEF HeldInv, KeysAreExplained
<1> QED BY <1>2, <1>3, <1>4 DEF HeldInv

LEMMA HeldPostPresses ==
  ASSUME HeldInv, NEW t \in Threads, PostPresses(t)
  PROVE  HeldInv'
<1>1. /\ todo[t] # <<>> /\ Head(todo[t]) = "down" /\ Continues(t)
      /\ ownDown' = ownDown \cup ToSet(ptt)
      /\ UNCHANGED <<keysToPress, strayed, ptt, playing, opened, ending>>
  BY DEF PostPresses, At, config, player
<1>2. Calls' /\ Has("open")'
  BY <1>1, CallContinues DEF HeldInv
<1>3. Reason'
  BY <1>2 DEF Reason
<1> QED BY <1>1, <1>2, <1>3 DEF HeldInv, Numbered, KeysAreExplained

LEMMA HeldRelease ==
  ASSUME HeldInv, NEW t \in Threads, Release(t)
  PROVE  HeldInv'
<1>1. /\ todo[t] # <<>> /\ Head(todo[t]) = "release"
      /\ UNCHANGED <<ownDown, strayed, ptt, playing, opened, ending>>
  BY DEF Release, At, config, player
<1>2. Numbered'
  BY <1>1 DEF HeldInv, Numbered
<1>3. ToSet(<<>>) = {}
  BY DEF ToSet
<1>4. CASE ptt = <<>>
  <2>1. Continues(t) /\ keysToPress' = keysToPress
    BY <1>4 DEF Release, Runs, Continues
  <2>2. Calls'
    BY <2>1, <1>1, CallContinues DEF HeldInv
  <2>3. (ownDown \cup ToSet(keysToPress)) \ strayed = {}
    BY <1>3, <1>4 DEF HeldInv, KeysAreExplained
  <2> QED BY <1>1, <1>2, <2>1, <2>2, <2>3 DEF HeldInv, KeysAreExplained
<1>5. CASE ptt # <<>>
  <2>1. Runs(t, <<"up">> \o Rest(t)) /\ keysToPress' = <<>>
    BY <1>5 DEF Release
  <2>2. Calls' /\ Has("up")'
    BY <2>1, <1>1, CallSplits DEF HeldInv
  <2>3. ToSet(keysToPress') = {}
    BY <1>3, <2>1
  <2> QED BY <1>1, <1>2, <2>2, <2>3 DEF HeldInv, KeysAreExplained
<1> QED BY <1>4, <1>5

LEMMA HeldPostReleases ==
  ASSUME HeldInv, NEW t \in Threads, PostReleases(t)
  PROVE  HeldInv'
<1>1. /\ todo[t] # <<>> /\ Head(todo[t]) = "up" /\ Continues(t)
      /\ ownDown' = ownDown \ ToSet(ptt)
      /\ strayed' = strayed \ (ToSet(ptt) \ ToSet(keysToPress))
      /\ UNCHANGED <<keysToPress, ptt, playing, opened, ending>>
  BY DEF PostReleases, At, config, player
<1>2. Calls' /\ (Reason => Reason')
  <2>1. Calls' /\ \A x : Has(x) /\ x # "up" => Has(x)'
    BY <1>1, CallContinues DEF HeldInv
  <2> QED BY <2>1, <1>1 DEF Reason
<1>3. ownDown' \ strayed' = {}
  BY <1>1 DEF HeldInv, KeysAreExplained
<1>4. ToSet(keysToPress') \ strayed' \subseteq ToSet(keysToPress) \ strayed
  BY <1>1
<1> QED BY <1>1, <1>2, <1>3, <1>4 DEF HeldInv, Numbered, KeysAreExplained

\* What is done to the sounds.
LEMMA HeldSounds ==
  ASSUME HeldInv, NEW t \in Threads, Silence(t) \/ QueueStop(t) \/ Erase(t)
  PROVE  HeldInv'
<1>1. /\ todo[t] # <<>> /\ Continues(t) /\ opened' = opened
      /\ UNCHANGED <<keysToPress, ownDown, strayed, ptt>>
  BY DEF Silence, QueueStop, Erase, At, held, config
<1>2. Calls' /\ \A x : Has(x) /\ x # Head(todo[t]) => Has(x)'
  BY <1>1, CallContinues DEF HeldInv
<1>3. Numbered' /\ (Reason => Reason') /\ (Has("up") => Has("up")')
  <2>1. CASE Silence(t)
    <3>1. /\ Head(todo[t]) = "silence" /\ playing' = {} /\ ending' = ending
      BY <2>1 DEF Silence, At
    <3>2. Has("release")'
      BY <3>1, <1>1, CallContinues DEF HeldInv
    <3> QED BY <3>1, <3>2, <1>1, <1>2 DEF HeldInv, Numbered, Reason
  <2>2. CASE QueueStop(t)
    <3>1. /\ Head(todo[t]) = "stopLater" /\ playing' = playing /\ ending' = ending
      BY <2>2 DEF QueueStop, At
    <3> QED BY <3>1, <1>1, <1>2 DEF HeldInv, Numbered, Reason
  <2>3. CASE Erase(t)
    <3>1. /\ Head(todo[t]) = "ended" /\ playing' = playing \ {ending} /\ ending' = 0
      BY <2>3 DEF Erase, At
    <3>2. playing' \ {ending'} = playing \ {ending}
      BY <3>1 DEF HeldInv, Numbered
    <3>3. Numbered'
      BY <3>1, <1>1 DEF HeldInv, Numbered
    <3> QED BY <3>1, <3>2, <3>3, <1>2 DEF Reason
  <2> QED BY <2>1, <2>2, <2>3
<1> QED BY <1>1, <1>2, <1>3, StillExplained DEF HeldInv

LEMMA HeldOpen ==
  ASSUME HeldInv, NEW t \in Threads, Open(t)
  PROVE  HeldInv'
<1>1. /\ todo[t] # <<>> /\ Head(todo[t]) = "open" /\ Continues(t)
      /\ UNCHANGED <<keysToPress, ownDown, ptt, ending>>
  BY DEF Open, At, config
<1>2. Calls' /\ \A x : Has(x) /\ x # "open" => Has(x)'
  BY <1>1, CallContinues DEF HeldInv
<1>3. CASE opened' = opened + 1 /\ playing' = playing \cup {opened + 1} /\ strayed' = strayed
  <2>1. Numbered'
    BY <1>1, <1>3 DEF HeldInv, Numbered
  <2>2. Reason'
    BY <1>1, <1>3 DEF HeldInv, Numbered, Reason
  <2> QED BY <1>1, <1>2, <1>3, <2>1, <2>2 DEF HeldInv, KeysAreExplained
<1>4. CASE /\ UNCHANGED <<opened, playing>>
           /\ strayed' = IF playing \subseteq {ending} THEN Abandoned ELSE strayed
  <2>1. Numbered'
    BY <1>1, <1>4 DEF HeldInv, Numbered
  <2>2. CASE playing \subseteq {ending}
    BY <1>1, <1>2, <1>4, <2>1, <2>2 DEF HeldInv, KeysAreExplained, Abandoned
  <2>3. CASE ~(playing \subseteq {ending})
    BY <1>1, <1>2, <1>4, <2>1, <2>3 DEF HeldInv, KeysAreExplained, Reason
  <2> QED BY <2>2, <2>3
<1> QED BY <1>3, <1>4 DEF Open

\* keyPressThread.
LEMMA HeldKeyPressThread ==
  ASSUME HeldInv, StartRound \/ PressNext
  PROVE  HeldInv'
<1>1. /\ UNCHANGED <<todo, keysToPress, ptt, playing, opened, ending>>
      /\ \/ ownDown' = ownDown /\ strayed' = strayed
         \/ \E k : /\ ownDown' = ownDown \cup {k}
                   /\ strayed' = IF k \in ToSet(keysToPress) THEN strayed ELSE strayed \cup {k}
  BY DEF StartRound, PressNext, config, player
<1>2. Numbered' /\ Calls' /\ (Reason => Reason') /\ (Has("up") => Has("up")')
  BY <1>1 DEF HeldInv, Numbered, Calls, Reason, Has
<1>3. KeysAreExplained'
  BY <1>1, <1>2 DEF HeldInv, KeysAreExplained
<1> QED BY <1>2, <1>3 DEF HeldInv

\* A call of the window begins, or a setting changes.
LEMMA HeldWindow ==
  ASSUME HeldInv, WindowNext
  PROVE  HeldInv'
<1>1. Numbered' /\ (Calls' /\ (\A x : Has(x) => Has(x)') => (Reason => Reason'))
  BY DEF HeldInv, Numbered, Reason, WindowNext, WindowPlays, WindowStops, SettingsChange, ViewChanges,
         RequestHotkey, SetHotkey, Forget, SetNotify, player
<1>2. CASE WindowPlays \/ WindowStops \/ RequestHotkey
  <2>1. /\ todo["window"] = <<>> /\ "window" \in Threads
        /\ UNCHANGED <<keysToPress, ownDown, strayed, ptt>>
    BY <1>2 DEF WindowPlays, WindowStops, RequestHotkey, MayCall, Threads, held, config
  <2>2. \E steps \in Seq(Steps) : Shaped(steps) /\ Runs("window", steps)
    <3>1. CASE RequestHotkey
      <4> DEFINE steps == <<"forget", IF notify THEN "endRecord" ELSE "record">>
      <4>1. steps \in Seq(Steps) /\ Shaped(steps)
        BY DEF Steps, Shaped
      <4> QED BY <3>1, <4>1 DEF RequestHotkey
    <3> QED BY <1>2, <3>1, ProgramsShaped DEF WindowPlays, WindowStops
  <2>3. Calls' /\ \A x : Has(x) => Has(x)'
    BY <2>1, <2>2, CallBegins DEF HeldInv
  <2> QED BY <2>1, <2>3, <1>1, StillExplained DEF HeldInv
<1>3. CASE Forget \/ SetNotify
  <2>1. /\ UNCHANGED <<keysToPress, ownDown, strayed, ptt, playing, opened, ending>>
        /\ todo["window"] # <<>> /\ "window" \in Threads /\ Continues("window")
        /\ Head(todo["window"]) \in {"forget", "record", "endRecord"}
    BY <1>3 DEF Forget, SetNotify, At, held, config, player, Threads
  <2>2. Calls' /\ \A x : Has(x) /\ x # Head(todo["window"]) => Has(x)'
    BY <2>1, CallContinues DEF HeldInv
  <2>3. (Reason => Reason') /\ (Has("up") => Has("up")')
    BY <2>1, <2>2 DEF Reason
  <2> QED BY <2>1, <2>2, <2>3, <1>1, StillExplained DEF HeldInv
<1>4. CASE SettingsChange
  <2>1. /\ UNCHANGED <<keysToPress, ownDown, todo>>
        /\ ownDown \cup ToSet(keysToPress) \subseteq strayed'
    BY <1>4 DEF SettingsChange, Abandoned
  <2> QED BY <2>1, <1>1 DEF HeldInv, Calls, KeysAreExplained
<1>5. CASE ViewChanges \/ \E s \in Sounds : SetHotkey(s)
  <2>1. UNCHANGED <<keysToPress, ownDown, strayed, ptt, playing, opened, ending, todo>>
    BY <1>5 DEF ViewChanges, SetHotkey, held, player
  <2>2. Calls' /\ (Reason => Reason') /\ (Has("up") => Has("up")')
    BY <2>1 DEF HeldInv, Calls, Reason, Has
  <2> QED BY <2>1, <2>2, <1>1, StillExplained DEF HeldInv
<1> QED BY <1>2, <1>3, <1>4, <1>5 DEF WindowNext

\* A sound ends, or the queued stopAll runs.
LEMMA HeldQueue ==
  ASSUME HeldInv, QueueNext
  PROVE  HeldInv'
<1>1. CASE StopAllRuns
  <2>1. /\ UNCHANGED <<todo, keysToPress, ownDown, ptt, opened, ending>> /\ playing' = {}
        /\ strayed' = IF playing # {} THEN Abandoned ELSE strayed
    BY <1>1 DEF StopAllRuns, config
  <2>2. Numbered' /\ Calls'
    BY <2>1 DEF HeldInv, Numbered, Calls
  <2>3. CASE playing = {}
    <3>1. (Reason => Reason') /\ (Has("up") => Has("up")')
      BY <2>1, <2>3 DEF Reason, Has
    <3> QED BY <2>1, <2>2, <2>3, <3>1, StillExplained DEF HeldInv
  <2>4. CASE playing # {}
    BY <2>1, <2>2, <2>4 DEF HeldInv, KeysAreExplained, Abandoned
  <2> QED BY <2>3, <2>4
<1>2. ASSUME NEW s \in playing, SoundEnds(s) PROVE HeldInv'
  <2>1. /\ todo["queue"] = <<>> /\ "queue" \in Threads /\ ending' = s
        /\ UNCHANGED <<keysToPress, ownDown, strayed, ptt, playing, opened>>
    BY <1>2 DEF SoundEnds, MayCall, Threads, held, config
  <2> DEFINE steps == IF playing = {s} THEN <<"release", "ended">> ELSE <<"ended">>
  <2>2. /\ steps \in Seq(Steps) /\ Shaped(steps) /\ Runs("queue", steps)
        /\ playing = {s} => "release" \in ToSet(steps)
    <3>1. CASE playing = {s}
      <4>1. <<"release", "ended">>[1] = "release" /\ 1 \in 1..Len(<<"release", "ended">>)
        OBVIOUS
      <4>2. <<"release", "ended">> \in Seq(Steps)
        BY DEF Steps
      <4>3. "release" \in ToSet(<<"release", "ended">>)
        BY <4>1, <4>2, InToSet
      <4> QED BY <1>2, <3>1, <4>2, <4>3 DEF SoundEnds, Shaped
    <3>2. CASE playing # {s}
      BY <1>2, <3>2 DEF SoundEnds, Steps, Shaped
    <3> QED BY <3>1, <3>2
  <2>3. /\ Calls' /\ \A x : Has(x) => Has(x)'
        /\ playing = {s} => Has("release")'
    <3> HIDE DEF steps
    <3> QED BY <2>1, <2>2, CallBegins DEF HeldInv
  <2>4. Reason'
    BY <2>1, <2>3 DEF Reason
  <2>5. Numbered'
    BY <2>1 DEF HeldInv, Numbered
  <2> QED BY <2>1, <2>3, <2>4, <2>5, StillExplained DEF HeldInv
<1> QED BY <1>1, <1>2 DEF QueueNext

LEMMA HeldStep ==
  ASSUME HeldInv, [Next]_<<vars, usage>>
  PROVE  HeldInv'
<1>1. CASE UNCHANGED <<vars, usage>>
  <2>1. UNCHANGED <<keysToPress, ownDown, strayed, ptt, playing, opened, ending, todo>>
    BY <1>1 DEF vars, held, config, player
  <2> QED BY <2>1 DEF HeldInv, Numbered, Calls, KeysAreExplained, Reason, Has
<1>2. CASE Next
  <2>1. ASSUME NEW t \in Threads, StepOf(t) PROVE HeldInv'
    BY <2>1, HeldPress, HeldPostPresses, HeldRelease, HeldPostReleases, HeldSounds, HeldOpen
    DEF StepOf
  <2> QED BY <1>2, <2>1, HeldUser, HeldListen, HeldWindow, HeldQueue, HeldKeyPressThread DEF Next
<1> QED BY <1>1, <1>2

\* Why any key of the program is down, in every reachable state, however the calls of
\* the listener, the window and the queue cross (hotkeys.cpp, x11.cpp:122-139,
\* windows.cpp:138-157 and their callers).
THEOREM HeldKeysHaveAReason == Spec => []KeysAreExplained
<1>1. HeldInv => KeysAreExplained
  BY DEF HeldInv
<1> QED BY <1>1, HeldInit, HeldStep, PTL DEF Spec

\* Once nothing plays and no call runs the program holds no key, but for those its code
\* forgets: keys of old settings, of a sound that did not open or was silenced late,
\* and on Windows those pressed after their release.
THEOREM KeysGoUp == Spec => []KeysAreLetGo
<1>1. HeldInv => KeysAreLetGo
  <2> SUFFICES ASSUME HeldInv, Idle, playing = {} PROVE ownDown \subseteq strayed
    BY DEF KeysAreLetGo
  <2>1. \A t \in Threads : ToSet(todo[t]) = {}
    BY DEF Idle, ToSet
  <2>2. \A x : ~Has(x)
    BY <2>1 DEF Has
  <2> QED BY <2>2 DEF HeldInv, KeysAreExplained, Reason
<1> QED BY <1>1, HeldInit, HeldStep, PTL DEF Spec

LEMMA SetOfAllNumbers ==
  ASSUME NEW T, 0 \in T, \A n \in Nat : n \in T => n + 1 \in T
  PROVE  Nat \subseteq T
<1> DEFINE R == OpToRel(<, Nat)
           M == Nat \ T
<1>1. IsWellFoundedOn(R, Nat)
  BY NatLessThanWellFounded
<1>2. \A x, y \in Nat : x < y => <<x, y>> \in R
  BY DEF OpToRel
<1> HIDE DEF R
<1>3. ASSUME M # {}
      PROVE  FALSE
  <2>1. PICK x \in M : \A y \in M : ~(<<y, x>> \in R)
    BY <1>1, <1>3, WFMin
  <2>2. x # 0 /\ x - 1 \in Nat /\ x - 1 < x
    BY <2>1
  <2>3. x - 1 \in T
    BY <2>1, <2>2, <1>2
  <2> QED BY <2>1, <2>2, <2>3
<1> QED BY <1>3

-------------------------------------------------------------------------------
(* The search of getBestMatch: what it has found after each sound of the list *)

\* f is the search through the first n sounds.
Searches(f, n, hotkey, pressed, list) ==
  f = [i \in 0..n |-> IF i = 0 THEN {} ELSE Better(hotkey, pressed, f[i - 1], list[i])]

LEMMA SearchExists ==
  ASSUME NEW hotkey, NEW pressed, NEW list, NEW N \in Nat
  PROVE  \E f : Searches(f, N, hotkey, pressed, list)
<1> DEFINE T == {n \in Nat : \E f : Searches(f, n, hotkey, pressed, list)}
           g == [i \in 0..0 |-> {}]
<1>1. Searches(g, 0, hotkey, pressed, list)
  BY DEF Searches
<1>2. ASSUME NEW n \in Nat, NEW f, Searches(f, n, hotkey, pressed, list)
      PROVE  \E h : Searches(h, n + 1, hotkey, pressed, list)
  <2> DEFINE h == [i \in 0..n + 1 |-> IF i = n + 1 THEN Better(hotkey, pressed, f[n], list[i]) ELSE f[i]]
             k == [i \in 0..n + 1 |-> IF i = 0 THEN {} ELSE Better(hotkey, pressed, h[i - 1], list[i])]
  <2>1. \A i \in 0..n : f[i] = IF i = 0 THEN {} ELSE Better(hotkey, pressed, f[i - 1], list[i])
    BY <1>2 DEF Searches
  <2>2. ASSUME NEW i \in 0..n + 1
        PROVE  h[i] = k[i]
    <3>1. CASE i = 0
      BY <3>1, <2>1
    <3>2. CASE i # 0
      <4>1. i - 1 \in 0..n /\ h[i - 1] = f[i - 1]
        BY <3>2
      <4> QED BY <4>1, <3>2, <2>1
    <3> QED BY <3>1, <3>2
  <2>3. h = k
    BY <2>2
  <2> QED BY <2>3 DEF Searches
<1>3. 0 \in T /\ \A n \in Nat : n \in T => n + 1 \in T
  BY <1>1, <1>2
<1> HIDE DEF T
<1>4. N \in T
  BY <1>3, SetOfAllNumbers
<1> QED BY <1>4 DEF T

\* The sounds, of the first n, whose hotkey is what is pressed, and those whose keys are pressed.
ExactOf(n, hotkey, pressed, list) == {j \in 1..n : hotkey[list[j]] = pressed}
HeldOf(n, hotkey, pressed, list) ==
  {j \in 1..n : hotkey[list[j]] # <<>> /\ IsCloseMatch(pressed, hotkey[list[j]])}

\* What the search has found: the first exact one, or the last of the longest pressed.
Found(best, n, hotkey, pressed, list) ==
  LET E == ExactOf(n, hotkey, pressed, list)
      H == HeldOf(n, hotkey, pressed, list)
      L(j) == Len(hotkey[list[j]]) IN
  /\ E # {} => \E m \in E : best = {list[m]} /\ \A j \in E : m <= j
  /\ E = {} /\ H # {} =>
       \E m \in H : best = {list[m]} /\ \A j \in H : L(j) < L(m) \/ (L(j) = L(m) /\ j <= m)
  /\ H = {} => best = {}

LEMMA FoundNext ==
  ASSUME NEW KK, NEW SS, NEW hotkey \in [SS -> Seq(KK)], NEW pressed \in Seq(KK), pressed # <<>>,
         NEW list \in Seq(SS), NEW n \in Nat, n + 1 <= Len(list),
         NEW best, Found(best, n, hotkey, pressed, list)
  PROVE  Found(Better(hotkey, pressed, best, list[n + 1]), n + 1, hotkey, pressed, list)
<1> DEFINE E == ExactOf(n, hotkey, pressed, list)
           H == HeldOf(n, hotkey, pressed, list)
           F == ExactOf(n + 1, hotkey, pressed, list)
           I == HeldOf(n + 1, hotkey, pressed, list)
           L(j) == Len(hotkey[list[j]])
           new == Better(hotkey, pressed, best, list[n + 1])
           s == list[n + 1]
<1>1. /\ s \in SS /\ hotkey[s] \in Seq(KK) /\ L(n + 1) \in Nat
      /\ \A j \in 1..n : list[j] \in SS /\ L(j) \in Nat
  <2>1. \A j \in 1..n + 1 : list[j] \in SS
    OBVIOUS
  <2>2. \A j \in 1..n + 1 : hotkey[list[j]] \in Seq(KK)
    BY <2>1
  <2>3. \A j \in 1..n + 1 : Len(hotkey[list[j]]) \in Nat
    BY <2>2
  <2>4. n + 1 \in 1..n + 1 /\ 1..n \subseteq 1..n + 1
    OBVIOUS
  <2> QED BY <2>1, <2>2, <2>3, <2>4
<1>2. /\ F = IF hotkey[s] = pressed THEN E \cup {n + 1} ELSE E
      /\ I = IF hotkey[s] # <<>> /\ IsCloseMatch(pressed, hotkey[s]) THEN H \cup {n + 1} ELSE H
      /\ E \subseteq 1..n /\ H \subseteq 1..n
  <2>1. 1..n + 1 = (1..n) \cup {n + 1}
    OBVIOUS
  <2> QED BY <2>1 DEF ExactOf, HeldOf
<1>3. \A x : hotkey[x] = pressed => IsCloseMatch(pressed, hotkey[x]) /\ hotkey[x] # <<>>
  BY DEF IsCloseMatch
<1>4. E \subseteq H
  BY <1>3 DEF ExactOf, HeldOf
<1>5. /\ E # {} => \E m \in E : best = {list[m]} /\ \A j \in E : m <= j
      /\ E = {} /\ H # {} =>
           \E m \in H : best = {list[m]} /\ \A j \in H : L(j) < L(m) \/ (L(j) = L(m) /\ j <= m)
      /\ H = {} => best = {}
  BY DEF Found
<1>6. \A m \in E : hotkey[list[m]] = pressed
  BY DEF ExactOf
<1>7. new = IF \/ \E b \in best : hotkey[b] = pressed
              \/ hotkey[s] = <<>>
              \/ /\ hotkey[s] # pressed
                 /\ \/ \E b \in best : Len(hotkey[b]) > Len(hotkey[s])
                    \/ ~IsCloseMatch(pressed, hotkey[s])
           THEN best ELSE {s}
  BY DEF Better
<1> SUFFICES
      /\ F # {} => \E m \in F : new = {list[m]} /\ \A j \in F : m <= j
      /\ F = {} /\ I # {} =>
           \E m \in I : new = {list[m]} /\ \A j \in I : L(j) < L(m) \/ (L(j) = L(m) /\ j <= m)
      /\ I = {} => new = {}
  BY DEF Found
<1> HIDE DEF E, H, F, I, new, s
<1>8. CASE E # {}
  <2>1. PICK m \in E : best = {list[m]} /\ \A j \in E : m <= j
    BY <1>5, <1>8
  <2>2. new = best
    BY <2>1, <1>6, <1>7
  <2>3. m \in F /\ \A j \in F : m <= j
    BY <2>1, <1>2
  <2>4. I # {}
    BY <1>8, <1>4, <1>2
  <2> QED BY <2>1, <2>2, <2>3, <2>4
<1>9. CASE E = {}
  <2>1. ~\E b \in best : hotkey[b] = pressed
    <3>1. CASE H = {}
      BY <3>1, <1>5
    <3>2. CASE H # {}
      <4>1. PICK m \in H : best = {list[m]}
        BY <3>2, <1>5, <1>9
      <4>2. hotkey[list[m]] # pressed
        BY <1>9, <1>2 DEF E, ExactOf
      <4> QED BY <4>1, <4>2
    <3> QED BY <3>1, <3>2
  <2>2. CASE hotkey[s] = <<>>
    <3>1. F = {} /\ I = H /\ new = best
      BY <2>1, <2>2, <1>2, <1>7, <1>9
    <3> QED BY <3>1, <1>5, <1>9
  <2>3. CASE hotkey[s] = pressed
    <3>1. F = {n + 1} /\ new = {s} /\ I = H \cup {n + 1}
      BY <2>1, <2>3, <1>2, <1>3, <1>7, <1>9
    <3> QED BY <3>1 DEF s
  <2>4. CASE hotkey[s] # <<>> /\ hotkey[s] # pressed
    <3>0. F = {}
      BY <2>4, <1>2, <1>9
    <3>1. CASE \E b \in best : Len(hotkey[b]) > Len(hotkey[s])
      <4>1. new = best
        BY <2>1, <2>4, <3>1, <1>7
      <4>2. H # {}
        BY <3>1, <1>5
      <4>3. PICK m \in H : best = {list[m]} /\ \A j \in H : L(j) < L(m) \/ (L(j) = L(m) /\ j <= m)
        BY <4>2, <1>5, <1>9
      <4>4. L(n + 1) < L(m)
        BY <3>1, <4>3, <1>1, <1>2 DEF s
      <4>5. m \in I /\ \A j \in I : L(j) < L(m) \/ (L(j) = L(m) /\ j <= m)
        BY <4>3, <4>4, <1>2
      <4> QED BY <3>0, <4>1, <4>3, <4>5
    <3>2. CASE ~\E b \in best : Len(hotkey[b]) > Len(hotkey[s])
      <4>1. CASE IsCloseMatch(pressed, hotkey[s])
        <5>1. new = {s} /\ I = H \cup {n + 1}
          BY <2>1, <2>4, <3>2, <4>1, <1>2, <1>7
        <5>2. \A j \in H : L(j) <= L(n + 1) /\ j <= n + 1
          <6>1. SUFFICES ASSUME NEW j \in H PROVE L(j) <= L(n + 1) /\ j <= n + 1
            OBVIOUS
          <6>2. PICK m \in H : best = {list[m]} /\ \A i \in H : L(i) < L(m) \/ (L(i) = L(m) /\ i <= m)
            BY <1>5, <1>9
          <6>3. ~(L(m) > L(n + 1))
            BY <3>2, <6>2 DEF s
          <6>4. j \in 1..n /\ m \in 1..n /\ L(j) \in Nat /\ L(m) \in Nat /\ L(n + 1) \in Nat
            BY <6>2, <1>1, <1>2
          <6>5. L(j) < L(m) \/ L(j) = L(m)
            BY <6>2
          <6> HIDE DEF L
          <6> QED BY <6>3, <6>4, <6>5
        <5>3. \A j \in I : L(j) < L(n + 1) \/ (L(j) = L(n + 1) /\ j <= n + 1)
          <6>1. \A j \in H : L(j) \in Nat
            BY <1>1, <1>2
          <6> HIDE DEF L
          <6> QED BY <5>1, <5>2, <6>1, <1>1
        <5> QED BY <3>0, <5>1, <5>3 DEF s
      <4>2. CASE ~IsCloseMatch(pressed, hotkey[s])
        <5>1. new = best /\ I = H
          BY <2>1, <2>4, <3>2, <4>2, <1>2, <1>7
        <5> QED BY <3>0, <5>1, <1>5, <1>9
      <4> QED BY <4>1, <4>2
    <3> QED BY <3>1, <3>2
  <2> QED BY <2>2, <2>3, <2>4
<1> QED BY <1>8, <1>9

LEMMA SearchFinds ==
  ASSUME NEW KK, NEW SS, NEW hotkey \in [SS -> Seq(KK)], NEW pressed \in Seq(KK), pressed # <<>>,
         NEW list \in Seq(SS)
  PROVE  Found(BestMatch(hotkey, pressed, list), Len(list), hotkey, pressed, list)
<1> DEFINE N == Len(list)
           f == CHOOSE g : Searches(g, N, hotkey, pressed, list)
           T == {n \in Nat : n <= N => Found(f[n], n, hotkey, pressed, list)}
<1>1. N \in Nat
  OBVIOUS
<1>2. Searches(f, N, hotkey, pressed, list)
  BY <1>1, SearchExists
<1>3. BestMatch(hotkey, pressed, list) = f[N]
  BY DEF BestMatch, Searches
<1> HIDE DEF f, N
<1>4. \A i \in 0..N : f[i] = IF i = 0 THEN {} ELSE Better(hotkey, pressed, f[i - 1], list[i])
  BY <1>2 DEF Searches
<1>5. 0 \in T
  <2>1. f[0] = {}
    BY <1>1, <1>4
  <2>2. ExactOf(0, hotkey, pressed, list) = {} /\ HeldOf(0, hotkey, pressed, list) = {}
    BY DEF ExactOf, HeldOf
  <2> QED BY <2>1, <2>2 DEF Found
<1>6. ASSUME NEW n \in Nat, n \in T
      PROVE  n + 1 \in T
  <2> SUFFICES ASSUME n + 1 <= N PROVE Found(f[n + 1], n + 1, hotkey, pressed, list)
    OBVIOUS
  <2>1. Found(f[n], n, hotkey, pressed, list)
    BY <1>1, <1>6
  <2>2. f[n + 1] = Better(hotkey, pressed, f[n], list[n + 1])
    <3>1. n + 1 \in 0..N /\ n + 1 # 0 /\ n + 1 - 1 = n
      BY <1>1
    <3> QED BY <1>4, <3>1
  <2>3. Found(Better(hotkey, pressed, f[n], list[n + 1]), n + 1, hotkey, pressed, list)
    BY <2>1, FoundNext DEF N
  <2> QED BY <2>2, <2>3
<1> HIDE DEF T
<1>7. N \in T
  BY <1>1, <1>5, <1>6, SetOfAllNumbers
<1> QED BY <1>1, <1>3, <1>7 DEF T, N

LEMMA ChosenLeast ==
  ASSUME NEW S, S \subseteq Nat, NEW m \in S, \A j \in S : m <= j
  PROVE  (CHOOSE i \in S : \A j \in S : i <= j) = m
<1> DEFINE c == CHOOSE i \in S : \A j \in S : i <= j
<1>1. c \in S /\ \A j \in S : c <= j
  OBVIOUS
<1> HIDE DEF c
<1>2. c <= m /\ m <= c /\ c \in Nat /\ m \in Nat
  BY <1>1
<1>3. c = m
  BY <1>2
<1> QED BY <1>3 DEF c

LEMMA ChosenGreatest ==
  ASSUME NEW S, S \subseteq Nat, NEW m \in S, \A j \in S : j <= m
  PROVE  (CHOOSE i \in S : \A j \in S : j <= i) = m
<1> DEFINE c == CHOOSE i \in S : \A j \in S : j <= i
<1>1. c \in S /\ \A j \in S : j <= c
  OBVIOUS
<1> HIDE DEF c
<1>2. c <= m /\ m <= c /\ c \in Nat /\ m \in Nat
  BY <1>1
<1>3. c = m
  BY <1>2
<1> QED BY <1>3 DEF c

\* The search through a list finds what its reference says, whatever is pressed.
THEOREM SearchFindsMeant ==
  ASSUME NEW KK, NEW SS, NEW hotkey \in [SS -> Seq(KK)], NEW pressed \in Seq(KK), pressed # <<>>,
         NEW list \in Seq(SS)
  PROVE  BestMatch(hotkey, pressed, list) = MeantSound(hotkey, pressed, list)
<1> DEFINE n == Len(list)
           E == Exact(hotkey, pressed, list)
           H == Held(hotkey, pressed, list)
           G == Longest(hotkey, pressed, list)
           L(j) == Len(hotkey[list[j]])
           best == BestMatch(hotkey, pressed, list)
<1>1. E = ExactOf(n, hotkey, pressed, list) /\ H = HeldOf(n, hotkey, pressed, list)
  BY DEF Exact, Held, ExactOf, HeldOf
<1>2. /\ E # {} => \E m \in E : best = {list[m]} /\ \A j \in E : m <= j
      /\ E = {} /\ H # {} =>
           \E m \in H : best = {list[m]} /\ \A j \in H : L(j) < L(m) \/ (L(j) = L(m) /\ j <= m)
      /\ H = {} => best = {}
  <2>1. Found(best, n, hotkey, pressed, list)
    BY SearchFinds
  <2> HIDE DEF best, n, E, H
  <2> QED BY <1>1, <2>1, Zenon DEF Found
<1>3. E \subseteq Nat /\ H \subseteq Nat /\ \A j \in H : L(j) \in Nat
  <2>1. E \subseteq 1..n /\ H \subseteq 1..n /\ n \in Nat
    BY DEF Exact, Held
  <2>2. \A j \in 1..n : list[j] \in SS
    OBVIOUS
  <2>3. \A j \in 1..n : hotkey[list[j]] \in Seq(KK)
    BY <2>2
  <2> QED BY <2>1, <2>3
<1>4. G = {i \in H : \A j \in H : L(j) <= L(i)}
  BY DEF Longest
<1>5. MeantSound(hotkey, pressed, list) =
        IF E # {} THEN {list[CHOOSE i \in E : \A j \in E : i <= j]}
        ELSE IF G # {} THEN {list[CHOOSE i \in G : \A j \in G : j <= i]} ELSE {}
  BY DEF MeantSound
<1> HIDE DEF E, H, G, best
<1>6. CASE E # {}
  <2>1. PICK m \in E : best = {list[m]} /\ \A j \in E : m <= j
    BY <1>2, <1>6
  <2>2. m = CHOOSE i \in E : \A j \in E : i <= j
    BY <2>1, <1>3, ChosenLeast
  <2> QED BY <2>1, <2>2, <1>5, <1>6 DEF best
<1>7. CASE E = {} /\ H # {}
  <2>1. PICK m \in H : best = {list[m]} /\ \A j \in H : L(j) < L(m) \/ (L(j) = L(m) /\ j <= m)
    BY <1>2, <1>7
  <2> HIDE DEF L
  <2>2. m \in G
    BY <2>1, <1>3, <1>4
  <2>3. \A j \in G : j <= m
    BY <2>1, <1>3, <1>4
  <2>4. G \subseteq Nat
    BY <1>3, <1>4
  <2>5. m = CHOOSE i \in G : \A j \in G : j <= i
    BY <2>2, <2>3, <2>4, ChosenGreatest
  <2> QED BY <2>1, <2>2, <2>5, <1>5, <1>7 DEF best
<1>8. CASE H = {}
  <2>1. E = {}
    <3>1. CASE E = {}
      BY <3>1
    <3>2. CASE E # {}
      <4>1. PICK m \in E : TRUE
        BY <3>2
      <4>2. m \in H
        BY <4>1 DEF E, H, Exact, Held, IsCloseMatch
      <4> QED BY <4>2, <1>8
    <3> QED BY <3>1, <3>2
  <2>2. G = {}
    BY <1>4, <1>8
  <2> QED BY <2>1, <2>2, <1>2, <1>5, <1>8 DEF best
<1> QED BY <1>6, <1>7, <1>8

-------------------------------------------------------------------------------
(* Which actions change what *)

LEMMA WhoChanges ==
  ASSUME Next
  PROVE  /\ usage' = usage
         /\ \/ UNCHANGED keyboard
            \/ UserNext \/ Listen \/ PressNext \/ \E t \in Threads : PostPresses(t) \/ PostReleases(t)
         /\ UNCHANGED listener \/ Listen \/ Forget \/ SetNotify
         /\ UNCHANGED keysToPress \/ \E t \in Threads : Press(t) \/ Release(t)
         /\ UNCHANGED round \/ StartRound \/ PressNext
         /\ UNCHANGED config \/ Listen \/ SettingsChange \/ ViewChanges \/ \E s \in Sounds : SetHotkey(s)
<1> USE DEF keyboard, listener, held, config
<1>7. usage' = usage
  BY DEF Next
<1>1. ASSUME NEW t \in Threads, StepOf(t)
      PROVE  /\ UNCHANGED keyboard \/ PostPresses(t) \/ PostReleases(t)
             /\ UNCHANGED keysToPress \/ Press(t) \/ Release(t)
             /\ UNCHANGED listener /\ UNCHANGED round /\ UNCHANGED config
  <2>1. CASE Press(t) \/ Release(t) \/ Silence(t) \/ QueueStop(t) \/ Open(t) \/ Erase(t)
    BY <2>1 DEF Press, Release, Silence, QueueStop, Open, Erase
  <2>2. CASE PostPresses(t) \/ PostReleases(t)
    BY <2>2 DEF PostPresses, PostReleases
  <2> QED BY <1>1, <2>1, <2>2 DEF StepOf
<1>2. CASE UserNext
  <2>1. UNCHANGED <<listener, keysToPress, round, config>>
    BY <1>2 DEF UserNext, UserPresses, KeyRepeats, UserReleases
  <2> QED BY <1>2, <1>7, <2>1
<1>3. CASE WindowNext
  <2>1. UNCHANGED <<keyboard, keysToPress, round>>
    BY <1>3 DEF WindowNext, WindowPlays, WindowStops, SettingsChange, ViewChanges,
                RequestHotkey, SetHotkey, Forget, SetNotify
  <2>2. UNCHANGED config \/ SettingsChange \/ ViewChanges \/ \E s \in Sounds : SetHotkey(s)
    BY <1>3 DEF WindowNext, WindowPlays, WindowStops, RequestHotkey, Forget, SetNotify
  <2>3. UNCHANGED listener \/ Forget \/ SetNotify
    BY <1>3 DEF WindowNext, WindowPlays, WindowStops, SettingsChange, ViewChanges,
                RequestHotkey, SetHotkey
  <2> QED BY <1>7, <2>1, <2>2, <2>3
<1>4. CASE QueueNext
  <2>1. UNCHANGED <<keyboard, listener, keysToPress, round, config>>
    BY <1>4 DEF QueueNext, StopAllRuns, SoundEnds
  <2> QED BY <1>7, <2>1
<1>5. CASE StartRound \/ PressNext
  <2>1. UNCHANGED <<listener, keysToPress, config>>
    BY <1>5 DEF StartRound, PressNext
  <2>2. UNCHANGED keyboard \/ PressNext
    BY <1>5 DEF StartRound
  <2> QED BY <1>5, <1>7, <2>1, <2>2
<1>6. CASE Listen
  <2>1. UNCHANGED <<keysToPress, round>>
    BY <1>6 DEF Listen
  <2> QED BY <1>6, <1>7, <2>1
<1> QED BY <1>1, <1>2, <1>3, <1>4, <1>5, <1>6, <1>7 DEF Next

-------------------------------------------------------------------------------
(* What the settings are *)

ConfigTypes ==
  /\ usage \in Usages /\ ptt \in usage.ptts
  /\ hotkeys \in [Sounds -> Seq(Keys)] /\ view \in Views /\ received \in Seq(Keys)

LEMMA UsageParts ==
  ASSUME usage \in Usages
  PROVE  /\ {usage.windows, usage.patient} \subseteq BOOLEAN
         /\ usage.hotkeys \in [Sounds -> Seq(Keys)] /\ usage.stop \in Seq(Keys) /\ IsInjective(usage.stop)
         /\ usage.ptts \subseteq Seq(Keys) /\ usage.views \subseteq Views /\ usage.keys \subseteq Keys
         /\ usage.plays \in 0..MaxPlays /\ usage.strokes \in 0..MaxStrokes
         /\ {MaxPlays, MaxStrokes, MaxEvents} \subseteq Nat
BY UsagesAssumption, BoundsAssumption

LEMMA SyntheticAreKeys ==
  ASSUME usage \in Usages
  PROVE  /\ SyntheticKeys \subseteq Keys
         /\ \A q \in usage.ptts : q \in Seq(SyntheticKeys)
         /\ Seq(SyntheticKeys) \subseteq Seq(Keys)
<1>1. ASSUME NEW q \in usage.ptts
      PROVE  q \in Seq(Keys) /\ ToSet(q) \subseteq Keys /\ ToSet(q) \subseteq SyntheticKeys
  <2>1. q \in Seq(Keys)
    BY UsageParts
  <2> QED BY <2>1 DEF ToSet, SyntheticKeys
<1>2. SyntheticKeys \subseteq Keys
  BY <1>1 DEF SyntheticKeys
<1>3. ASSUME NEW q \in usage.ptts
      PROVE  q \in Seq(SyntheticKeys)
  <2>1. q \in Seq(Keys) /\ \A i \in 1..Len(q) : q[i] \in SyntheticKeys
    BY <1>1 DEF ToSet
  <2> QED BY <2>1
<1>4. Seq(SyntheticKeys) \subseteq Seq(Keys)
  <2> SUFFICES ASSUME NEW q \in Seq(SyntheticKeys) PROVE q \in Seq(Keys)
    OBVIOUS
  <2>1. q \in [1..Len(q) -> SyntheticKeys] /\ Len(q) \in Nat
    OBVIOUS
  <2> QED BY <2>1, <1>2
<1> QED BY <1>2, <1>3, <1>4

LEMMA ConfigInit == Init => ConfigTypes
BY UsageParts DEF Init, ConfigTypes

LEMMA ConfigStep ==
  ASSUME ConfigTypes, pressedKeys \in Seq(Keys), Next
  PROVE  ConfigTypes'
<1>0. usage' = usage
  BY DEF Next
<1>1. CASE UNCHANGED config
  BY <1>0, <1>1 DEF ConfigTypes, config
<1>2. CASE Listen
  <2>1. UNCHANGED <<hotkeys, ptt, view>> /\ received' \in {received, pressedKeys}
    BY <1>2 DEF Listen, OnKeyUp
  <2> QED BY <1>0, <2>1 DEF ConfigTypes
<1>3. CASE SettingsChange
  BY <1>0, <1>3 DEF ConfigTypes, SettingsChange
<1>4. CASE ViewChanges
  <2>1. view' \in usage.views /\ UNCHANGED <<hotkeys, ptt, received>>
    BY <1>4 DEF ViewChanges
  <2> QED BY <1>0, <2>1, UsageParts DEF ConfigTypes
<1>5. ASSUME NEW s \in Sounds, SetHotkey(s)
      PROVE  ConfigTypes'
  <2>1. /\ hotkeys' = [hotkeys EXCEPT ![s] = received] /\ received' = <<>> /\ UNCHANGED <<ptt, view>>
    BY <1>5 DEF SetHotkey
  <2> QED BY <1>0, <2>1 DEF ConfigTypes
<1> QED BY <1>1, <1>2, <1>3, <1>4, <1>5, WhoChanges

-------------------------------------------------------------------------------
(* The keys and their events *)

\* The program presses and listens for push-to-talk keys alone.
OwnAreSynthetic ==
  /\ keysToPress \in Seq(SyntheticKeys) /\ round \in Seq(SyntheticKeys) /\ ptt \in Seq(SyntheticKeys)
  /\ \A i \in 1..Len(events) : events[i].by = "own" => events[i].key \in SyntheticKeys

KeyTypes ==
  /\ events \in Seq(EventSet) /\ Len(events) <= MaxEvents
  /\ userDown \subseteq Keys /\ strokes \in 0..MaxStrokes
  /\ OwnAreSynthetic

\* The user's keys.
LEMMA StrikesAppend ==
  ASSUME ConfigTypes, KeyTypes, UserNext
  PROVE  \E k \in Keys, kind \in Kinds :
           /\ events' = Append(events, [key |-> k, kind |-> kind, by |-> "user"])
           /\ Len(events) < MaxEvents /\ strokes < usage.strokes /\ strokes' = strokes + 1 /\ MayAct
           /\ userDown' = CASE kind = "press" -> userDown \cup {k}
                            [] kind = "release" -> userDown \ {k}
                            [] kind = "repeat" -> userDown
           /\ k \in userDown <=> kind # "press"
           /\ UNCHANGED <<keysToPress, round, ptt>>
<1>1. PICK k \in usage.keys : UserPresses(k) \/ KeyRepeats(k) \/ UserReleases(k)
  BY DEF UserNext
<1>2. k \in Keys
  BY UsageParts DEF ConfigTypes
<1>3. CASE UserPresses(k)
  BY <1>2, <1>3 DEF UserPresses, Strikes, held, config, Kinds
<1>4. CASE KeyRepeats(k)
  BY <1>2, <1>4 DEF KeyRepeats, Strikes, held, config, Kinds
<1>5. CASE UserReleases(k)
  BY <1>2, <1>5 DEF UserReleases, Strikes, held, config, Kinds
<1> QED BY <1>1, <1>3, <1>4, <1>5

\* The events posted come after those on their way, and are the program's own.
LEMMA PostsAppend ==
  ASSUME ConfigTypes, KeyTypes, NEW kind \in Kinds, Posts(kind)
  PROVE  /\ events' \in Seq(EventSet) /\ Len(events') = Len(events) + Len(ptt) /\ Len(events') <= MaxEvents
         /\ \A i \in 1..Len(events) : events'[i] = events[i]
         /\ \A i \in Len(events) + 1 .. Len(events') :
              /\ i - Len(events) \in 1..Len(ptt)
              /\ events'[i] = [key |-> ptt[i - Len(events)], kind |-> kind, by |-> "own"]
<1> DEFINE p == [i \in 1..Len(ptt) |-> [key |-> ptt[i], kind |-> kind, by |-> "own"]]
<1>1. ptt \in Seq(Keys)
  BY UsageParts DEF ConfigTypes
<1>2. Len(ptt) \in Nat /\ \A i \in 1..Len(ptt) : ptt[i] \in Keys
  BY <1>1
<1>3. p \in Seq(EventSet) /\ Len(p) = Len(ptt)
  BY <1>2 DEF EventSet
<1>4. \A i \in 1..Len(ptt) : p[i] = [key |-> ptt[i], kind |-> kind, by |-> "own"]
  OBVIOUS
<1>5. events' = events \o p /\ Len(events) + Len(ptt) <= MaxEvents
  BY DEF Posts
<1> HIDE DEF p
<1>6. /\ events' \in Seq(EventSet) /\ Len(events') = Len(events) + Len(p)
      /\ \A i \in 1 .. Len(events) + Len(p) :
           events'[i] = IF i <= Len(events) THEN events[i] ELSE p[i - Len(events)]
  BY <1>3, <1>5, ConcatProperties DEF KeyTypes
<1>7. Len(events) \in Nat
  BY DEF KeyTypes
<1>8. ASSUME NEW i \in Len(events) + 1 .. Len(events')
      PROVE  /\ i - Len(events) \in 1..Len(ptt)
             /\ events'[i] = [key |-> ptt[i - Len(events)], kind |-> kind, by |-> "own"]
  <2>1. i - Len(events) \in 1..Len(ptt) /\ i \in 1 .. Len(events) + Len(p) /\ ~(i <= Len(events))
    BY <1>2, <1>3, <1>6, <1>7
  <2>2. events'[i] = p[i - Len(events)]
    BY <2>1, <1>6
  <2> QED BY <2>1, <2>2, <1>4
<1>9. \A i \in 1..Len(events) : events'[i] = events[i]
  BY <1>2, <1>3, <1>6, <1>7
<1> QED BY <1>2, <1>3, <1>5, <1>6, <1>8, <1>9

\* keyPressThread posts one press.
LEMMA PressNextAppend ==
  ASSUME ConfigTypes, KeyTypes, PressNext
  PROVE  \E k \in SyntheticKeys :
           /\ events' = Append(events, [key |-> k, kind |-> "press", by |-> "own"])
           /\ Len(events) < MaxEvents /\ round' \in Seq(SyntheticKeys)
           /\ UNCHANGED <<userDown, strokes, keysToPress, ptt>>
<1>1. round \in Seq(SyntheticKeys) /\ round # <<>>
  BY DEF PressNext, KeyTypes, OwnAreSynthetic
<1>2. Head(round) \in SyntheticKeys /\ Tail(round) \in Seq(SyntheticKeys)
  BY <1>1
<1> QED BY <1>2 DEF PressNext, config

\* Listening drops the first event.
LEMMA ListenDrops ==
  ASSUME KeyTypes, Listen
  PROVE  /\ Len(events) \in Nat \ {0} /\ Head(events) = events[1] /\ events[1] \in EventSet
         /\ events' \in Seq(EventSet) /\ Len(events') = Len(events) - 1
         /\ \A i \in 1..Len(events') : i + 1 \in 1..Len(events) /\ events'[i] = events[i + 1]
         /\ events' = Tail(events)
         /\ UNCHANGED <<userDown, strokes, keysToPress, round, ptt>>
<1>1. events \in Seq(EventSet) /\ events # <<>> /\ events' = Tail(events)
      /\ UNCHANGED <<userDown, strokes, keysToPress, round, ptt>>
  BY DEF KeyTypes, Listen, held
<1> QED BY <1>1

LEMMA AppendProps ==
  ASSUME NEW S, NEW q \in Seq(S), NEW x \in S
  PROVE  /\ Append(q, x) \in Seq(S) /\ Len(Append(q, x)) = Len(q) + 1 /\ Len(q) \in Nat
         /\ \A i \in 1..Len(q) : Append(q, x)[i] = q[i]
         /\ Append(q, x)[Len(q) + 1] = x
OBVIOUS

LEMMA KeyInit == Init => KeyTypes
<1> SUFFICES ASSUME Init PROVE KeyTypes
  OBVIOUS
<1>1. usage \in Usages /\ ptt \in usage.ptts
  BY DEF Init
<1>2. ptt \in Seq(SyntheticKeys) /\ MaxEvents \in Nat /\ MaxStrokes \in Nat
  BY <1>1, SyntheticAreKeys, UsageParts
<1> QED BY <1>2 DEF Init, KeyTypes, OwnAreSynthetic

LEMMA KeyStep ==
  ASSUME ConfigTypes, KeyTypes, Next
  PROVE  KeyTypes'
<1>0. usage' = usage /\ SyntheticKeys' = SyntheticKeys
  BY DEF Next, SyntheticKeys
<1> DEFINE OwnEvents == \A i \in 1..Len(events) : events[i].by = "own" => events[i].key \in SyntheticKeys
           EventsOK == events \in Seq(EventSet) /\ Len(events) <= MaxEvents /\ OwnEvents
           HandsOK == userDown \subseteq Keys /\ strokes \in 0..MaxStrokes
           OwnOK == keysToPress \in Seq(SyntheticKeys) /\ round \in Seq(SyntheticKeys)
<1>1. /\ events \in Seq(EventSet) /\ Len(events) <= MaxEvents
      /\ userDown \subseteq Keys /\ strokes \in 0..MaxStrokes
      /\ keysToPress \in Seq(SyntheticKeys) /\ round \in Seq(SyntheticKeys) /\ ptt \in Seq(SyntheticKeys)
  BY DEF KeyTypes, OwnAreSynthetic
<1>a. \A i \in 1..Len(events) : events[i].by = "own" => events[i].key \in SyntheticKeys
  BY DEF KeyTypes, OwnAreSynthetic
<1>2. ptt' \in Seq(SyntheticKeys)
  <2>1. ptt' \in usage.ptts \cup {ptt}
    <3>1. CASE UNCHANGED config \/ Listen \/ ViewChanges \/ \E s \in Sounds : SetHotkey(s)
      BY <3>1 DEF config, Listen, ViewChanges, SetHotkey
    <3>2. CASE SettingsChange
      BY <3>2 DEF SettingsChange
    <3> QED BY <3>1, <3>2, WhoChanges
  <2> QED BY <1>1, <2>1, SyntheticAreKeys DEF ConfigTypes
<1>3. OwnOK'
  <2>1. keysToPress' \in Seq(SyntheticKeys)
    <3>1. keysToPress' \in {keysToPress, ptt, <<>>}
      <4>1. CASE \E t \in Threads : Press(t) \/ Release(t)
        BY <4>1 DEF Press, Release
      <4> QED BY <4>1, WhoChanges
    <3>2. <<>> \in Seq(SyntheticKeys)
      OBVIOUS
    <3> QED BY <1>1, <3>1, <3>2
  <2>2. round' \in Seq(SyntheticKeys)
    <3>1. CASE StartRound
      BY <3>1, <1>1 DEF StartRound
    <3>2. CASE PressNext
      BY <3>2, PressNextAppend
    <3> QED BY <1>1, <3>1, <3>2, WhoChanges
  <2> QED BY <1>0, <2>1, <2>2
<1>4. EventsOK' /\ HandsOK'
  <2>1. CASE UNCHANGED keyboard
    BY <1>0, <1>1, <1>a, <2>1 DEF keyboard
  <2>2. CASE UserNext
    <3>1. PICK k \in Keys, kind \in Kinds :
            /\ events' = Append(events, [key |-> k, kind |-> kind, by |-> "user"])
            /\ Len(events) < MaxEvents /\ strokes < usage.strokes /\ strokes' = strokes + 1
            /\ userDown' = CASE kind = "press" -> userDown \cup {k}
                             [] kind = "release" -> userDown \ {k}
                             [] kind = "repeat" -> userDown
      BY <2>2, StrikesAppend
    <3> DEFINE e == [key |-> k, kind |-> kind, by |-> "user"]
    <3>2. e \in EventSet /\ e.by = "user"
      BY DEF EventSet
    <3> HIDE DEF e
    <3>3. /\ events' \in Seq(EventSet) /\ Len(events') = Len(events) + 1 /\ Len(events) \in Nat
          /\ \A i \in 1..Len(events) : events'[i] = events[i]
          /\ events'[Len(events) + 1] = e
      BY <1>1, <3>1, <3>2, AppendProps DEF e
    <3>4. OwnEvents'
      BY <1>0, <1>a, <3>2, <3>3
    <3>5. HandsOK'
      <4>1. usage.strokes \in 0..MaxStrokes /\ MaxStrokes \in Nat
        BY UsageParts DEF ConfigTypes
      <4>2. userDown' \subseteq Keys
        BY <1>1, <3>1 DEF Kinds
      <4>3. strokes < usage.strokes /\ strokes' = strokes + 1 /\ strokes \in 0..MaxStrokes
        BY <1>1, <3>1
      <4>4. strokes' \in 0..MaxStrokes
        BY <4>1, <4>3
      <4> QED BY <4>2, <4>4
    <3>6. Len(events') <= MaxEvents
      <4>1. MaxEvents \in Nat
        BY BoundsAssumption
      <4> QED BY <3>1, <3>3, <4>1
    <3> QED BY <3>3, <3>4, <3>5, <3>6
  <2>3. CASE Listen
    <3>1. /\ Len(events) \in Nat \ {0} /\ events' \in Seq(EventSet) /\ Len(events') = Len(events) - 1
          /\ \A i \in 1..Len(events') : i + 1 \in 1..Len(events) /\ events'[i] = events[i + 1]
          /\ UNCHANGED <<userDown, strokes>> /\ MaxEvents \in Nat
      BY <2>3, ListenDrops, BoundsAssumption
    <3>2. OwnEvents'
      BY <1>0, <1>a, <3>1
    <3> HIDE DEF OwnEvents
    <3> QED BY <1>1, <3>1, <3>2
  <2>4. CASE PressNext
    <3>1. PICK k \in SyntheticKeys :
           /\ events' = Append(events, [key |-> k, kind |-> "press", by |-> "own"])
           /\ Len(events) < MaxEvents /\ UNCHANGED <<userDown, strokes>>
      BY <2>4, PressNextAppend
    <3> DEFINE e == [key |-> k, kind |-> "press", by |-> "own"]
    <3>2. e \in EventSet /\ e.key = k
      BY SyntheticAreKeys DEF EventSet, Kinds, ConfigTypes
    <3> HIDE DEF e
    <3>3. /\ events' \in Seq(EventSet) /\ Len(events') = Len(events) + 1 /\ Len(events) \in Nat
          /\ \A i \in 1..Len(events) : events'[i] = events[i]
          /\ events'[Len(events) + 1] = e
      BY <1>1, <3>1, <3>2, AppendProps DEF e
    <3>4. OwnEvents'
      BY <1>0, <1>a, <3>2, <3>3
    <3>5. Len(events') <= MaxEvents
      <4>1. MaxEvents \in Nat
        BY BoundsAssumption
      <4> QED BY <3>1, <3>3, <4>1
    <3> QED BY <1>1, <3>1, <3>3, <3>4, <3>5
  <2>5. ASSUME NEW t \in Threads, PostPresses(t) \/ PostReleases(t)
        PROVE  EventsOK' /\ HandsOK'
    <3>1. PICK kind \in Kinds : Posts(kind)
      BY <2>5 DEF PostPresses, PostReleases, Kinds
    <3>2. UNCHANGED <<userDown, strokes>>
      BY <2>5 DEF PostPresses, PostReleases
    <3>3. /\ events' \in Seq(EventSet) /\ Len(events') <= MaxEvents
          /\ Len(events') = Len(events) + Len(ptt)
          /\ \A i \in 1..Len(events) : events'[i] = events[i]
          /\ \A i \in Len(events) + 1 .. Len(events') :
               /\ i - Len(events) \in 1..Len(ptt)
               /\ events'[i] = [key |-> ptt[i - Len(events)], kind |-> kind, by |-> "own"]
      BY <3>1, PostsAppend
    <3>4. \A i \in 1..Len(ptt) : ptt[i] \in SyntheticKeys
      BY <1>1
    <3>5. Len(events) \in Nat /\ Len(ptt) \in Nat
      BY <1>1
    <3>6. OwnEvents'
      <4> SUFFICES ASSUME NEW i \in 1..Len(events'), events'[i].by = "own"
                   PROVE  events'[i].key \in SyntheticKeys
        BY <1>0
      <4>1. CASE i <= Len(events)
        BY <4>1, <1>a, <3>3, <3>5
      <4>2. CASE ~(i <= Len(events))
        <5>1. i \in Len(events) + 1 .. Len(events')
          BY <4>2, <3>3, <3>5
        <5> DEFINE j == i - Len(events)
        <5>2. j \in 1..Len(ptt) /\ events'[i] = [key |-> ptt[j], kind |-> kind, by |-> "own"]
          BY <5>1, <3>3
        <5> HIDE DEF j
        <5> QED BY <5>2, <3>4
      <4> QED BY <4>1, <4>2
    <3> QED BY <1>1, <3>2, <3>3, <3>6
  <2> QED BY <2>1, <2>2, <2>3, <2>4, <2>5, WhoChanges
<1> HIDE DEF OwnEvents
<1> QED BY <1>2, <1>3, <1>4, <1>0 DEF KeyTypes, OwnAreSynthetic, OwnEvents

-------------------------------------------------------------------------------
(* The calls and the sounds they open *)

\* Pressing the keys is the last step but one of a call and opening the sound the last;
\* pressed keys go down at once.
Straight(q) ==
  \A i \in 1..Len(q) :
    /\ q[i] \in {"press", "down"} => i = Len(q) - 1
    /\ q[i] = "open" => i = Len(q)
    /\ q[i] = "down" => i = 1

Opens(t) == IF "open" \in ToSet(todo[t]) THEN 1 ELSE 0
Opening == Opens("listener") + Opens("window") + Opens("queue")

PlayTypes ==
  /\ \A t \in Threads : Straight(todo[t])
  /\ plays \in 0..MaxPlays /\ opened + Opening <= plays
  /\ stopLater \in BOOLEAN

LEMMA TailIndices ==
  ASSUME NEW S, NEW q \in Seq(S), q # <<>>
  PROVE  /\ Len(q) \in Nat \ {0} /\ Head(q) = q[1] /\ Tail(q) \in Seq(S) /\ Len(Tail(q)) = Len(q) - 1
         /\ \A i \in 1..Len(Tail(q)) : i + 1 \in 1..Len(q) /\ Tail(q)[i] = q[i + 1]
OBVIOUS

LEMMA StraightTail ==
  ASSUME NEW q \in Seq(Steps), q # <<>>, Straight(q)
  PROVE  /\ Straight(Tail(q))
         /\ Head(q) = "open" => "open" \notin ToSet(Tail(q))
<1>1. /\ Len(q) \in Nat \ {0} /\ Head(q) = q[1] /\ Tail(q) \in Seq(Steps) /\ Len(Tail(q)) = Len(q) - 1
      /\ \A i \in 1..Len(Tail(q)) : i + 1 \in 1..Len(q) /\ Tail(q)[i] = q[i + 1]
  BY TailIndices
<1>2. ASSUME NEW i \in 1..Len(Tail(q))
      PROVE  /\ Tail(q)[i] \in {"press", "down"} => i = Len(Tail(q)) - 1
             /\ Tail(q)[i] = "open" => i = Len(Tail(q))
             /\ Tail(q)[i] # "down"
  <2>1. /\ q[i + 1] \in {"press", "down"} => i + 1 = Len(q) - 1
        /\ q[i + 1] = "open" => i + 1 = Len(q)
        /\ q[i + 1] = "down" => i + 1 = 1
    BY <1>1 DEF Straight
  <2> DEFINE n == Len(q)
             m == Len(Tail(q))
             x == Tail(q)[i]
  <2>2. x = q[i + 1] /\ m = n - 1 /\ n \in Nat /\ i \in Nat /\ i # 0
    BY <1>1
  <2> HIDE DEF n, m, x
  <2>3. i + 1 = n - 1 => i = m - 1
    BY <2>2
  <2>4. i + 1 = n => i = m
    BY <2>2
  <2>5. i + 1 # 1
    BY <2>2
  <2> QED BY <2>1, <2>2, <2>3, <2>4, <2>5 DEF n, m, x
<1>3. ASSUME Head(q) = "open" PROVE "open" \notin ToSet(Tail(q))
  <2>1. 1 \in 1..Len(q) /\ q[1] = "open"
    BY <1>1, <1>3
  <2>2. Len(q) = 1
    BY <2>1 DEF Straight
  <2>3. Len(Tail(q)) = 0
    BY <2>2, <1>1
  <2>4. ToSet(Tail(q)) = {}
    <3> DEFINE r == Tail(q)
    <3> HIDE DEF r
    <3>1. Len(r) = 0
      BY <2>3 DEF r
    <3>2. ToSet(r) = {}
      BY <3>1 DEF ToSet
    <3> QED BY <3>2 DEF r
  <2> QED BY <2>4
<1> QED BY <1>1, <1>2, <1>3 DEF Straight

LEMMA DownThenOpens ==
  ASSUME NEW q \in Seq(Steps), q # <<>>, Straight(q), Shaped(q), Head(q) = "down"
  PROVE  ToSet(Tail(q)) \subseteq {"open"}
<1>1. /\ Len(q) \in Nat \ {0} /\ Head(q) = q[1] /\ Tail(q) \in Seq(Steps) /\ Len(Tail(q)) = Len(q) - 1
      /\ \A i \in 1..Len(Tail(q)) : i + 1 \in 1..Len(q) /\ Tail(q)[i] = q[i + 1]
  BY TailIndices
<1>2. 1 \in 1..Len(q) /\ q[1] = "down"
  BY <1>1
<1>3. 1 = Len(q) - 1 /\ q[Len(q)] = "open"
  BY <1>2 DEF Straight, Shaped
<1>4. ASSUME NEW i \in 1..Len(Tail(q)) PROVE Tail(q)[i] = "open"
  <2> DEFINE n == Len(q)
             m == Len(Tail(q))
  <2>0. n \in Nat /\ m = n - 1 /\ 1 = n - 1 /\ i \in 1..m
    BY <1>1, <1>3
  <2> HIDE DEF n, m
  <2>a. i = 1 /\ n = 2
    BY <2>0
  <2>1. i = 1 /\ Len(q) = 2
    BY <2>a DEF n
  <2>2. Tail(q)[i] = q[i + 1]
    BY <1>1
  <2> QED BY <2>1, <2>2, <1>3
<1> QED BY <1>4 DEF ToSet

LEMMA StraightSplit ==
  ASSUME NEW q \in Seq(Steps), q # <<>>, Straight(q), NEW x \in {"up", "down"},
         x = "down" => Head(q) = "press"
  PROVE  /\ Straight(<<x>> \o Tail(q))
         /\ "open" \in ToSet(<<x>> \o Tail(q)) => "open" \in ToSet(q)
<1> DEFINE r == <<x>> \o Tail(q)
<1>1. /\ Len(q) \in Nat \ {0} /\ Head(q) = q[1] /\ Tail(q) \in Seq(Steps) /\ Len(Tail(q)) = Len(q) - 1
      /\ \A i \in 1..Len(Tail(q)) : i + 1 \in 1..Len(q) /\ Tail(q)[i] = q[i + 1]
  BY TailIndices
<1>2. Len(r) = Len(q) /\ r[1] = x /\ \A i \in 2..Len(q) : r[i] = q[i]
  <2>1. /\ Len(r) = Len(q) /\ r[1] = x
        /\ \A i \in 2..Len(q) : r[i] = Tail(q)[i - 1]
    BY <1>1
  <2>2. \A i \in 2..Len(q) : i - 1 \in 1..Len(Tail(q)) /\ Tail(q)[i - 1] = q[i]
    BY <1>1
  <2> QED BY <2>1, <2>2
<1> HIDE DEF r
<1>3. ASSUME NEW i \in 1..Len(r)
      PROVE  /\ r[i] \in {"press", "down"} => i = Len(r) - 1
             /\ r[i] = "open" => i = Len(r) /\ i \in 1..Len(q) /\ q[i] = "open"
             /\ r[i] = "down" => i = 1
  <2>1. CASE i = 1
    BY <2>1, <1>1, <1>2 DEF Straight
  <2>2. CASE i # 1
    <3>1. i \in 2..Len(q) /\ r[i] = q[i] /\ i \in 1..Len(q)
      BY <2>2, <1>1, <1>2
    <3> QED BY <3>1, <1>2 DEF Straight
  <2> QED BY <2>1, <2>2
<1>4. Straight(r)
  BY <1>3 DEF Straight
<1>5. "open" \in ToSet(r) => "open" \in ToSet(q)
  BY <1>3 DEF ToSet
<1> QED BY <1>4, <1>5 DEF r

LEMMA ProgramsStraight ==
  /\ Straight(<<>>) /\ Straight(PlaySound)
  /\ \A sync \in BOOLEAN : Straight(StopSounds(sync)) /\ "open" \notin ToSet(StopSounds(sync))
  /\ Straight(<<"release", "ended">>) /\ "open" \notin ToSet(<<"release", "ended">>)
  /\ Straight(<<"ended">>) /\ "open" \notin ToSet(<<"ended">>)
  /\ \A x \in {"record", "endRecord"} :
        Straight(<<"forget", x>>) /\ "open" \notin ToSet(<<"forget", x>>)
<1>1. Straight(<<>>)
  BY DEF Straight
<1>2. Straight(PlaySound)
  <2>1. CASE usage.overlap
    BY <2>1 DEF PlaySound, Straight
  <2>2. CASE ~usage.overlap
    BY <2>2 DEF PlaySound, Straight
  <2> QED BY <2>1, <2>2
<1>3. \A sync \in BOOLEAN : Straight(StopSounds(sync)) /\ "open" \notin ToSet(StopSounds(sync))
  BY DEF Straight, StopSounds, ToSet
<1>4. Straight(<<"release", "ended">>) /\ "open" \notin ToSet(<<"release", "ended">>)
  BY DEF Straight, ToSet
<1>5. Straight(<<"ended">>) /\ "open" \notin ToSet(<<"ended">>)
  BY DEF Straight, ToSet
<1>6. \A x \in {"record", "endRecord"} :
        Straight(<<"forget", x>>) /\ "open" \notin ToSet(<<"forget", x>>)
  BY DEF Straight, ToSet
<1> QED BY <1>1, <1>2, <1>3, <1>4, <1>5, <1>6

\* What a step does to the calls: it leaves them, a call begins, or a call goes on.
Begins(t, steps) == todo[t] = <<>> /\ Runs(t, steps)
LeavesCalls == UNCHANGED <<todo, opened, plays>>
BeginsToPlay(t) ==
  Begins(t, PlaySound) /\ plays < usage.plays /\ plays' = plays + 1 /\ opened' = opened
BeginsOther(t, steps) ==
  /\ Begins(t, steps) /\ Straight(steps) /\ "open" \notin ToSet(steps)
  /\ UNCHANGED <<plays, opened>>
GoesOn(t) ==
  /\ todo[t] # <<>> /\ plays' = plays /\ Continues(t)
  /\ opened' = opened \/ (Head(todo[t]) = "open" /\ opened' = opened + 1)
Splits(t, x) ==
  /\ todo[t] # <<>> /\ UNCHANGED <<plays, opened>> /\ Runs(t, <<x>> \o Rest(t))
  /\ x = "down" => Head(todo[t]) = "press"
CallsMove ==
  \/ LeavesCalls
  \/ \E t \in {"listener", "window"} : BeginsToPlay(t)
  \/ \E t \in Threads, steps \in Seq(Steps) : BeginsOther(t, steps)
  \/ \E t \in Threads : GoesOn(t)
  \/ \E t \in Threads, x \in {"up", "down"} : Splits(t, x)

LEMMA TodoSteps ==
  ASSUME Calls, Next
  PROVE  CallsMove
<1>1. ASSUME NEW t \in Threads, StepOf(t)
      PROVE  GoesOn(t) \/ \E x \in {"up", "down"} : Splits(t, x)
  <2>1. CASE Press(t)
    <3>1. todo[t] # <<>> /\ Head(todo[t]) = "press" /\ plays' = plays /\ opened' = opened
      BY <2>1 DEF Press, At, player
    <3>2. Continues(t) \/ Runs(t, <<"down">> \o Rest(t))
      BY <2>1 DEF Press, Runs, Continues
    <3> QED BY <3>1, <3>2 DEF GoesOn, Splits
  <2>2. CASE Release(t)
    <3>1. todo[t] # <<>> /\ Head(todo[t]) = "release" /\ plays' = plays /\ opened' = opened
      BY <2>2 DEF Release, At, player
    <3>2. Continues(t) \/ Runs(t, <<"up">> \o Rest(t))
      BY <2>2 DEF Release, Runs, Continues
    <3> QED BY <3>1, <3>2 DEF GoesOn, Splits
  <2>3. CASE PostPresses(t) \/ PostReleases(t) \/ Silence(t) \/ QueueStop(t) \/ Erase(t)
    <3>1. todo[t] # <<>> /\ plays' = plays /\ opened' = opened /\ Continues(t)
      BY <2>3 DEF PostPresses, PostReleases, Silence, QueueStop, Erase, At, player
    <3> QED BY <3>1 DEF GoesOn
  <2>4. CASE Open(t)
    <3>1. todo[t] # <<>> /\ Head(todo[t]) = "open" /\ plays' = plays /\ Continues(t)
      BY <2>4 DEF Open, At, player
    <3>2. opened' = opened \/ opened' = opened + 1
      BY <2>4 DEF Open
    <3> QED BY <3>1, <3>2 DEF GoesOn
  <2> QED BY <1>1, <2>1, <2>2, <2>3, <2>4 DEF StepOf
<1>2. CASE UserNext \/ StartRound \/ PressNext
  <2>1. LeavesCalls
    BY <1>2 DEF LeavesCalls, UserNext, UserPresses, KeyRepeats, UserReleases, StartRound, PressNext, player
  <2> QED BY <2>1 DEF CallsMove
<1>3. CASE Listen
  <2>1. todo["listener"] = <<>> /\ opened' = opened /\ "listener" \in Threads
    BY <1>3 DEF Listen, MayListen, Threads
  <2>2. \/ todo' = todo /\ plays' = plays
        \/ Runs("listener", PlaySound) /\ plays < usage.plays /\ plays' = plays + 1
        \/ Runs("listener", StopSounds(FALSE)) /\ plays' = plays
    <3> DEFINE e == Head(events)
    <3>1. CASE e.kind = "release"
      BY <1>3, <3>1 DEF Listen
    <3>2. CASE OnKeyDown(e.key, e.by)
      BY <3>2 DEF OnKeyDown
    <3> QED BY <1>3, <3>1, <3>2 DEF Listen
  <2>3. CASE Runs("listener", PlaySound) /\ plays < usage.plays /\ plays' = plays + 1
    BY <2>1, <2>3 DEF Begins, BeginsToPlay, CallsMove
  <2>4. CASE Runs("listener", StopSounds(FALSE)) /\ plays' = plays
    <3>1. BeginsOther("listener", StopSounds(FALSE)) /\ StopSounds(FALSE) \in Seq(Steps)
      BY <2>1, <2>4, ProgramsStraight, ProgramsShaped DEF Begins, BeginsOther
    <3> QED BY <2>1, <3>1 DEF CallsMove
  <2>5. CASE todo' = todo /\ plays' = plays
    BY <2>1, <2>5 DEF CallsMove, LeavesCalls
  <2> QED BY <2>2, <2>3, <2>4, <2>5
<1>4. CASE WindowNext
  <2>1. CASE WindowPlays
    <3>1. BeginsToPlay("window")
      BY <2>1 DEF WindowPlays, MayCall, Begins, BeginsToPlay
    <3> QED BY <3>1 DEF CallsMove
  <2>2. CASE WindowStops
    <3>1. PICK sync \in BOOLEAN : Runs("window", StopSounds(sync))
      BY <2>2 DEF WindowStops
    <3>2. BeginsOther("window", StopSounds(sync)) /\ StopSounds(sync) \in Seq(Steps) /\ "window" \in Threads
      BY <2>2, <3>1, ProgramsStraight, ProgramsShaped DEF WindowStops, MayCall, Begins, BeginsOther, player, Threads
    <3> QED BY <3>2 DEF CallsMove
  <2>3. CASE RequestHotkey
    <3> DEFINE x == IF notify THEN "endRecord" ELSE "record"
               steps == <<"forget", x>>
    <3>1. x \in {"record", "endRecord"}
      OBVIOUS
    <3>2. steps \in Seq(Steps)
      BY <3>1 DEF Steps
    <3>3. BeginsOther("window", steps) /\ "window" \in Threads
      BY <2>3, <3>1, ProgramsStraight DEF RequestHotkey, MayCall, Begins, BeginsOther, player, Threads
    <3> HIDE DEF steps
    <3> QED BY <3>2, <3>3 DEF CallsMove
  <2>4. CASE SettingsChange \/ ViewChanges \/ \E s \in Sounds : SetHotkey(s)
    <3>1. LeavesCalls
      BY <2>4 DEF SettingsChange, ViewChanges, SetHotkey, player, LeavesCalls
    <3> QED BY <3>1 DEF CallsMove
  <2>5. CASE Forget \/ SetNotify
    <3>1. GoesOn("window") /\ "window" \in Threads
      BY <2>5 DEF Forget, SetNotify, At, player, Threads, GoesOn
    <3> QED BY <3>1 DEF CallsMove
  <2> QED BY <1>4, <2>1, <2>2, <2>3, <2>4, <2>5 DEF WindowNext
<1>5. CASE QueueNext
  <2>1. CASE StopAllRuns
    <3>1. LeavesCalls
      BY <2>1 DEF StopAllRuns, LeavesCalls
    <3> QED BY <3>1 DEF CallsMove
  <2>2. ASSUME NEW s \in playing, SoundEnds(s)
        PROVE  CallsMove
    <3> DEFINE steps == IF playing = {s} THEN <<"release", "ended">> ELSE <<"ended">>
    <3>1. <<"release", "ended">> \in Seq(Steps) /\ <<"ended">> \in Seq(Steps)
      BY DEF Steps
    <3>2. steps \in Seq(Steps) /\ Straight(steps) /\ "open" \notin ToSet(steps)
      BY <3>1, ProgramsStraight
    <3>3. /\ todo["queue"] = <<>> /\ "queue" \in Threads
          /\ Runs("queue", steps) /\ UNCHANGED <<plays, opened>>
      BY <2>2 DEF SoundEnds, MayCall, Threads
    <3>4. BeginsOther("queue", steps)
      BY <3>2, <3>3 DEF Begins, BeginsOther
    <3> HIDE DEF steps
    <3> QED BY <3>2, <3>3, <3>4 DEF CallsMove
  <2> QED BY <1>5, <2>1, <2>2 DEF QueueNext
<1>6. ASSUME NEW t \in Threads, StepOf(t) PROVE CallsMove
  BY <1>1, <1>6 DEF CallsMove
<1> QED BY <1>2, <1>3, <1>4, <1>5, <1>6 DEF Next

LEMMA OpeningMoves ==
  ASSUME NEW t \in Threads, \A u \in Threads \ {t} : todo'[u] = todo[u]
  PROVE  /\ Opening' - Opens(t)' = Opening - Opens(t)
         /\ Opening \in Int /\ Opening' \in Int /\ Opens(t) \in Int /\ Opens(t)' \in Int
<1>1. \A u \in Threads \ {t} : Opens(u)' = Opens(u)
  BY DEF Opens
<1>2. \A u \in Threads : Opens(u) \in Int /\ Opens(u)' \in Int
  BY DEF Opens
<1>3. {"listener", "window", "queue"} = Threads
  BY DEF Threads
<1>4. t \in {"listener", "window", "queue"}
  BY <1>3
<1>5. /\ Opens("listener") \in Int /\ Opens("window") \in Int /\ Opens("queue") \in Int
      /\ Opens("listener")' \in Int /\ Opens("window")' \in Int /\ Opens("queue")' \in Int
  BY <1>2, <1>3
<1>6. CASE t = "listener"
  <2>1. Opens("window")' = Opens("window") /\ Opens("queue")' = Opens("queue")
    BY <1>1, <1>3, <1>6
  <2> QED BY <1>5, <1>6, <2>1 DEF Opening
<1>7. CASE t = "window"
  <2>1. Opens("listener")' = Opens("listener") /\ Opens("queue")' = Opens("queue")
    BY <1>1, <1>3, <1>7
  <2> QED BY <1>5, <1>7, <2>1 DEF Opening
<1>8. CASE t = "queue"
  <2>1. Opens("listener")' = Opens("listener") /\ Opens("window")' = Opens("window")
    BY <1>1, <1>3, <1>8
  <2> QED BY <1>5, <1>8, <2>1 DEF Opening
<1> QED BY <1>4, <1>6, <1>7, <1>8

LEMMA OpeningBound ==
  ASSUME opened \in Nat, Opening \in Int, Opening' \in Int, plays \in Nat, opened + Opening <= plays
  PROVE  /\ Opening' <= Opening + 1 => opened + Opening' <= plays + 1
         /\ Opening' <= Opening => opened + Opening' <= plays
         /\ Opening' = Opening - 1 => opened + 1 + Opening' <= plays
<1>1. PICK b \in Int : b = Opening'
  OBVIOUS
<1>2. /\ b <= Opening + 1 => opened + b <= plays + 1
      /\ b <= Opening => opened + b <= plays
      /\ b = Opening - 1 => opened + 1 + b <= plays
  OBVIOUS
<1> QED BY <1>1, <1>2

LEMMA PlayInit == Init => PlayTypes
<1> SUFFICES ASSUME Init PROVE PlayTypes
  OBVIOUS
<1>1. \A t \in Threads : todo[t] = <<>>
  BY DEF Init
<1>2. Opens("listener") = 0 /\ Opens("window") = 0 /\ Opens("queue") = 0
  BY <1>1 DEF Opens, Threads, ToSet
<1>3. opened = 0 /\ plays = 0 /\ stopLater = FALSE /\ MaxPlays \in Nat
  BY BoundsAssumption DEF Init
<1>4. plays \in 0..MaxPlays
  BY <1>3
<1>5. Opening = 0 /\ opened + Opening <= plays
  BY <1>2, <1>3 DEF Opening
<1>6. \A t \in Threads : Straight(todo[t])
  BY <1>1, ProgramsStraight
<1>7. stopLater \in BOOLEAN
  BY <1>3
<1> QED BY <1>4, <1>5, <1>6, <1>7 DEF PlayTypes

LEMMA StopLaterStep ==
  ASSUME stopLater \in BOOLEAN, Next
  PROVE  stopLater' \in BOOLEAN
<1>1. ASSUME NEW t \in Threads, StepOf(t) PROVE stopLater' \in BOOLEAN
  BY <1>1 DEF StepOf, Press, PostPresses, Release, PostReleases, Silence, QueueStop, Open, Erase, player
<1>2. CASE UserNext \/ Listen \/ StartRound \/ PressNext
  BY <1>2 DEF UserNext, UserPresses, KeyRepeats, UserReleases, Listen, StartRound, PressNext, player
<1>3. CASE WindowNext
  BY <1>3 DEF WindowNext, WindowPlays, WindowStops, SettingsChange, ViewChanges, RequestHotkey, SetHotkey,
         Forget, SetNotify, player
<1>4. CASE QueueNext
  BY <1>4 DEF QueueNext, StopAllRuns, SoundEnds
<1> QED BY <1>1, <1>2, <1>3, <1>4 DEF Next

LEMMA PlayStep ==
  ASSUME usage \in Usages, HeldInv, PlayTypes, Next
  PROVE  PlayTypes'
<1>0. /\ Calls /\ opened \in Nat /\ plays \in 0..MaxPlays /\ opened + Opening <= plays
      /\ \A t \in Threads : Straight(todo[t]) /\ todo[t] \in Seq(Steps)
      /\ Opening \in Int /\ MaxPlays \in Nat
  BY OpeningMoves, BoundsAssumption DEF HeldInv, Numbered, PlayTypes, Opening, Opens, Calls
<1>1. stopLater' \in BOOLEAN
  BY StopLaterStep DEF PlayTypes
<1> SUFFICES (\A t \in Threads : Straight(todo'[t])) /\ plays' \in 0..MaxPlays /\ opened' + Opening' <= plays'
  BY <1>1 DEF PlayTypes
<1>a. /\ opened \in Nat /\ plays \in 0..MaxPlays /\ opened + Opening <= plays /\ Opening \in Int
      /\ plays \in Nat /\ MaxPlays \in Nat
  BY <1>0
<1>2. CASE LeavesCalls
  BY <1>0, <1>2 DEF Opening, Opens, LeavesCalls
<1>3. ASSUME NEW t \in Threads, NEW steps, Begins(t, steps), Straight(steps)
      PROVE  /\ \A u \in Threads : Straight(todo'[u])
             /\ "open" \notin ToSet(steps) => Opening' = Opening
             /\ Opening' <= Opening + 1
  <2>1. /\ todo'[t] = steps /\ \A u \in Threads \ {t} : todo'[u] = todo[u]
    BY <1>0, <1>3 DEF Begins, Runs, Calls
  <2>2. Opens(t) = 0 /\ Opens(t)' \in {0, 1} /\ ("open" \notin ToSet(steps) => Opens(t)' = 0)
    BY <1>3, <2>1 DEF Opens, ToSet, Begins
  <2>3. /\ Opening' - Opens(t)' = Opening - Opens(t)
        /\ Opening \in Int /\ Opening' \in Int
    BY <2>1, OpeningMoves
  <2> QED BY <1>0, <1>3, <2>1, <2>2, <2>3
<1>4. ASSUME NEW t \in {"listener", "window"}, 
             BeginsToPlay(t)
      PROVE  (\A u \in Threads : Straight(todo'[u])) /\ plays' \in 0..MaxPlays /\ opened' + Opening' <= plays'
  <2>1. t \in Threads
    BY DEF Threads
  <2>2. (\A u \in Threads : Straight(todo'[u])) /\ Opening' <= Opening + 1
    BY <1>3, <1>4, <2>1, ProgramsStraight DEF BeginsToPlay
  <2>3. usage.plays \in 0..MaxPlays
    BY UsageParts
  <2>4. plays' \in 0..MaxPlays
    BY <1>a, <1>4, <2>3 DEF BeginsToPlay
  <2>5. Opening' \in Int /\ plays' = plays + 1 /\ opened' = opened
    BY <1>4 DEF Opening, Opens, BeginsToPlay
  <2>6. opened' + Opening' <= plays'
    <3>1. Opening' <= Opening + 1
      BY <2>2
    <3>2. opened + Opening' <= plays + 1
      BY <1>a, <2>5, <3>1, OpeningBound
    <3> QED BY <2>5, <3>2
  <2> QED BY <2>2, <2>4, <2>6
<1>5. ASSUME NEW t \in Threads, NEW steps \in Seq(Steps), BeginsOther(t, steps)
      PROVE  (\A u \in Threads : Straight(todo'[u])) /\ plays' \in 0..MaxPlays /\ opened' + Opening' <= plays'
  BY <1>a, <1>3, <1>5 DEF BeginsOther
<1>6. ASSUME NEW t \in Threads, GoesOn(t) \/ \E x \in {"up", "down"} : Splits(t, x)
      PROVE  (\A u \in Threads : Straight(todo'[u])) /\ plays' \in 0..MaxPlays /\ opened' + Opening' <= plays'
  <2> DEFINE q == todo[t]
  <2>1. q \in Seq(Steps) /\ Straight(q) /\ q # <<>> /\ plays' = plays
    BY <1>0, <1>6 DEF GoesOn, Splits
  <2>2. Head(q) \in ToSet(q) /\ \A x \in ToSet(Tail(q)) : x \in ToSet(q)
    <3>1. /\ Len(q) \in Nat \ {0} /\ Head(q) = q[1]
          /\ \A i \in 1..Len(Tail(q)) : i + 1 \in 1..Len(q) /\ Tail(q)[i] = q[i + 1]
      BY <2>1, TailIndices
    <3> QED BY <3>1 DEF ToSet
  <2>3. /\ \A u \in Threads \ {t} : todo'[u] = todo[u]
        /\ Straight(todo'[t]) /\ Opens(t)' <= Opens(t)
        /\ opened' = opened \/ (opened' = opened + 1 /\ Opens(t) = 1 /\ Opens(t)' = 0)
    <3>1. CASE GoesOn(t)
      <4>1. todo'[t] = Tail(q) /\ \A u \in Threads \ {t} : todo'[u] = todo[u]
        BY <1>0, <3>1 DEF GoesOn, Continues, Rest, Calls
      <4>2. Straight(Tail(q)) /\ (Head(q) = "open" => "open" \notin ToSet(Tail(q)))
        BY <2>1, StraightTail
      <4>3. Opens(t)' <= Opens(t)
        BY <2>2, <4>1 DEF Opens
      <4>4. Head(q) = "open" => Opens(t) = 1 /\ Opens(t)' = 0
        BY <2>2, <4>1, <4>2 DEF Opens
      <4> QED BY <3>1, <4>1, <4>2, <4>3, <4>4 DEF GoesOn
    <3>2. ASSUME NEW x \in {"up", "down"}, Splits(t, x)
          PROVE  /\ \A u \in Threads \ {t} : todo'[u] = todo[u]
                 /\ Straight(todo'[t]) /\ Opens(t)' <= Opens(t) /\ opened' = opened
      <4>1. todo'[t] = <<x>> \o Tail(q) /\ \A u \in Threads \ {t} : todo'[u] = todo[u]
        BY <1>0, <3>2 DEF Splits, Runs, Rest, Calls
      <4>2. /\ Straight(<<x>> \o Tail(q))
            /\ "open" \in ToSet(<<x>> \o Tail(q)) => "open" \in ToSet(q)
        BY <2>1, <3>2, StraightSplit DEF Splits
      <4>3. Opens(t)' <= Opens(t)
        BY <4>1, <4>2 DEF Opens
      <4> QED BY <3>2, <4>1, <4>2, <4>3 DEF Splits
    <3> HIDE DEF q
    <3> QED BY <1>6, <3>1, <3>2
  <2>4. \A u \in Threads : Straight(todo'[u])
    BY <1>0, <2>3
  <2>5. /\ Opening' - Opens(t)' = Opening - Opens(t)
        /\ Opening \in Int /\ Opening' \in Int /\ Opens(t) \in Int /\ Opens(t)' \in Int
    BY <2>3, OpeningMoves
  <2>6. opened' + Opening' <= plays
    <3>1. CASE opened' = opened
      <4>1. Opens(t)' <= Opens(t)
        BY <2>3
      <4>2. Opening' <= Opening
        BY <4>1, <2>5
      <4>3. opened + Opening' <= plays
        BY <1>a, <2>5, <4>2, OpeningBound
      <4> QED BY <3>1, <4>3
    <3>2. CASE opened' = opened + 1 /\ Opens(t) = 1 /\ Opens(t)' = 0
      <4>1. Opening' = Opening - 1
        <5>1. PICK b \in Int : b = Opening'
          BY <2>5
        <5>2. PICK d \in Int : d = Opens(t)'
          BY <2>5
        <5>3. b - d = Opening - Opens(t) /\ d = 0 /\ Opens(t) = 1 /\ Opening \in Int
          BY <3>2, <2>5, <5>1, <5>2
        <5>4. b = Opening - 1
          BY <5>3
        <5> QED BY <5>1, <5>4
      <4>2. opened + 1 + Opening' <= plays
        BY <1>a, <2>5, <4>1, OpeningBound
      <4> QED BY <3>2, <4>2
    <3> QED BY <2>3, <3>1, <3>2
  <2> QED BY <1>a, <2>1, <2>4, <2>6
<1>7. Calls
  BY <1>0
<1> QED BY <1>2, <1>4, <1>5, <1>6, <1>7, TodoSteps DEF CallsMove

-------------------------------------------------------------------------------
(* The keys taken for held *)

LEMMA RemoveAtOf ==
  ASSUME NEW S, NEW s \in Seq(S), NEW n \in 1..Len(s)
  PROVE  /\ RemoveAt(s, n) \in Seq(S) /\ Len(RemoveAt(s, n)) = Len(s) - 1
         /\ \A m \in 1..Len(s) - 1 : RemoveAt(s, n)[m] = IF m < n THEN s[m] ELSE s[m + 1]
<1> DEFINE a == SubSeq(s, 1, n - 1)
           b == SubSeq(s, n + 1, Len(s))
<1>0. Len(s) \in Nat /\ n \in Nat /\ \A m \in 1..Len(s) : s[m] \in S
  OBVIOUS
<1>1. a \in Seq(S) /\ Len(a) = n - 1 /\ \A i \in 1..n - 1 : a[i] = s[i]
  BY <1>0
<1>2. b \in Seq(S) /\ Len(b) = Len(s) - n /\ \A i \in 1..Len(s) - n : b[i] = s[n + i]
  BY <1>0
<1> HIDE DEF a, b
<1>3. /\ a \o b \in Seq(S) /\ Len(a \o b) = Len(a) + Len(b)
      /\ \A i \in 1 .. Len(a) + Len(b) : (a \o b)[i] = IF i <= Len(a) THEN a[i] ELSE b[i - Len(a)]
  BY <1>1, <1>2, ConcatProperties
<1>4. RemoveAt(s, n) = a \o b
  BY DEF RemoveAt, a, b
<1>5. ASSUME NEW m \in 1..Len(s) - 1
      PROVE  (a \o b)[m] = IF m < n THEN s[m] ELSE s[m + 1]
  <2>1. CASE m < n
    BY <2>1, <1>0, <1>1, <1>2, <1>3
  <2>2. CASE m >= n
    <3>1. m - (n - 1) \in 1..Len(s) - n
      BY <2>2, <1>0
    <3>2. (a \o b)[m] = b[m - (n - 1)]
      BY <2>2, <1>0, <1>1, <1>2, <1>3
    <3>3. b[m - (n - 1)] = s[n + (m - (n - 1))]
      BY <3>1, <1>2
    <3>4. n + (m - (n - 1)) = m + 1
      BY <1>0
    <3>5. (a \o b)[m] = s[m + 1] /\ ~(m < n)
      BY <2>2, <3>2, <3>3, <3>4, <1>0
    <3> QED BY <3>5
  <2>3. m < n \/ m >= n
    BY <1>0
  <2> QED BY <2>1, <2>2, <2>3
<1>6. Len(a \o b) = Len(s) - 1
  BY <1>0, <1>1, <1>2, <1>3
<1> QED BY <1>3, <1>4, <1>5, <1>6

\* A sequence without repetition has as many members as its length.
LEMMA DistinctCount ==
  ASSUME NEW S, NEW q \in Seq(S), IsInjective(q)
  PROVE  IsFiniteSet(ToSet(q)) /\ Cardinality(ToSet(q)) = Len(q)
<1>1. Len(q) \in Nat /\ DOMAIN q = 1..Len(q)
  OBVIOUS
<1>2. q \in [1..Len(q) -> ToSet(q)]
  BY <1>1, InToSet
<1>3. q \in Injection(1..Len(q), ToSet(q)) /\ q \in Surjection(1..Len(q), ToSet(q))
  BY <1>1, <1>2 DEF Injection, Surjection, IsInjective, ToSet
<1>4. IsFiniteSet(1..Len(q)) /\ Cardinality(1..Len(q)) = Len(q)
  BY <1>1, FS_Interval
<1>5. IsFiniteSet(ToSet(q)) /\ Cardinality(ToSet(q)) = Cardinality(1..Len(q))
  BY <1>3, <1>4, FS_Surjection
<1> QED BY <1>4, <1>5

LEMMA AppendDistinct ==
  ASSUME NEW S, NEW q \in Seq(S), IsInjective(q), NEW x \in S, x \notin ToSet(q)
  PROVE  /\ Append(q, x) \in Seq(S) /\ IsInjective(Append(q, x))
         /\ ToSet(Append(q, x)) = ToSet(q) \cup {x} /\ Append(q, x) # <<>>
<1> DEFINE r == Append(q, x)
<1>1. /\ r \in Seq(S) /\ Len(r) = Len(q) + 1 /\ Len(q) \in Nat
      /\ \A i \in 1..Len(q) : r[i] = q[i]
      /\ r[Len(q) + 1] = x
  BY AppendProps
<1>2. \A i \in 1..Len(q) : q[i] \in ToSet(q)
  BY InToSet
<1> HIDE DEF r
<1>3. DOMAIN r = 1..Len(q) + 1 /\ DOMAIN q = 1..Len(q)
  BY <1>1
<1>4. IsInjective(r)
  <2> SUFFICES ASSUME NEW i \in 1..Len(q) + 1, NEW j \in 1..Len(q) + 1, r[i] = r[j]
               PROVE  i = j
    BY <1>3 DEF IsInjective
  <2>1. CASE i \in 1..Len(q) /\ j \in 1..Len(q)
    BY <2>1, <1>1, <1>3 DEF IsInjective
  <2>2. CASE i = Len(q) + 1 \/ j = Len(q) + 1
    BY <2>2, <1>1, <1>2
  <2> QED BY <2>1, <2>2, <1>1
<1>5. ToSet(r) = ToSet(q) \cup {x}
  <2>1. 1..Len(r) = (1..Len(q)) \cup {Len(q) + 1}
    BY <1>1
  <2> QED BY <2>1, <1>1 DEF ToSet
<1>6. r # <<>>
  BY <1>1
<1> QED BY <1>1, <1>4, <1>5, <1>6 DEF r

LEMMA RemoveDistinct ==
  ASSUME NEW S, NEW q \in Seq(S), IsInjective(q), NEW n \in 1..Len(q)
  PROVE  /\ RemoveAt(q, n) \in Seq(S) /\ IsInjective(RemoveAt(q, n))
         /\ ToSet(RemoveAt(q, n)) = ToSet(q) \ {q[n]}
<1> DEFINE r == RemoveAt(q, n)
           at(m) == IF m < n THEN m ELSE m + 1
<1>0. Len(q) \in Nat /\ DOMAIN q = 1..Len(q) /\ n \in Nat
  OBVIOUS
<1>1. /\ r \in Seq(S) /\ Len(r) = Len(q) - 1
      /\ \A m \in 1..Len(q) - 1 : r[m] = IF m < n THEN q[m] ELSE q[m + 1]
  BY RemoveAtOf
<1> HIDE DEF r
<1>2. \A m \in 1..Len(r) : at(m) \in 1..Len(q) \ {n} /\ r[m] = q[at(m)]
  BY <1>0, <1>1
<1>3. \A m, k \in 1..Len(r) : at(m) = at(k) => m = k
  BY <1>0, <1>1
<1>4. \A m \in 1..Len(q) \ {n} : \E k \in 1..Len(r) : at(k) = m
  <2> SUFFICES ASSUME NEW m \in 1..Len(q) \ {n} PROVE \E k \in 1..Len(r) : at(k) = m
    OBVIOUS
  <2>1. CASE m < n
    <3>1. m \in 1..Len(r) /\ at(m) = m
      BY <2>1, <1>0, <1>1
    <3> QED BY <3>1
  <2>2. CASE m > n
    <3>1. m - 1 \in 1..Len(r) /\ at(m - 1) = m
      BY <2>2, <1>0, <1>1
    <3> QED BY <3>1
  <2> QED BY <2>1, <2>2, <1>0
<1> HIDE DEF at
<1>5. IsInjective(r)
  <2>1. DOMAIN r = 1..Len(r)
    BY <1>1
  <2> SUFFICES ASSUME NEW i \in 1..Len(r), NEW j \in 1..Len(r), r[i] = r[j]
               PROVE  i = j
    BY <2>1 DEF IsInjective
  <2>2. at(i) = at(j)
    BY <1>0, <1>2 DEF IsInjective
  <2> QED BY <2>2, <1>3
<1>6. ToSet(r) = ToSet(q) \ {q[n]}
  <2>1. ASSUME NEW m \in 1..Len(r)
        PROVE  r[m] \in ToSet(q) \ {q[n]}
    <3>1. at(m) \in 1..Len(q) /\ at(m) # n /\ r[m] = q[at(m)]
      BY <1>2
    <3>2. q[at(m)] # q[n]
      BY <3>1, <1>0 DEF IsInjective
    <3> QED BY <3>1, <3>2, InToSet
  <2>2. ASSUME NEW m \in 1..Len(q), q[m] # q[n]
        PROVE  q[m] \in ToSet(r)
    <3>1. PICK k \in 1..Len(r) : at(k) = m
      BY <2>2, <1>4
    <3>2. q[m] = r[k]
      BY <3>1, <1>2
    <3> QED BY <3>2, <1>1, InToSet
  <2> QED BY <2>1, <2>2 DEF ToSet
<1> QED BY <1>1, <1>5, <1>6 DEF r

ListenTypes ==
  /\ pressedKeys \in Seq(Keys) /\ IsInjective(pressedKeys)
  /\ notify \in BOOLEAN /\ forgotten \subseteq Keys
  /\ asked.did \in Sounds \cup {"nothing", "stop", "page"}

LEMMA StillHeldOf ==
  ASSUME pressedKeys \in Seq(Keys), IsInjective(pressedKeys), NEW k
  PROVE  /\ StillHeld(k) \in Seq(Keys) /\ IsInjective(StillHeld(k))
         /\ ToSet(StillHeld(k)) = ToSet(pressedKeys) \ {k}
<1>1. CASE k \in ToSet(pressedKeys)
  <2> DEFINE n == CHOOSE i \in 1..Len(pressedKeys) : pressedKeys[i] = k
  <2>1. \E i \in 1..Len(pressedKeys) : pressedKeys[i] = k
    BY <1>1 DEF ToSet
  <2>2. n \in 1..Len(pressedKeys) /\ pressedKeys[n] = k
    BY <2>1
  <2>3. StillHeld(k) = RemoveAt(pressedKeys, n)
    BY <1>1 DEF StillHeld
  <2> HIDE DEF n
  <2> QED BY <2>2, <2>3, RemoveDistinct
<1>2. CASE k \notin ToSet(pressedKeys)
  BY <1>2 DEF StillHeld
<1> QED BY <1>1, <1>2

LEMMA FiredIsASound ==
  ASSUME ConfigTypes, NEW keys \in Seq(Keys), keys # <<>>, NEW s \in FiredSound(keys)
  PROVE  s \in Sounds
<1> DEFINE list == ListOf[view]
           best == BestMatch(hotkeys, keys, list)
<1>1. list \in Seq(Sounds) /\ hotkeys \in [Sounds -> Seq(Keys)]
  BY ListsAssumption DEF ConfigTypes
<1>2. Found(best, Len(list), hotkeys, keys, list)
  BY <1>1, SearchFinds
<1>3. s \in best
  BY DEF FiredSound
<1> HIDE DEF best, list
<1>4. /\ ExactOf(Len(list), hotkeys, keys, list) \subseteq 1..Len(list)
      /\ HeldOf(Len(list), hotkeys, keys, list) \subseteq 1..Len(list)
  BY DEF ExactOf, HeldOf
<1>5. \E m \in 1..Len(list) : best = {list[m]}
  <2> DEFINE E == ExactOf(Len(list), hotkeys, keys, list)
             H == HeldOf(Len(list), hotkeys, keys, list)
  <2>1. CASE E # {}
    <3>1. \E m \in E : best = {list[m]}
      BY <2>1, <1>2 DEF Found
    <3> QED BY <3>1, <1>4
  <2>2. CASE E = {} /\ H # {}
    <3>1. \E m \in H : best = {list[m]}
      BY <2>2, <1>2 DEF Found
    <3> QED BY <3>1, <1>4
  <2>3. CASE H = {}
    <3>1. best = {}
      BY <2>3, <1>2 DEF Found
    <3> QED BY <3>1, <1>3
  <2> QED BY <2>1, <2>2, <2>3
<1> QED BY <1>1, <1>3, <1>5

\* What the listener makes of an event: the keys held, those forgotten, and its call.
LEMMA ListenEffects ==
  ASSUME ConfigTypes, KeyTypes, ListenTypes, Listen,
         NEW e, e = events[1]
  PROVE  /\ e \in EventSet /\ asked'.by = e.by /\ notify' = notify
         /\ pressedKeys' \in Seq(Keys) /\ IsInjective(pressedKeys')
         /\ \/ /\ e.kind # "release" /\ ~IsNews(e.key)
               /\ pressedKeys' = pressedKeys /\ asked'.did = "nothing"
               /\ forgotten' = IF e.by = "user" THEN forgotten \ {e.key} ELSE forgotten
            \/ /\ e.kind # "release" /\ IsNews(e.key)
               /\ pressedKeys' = Append(pressedKeys, e.key) /\ pressedKeys' # <<>>
               /\ ToSet(pressedKeys') = ToSet(pressedKeys) \cup {e.key}
               /\ forgotten' = IF e.by = "user" THEN forgotten \ {e.key} ELSE forgotten
               /\ \/ (notify \/ (~StopIsHeld(pressedKeys') /\ FiredSound(pressedKeys') = {}))
                     /\ asked'.did = "nothing"
                  \/ ~notify /\ StopIsHeld(pressedKeys') /\ asked'.did = "stop"
                  \/ ~notify /\ ~StopIsHeld(pressedKeys') /\ asked'.did \in FiredSound(pressedKeys')
            \/ /\ e.kind = "release" /\ notify /\ e.key \in ToSet(pressedKeys)
               /\ pressedKeys' = <<>> /\ asked'.did = "page"
               /\ forgotten' = (forgotten \cup ToSet(pressedKeys)) \ {e.key}
            \/ /\ e.kind = "release" /\ asked'.did = "nothing"
               /\ ToSet(pressedKeys') = ToSet(pressedKeys) \ {e.key}
               /\ forgotten' = IF e.by = "user" THEN forgotten \ {e.key} ELSE forgotten
<1>1. e = Head(events) /\ e \in EventSet /\ notify' = notify
  BY ListenDrops DEF Listen
<1>2. e.key \in Keys
  BY <1>1 DEF EventSet
<1>3. pressedKeys \in Seq(Keys) /\ IsInjective(pressedKeys)
  BY DEF ListenTypes
<1>4. \/ /\ e.kind # "release" /\ OnKeyDown(e.key, e.by)
         /\ forgotten' = IF e.by = "user" THEN forgotten \ {e.key} ELSE forgotten
      \/ e.kind = "release" /\ OnKeyUp(e.key, e.by)
  BY <1>1 DEF Listen
<1>5. CASE /\ e.kind # "release" /\ OnKeyDown(e.key, e.by)
           /\ forgotten' = IF e.by = "user" THEN forgotten \ {e.key} ELSE forgotten
  <2>1. CASE ~IsNews(e.key)
    BY <1>1, <1>3, <1>5, <2>1 DEF OnKeyDown, Asks
  <2>2. CASE IsNews(e.key)
    <3> DEFINE keys == Append(pressedKeys, e.key)
    <3>1. /\ keys \in Seq(Keys) /\ IsInjective(keys)
          /\ ToSet(keys) = ToSet(pressedKeys) \cup {e.key} /\ keys # <<>>
      BY <1>2, <1>3, <2>2, AppendDistinct DEF IsNews
    <3>2. /\ pressedKeys' = keys
          /\ \/ /\ notify \/ (~StopIsHeld(keys) /\ FiredSound(keys) = {})
                /\ Asks(e.by, "nothing")
             \/ ~notify /\ StopIsHeld(keys) /\ Asks(e.by, "stop")
             \/ ~notify /\ ~StopIsHeld(keys) /\ \E s \in FiredSound(keys) : Asks(e.by, s)
      BY <1>5, <2>2 DEF OnKeyDown
    <3> HIDE DEF keys
    <3>3. /\ asked'.by = e.by
          /\ \/ (notify \/ (~StopIsHeld(keys) /\ FiredSound(keys) = {})) /\ asked'.did = "nothing"
             \/ ~notify /\ StopIsHeld(keys) /\ asked'.did = "stop"
             \/ ~notify /\ ~StopIsHeld(keys) /\ asked'.did \in FiredSound(keys)
      BY <3>2 DEF Asks
    <3>4. StopIsHeld(pressedKeys') = StopIsHeld(keys) /\ FiredSound(pressedKeys') = FiredSound(keys)
      BY <3>2
    <3>5. pressedKeys' = Append(pressedKeys, e.key)
      BY <3>2 DEF keys
    <3> QED BY <1>1, <1>5, <2>2, <3>1, <3>2, <3>3, <3>4, <3>5
  <2> QED BY <2>1, <2>2
<1>6. CASE e.kind = "release" /\ OnKeyUp(e.key, e.by)
  <2>1. CASE notify /\ e.key \in ToSet(pressedKeys)
    <3>1. <<>> \in Seq(Keys) /\ IsInjective(<<>>)
      BY DEF IsInjective
    <3> QED BY <1>1, <1>6, <2>1, <3>1 DEF OnKeyUp, Asks
  <2>2. CASE ~(notify /\ e.key \in ToSet(pressedKeys))
    <3>1. /\ pressedKeys' = StillHeld(e.key) /\ asked'.by = e.by /\ asked'.did = "nothing"
          /\ forgotten' = IF e.by = "user" THEN forgotten \ {e.key} ELSE forgotten
      BY <1>6, <2>2 DEF OnKeyUp, Asks
    <3> QED BY <1>1, <1>3, <1>6, <3>1, StillHeldOf
  <2> QED BY <2>1, <2>2
<1> QED BY <1>4, <1>5, <1>6

LEMMA ListenInit == Init => ListenTypes
<1> SUFFICES ASSUME Init PROVE ListenTypes
  OBVIOUS
<1>1. IsInjective(<<>>)
  BY DEF IsInjective
<1>2. pressedKeys = <<>> /\ notify \in BOOLEAN /\ forgotten = {} /\ asked.did = "nothing"
  BY DEF Init
<1> QED BY <1>1, <1>2 DEF ListenTypes

LEMMA ListenStep ==
  ASSUME ConfigTypes, KeyTypes, ListenTypes, Next
  PROVE  ListenTypes'
<1>1. CASE UNCHANGED listener
  BY <1>1 DEF listener, ListenTypes
<1>2. CASE Listen
  <2> DEFINE e == events[1]
  <2>1. /\ e \in EventSet /\ notify' = notify
        /\ pressedKeys' \in Seq(Keys) /\ IsInjective(pressedKeys')
    BY <1>2, ListenEffects
  <2>2. forgotten' \subseteq Keys
    <3>1. \A i \in 1..Len(pressedKeys) : pressedKeys[i] \in Keys
      BY DEF ListenTypes
    <3>2. ToSet(pressedKeys) \subseteq Keys /\ forgotten \subseteq Keys
      BY <3>1 DEF ListenTypes, ToSet
    <3>3. forgotten' \subseteq forgotten \cup ToSet(pressedKeys)
      BY <1>2, ListenEffects
    <3> QED BY <3>2, <3>3
  <2>3. asked'.did \in Sounds \cup {"nothing", "stop", "page"}
    <3>1. \/ asked'.did \in {"nothing", "stop", "page"}
          \/ asked'.did \in FiredSound(pressedKeys') /\ pressedKeys' # <<>>
      BY <1>2, ListenEffects
    <3>2. CASE asked'.did \in FiredSound(pressedKeys') /\ pressedKeys' # <<>>
      BY <2>1, <3>2, FiredIsASound
    <3> QED BY <3>1, <3>2
  <2> QED BY <2>1, <2>2, <2>3 DEF ListenTypes
<1>3. CASE Forget
  <2>1. /\ pressedKeys' = <<>> /\ forgotten' = forgotten \cup ToSet(pressedKeys)
        /\ UNCHANGED <<notify, asked>>
    BY <1>3 DEF Forget
  <2>2. \A i \in 1..Len(pressedKeys) : pressedKeys[i] \in Keys
    BY DEF ListenTypes
  <2>3. ToSet(pressedKeys) \subseteq Keys /\ IsInjective(<<>>) /\ <<>> \in Seq(Keys)
    BY <2>2 DEF ToSet, IsInjective
  <2> QED BY <2>1, <2>3 DEF ListenTypes
<1>4. CASE SetNotify
  BY <1>4 DEF SetNotify, ListenTypes
<1> QED BY <1>1, <1>2, <1>3, <1>4, WhoChanges

-------------------------------------------------------------------------------
(* What the user held after each event that is on its way *)

\* An event of the user tells how the keys under the user's hand change from a to b.
HandMoves(a, e, b) ==
  IF e.by = "own" THEN b = a
  ELSE /\ e.key \in a <=> e.kind # "press"
       /\ b = IF e.kind = "release" THEN a \ {e.key} ELSE a \cup {e.key}

\* h: the keys the user held after each of the events, from those the listener has read on.
Trail(h) ==
  /\ h \in [0..Len(events) -> SUBSET Keys] /\ h[Len(events)] = userDown
  /\ \A i \in 1..Len(events) : HandMoves(h[i - 1], events[i], h[i])
Heard(hand) ==
  \A k \in Keys \ SyntheticKeys : k \in ToSet(pressedKeys) <=> (k \in hand /\ k \notin forgotten)
TrailInv == \E h : Trail(h) /\ Heard(h[0])

LEMMA LeastNumber ==
  ASSUME NEW M, M \subseteq Nat, M # {}
  PROVE  \E x \in M : \A y \in M : x <= y
<1> DEFINE R == OpToRel(<, Nat)
<1>1. IsWellFoundedOn(R, Nat)
  BY NatLessThanWellFounded
<1>2. \A x, y \in Nat : x < y => <<x, y>> \in R
  BY DEF OpToRel
<1> HIDE DEF R
<1>3. PICK x \in M : \A y \in M : ~(<<y, x>> \in R)
  BY <1>1, WFMin
<1>4. \A y \in M : ~(y < x)
  BY <1>2, <1>3
<1> QED BY <1>3, <1>4

\* A key is held as before until an event of the user tells otherwise.
LEMMA HeldUntilNews ==
  ASSUME events \in Seq(EventSet), NEW h, Trail(h), NEW k, NEW n \in 0..Len(events),
         \A i \in 1..n : events[i].key # k \/ events[i].by = "own" \/ events[i].kind = "repeat"
  PROVE  k \in h[n] <=> k \in h[0]
<1> DEFINE T == {i \in Nat : i <= n => (k \in h[i] <=> k \in h[0])}
<1>0. Len(events) \in Nat /\ n \in Nat
  OBVIOUS
<1>1. 0 \in T
  OBVIOUS
<1>2. ASSUME NEW i \in Nat, i \in T
      PROVE  i + 1 \in T
  <2> SUFFICES ASSUME i + 1 <= n PROVE k \in h[i + 1] <=> k \in h[0]
    OBVIOUS
  <2>1. i + 1 \in 1..n /\ i + 1 \in 1..Len(events) /\ i + 1 - 1 = i
    BY <1>0
  <2>2. HandMoves(h[i], events[i + 1], h[i + 1])
    BY <2>1 DEF Trail
  <2>3. events[i + 1].key # k \/ events[i + 1].by = "own" \/ events[i + 1].kind = "repeat"
    BY <2>1
  <2>4. k \in h[i + 1] <=> k \in h[i]
    BY <2>2, <2>3 DEF HandMoves
  <2> QED BY <1>0, <1>2, <2>4
<1> HIDE DEF T
<1>3. n \in T
  BY <1>0, <1>1, <1>2, SetOfAllNumbers
<1> QED BY <1>3 DEF T

LEMMA UserHoldsFirst ==
  ASSUME events \in Seq(EventSet), NEW h, Trail(h), NEW k
  PROVE  UserHolds(k) <=> k \in h[0]
<1> DEFINE news == {i \in 1..Len(events) : /\ events[i].key = k /\ events[i].by = "user"
                                           /\ events[i].kind # "repeat"}
           first == CHOOSE i \in news : \A j \in news : i <= j
<1>0. Len(events) \in Nat /\ \A i \in 1..Len(events) : events[i] \in EventSet
  OBVIOUS
<1>1. UserHolds(k) = IF news = {} THEN k \in userDown ELSE events[first].kind = "release"
  BY DEF UserHolds
<1>2. \A i \in 1..Len(events) : i \in news \/ (events[i].key # k \/ events[i].by = "own" \/ events[i].kind = "repeat")
  BY <1>0 DEF EventSet
<1>a. \A i \in news : /\ i \in 1..Len(events) /\ events[i].key = k /\ events[i].by = "user"
                      /\ events[i].kind # "repeat" /\ events[i].kind \in Kinds
  BY <1>0 DEF EventSet
<1> HIDE DEF news
<1>3. CASE news = {}
  <2>1. \A i \in 1..Len(events) : events[i].key # k \/ events[i].by = "own" \/ events[i].kind = "repeat"
    BY <1>2, <1>3
  <2>2. Len(events) \in 0..Len(events)
    BY <1>0
  <2>3. k \in h[Len(events)] <=> k \in h[0]
    BY <2>1, <2>2, HeldUntilNews
  <2> QED BY <1>1, <1>3, <2>3 DEF Trail
<1>4. CASE news # {}
  <2>1. first \in news /\ \A j \in news : first <= j
    <3>1. news \subseteq Nat
      BY <1>a
    <3>2. \E i \in news : \A j \in news : i <= j
      BY <1>4, <3>1, LeastNumber
    <3> QED BY <3>2
  <2> HIDE DEF first
  <2>2. first \in 1..Len(events) /\ first - 1 \in 0..Len(events)
    BY <1>0, <1>a, <2>1
  <2>3. \A i \in 1..first - 1 : i \in 1..Len(events) /\ i \notin news
    BY <1>0, <2>1, <2>2
  <2>4. \A i \in 1..first - 1 : events[i].key # k \/ events[i].by = "own" \/ events[i].kind = "repeat"
    BY <1>2, <2>3
  <2>5. k \in h[first - 1] <=> k \in h[0]
    BY <2>2, <2>4, HeldUntilNews
  <2>6. HandMoves(h[first - 1], events[first], h[first])
    BY <2>2 DEF Trail
  <2>7. k \in h[first - 1] <=> events[first].kind # "press"
    BY <1>a, <2>1, <2>6 DEF HandMoves
  <2>8. events[first].kind \in {"press", "release"}
    BY <1>a, <2>1 DEF Kinds
  <2> QED BY <1>1, <1>4, <2>5, <2>7, <2>8
<1> QED BY <1>3, <1>4

\* Events come to the others.
LEMMA TrailGrows ==
  ASSUME NEW h, Trail(h), Len(events) \in Nat, Len(events') \in Nat, Len(events) <= Len(events'),
         userDown' \subseteq Keys,
         \A i \in 1..Len(events) : events'[i] = events[i],
         Len(events') = Len(events) => userDown' = userDown,
         \A i \in Len(events) + 1 .. Len(events') :
            HandMoves(IF i = Len(events) + 1 THEN userDown ELSE userDown', events'[i], userDown')
  PROVE  \E g : Trail(g)' /\ g[0] = h[0]
<1>a. PICK n, m, d : n = Len(events) /\ m = Len(events') /\ d = userDown'
  OBVIOUS
<1> DEFINE g == [i \in 0..m |-> IF i <= n THEN h[i] ELSE d]
<1>1. h \in [0..n -> SUBSET Keys] /\ h[n] = userDown /\ n \in Nat /\ m \in Nat /\ n <= m
  BY <1>a DEF Trail
<1>2. g \in [0..m -> SUBSET Keys] /\ g[m] = userDown' /\ g[0] = h[0]
  BY <1>a, <1>1
<1>3. ASSUME NEW i \in 1..m
      PROVE  HandMoves(g[i - 1], events'[i], g[i])
  <2>1. CASE i <= n
    <3>1. g[i - 1] = h[i - 1] /\ g[i] = h[i] /\ i \in 1..n
      BY <2>1, <1>1
    <3>2. HandMoves(h[i - 1], events[i], h[i]) /\ events'[i] = events[i]
      BY <1>a, <3>1 DEF Trail
    <3> QED BY <3>1, <3>2
  <2>2. CASE i > n
    <3>1. /\ i \in n + 1 .. m /\ g[i] = userDown'
          /\ g[i - 1] = IF i = n + 1 THEN userDown ELSE userDown'
      BY <2>2, <1>a, <1>1
    <3>2. HandMoves(IF i = n + 1 THEN userDown ELSE userDown', events'[i], userDown')
      BY <1>a, <3>1
    <3> QED BY <3>1, <3>2
  <2> QED BY <2>1, <2>2, <1>1
<1> HIDE DEF g
<1>4. Trail(g)'
  BY <1>a, <1>2, <1>3 DEF Trail
<1> QED BY <1>2, <1>4

LEMMA TrailInit == Init => TrailInv
<1> SUFFICES ASSUME Init PROVE TrailInv
  OBVIOUS
<1> DEFINE h == [i \in 0..0 |-> {}]
<1>1. events = <<>> /\ userDown = {} /\ pressedKeys = <<>>
  BY DEF Init
<1>2. Trail(h)
  BY <1>1 DEF Trail
<1>3. Heard(h[0])
  BY <1>1 DEF Heard, ToSet
<1> QED BY <1>2, <1>3 DEF TrailInv

LEMMA TrailListen ==
  ASSUME ConfigTypes, KeyTypes, ListenTypes, Listen, usage' = usage, TrailInv
  PROVE  TrailInv'
<1>1. PICK h : Trail(h) /\ Heard(h[0])
  BY DEF TrailInv
<1>a. PICK n, e : n = Len(events) /\ e = events[1]
  OBVIOUS
<1> DEFINE g == [i \in 0..n - 1 |-> h[i + 1]]
<1>2. /\ n \in Nat \ {0} /\ Len(events') = n - 1 /\ e \in EventSet
      /\ \A i \in 1..n - 1 : events'[i] = events[i + 1]
      /\ userDown' = userDown
  BY <1>a, ListenDrops
<1>3. h \in [0..n -> SUBSET Keys] /\ h[n] = userDown
  BY <1>1, <1>a DEF Trail
<1>4. Trail(g)'
  <2>1. g \in [0..n - 1 -> SUBSET Keys] /\ g[n - 1] = userDown'
    BY <1>2, <1>3
  <2>2. ASSUME NEW i \in 1..n - 1
        PROVE  HandMoves(g[i - 1], events'[i], g[i])
    <3>1. i + 1 \in 1..n /\ i + 1 - 1 = i /\ g[i - 1] = h[i] /\ g[i] = h[i + 1]
      BY <1>2
    <3>2. HandMoves(h[i + 1 - 1], events[i + 1], h[i + 1])
      BY <1>1, <1>a, <3>1 DEF Trail
    <3> QED BY <1>2, <3>1, <3>2
  <2> HIDE DEF g
  <2> QED BY <1>2, <2>1, <2>2 DEF Trail
<1>5. HandMoves(h[0], e, h[1]) /\ g[0] = h[1]
  <2>1. 1 \in 1..n /\ 1 - 1 = 0 /\ 0 \in 0..n - 1
    BY <1>2
  <2>2. HandMoves(h[1 - 1], events[1], h[1])
    BY <1>1, <1>a, <2>1 DEF Trail
  <2> QED BY <1>a, <2>1, <2>2
<1>6. e.by = "own" => e.key \in SyntheticKeys
  BY <1>a, <1>2 DEF KeyTypes, OwnAreSynthetic
<1>7. SyntheticKeys' = SyntheticKeys /\ ToSet(keysToPress) \subseteq SyntheticKeys
  BY DEF SyntheticKeys, KeyTypes, OwnAreSynthetic, ToSet
<1>8. e.kind \in Kinds /\ e.by \in {"user", "own"}
  BY <1>2 DEF EventSet
<1>9. e = events[1]
  BY <1>a
<1> HIDE DEF g
<1>10. ASSUME NEW k \in Keys \ SyntheticKeys
       PROVE  k \in ToSet(pressedKeys') <=> (k \in h[1] /\ k \notin forgotten')
  <2>1. k \in ToSet(pressedKeys) <=> (k \in h[0] /\ k \notin forgotten)
    BY <1>1 DEF Heard
  <2>2. k # e.key => (k \in h[1] <=> k \in h[0])
    BY <1>5 DEF HandMoves
  <2>3. k = e.key => e.by = "user" /\ (k \in h[1] <=> e.kind # "release") /\ (k \in h[0] <=> e.kind # "press")
    BY <1>5, <1>6, <1>8 DEF HandMoves
  <2>4. k = e.key => (IsNews(e.key) <=> k \notin ToSet(pressedKeys))
    BY <1>7 DEF IsNews
  <2>5. ToSet(<<>>) = {}
    BY DEF ToSet
  <2>6. CASE /\ e.kind # "release" /\ ~IsNews(e.key) /\ pressedKeys' = pressedKeys
             /\ forgotten' = IF e.by = "user" THEN forgotten \ {e.key} ELSE forgotten
    BY <2>1, <2>2, <2>3, <2>4, <2>6
  <2>7. CASE /\ e.kind # "release" /\ IsNews(e.key)
             /\ ToSet(pressedKeys') = ToSet(pressedKeys) \cup {e.key}
             /\ forgotten' = IF e.by = "user" THEN forgotten \ {e.key} ELSE forgotten
    BY <2>1, <2>2, <2>3, <2>7
  <2>8. CASE /\ e.kind = "release" /\ pressedKeys' = <<>>
             /\ forgotten' = (forgotten \cup ToSet(pressedKeys)) \ {e.key}
    BY <2>1, <2>2, <2>3, <2>5, <2>8
  <2>9. CASE /\ e.kind = "release" /\ ToSet(pressedKeys') = ToSet(pressedKeys) \ {e.key}
             /\ forgotten' = IF e.by = "user" THEN forgotten \ {e.key} ELSE forgotten
    BY <2>1, <2>2, <2>3, <2>9
  <2> QED BY <1>9, <2>6, <2>7, <2>8, <2>9, ListenEffects
<1>11. Heard(g[0])'
  BY <1>5, <1>7, <1>10 DEF Heard
<1> QED BY <1>4, <1>11 DEF TrailInv

LEMMA TrailStep ==
  ASSUME ConfigTypes, KeyTypes, ListenTypes, TrailInv, Next
  PROVE  TrailInv'
<1>0. usage' = usage /\ SyntheticKeys' = SyntheticKeys
  BY DEF Next, SyntheticKeys
<1>1. CASE Listen
  BY <1>0, <1>1, TrailListen
<1>2. CASE ~Listen
  <2>1. PICK h : Trail(h) /\ Heard(h[0])
    BY DEF TrailInv
  <2>2. Heard(h[0])'
    <3>1. CASE UNCHANGED listener
      BY <1>0, <2>1, <3>1 DEF listener, Heard
    <3>2. CASE Forget
      <4>1. pressedKeys' = <<>> /\ forgotten' = forgotten \cup ToSet(pressedKeys)
        BY <3>2 DEF Forget
      <4>2. ToSet(pressedKeys') = {}
        BY <4>1 DEF ToSet
      <4> QED BY <1>0, <2>1, <4>1, <4>2 DEF Heard
    <3>3. CASE SetNotify
      BY <1>0, <2>1, <3>3 DEF SetNotify, Heard
    <3> QED BY <1>2, <3>1, <3>2, <3>3, WhoChanges
  <2>3. \E g : Trail(g)' /\ g[0] = h[0]
    <3>0. events \in Seq(EventSet) /\ Len(events) \in Nat /\ userDown \subseteq Keys
      BY DEF KeyTypes
    <3>1. CASE UNCHANGED keyboard
      <4>1. Trail(h)'
        BY <2>1, <3>1 DEF keyboard, Trail
      <4> QED BY <4>1
    <3>2. CASE UserNext
      <4>1. PICK k \in Keys, kind \in Kinds :
              /\ events' = Append(events, [key |-> k, kind |-> kind, by |-> "user"])
              /\ userDown' = CASE kind = "press" -> userDown \cup {k}
                               [] kind = "release" -> userDown \ {k}
                               [] kind = "repeat" -> userDown
              /\ k \in userDown <=> kind # "press"
        BY <3>2, StrikesAppend
      <4> DEFINE e == [key |-> k, kind |-> kind, by |-> "user"]
      <4>2. HandMoves(userDown, e, userDown')
        BY <4>1 DEF HandMoves, Kinds
      <4>3. e \in EventSet
        BY DEF EventSet
      <4>4. userDown' \subseteq Keys
        BY <3>0, <4>1 DEF Kinds
      <4> HIDE DEF e
      <4>5. /\ Len(events') = Len(events) + 1
            /\ \A i \in 1..Len(events) : events'[i] = events[i]
            /\ events'[Len(events) + 1] = e
        BY <3>0, <4>1, <4>3, AppendProps DEF e
      <4>6. \A i \in Len(events) + 1 .. Len(events') :
              HandMoves(IF i = Len(events) + 1 THEN userDown ELSE userDown', events'[i], userDown')
        BY <3>0, <4>2, <4>5
      <4>7. Len(events') \in Nat /\ Len(events) <= Len(events') /\ Len(events') # Len(events)
        BY <3>0, <4>5
      <4> QED BY <2>1, <3>0, <4>4, <4>5, <4>6, <4>7, TrailGrows
    <3>3. CASE PressNext
      <4>1. PICK k \in SyntheticKeys :
              /\ events' = Append(events, [key |-> k, kind |-> "press", by |-> "own"])
              /\ userDown' = userDown
        BY <3>3, PressNextAppend
      <4> DEFINE e == [key |-> k, kind |-> "press", by |-> "own"]
      <4>2. HandMoves(userDown, e, userDown)
        BY DEF HandMoves
      <4>3. e \in EventSet
        BY SyntheticAreKeys DEF EventSet, Kinds, ConfigTypes
      <4> HIDE DEF e
      <4>5. /\ Len(events') = Len(events) + 1
            /\ \A i \in 1..Len(events) : events'[i] = events[i]
            /\ events'[Len(events) + 1] = e
        BY <3>0, <4>1, <4>3, AppendProps DEF e
      <4>6. \A i \in Len(events) + 1 .. Len(events') :
              HandMoves(IF i = Len(events) + 1 THEN userDown ELSE userDown', events'[i], userDown')
        BY <3>0, <4>1, <4>2, <4>5
      <4>7. Len(events') \in Nat /\ Len(events) <= Len(events') /\ Len(events') # Len(events)
        BY <3>0, <4>5
      <4> QED BY <2>1, <3>0, <4>1, <4>5, <4>6, <4>7, TrailGrows
    <3>4. ASSUME NEW t \in Threads, PostPresses(t) \/ PostReleases(t)
          PROVE  \E g : Trail(g)' /\ g[0] = h[0]
      <4>1. PICK kind \in Kinds : Posts(kind)
        BY <3>4 DEF PostPresses, PostReleases, Kinds
      <4>2. userDown' = userDown
        BY <3>4 DEF PostPresses, PostReleases
      <4>3. /\ Len(events') = Len(events) + Len(ptt)
            /\ \A i \in 1..Len(events) : events'[i] = events[i]
            /\ \A i \in Len(events) + 1 .. Len(events') :
                 events'[i] = [key |-> ptt[i - Len(events)], kind |-> kind, by |-> "own"]
        BY <4>1, PostsAppend
      <4>4. Len(ptt) \in Nat
        BY DEF KeyTypes, OwnAreSynthetic
      <4>5. \A i \in Len(events) + 1 .. Len(events') :
              HandMoves(IF i = Len(events) + 1 THEN userDown ELSE userDown', events'[i], userDown')
        <5> SUFFICES ASSUME NEW i \in Len(events) + 1 .. Len(events')
                     PROVE  HandMoves(userDown, events'[i], userDown)
          BY <4>2
        <5> DEFINE key == ptt[i - Len(events)]
        <5>0. events'[i] = [key |-> key, kind |-> kind, by |-> "own"]
          BY <4>3
        <5> HIDE DEF key
        <5>1. events'[i].by = "own"
          BY <5>0
        <5> QED BY <5>1 DEF HandMoves
      <4>6. Len(events') \in Nat /\ Len(events) <= Len(events')
        BY <3>0, <4>3, <4>4
      <4> QED BY <2>1, <3>0, <4>2, <4>3, <4>5, <4>6, TrailGrows
    <3> QED BY <1>2, <3>1, <3>2, <3>3, <3>4, WhoChanges
  <2> QED BY <2>2, <2>3 DEF TrailInv
<1> QED BY <1>1, <1>2

-------------------------------------------------------------------------------
(* The invariant of the listener *)

ListenIInv == HeldInv /\ ConfigTypes /\ KeyTypes /\ PlayTypes /\ ListenTypes /\ TrailInv

LEMMA ListenIInit == Init => ListenIInv
BY HeldInit, ConfigInit, KeyInit, PlayInit, ListenInit, TrailInit DEF ListenIInv

LEMMA ListenIStep ==
  ASSUME ListenIInv, [Next]_<<vars, usage>>
  PROVE  ListenIInv'
<1>1. CASE Next
  <2>1. HeldInv'
    BY HeldStep DEF ListenIInv
  <2>2. ConfigTypes'
    BY <1>1, ConfigStep DEF ListenIInv, ListenTypes
  <2>3. KeyTypes' /\ PlayTypes' /\ ListenTypes' /\ TrailInv'
    BY <1>1, KeyStep, PlayStep, ListenStep, TrailStep DEF ListenIInv, ConfigTypes
  <2> QED BY <2>1, <2>2, <2>3 DEF ListenIInv
<1>2. CASE UNCHANGED <<vars, usage>>
  <2>1. HeldInv'
    BY HeldStep DEF ListenIInv
  <2>2. ConfigTypes'
    BY <1>2 DEF ListenIInv, ConfigTypes, vars, config
  <2>3. KeyTypes'
    BY <1>2 DEF ListenIInv, KeyTypes, OwnAreSynthetic, SyntheticKeys, vars, keyboard, held, config
  <2>4. PlayTypes'
    BY <1>2 DEF ListenIInv, PlayTypes, Opening, Opens, vars, player
  <2>5. ListenTypes'
    BY <1>2 DEF ListenIInv, ListenTypes, vars, listener
  <2>6. TrailInv'
    BY <1>2 DEF ListenIInv, TrailInv, Trail, Heard, SyntheticKeys, vars, keyboard, listener
  <2> QED BY <2>1, <2>2, <2>3, <2>4, <2>5, <2>6 DEF ListenIInv
<1> QED BY <1>1, <1>2

LEMMA ListenIInvGives ==
  ASSUME ListenIInv, ownDown \subseteq Keys, strayed \subseteq Keys
  PROVE  ListenerInv
<1>1. /\ events \in Seq(EventSet) /\ Len(events) <= MaxEvents
      /\ userDown \subseteq Keys /\ strokes \in 0..MaxStrokes
  BY DEF ListenIInv, KeyTypes
<1>2. pressedKeys \in Seq(Keys) /\ Cardinality(ToSet(pressedKeys)) = Len(pressedKeys)
  BY DistinctCount DEF ListenIInv, ListenTypes
<1>3. {keysToPress, round, ptt, received} \subseteq Seq(Keys)
  BY SyntheticAreKeys DEF ListenIInv, KeyTypes, OwnAreSynthetic, ConfigTypes
<1>4. hotkeys \in [Sounds -> Seq(Keys)] /\ view \in Views /\ usage \in Usages
  BY DEF ListenIInv, ConfigTypes
<1>5. notify \in BOOLEAN /\ asked.did \in Sounds \cup {"nothing", "stop", "page"} /\ forgotten \subseteq Keys
  BY DEF ListenIInv, ListenTypes
<1>6. todo \in [Threads -> Seq(Steps)] /\ stopLater \in BOOLEAN /\ plays \in 0..MaxPlays
  BY DEF ListenIInv, HeldInv, Calls, PlayTypes
<1>7. opened \in Nat /\ playing \subseteq 1..opened /\ ending \in 0..opened /\ opened + Opening <= plays
  BY DEF ListenIInv, HeldInv, Numbered, PlayTypes
<1>8. playing \subseteq SoundNumbers /\ ending \in 0..MaxPlays /\ opened <= plays
  <2>1. Opening \in Nat
    BY DEF Opening, Opens
  <2>2. plays \in Nat /\ MaxPlays \in Nat /\ plays <= MaxPlays
    BY <1>6, BoundsAssumption
  <2>3. opened <= plays
    BY <1>7, <2>1, <2>2
  <2>4. opened <= MaxPlays
    BY <1>7, <2>2, <2>3
  <2>5. 1..opened \subseteq 1..MaxPlays /\ 0..opened \subseteq 0..MaxPlays
    BY <1>7, <2>2, <2>4
  <2> QED BY <1>7, <2>3, <2>5 DEF SoundNumbers
<1>9. TypeOK
  BY <1>1, <1>2, <1>3, <1>4, <1>5, <1>6, <1>8 DEF TypeOK
<1>10. TracksTheUser
  <2>1. PICK h : Trail(h) /\ Heard(h[0])
    BY DEF ListenIInv, TrailInv
  <2>2. \A k \in Keys : UserHolds(k) <=> k \in h[0]
    BY <1>1, <2>1, UserHoldsFirst
  <2> QED BY <2>1, <2>2 DEF TracksTheUser, Heard
<1> QED BY <1>9, <1>10 DEF ListenerInv

\* The keys the program holds, or leaves pressed.
HandTypes == ownDown \subseteq Keys /\ strayed \subseteq Keys

LEMMA HandStep ==
  ASSUME ConfigTypes, KeyTypes, HandTypes, Next
  PROVE  HandTypes'
<1> DEFINE Own == ToSet(ptt) \cup ToSet(keysToPress) \cup ToSet(round)
           Kept == ownDown' \subseteq ownDown \cup Own /\ strayed' \subseteq strayed \cup ownDown \cup Own
<1>1. Own \subseteq Keys
  BY SyntheticAreKeys DEF KeyTypes, OwnAreSynthetic, ConfigTypes, ToSet
<1>2. ASSUME NEW t \in Threads, StepOf(t)
      PROVE  Kept
  BY <1>2 DEF StepOf, Press, PostPresses, Release, PostReleases, Silence, QueueStop, Open, Erase, held, Abandoned
<1>a. Abandoned \subseteq strayed \cup ownDown \cup Own
  BY DEF Abandoned
<1> HIDE DEF Own
<1>3. ASSUME UserNext PROVE Kept
  <2>1. ownDown' \subseteq ownDown /\ strayed' = strayed
    BY <1>3 DEF UserNext, UserPresses, KeyRepeats, UserReleases, held
  <2> QED BY <2>1
<1>4. ASSUME Listen \/ StartRound PROVE Kept
  <2>1. ownDown' = ownDown /\ strayed' = strayed
    BY <1>4 DEF Listen, StartRound, held
  <2> QED BY <2>1
<1>5. ASSUME WindowNext PROVE Kept
  <2>1. ownDown' = ownDown /\ strayed' \in {strayed, Abandoned}
    BY <1>5 DEF WindowNext, WindowPlays, WindowStops, SettingsChange, ViewChanges, RequestHotkey, SetHotkey,
           Forget, SetNotify, held
  <2> QED BY <2>1, <1>a
<1>6. ASSUME QueueNext PROVE Kept
  <2>1. ownDown' = ownDown /\ strayed' \in {strayed, Abandoned}
    BY <1>6 DEF QueueNext, StopAllRuns, SoundEnds, held
  <2> QED BY <2>1, <1>a
<1>8. ASSUME PressNext PROVE Kept
  <2>1. round \in Seq(SyntheticKeys) /\ round # <<>>
    BY <1>8 DEF PressNext, KeyTypes, OwnAreSynthetic
  <2>2. Head(round) \in ToSet(round)
    BY <2>1, ToSetTail
  <2>3. /\ ownDown' = ownDown \cup {Head(round)}
        /\ strayed' = strayed \/ strayed' = strayed \cup {Head(round)}
    BY <1>8 DEF PressNext
  <2>4. Head(round) \in Own
    BY <2>2 DEF Own
  <2> QED BY <2>3, <2>4
<1>9. Kept
  BY <1>2, <1>3, <1>4, <1>5, <1>6, <1>8 DEF Next
<1> QED BY <1>1, <1>9 DEF HandTypes

-------------------------------------------------------------------------------
(* What a pressed key calls for *)

\* The stop hotkey is held when its keys are: it has no more of them than are held.
LEMMA StopIsHeldMeans ==
  ASSUME usage \in Usages, NEW keys \in Seq(Keys), IsInjective(keys)
  PROVE  StopIsHeld(keys) <=> usage.stop # <<>> /\ ToSet(usage.stop) \subseteq ToSet(keys)
<1>1. usage.stop \in Seq(Keys) /\ IsInjective(usage.stop)
  BY UsageParts
<1>2. ASSUME ToSet(usage.stop) \subseteq ToSet(keys)
      PROVE  Len(keys) >= Len(usage.stop)
  <2>1. /\ IsFiniteSet(ToSet(keys)) /\ Cardinality(ToSet(keys)) = Len(keys)
        /\ Cardinality(ToSet(usage.stop)) = Len(usage.stop)
    BY <1>1, DistinctCount
  <2>2. Cardinality(ToSet(usage.stop)) <= Cardinality(ToSet(keys))
    BY <1>2, <2>1, FS_Subset
  <2>3. Len(keys) \in Nat /\ Len(usage.stop) \in Nat
    BY <1>1
  <2> QED BY <2>1, <2>2, <2>3
<1> QED BY <1>2 DEF StopIsHeld, IsCloseMatch

LEMMA FiredIsMeant ==
  ASSUME ConfigTypes, NEW keys \in Seq(Keys), keys # <<>>
  PROVE  FiredSound(keys) = MeantSound(hotkeys, keys, ListOf[view])
<1>1. ListOf[view] \in Seq(Sounds) /\ hotkeys \in [Sounds -> Seq(Keys)]
  BY ListsAssumption DEF ConfigTypes
<1>2. PICK list : list = ListOf[view]
  OBVIOUS
<1>3. list \in Seq(Sounds)
  BY <1>1, <1>2
<1>4. PICK hotkey : hotkey = hotkeys
  OBVIOUS
<1>5. hotkey \in [Sounds -> Seq(Keys)]
  BY <1>1, <1>4
<1>6. BestMatch(hotkey, keys, list) = MeantSound(hotkey, keys, list)
  BY <1>3, <1>5, SearchFindsMeant
<1> QED BY <1>2, <1>4, <1>6 DEF FiredSound

\* Only the listener takes an event from the queue.
LEMMA OnlyListenTakes ==
  ASSUME ConfigTypes, KeyTypes, Next, events # <<>>, events' = Tail(events)
  PROVE  Listen
<1>0. events \in Seq(EventSet)
  BY DEF KeyTypes
<1>1. events \in Seq(EventSet) /\ Len(events) \in Nat \ {0} /\ Len(Tail(events)) = Len(events) - 1
  BY DEF KeyTypes
<1>2. CASE UNCHANGED keyboard
  BY <1>1, <1>2 DEF keyboard
<1>3. CASE UserNext
  <2>1. PICK k \in Keys, kind \in Kinds :
          events' = Append(events, [key |-> k, kind |-> kind, by |-> "user"])
    BY <1>3, StrikesAppend
  <2> DEFINE e == [key |-> k, kind |-> kind, by |-> "user"]
  <2>2. e \in EventSet
    BY DEF EventSet
  <2> HIDE DEF e
  <2>3. Len(events') = Len(events) + 1
    BY <1>0, <2>1, <2>2, AppendProps DEF e
  <2> QED BY <1>1, <2>3
<1>4. CASE PressNext
  <2>1. PICK k \in SyntheticKeys :
          events' = Append(events, [key |-> k, kind |-> "press", by |-> "own"])
    BY <1>4, PressNextAppend
  <2> DEFINE e == [key |-> k, kind |-> "press", by |-> "own"]
  <2>2. e \in EventSet
    BY SyntheticAreKeys DEF EventSet, Kinds, ConfigTypes
  <2> HIDE DEF e
  <2>3. Len(events') = Len(events) + 1
    BY <1>0, <2>1, <2>2, AppendProps DEF e
  <2> QED BY <1>1, <2>3
<1>5. ASSUME NEW t \in Threads, PostPresses(t) \/ PostReleases(t)
      PROVE  FALSE
  <2>1. PICK kind \in Kinds : Posts(kind)
    BY <1>5 DEF PostPresses, PostReleases, Kinds
  <2>2. Len(events') = Len(events) + Len(ptt) /\ Len(ptt) \in Nat
    BY <2>1, PostsAppend DEF KeyTypes, OwnAreSynthetic
  <2> QED BY <1>1, <2>2
<1> QED BY <1>2, <1>3, <1>4, <1>5, WhoChanges

LEMMA BestFires ==
  ASSUME ListenIInv, Next, events # <<>>, events' = Tail(events), ~notify,
         Head(events).by = "user", Head(events).kind = "press", Head(events).key \notin SyntheticKeys
  PROVE  asked'.did \in Meant(pressedKeys')
<1>1. Listen
  BY OnlyListenTakes DEF ListenIInv
<1> DEFINE e == events[1]
<1>2. Head(events) = e /\ e \in EventSet /\ Len(events) \in Nat \ {0}
  BY <1>1, ListenDrops DEF ListenIInv
<1>3. e.by = "user" /\ e.kind = "press" /\ e.key \in Keys \ SyntheticKeys
  BY <1>2 DEF EventSet
<1>4. IsNews(e.key)
  <2>1. PICK h : Trail(h) /\ Heard(h[0])
    BY DEF ListenIInv, TrailInv
  <2>2. HandMoves(h[0], e, h[1])
    <3>1. 1 \in 1..Len(events) /\ 1 - 1 = 0
      BY <1>2
    <3>2. HandMoves(h[1 - 1], events[1], h[1])
      BY <2>1, <3>1 DEF Trail
    <3> QED BY <3>1, <3>2
  <2>3. e.key \notin h[0]
    BY <1>3, <2>2 DEF HandMoves
  <2>4. e.key \notin ToSet(pressedKeys)
    BY <1>3, <2>1, <2>3 DEF Heard
  <2>5. ToSet(keysToPress) \subseteq SyntheticKeys
    BY DEF ListenIInv, KeyTypes, OwnAreSynthetic, ToSet
  <2> QED BY <1>3, <2>4, <2>5 DEF IsNews
<1>5. e = events[1]
  OBVIOUS
<1> HIDE DEF e
<1>6. pressedKeys' \in Seq(Keys) /\ IsInjective(pressedKeys')
  BY <1>1, <1>5, ListenEffects DEF ListenIInv
<1>7. /\ pressedKeys' # <<>>
      /\ \/ ~StopIsHeld(pressedKeys') /\ FiredSound(pressedKeys') = {} /\ asked'.did = "nothing"
         \/ StopIsHeld(pressedKeys') /\ asked'.did = "stop"
         \/ ~StopIsHeld(pressedKeys') /\ asked'.did \in FiredSound(pressedKeys')
  BY <1>1, <1>3, <1>4, <1>5, ListenEffects DEF ListenIInv
<1>8. usage \in Usages /\ ConfigTypes
  BY DEF ListenIInv, ConfigTypes
<1>9. StopIsHeld(pressedKeys') <=> usage.stop # <<>> /\ ToSet(usage.stop) \subseteq ToSet(pressedKeys')
  BY <1>6, <1>8, StopIsHeldMeans
<1>10. FiredSound(pressedKeys') = MeantSound(hotkeys, pressedKeys', ListOf[view])
  BY <1>6, <1>7, <1>8, FiredIsMeant
<1> QED BY <1>7, <1>9, <1>10 DEF Meant

-------------------------------------------------------------------------------
(* Calls that do not cross: the program's own presses *)

\* The events of the user come one by one, when nothing is under way; the program's presses
\* are on their way only while their keys are known and the call that posts them ends.
Tame ==
  /\ round = <<>>
  /\ \A t, u \in Threads : todo[t] # <<>> /\ todo[u] # <<>> => t = u
  /\ \A i \in 1..Len(events) : events[i].by = "user" => Len(events) = 1 /\ Idle
  /\ \A i \in 1..Len(events) : events[i].by = "own" /\ events[i].kind # "release" =>
       /\ events[i].key \in ToSet(keysToPress)
       /\ \A t \in Threads : ToSet(todo[t]) \subseteq {"open"}
  /\ \A t \in Threads : At(t, "down") => keysToPress = ptt
  /\ asked.by = "own" => asked.did \in {"nothing", "page"}
TameInv == usage.patient /\ ~usage.windows => Tame

LEMMA TameParts ==
  ASSUME Tame
  PROVE  /\ round = <<>>
         /\ \A t, u \in Threads : todo[t] # <<>> /\ todo[u] # <<>> => t = u
         /\ \A i \in 1..Len(events) : events[i].by = "user" => Len(events) = 1 /\ Idle
         /\ \A i \in 1..Len(events) : events[i].by = "own" /\ events[i].kind # "release" =>
              /\ events[i].key \in ToSet(keysToPress)
              /\ \A t \in Threads : ToSet(todo[t]) \subseteq {"open"}
         /\ \A t \in Threads : At(t, "down") => keysToPress = ptt
         /\ asked.by = "own" => asked.did \in {"nothing", "page"}
BY DEF Tame

\* A call begins, or a setting changes, when nothing is under way.
LEMMA TameBegins ==
  ASSUME Tame, Idle, events = <<>>, UNCHANGED <<events, round, asked>>,
         NEW t \in Threads, \A u \in Threads \ {t} : todo'[u] = todo[u], ~At(t, "down")'
  PROVE  Tame'
<1>1. \A u \in Threads \ {t} : todo'[u] = <<>>
  BY DEF Idle
<1>2. \A u \in Threads : ~At(u, "down")'
  BY <1>1 DEF At
<1>3. Len(events') = 0
  OBVIOUS
<1>4. \A i \in 1..Len(events') : FALSE
  BY <1>3
<1>5. \A u, v \in Threads : todo'[u] # <<>> /\ todo'[v] # <<>> => u = v
  BY <1>1
<1>6. round' = <<>> /\ (asked'.by = "own" => asked'.did \in {"nothing", "page"})
  BY TameParts
<1> QED BY <1>2, <1>4, <1>5, <1>6 DEF Tame

\* A call goes on; it adds nothing to the queue, or releases.
LEMMA TameGoesOn ==
  ASSUME Tame, UNCHANGED <<round, asked>>,
         NEW t \in Threads, todo[t] # <<>>, \A u \in Threads \ {t} : todo'[u] = todo[u],
         "open" # Head(todo[t]), Head(todo[t]) \in ToSet(todo[t]),
         \A i \in 1..Len(events') : \/ i \in 1..Len(events) /\ events'[i] = events[i]
                                    \/ events'[i].by = "own" /\ events'[i].kind = "release",
         At(t, "down")' => keysToPress' = ptt'
  PROVE  Tame'
<1>1. \A u \in Threads \ {t} : todo'[u] = <<>>
  BY TameParts
<1>2. \A u \in Threads : At(u, "down")' => keysToPress' = ptt'
  BY <1>1 DEF At
<1>3. \A i \in 1..Len(events) : events[i].by # "user" /\ ~(events[i].by = "own" /\ events[i].kind # "release")
  <2>1. ~Idle
    BY DEF Idle
  <2> QED BY <2>1, TameParts
<1>4. \A i \in 1..Len(events') : events'[i].by # "user" /\ ~(events'[i].by = "own" /\ events'[i].kind # "release")
  BY <1>3
<1>5. \A u, v \in Threads : todo'[u] # <<>> /\ todo'[v] # <<>> => u = v
  BY <1>1
<1>6. round' = <<>> /\ (asked'.by = "own" => asked'.did \in {"nothing", "page"})
  BY TameParts
<1> QED BY <1>2, <1>4, <1>5, <1>6 DEF Tame

LEMMA TameUnchanged ==
  ASSUME Tame, UNCHANGED <<round, todo, events, keysToPress, ptt, asked>>
  PROVE  Tame'
BY DEF Tame, Idle, At

\* What is left of a call has no keys to go down at once.
LEMMA NoDownAhead ==
  ASSUME ListenIInv, NEW t \in Threads, todo[t] # <<>>, Continues(t)
  PROVE  /\ todo'[t] = Tail(todo[t]) /\ ~At(t, "down")'
         /\ \A u \in Threads \ {t} : todo'[u] = todo[u]
         /\ Head(todo[t]) \in ToSet(todo[t])
         /\ ToSet(Tail(todo[t])) \subseteq ToSet(todo[t])
<1> DEFINE q == todo[t]
<1>1. q \in Seq(Steps) /\ Straight(q) /\ todo \in [Threads -> Seq(Steps)]
  BY DEF ListenIInv, HeldInv, Calls, PlayTypes
<1>2. todo'[t] = Tail(q) /\ \A u \in Threads \ {t} : todo'[u] = todo[u]
  BY <1>1 DEF Continues, Rest
<1>3. /\ Len(q) \in Nat \ {0} /\ Head(q) = q[1] /\ Len(Tail(q)) = Len(q) - 1
      /\ Tail(q) \in Seq(Steps)
      /\ \A i \in 1..Len(Tail(q)) : i + 1 \in 1..Len(q) /\ Tail(q)[i] = q[i + 1]
  BY <1>1, TailIndices
<1>4. Head(q) \in ToSet(q) /\ ToSet(Tail(q)) \subseteq ToSet(q)
  BY <1>3 DEF ToSet
<1>5. ASSUME Tail(q) # <<>> PROVE Head(Tail(q)) # "down"
  <2> DEFINE r == Tail(q)
  <2>1. r \in Seq(Steps) /\ r # <<>>
    BY <1>3, <1>5
  <2> HIDE DEF r
  <2>2. Len(r) \in Nat \ {0} /\ Head(r) = r[1]
    BY <2>1, TailIndices
  <2>3. 1 \in 1..Len(r)
    BY <2>2
  <2>4. 2 \in 1..Len(q) /\ r[1] = q[2]
    BY <1>3, <2>3 DEF r
  <2>5. q[2] # "down"
    BY <1>1, <2>4 DEF Straight
  <2> QED BY <2>2, <2>4, <2>5 DEF r
<1>6. ~At(t, "down")'
  BY <1>2, <1>5 DEF At
<1> QED BY <1>2, <1>4, <1>6

LEMMA TameUser ==
  ASSUME ListenIInv, usage.patient, Tame, UserNext
  PROVE  Tame'
<1>1. PICK k \in Keys, kind \in Kinds :
        /\ events' = Append(events, [key |-> k, kind |-> kind, by |-> "user"]) /\ MayAct
        /\ UNCHANGED <<keysToPress, round, ptt>>
  BY StrikesAppend DEF ListenIInv
<1>2. UNCHANGED <<todo, asked>>
  BY DEF UserNext, UserPresses, KeyRepeats, UserReleases, listener
<1>3. Idle /\ events = <<>>
  BY <1>1 DEF MayAct, Settled
<1>4. Len(events') = 1 /\ events'[1].by = "user"
  BY <1>1, <1>3
<1>5. \A i \in 1..Len(events') : events'[i].by = "user"
  BY <1>4
<1>6. Idle' /\ \A t \in Threads : todo'[t] = <<>>
  BY <1>2, <1>3 DEF Idle
<1>7. round' = <<>> /\ (asked'.by = "own" => asked'.did \in {"nothing", "page"})
  BY <1>1, <1>2, TameParts
<1>8. \A t \in Threads : ~At(t, "down")'
  BY <1>6 DEF At
<1> QED BY <1>4, <1>5, <1>6, <1>7, <1>8 DEF Tame

LEMMA TameListen ==
  ASSUME ListenIInv, usage.patient, Tame, Listen
  PROVE  Tame'
<1>a. PICK e : e = events[1]
  OBVIOUS
<1>1. /\ e = Head(events) /\ e \in EventSet /\ Len(events) \in Nat \ {0} /\ Len(events') = Len(events) - 1
      /\ \A i \in 1..Len(events') : i + 1 \in 1..Len(events) /\ events'[i] = events[i + 1]
      /\ UNCHANGED <<keysToPress, round, ptt>>
  BY <1>a, ListenDrops DEF ListenIInv
<1>2. Idle /\ \A t \in Threads : todo[t] = <<>>
  BY DEF Listen, MayListen, Idle
<1>3. e.by \in {"user", "own"}
  BY <1>1 DEF EventSet
<1>4. e.by = "own" /\ e.kind # "release" => ~IsNews(e.key)
  <2>1. 1 \in 1..Len(events)
    BY <1>1
  <2> QED BY <2>1, <1>a, TameParts DEF IsNews
<1>5. e.by = "user" => Len(events) = 1
  <2>1. 1 \in 1..Len(events)
    BY <1>1
  <2> QED BY <2>1, <1>a, TameParts
<1>6. e.by = "own" => todo' = todo
  <2>1. e.by = "own" /\ e.kind # "release" => todo' = todo
    BY <1>1, <1>4 DEF Listen, OnKeyDown
  <2>2. e.kind = "release" => todo' = todo
    BY <1>1 DEF Listen
  <2> QED BY <2>1, <2>2
<1>7. Len(events') # 0 => todo' = todo
  BY <1>1, <1>3, <1>5, <1>6
<1>8. /\ \A t \in Threads \ {"listener"} : todo'[t] = <<>>
      /\ ~At("listener", "down")'
  <2>1. \/ todo' = todo \/ Runs("listener", PlaySound) \/ Runs("listener", StopSounds(FALSE))
    <3>1. CASE e.kind = "release"
      BY <1>1, <3>1 DEF Listen
    <3>2. CASE OnKeyDown(e.key, e.by)
      BY <3>2 DEF OnKeyDown
    <3> QED BY <1>1, <3>1, <3>2 DEF Listen
  <2>2. todo \in [Threads -> Seq(Steps)] /\ "listener" \in Threads
    BY DEF ListenIInv, HeldInv, Calls, Threads
  <2>3. PlaySound # <<>> /\ Head(PlaySound) # "down"
    BY DEF PlaySound
  <2>4. StopSounds(FALSE) # <<>> /\ Head(StopSounds(FALSE)) # "down"
    BY DEF StopSounds
  <2>5. CASE todo' = todo
    BY <1>2, <2>2, <2>5 DEF At
  <2>6. CASE Runs("listener", PlaySound)
    <3>1. todo'["listener"] = PlaySound /\ \A t \in Threads \ {"listener"} : todo'[t] = todo[t]
      BY <2>2, <2>6 DEF Runs
    <3> QED BY <1>2, <2>3, <3>1 DEF At
  <2>7. CASE Runs("listener", StopSounds(FALSE))
    <3>1. todo'["listener"] = StopSounds(FALSE) /\ \A t \in Threads \ {"listener"} : todo'[t] = todo[t]
      BY <2>2, <2>7 DEF Runs
    <3> QED BY <1>2, <2>4, <3>1 DEF At
  <2> QED BY <2>1, <2>5, <2>6, <2>7
<1>9. ASSUME NEW i \in 1..Len(events')
      PROVE  /\ events'[i].by # "user"
             /\ events'[i].by = "own" /\ events'[i].kind # "release" =>
                  /\ events'[i].key \in ToSet(keysToPress')
                  /\ \A t \in Threads : ToSet(todo'[t]) \subseteq {"open"}
  <2>1. i + 1 \in 1..Len(events) /\ events'[i] = events[i + 1] /\ Len(events) # 1
    BY <1>1
  <2>2. todo' = todo
    BY <1>3, <1>5, <1>6, <2>1
  <2> QED BY <1>1, <2>1, <2>2, TameParts
<1>10. asked'.by = "own" => asked'.did \in {"nothing", "page"}
  <2>1. asked'.by = e.by
    BY <1>a, ListenEffects DEF ListenIInv
  <2>2. e.by = "own" => asked'.did \in {"nothing", "page"}
    BY <1>a, <1>4, ListenEffects DEF ListenIInv
  <2> QED BY <2>1, <2>2
<1>11. \A t, u \in Threads : todo'[t] # <<>> /\ todo'[u] # <<>> => t = u
  BY <1>8
<1>12. \A t \in Threads : ~At(t, "down")'
  BY <1>8 DEF At
<1>13. round' = <<>>
  BY <1>1, TameParts
<1> QED BY <1>9, <1>10, <1>11, <1>12, <1>13 DEF Tame

LEMMA TameCall ==
  ASSUME ListenIInv, usage.patient, ~usage.windows, Tame, NEW t \in Threads, StepOf(t)
  PROVE  Tame'
<1>0. UNCHANGED <<round, asked>>
  BY DEF StepOf, Press, PostPresses, Release, PostReleases, Silence, QueueStop, Open, Erase, listener, held
<1>1. todo \in [Threads -> Seq(Steps)] /\ Straight(todo[t]) /\ Shaped(todo[t]) /\ events \in Seq(EventSet)
  BY DEF ListenIInv, HeldInv, Calls, PlayTypes, KeyTypes
<1>2. CASE Silence(t) \/ QueueStop(t) \/ Erase(t)
  <2>1. /\ Continues(t) /\ todo[t] # <<>> /\ Head(todo[t]) # "open" /\ UNCHANGED <<keysToPress, ptt, events>>
    BY <1>2 DEF Silence, QueueStop, Erase, At, held, config, keyboard
  <2> QED BY <1>0, <2>1, NoDownAhead, TameGoesOn
<1>3. CASE PostReleases(t)
  <2>1. /\ Continues(t) /\ todo[t] # <<>> /\ Head(todo[t]) # "open" /\ UNCHANGED <<keysToPress, ptt>>
        /\ Posts("release") /\ "release" \in Kinds
    BY <1>3 DEF PostReleases, At, config, Kinds
  <2>2. /\ \A i \in 1..Len(events) : events'[i] = events[i]
        /\ \A i \in Len(events) + 1 .. Len(events') :
             events'[i] = [key |-> ptt[i - Len(events)], kind |-> "release", by |-> "own"]
    BY <2>1, PostsAppend DEF ListenIInv
  <2>3. ASSUME NEW i \in 1..Len(events')
        PROVE  \/ i \in 1..Len(events) /\ events'[i] = events[i]
               \/ events'[i].by = "own" /\ events'[i].kind = "release"
    <3>1. CASE i \in 1..Len(events)
      BY <3>1, <2>2
    <3>2. CASE i \notin 1..Len(events)
      <4>1. i \in Len(events) + 1 .. Len(events')
        BY <3>2, <1>1
      <4> DEFINE key == ptt[i - Len(events)]
      <4>2. events'[i] = [key |-> key, kind |-> "release", by |-> "own"]
        BY <2>2, <4>1
      <4> HIDE DEF key
      <4> QED BY <4>2
    <3> QED BY <3>1, <3>2
  <2> QED BY <1>0, <2>1, <2>3, NoDownAhead, TameGoesOn
<1>4. CASE Press(t)
  <2>1. todo[t] # <<>> /\ Head(todo[t]) = "press" /\ events' = events /\ ptt' = ptt
    BY <1>4 DEF Press, At, config, keyboard
  <2>2. CASE ptt = <<>>
    <3>1. Continues(t)
      BY <1>4, <2>2 DEF Press, Runs, Continues
    <3> QED BY <1>0, <2>1, <3>1, NoDownAhead, TameGoesOn
  <2>3. CASE ptt # <<>>
    <3>1. keysToPress' = ptt /\ Runs(t, <<"down">> \o Rest(t))
      BY <1>4, <2>3 DEF Press
    <3>2. \A u \in Threads \ {t} : todo'[u] = todo[u]
      BY <1>1, <3>1 DEF Runs
    <3>3. Head(todo[t]) \in ToSet(todo[t])
      BY <1>1, <2>1, ToSetTail
    <3> QED BY <1>0, <2>1, <3>1, <3>2, <3>3, TameGoesOn
  <2> QED BY <2>2, <2>3
<1>5. CASE Release(t)
  <2>1. todo[t] # <<>> /\ Head(todo[t]) = "release" /\ events' = events /\ ptt' = ptt
    BY <1>5 DEF Release, At, config, keyboard
  <2>2. CASE ptt = <<>>
    <3>1. Continues(t)
      BY <1>5, <2>2 DEF Release, Runs, Continues
    <3> QED BY <1>0, <2>1, <3>1, NoDownAhead, TameGoesOn
  <2>3. CASE ptt # <<>>
    <3>1. Runs(t, <<"up">> \o Rest(t))
      BY <1>5, <2>3 DEF Release
    <3>2. todo'[t] = <<"up">> \o Tail(todo[t]) /\ \A u \in Threads \ {t} : todo'[u] = todo[u]
      BY <1>1, <3>1 DEF Runs, Rest
    <3>3. Head(todo[t]) \in ToSet(todo[t])
      BY <1>1, <2>1, ToSetTail
    <3>4. ~At(t, "down")'
      <4>1. Tail(todo[t]) \in Seq(Steps)
        BY <1>1, <2>1
      <4>2. Head(<<"up">> \o Tail(todo[t])) = "up"
        BY <4>1
      <4> QED BY <3>2, <4>2 DEF At
    <3> QED BY <1>0, <2>1, <3>2, <3>3, <3>4, TameGoesOn
  <2> QED BY <2>2, <2>3
<1>6. CASE PostPresses(t)
  <2>1. /\ Continues(t) /\ todo[t] # <<>> /\ Head(todo[t]) = "down" /\ UNCHANGED <<keysToPress, ptt>>
        /\ Posts("press") /\ "press" \in Kinds /\ At(t, "down")
    BY <1>6 DEF PostPresses, At, config, Kinds
  <2>2. /\ \A i \in 1..Len(events) : events'[i] = events[i]
        /\ \A i \in Len(events) + 1 .. Len(events') :
             /\ i - Len(events) \in 1..Len(ptt)
             /\ events'[i] = [key |-> ptt[i - Len(events)], kind |-> "press", by |-> "own"]
    BY <2>1, PostsAppend DEF ListenIInv
  <2>3. /\ todo'[t] = Tail(todo[t]) /\ ~At(t, "down")'
        /\ \A u \in Threads \ {t} : todo'[u] = todo[u]
        /\ Head(todo[t]) \in ToSet(todo[t])
    BY <2>1, NoDownAhead
  <2>4. ToSet(Tail(todo[t])) \subseteq {"open"}
    BY <1>1, <2>1, DownThenOpens
  <2>5. \A u \in Threads \ {t} : todo'[u] = <<>>
    BY <2>1, <2>3, TameParts
  <2>6. \A u \in Threads : ToSet(todo'[u]) \subseteq {"open"}
    <3>1. ToSet(<<>>) = {}
      BY DEF ToSet
    <3> QED BY <2>3, <2>4, <2>5, <3>1
  <2>7. keysToPress' = ptt
    BY <2>1, TameParts
  <2>8. \A i \in 1..Len(events) : events[i].by # "user" /\ ~(events[i].by = "own" /\ events[i].kind # "release")
    <3>1. ~Idle
      BY <2>1 DEF Idle
    <3>2. "down" \in ToSet(todo[t])
      BY <2>1, <2>3
    <3> QED BY <3>1, <3>2, TameParts
  <2>9. ASSUME NEW i \in 1..Len(events')
        PROVE  /\ events'[i].by # "user"
               /\ events'[i].by = "own" /\ events'[i].kind # "release" => events'[i].key \in ToSet(keysToPress')
    <3>1. CASE i \in 1..Len(events)
      BY <3>1, <2>2, <2>8
    <3>2. CASE i \notin 1..Len(events)
      <4>1. i \in Len(events) + 1 .. Len(events')
        BY <3>2, <1>1
      <4> DEFINE j == i - Len(events)
      <4>2. j \in 1..Len(ptt) /\ events'[i] = [key |-> ptt[j], kind |-> "press", by |-> "own"]
        BY <2>2, <4>1
      <4> HIDE DEF j
      <4>3. ptt[j] \in ToSet(ptt)
        BY <4>2 DEF ToSet
      <4> QED BY <2>7, <4>2, <4>3
    <3> QED BY <3>1, <3>2
  <2>10. \A u, v \in Threads : todo'[u] # <<>> /\ todo'[v] # <<>> => u = v
    BY <2>5
  <2>11. \A u \in Threads : ~At(u, "down")'
    BY <2>3, <2>5 DEF At
  <2>12. round' = <<>> /\ (asked'.by = "own" => asked'.did \in {"nothing", "page"})
    BY <1>0, TameParts
  <2> QED BY <2>6, <2>9, <2>10, <2>11, <2>12 DEF Tame
<1>7. CASE Open(t)
  <2>1. /\ Continues(t) /\ todo[t] # <<>> /\ UNCHANGED <<keysToPress, ptt, events>>
    BY <1>7 DEF Open, At, config, keyboard
  <2>2. /\ todo'[t] = Tail(todo[t]) /\ ~At(t, "down")'
        /\ \A u \in Threads \ {t} : todo'[u] = todo[u]
        /\ ToSet(Tail(todo[t])) \subseteq ToSet(todo[t])
    BY <2>1, NoDownAhead
  <2>3. \A u \in Threads \ {t} : todo'[u] = <<>> /\ todo[u] = <<>>
    BY <2>1, <2>2, TameParts
  <2>4. \A u \in Threads : ToSet(todo'[u]) \subseteq ToSet(todo[u])
    BY <2>2, <2>3
  <2>5. \A i \in 1..Len(events') : events'[i].by # "user"
    <3>1. ~Idle
      BY <2>1 DEF Idle
    <3> QED BY <2>1, <3>1, TameParts
  <2>6. \A i \in 1..Len(events') : events'[i].by = "own" /\ events'[i].kind # "release" =>
              /\ events'[i].key \in ToSet(keysToPress')
              /\ \A u \in Threads : ToSet(todo'[u]) \subseteq {"open"}
    <3> SUFFICES ASSUME NEW i \in 1..Len(events), events[i].by = "own", events[i].kind # "release"
                 PROVE  /\ events[i].key \in ToSet(keysToPress)
                        /\ \A u \in Threads : ToSet(todo'[u]) \subseteq {"open"}
      BY <2>1
    <3>1. events[i].key \in ToSet(keysToPress) /\ \A u \in Threads : ToSet(todo[u]) \subseteq {"open"}
      BY TameParts
    <3> QED BY <2>4, <3>1
  <2>7. \A u, v \in Threads : todo'[u] # <<>> /\ todo'[v] # <<>> => u = v
    BY <2>3
  <2>8. \A u \in Threads : ~At(u, "down")'
    BY <2>2, <2>3 DEF At
  <2>9. round' = <<>> /\ (asked'.by = "own" => asked'.did \in {"nothing", "page"})
    BY <1>0, TameParts
  <2> QED BY <2>5, <2>6, <2>7, <2>8, <2>9 DEF Tame
<1> QED BY <1>2, <1>3, <1>4, <1>5, <1>6, <1>7 DEF StepOf

LEMMA TameWindow ==
  ASSUME ListenIInv, usage.patient, Tame, WindowNext
  PROVE  Tame'
<1>0. todo \in [Threads -> Seq(Steps)] /\ "window" \in Threads
  BY DEF ListenIInv, HeldInv, Calls, Threads
<1>1. UNCHANGED <<round, asked, events>>
  BY DEF WindowNext, WindowPlays, WindowStops, SettingsChange, ViewChanges, RequestHotkey, SetHotkey,
         Forget, SetNotify, listener, held, keyboard
<1>2. CASE Forget \/ SetNotify
  <2>1. /\ Continues("window") /\ todo["window"] # <<>> /\ Head(todo["window"]) # "open"
        /\ UNCHANGED <<keysToPress, ptt>>
    BY <1>2 DEF Forget, SetNotify, At, held, config
  <2> QED BY <1>0, <1>1, <2>1, NoDownAhead, TameGoesOn
<1>3. CASE ~(Forget \/ SetNotify)
  <2>1. MayCall("window")
    BY <1>3 DEF WindowNext, WindowPlays, WindowStops, SettingsChange, ViewChanges, RequestHotkey, SetHotkey
  <2>2. Idle /\ events = <<>> /\ todo["window"] = <<>>
    BY <2>1 DEF MayCall, MayAct, Settled
  <2>3. \/ todo' = todo
        \/ \E steps : Runs("window", steps) /\ steps # <<>> /\ Head(steps) # "down"
    <3>1. PlaySound # <<>> /\ Head(PlaySound) # "down"
      BY DEF PlaySound
    <3>2. \A sync \in BOOLEAN : StopSounds(sync) # <<>> /\ Head(StopSounds(sync)) # "down"
      BY DEF StopSounds
    <3>3. CASE WindowPlays
      BY <3>1, <3>3 DEF WindowPlays
    <3>4. CASE WindowStops
      BY <3>2, <3>4 DEF WindowStops
    <3>5. CASE RequestHotkey
      BY <3>5 DEF RequestHotkey
    <3>6. CASE SettingsChange \/ ViewChanges \/ \E s \in Sounds : SetHotkey(s)
      BY <3>6 DEF SettingsChange, ViewChanges, SetHotkey
    <3> QED BY <1>3, <3>3, <3>4, <3>5, <3>6 DEF WindowNext
  <2>4. (\A u \in Threads \ {"window"} : todo'[u] = todo[u]) /\ ~At("window", "down")'
    <3>1. CASE todo' = todo
      BY <2>2, <3>1 DEF At
    <3>2. ASSUME NEW steps, Runs("window", steps), steps # <<>>, Head(steps) # "down"
          PROVE  (\A u \in Threads \ {"window"} : todo'[u] = todo[u]) /\ ~At("window", "down")'
      <4>1. todo'["window"] = steps /\ \A u \in Threads \ {"window"} : todo'[u] = todo[u]
        BY <1>0, <3>2 DEF Runs
      <4> QED BY <3>2, <4>1 DEF At
    <3> QED BY <2>3, <3>1, <3>2
  <2> QED BY <1>0, <1>1, <2>2, <2>4, TameBegins
<1> QED BY <1>2, <1>3

LEMMA TameQueue ==
  ASSUME ListenIInv, usage.patient, Tame, QueueNext
  PROVE  Tame'
<1>1. CASE StopAllRuns
  <2>1. UNCHANGED <<round, todo, events, keysToPress, ptt, asked>>
    BY <1>1 DEF StopAllRuns, keyboard, listener, config
  <2> QED BY <2>1, TameUnchanged
<1>2. ASSUME NEW s \in playing, SoundEnds(s)
      PROVE  Tame'
  <2>1. /\ UNCHANGED <<round, asked, events>> /\ Idle /\ events = <<>>
        /\ todo \in [Threads -> Seq(Steps)] /\ "queue" \in Threads
    BY <1>2 DEF SoundEnds, MayCall, MayAct, Settled, listener, held, keyboard, ListenIInv, HeldInv, Calls, Threads
  <2> DEFINE steps == IF playing = {s} THEN <<"release", "ended">> ELSE <<"ended">>
  <2>2. steps # <<>> /\ Head(steps) # "down"
    OBVIOUS
  <2>3. todo' = [todo EXCEPT !["queue"] = steps]
    BY <1>2 DEF SoundEnds, Runs
  <2> HIDE DEF steps
  <2>4. todo'["queue"] = steps /\ \A u \in Threads \ {"queue"} : todo'[u] = todo[u]
    BY <2>1, <2>3
  <2>5. ~At("queue", "down")'
    BY <2>2, <2>4 DEF At
  <2> QED BY <2>1, <2>4, <2>5, TameBegins
<1> QED BY <1>1, <1>2 DEF QueueNext

LEMMA TameInit == Init => TameInv
<1> SUFFICES ASSUME Init PROVE Tame
  BY DEF TameInv
<1>1. /\ round = <<>> /\ events = <<>> /\ asked.by = "user"
      /\ \A t \in Threads : todo[t] = <<>>
  BY DEF Init
<1>2. Len(events) = 0
  BY <1>1
<1> QED BY <1>1, <1>2 DEF Tame, At

LEMMA TameStep ==
  ASSUME ListenIInv, TameInv, [Next]_<<vars, usage>>
  PROVE  TameInv'
<1>1. CASE UNCHANGED <<vars, usage>>
  <2>1. UNCHANGED <<round, todo, events, keysToPress, ptt, asked, usage>>
    BY <1>1 DEF vars, keyboard, listener, held, config
  <2> QED BY <2>1, TameUnchanged DEF TameInv
<1>2. CASE Next
  <2>0. usage' = usage
    BY <1>2 DEF Next
  <2> SUFFICES ASSUME usage.patient, ~usage.windows PROVE Tame'
    BY <2>0 DEF TameInv
  <2>1. Tame
    BY DEF TameInv
  <2>2. ~StartRound /\ ~PressNext
    BY <2>1, TameParts DEF StartRound, PressNext
  <2>3. ASSUME NEW t \in Threads, StepOf(t) PROVE Tame'
    BY <2>1, <2>3, TameCall
  <2> QED BY <1>2, <2>1, <2>2, <2>3, TameUser, TameListen, TameWindow, TameQueue DEF Next
<1> QED BY <1>1, <1>2

-------------------------------------------------------------------------------

LEMMA HandInv == Spec => []HandTypes
<1>1. Init => HandTypes
  BY DEF Init, HandTypes
<1>2. ListenIInv /\ HandTypes /\ [Next]_<<vars, usage>> => HandTypes'
  <2> SUFFICES ASSUME ListenIInv, HandTypes, [Next]_<<vars, usage>> PROVE HandTypes'
    OBVIOUS
  <2>1. CASE UNCHANGED <<vars, usage>>
    BY <2>1 DEF vars, held, HandTypes
  <2>2. CASE Next
    BY <2>2, HandStep DEF ListenIInv
  <2> QED BY <2>1, <2>2
<1> QED BY <1>1, <1>2, ListenIInit, ListenIStep, PTL DEF Spec

\* The listener takes for held what the user holds, whatever the program presses itself and
\* however the calls cross: no key is counted twice, and none is missed or stuck, but for
\* those a recording made it forget until their next event (hotkeys.cpp:26-45, 100-113).
THEOREM ListenerTracksTheUser == Spec => []ListenerInv
<1>1. ListenIInv /\ HandTypes => ListenerInv
  BY ListenIInvGives DEF HandTypes
<1> QED BY <1>1, HandInv, ListenIInit, ListenIStep, PTL DEF Spec

\* A key the user presses calls for what is meant, for hotkeys, views and stop hotkeys of any
\* kind and length: the search of getBestMatch finds what it should in every list, and
\* the stop hotkey goes first (hotkeys.cpp:46-159).
THEOREM TheBestHotkeyFires == Spec => BestHotkeyFires
<1>1. ListenIInv /\ [Next]_<<vars, usage>> =>
        [(/\ events # <<>> /\ events' = Tail(events) /\ ~notify
          /\ Head(events).by = "user" /\ Head(events).kind = "press"
          /\ Head(events).key \notin SyntheticKeys)
         => asked'.did \in Meant(pressedKeys')]_vars
  BY BestFires DEF vars, keyboard, listener
<1> QED BY <1>1, ListenIInit, ListenIStep, PTL DEF Spec, BestHotkeyFires

\* On Linux, when each call and what it posts is over before the next begins, the program's
\* own presses never fire a hotkey: keysToPress still names them when they are heard
\* (hotkeys.cpp:102-105, x11.cpp:122-139).
THEOREM OwnKeysAreIgnored == Spec => []OwnKeysFireNothing
<1>1. TameInv => OwnKeysFireNothing
  BY DEF TameInv, Tame, OwnKeysFireNothing
<1> QED BY <1>1, TameInit, TameStep, ListenIInit, ListenIStep, PTL DEF Spec
================================================================================
