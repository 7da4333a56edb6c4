---------------------------- MODULE HotkeyMatching -----------------------------
(***************************************************************************)
(* Which sound the held keys play (src/core/hotkeys/hotkeys.cpp): the      *)
(* search of getBestMatch through a list of sounds, and what it is meant   *)
(* to find, said without the search.  The keys of a hotkey and the held    *)
(* keys are sequences, in the order in which they were pressed; a sound    *)
(* without a hotkey has the empty one.                                     *)
(***************************************************************************)
EXTENDS Naturals, Sequences, FiniteSets, SequencesExt

\* isCloseMatch: the keys are all held, others may be held with them.
IsCloseMatch(held, keys) ==
  Len(held) >= Len(keys) /\ ToSet(keys) \subseteq ToSet(held)

\* Mutant: a later match replaces a longer one.
BetterUnsized(hotkey, held, best, sound) ==
  IF \/ \E b \in best : hotkey[b] = held
     \/ hotkey[sound] = <<>>
     \/ ~IsCloseMatch(held, hotkey[sound])
  THEN best ELSE {sound}

\* The exact combination ends the search; else a combination that is held replaces
\* one that is not longer.
Better(hotkey, held, best, sound) ==
  IF \/ \E b \in best : hotkey[b] = held
     \/ hotkey[sound] = <<>>
     \/ /\ hotkey[sound] # held
        /\ \/ \E b \in best : Len(hotkey[b]) > Len(hotkey[sound])
           \/ ~IsCloseMatch(held, hotkey[sound])
  THEN best ELSE {sound}

\* getBestMatch: the set of the sound found, or the empty set.
BestMatch(hotkey, held, list) ==
  LET best[i \in 0..Len(list)] ==
        IF i = 0 THEN {} ELSE Better(hotkey, held, best[i - 1], list[i])
  IN  best[Len(list)]

-------------------------------------------------------------------------------
(* The reference: the first sound with exactly the held combination; else,     *)
(* of the sounds whose keys are all held, the last with the longest hotkey.    *)

Exact(hotkey, held, list) ==
  {i \in 1..Len(list) : held # <<>> /\ hotkey[list[i]] = held}
Held(hotkey, held, list) ==
  {i \in 1..Len(list) : hotkey[list[i]] # <<>> /\ IsCloseMatch(held, hotkey[list[i]])}
Longest(hotkey, held, list) ==
  {i \in Held(hotkey, held, list) :
     \A j \in Held(hotkey, held, list) : Len(hotkey[list[j]]) <= Len(hotkey[list[i]])}

MeantSound(hotkey, held, list) ==
  LET exact == Exact(hotkey, held, list)
      longest == Longest(hotkey, held, list) IN
  IF exact # {} THEN {list[CHOOSE i \in exact : \A j \in exact : i <= j]}
  ELSE IF longest # {} THEN {list[CHOOSE i \in longest : \A j \in longest : j <= i]}
  ELSE {}
================================================================================
