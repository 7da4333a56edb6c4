----------------------------- MODULE MCAudioEngine -----------------------------
(* AudioEngine for TLC, one controlling thread and the queue's: two short    *)
(* sounds that are not sought, one of them repeated, or a longer one that is.*)
EXTENDS AudioEngine

MCSounds == 1..2
MCUses == {[played |-> {1, 2}, sought |-> {}, repeated |-> {1}, length |-> 1],
           [played |-> {1}, sought |-> {1}, repeated |-> {1}, length |-> 2]}
================================================================================
