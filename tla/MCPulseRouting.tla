---------------------------- MODULE MCPulseRouting -----------------------------
(* A voice chat that records, and a player with two playback streams.            *)
EXTENDS PulseRouting

MCAppOf == [s \in 1..3 |-> IF s = 1 THEN "voice" ELSE "player"]
===============================================================================
