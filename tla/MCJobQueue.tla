------------------------------ MODULE MCJobQueue ------------------------------
(* JobQueue for TLC: one repeatable key, keys of finished sounds above it.   *)
EXTENDS JobQueue

MCIds == 0..2
MCRepeatable == {0}

===============================================================================
