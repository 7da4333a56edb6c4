---------------------------- MODULE MCPipeWireLinks ----------------------------
(* A small instance of PipeWireLinks: a program that records, and two players. *)
EXTENDS PipeWireLinks

MCAppOf == [n \in Streams |-> CASE n = 1 -> "voice" [] n = 2 -> "player" [] n = 3 -> "browser"]
MCCases ==
  {[reuse |-> FALSE, streams |-> {1, 2, 3}, there |-> {1, 2, 3}, ids |-> 8, events |-> 0],
   [reuse |-> FALSE, streams |-> {1, 2}, there |-> {}, ids |-> 5, events |-> 2],
   [reuse |-> TRUE, streams |-> {1, 2}, there |-> {}, ids |-> 3, events |-> 1]}
================================================================================
