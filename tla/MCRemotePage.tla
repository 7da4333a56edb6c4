----------------------------- MODULE MCRemotePage -----------------------------
(* Small instances of RemotePage.                                            *)
EXTENDS RemotePage

MCCases == {[may |-> {"desk"}, ids |-> 4],
            [may |-> {"stop", "reload", "network", "refusal"}, ids |-> 2],
            [may |-> {"talk", "network"}, ids |-> 0]}

\* Nothing goes wrong but the order of requests.
Talking == {[may |-> {"talk"}, ids |-> 2]}
================================================================================
