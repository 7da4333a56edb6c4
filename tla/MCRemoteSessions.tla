--------------------------- MODULE MCRemoteSessions ----------------------------
EXTENDS RemoteSessions, TLC
MCValues == SUBSET (1..MaxTokens)
MCNoValue == {0}
\* Devices differ in their cookies only.
DevicesAlike == Permutations(Devices)
===============================================================================
