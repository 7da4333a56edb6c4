------------------------------- MODULE MCWinSound -------------------------------
(* WinSound with two microphones, and the device of the cable between them.  *)
EXTENDS WinSound

MCDevices == 1..3
MCVBAudio == {2}
================================================================================
