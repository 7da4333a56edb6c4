--------------------------- MODULE MCPlaybackControl ---------------------------
(* Small instances of PlaybackControl, and the ways they are used.          *)
EXTENDS PlaybackControl

\* Keys and muting configured, sounds sent to an output, one at a time.
Full == [ptt |-> TRUE, mute |-> TRUE, overlap |-> FALSE, outputs |-> TRUE]

\* At the window, muting, overlapping and the outputs are switched.
Desk ==
  [calls |-> {"play", "sound", "stop", "settings"}, plays |-> Plays, atomic |-> TRUE,
   mayFail |-> FALSE, settings |-> {s \in SettingsSet : s.ptt}]
\* From the remote: the global pause and talk-through.
Web ==
  [calls |-> {"play", "stop", "settings", "toggle", "talk"}, plays |-> Plays, atomic |-> TRUE,
   mayFail |-> FALSE, settings |-> {s \in SettingsSet : s.ptt /\ s.mute}]
\* Both users and the queue at once: several plays that may fail, and one pair whose
\* pauses and resumes cross.
Threads ==
  [calls |-> {"play", "stopLater", "tray"}, plays |-> Plays, atomic |-> FALSE,
   mayFail |-> TRUE, settings |-> {Full}]
Crossing ==
  [calls |-> {"play", "sound", "settings", "stopLater"}, plays |-> {CHOOSE p \in Plays : TRUE},
   atomic |-> FALSE, mayFail |-> TRUE, settings |-> {Full, [Full EXCEPT !.outputs = FALSE]}]
AllModes == {Desk, Web, Threads, Crossing}

================================================================================
