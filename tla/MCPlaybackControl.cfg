CONSTANT Plays = {p1, p2}
CONSTANT Users = {u1, u2}
CONSTANT InitialSettings <- Full
CONSTANT Modes <- AllModes
SPECIFICATION FairSpec
INVARIANT HeldWhilePlaying
INVARIANT QuietWhenIdle
INVARIANT PausedWillResume
INVARIANT PairsStayTogether
PROPERTY JobsTakeEffect
