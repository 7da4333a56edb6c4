CONSTANT Devices <- MCDevices
CONSTANT VBAudio <- MCVBAudio
CONSTANT None = nomic
CONSTANT Sounds = {s1, s2}
SPECIFICATION Spec
INVARIANT MuteFollowsSounds
INVARIANT SetupTellsTheTruth
PROPERTY RealMicFirst
