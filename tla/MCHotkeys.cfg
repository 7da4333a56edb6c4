CONSTANT Keys = {"a", "b", "v", "w"}
CONSTANT Sounds = {"s1", "s2", "s3"}
CONSTANT ListOf <- MCListOf
CONSTANT Usages <- MCUsages
CONSTANT MaxPlays = 2
CONSTANT MaxStrokes = 4
CONSTANT MaxEvents = 3
SPECIFICATION FairSpec
CHECK_DEADLOCK FALSE
INVARIANT ListenerInv
INVARIANT OwnKeysFireNothing
INVARIANT KeysAreLetGo
PROPERTY BestHotkeyFires
PROPERTY WantedKeysGoDown
