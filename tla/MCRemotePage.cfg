CONSTANT Sounds = {"a"}
CONSTANT MaxPlay = 4
CONSTANT Watched = {1, 4}
CONSTANT Slots = {1, 2}
CONSTANT MaxErrors = 2
CONSTANT Cases <- MCCases
SPECIFICATION PageFairSpec
INVARIANT PageInv
PROPERTY PollingCatchesUp
PROPERTY PollingGivesUp
