CONSTANT Sounds = {"a"}
CONSTANT MaxPlay = 2
CONSTANT Watched = {}
CONSTANT Slots = {1, 2}
CONSTANT MaxErrors = 2
CONSTANT Cases <- Talking
SPECIFICATION PageFairSpec
PROPERTY ReleaseStopsTalk
