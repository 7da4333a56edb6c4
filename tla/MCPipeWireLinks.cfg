CONSTANT Apps = {"voice", "player", "browser"}
CONSTANT Streams = {1, 2, 3}
CONSTANT Inputs = {1}
CONSTANT AppOf <- MCAppOf
CONSTANT MaxPlaying = 1
CONSTANT Cases <- MCCases
SPECIFICATION Spec
INVARIANT LinksRecorded
INVARIANT LinksReachTheirApp
INVARIANT KnowledgeInv
PROPERTY SilenceUnlinks
PROPERTY PassthroughKept
