SPECIFICATION SerialSpec
CONSTANTS
  Savers = {"main", "http"}
  Inodes = {1, 2, 3}
  NoInode = 0
  MayFail = FALSE
  Values <- MCValues
  NoValue <- MCNoValue
  Devices = {"phone"}
  MaxTokens = 2
INVARIANT RememberedUntilReset
