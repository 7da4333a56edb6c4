SPECIFICATION Spec
CONSTANTS
  Savers = {"main", "http"}
  Inodes = {1, 2, 3}
  NoInode = 0
  MayFail = TRUE
  Values <- MCValues
  NoValue <- MCNoValue
  phone = phone
  tablet = tablet
  Devices = {phone, tablet}
  MaxTokens = 2
SYMMETRY DevicesAlike
INVARIANT ConfigWhole
INVARIANT LoginIsDurable
PROPERTY ExitSavesSessions
