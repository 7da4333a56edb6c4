CONSTANTS
  Sounds <- MCSounds
  Users = {gui}
  QueueThread = queue
  MaxLength = 2
  Uses <- MCUses
SPECIFICATION Spec
INVARIANT IInv
INVARIANT ShownIsHeard
INVARIANT SeeksArePending
PROPERTY EndIsReaped
PROPERTY CallsReturn
