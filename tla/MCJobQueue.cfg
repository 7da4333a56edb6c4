CONSTANTS
  Ids <- MCIds
  Repeatable <- MCRepeatable
  Pushers = {gui, device}
SPECIFICATION Spec
INVARIANT IInv
PROPERTY AcceptedJobsRun
PROPERTY ShutdownEnds
PROPERTY CoalescesRequests
