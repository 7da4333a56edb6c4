SPECIFICATION Spec
CONSTANTS
  Apps = {"voice", "player"}
  Inputs = {1}
  Playbacks = {2, 3}
  AppOf <- MCAppOf
  Homes = {"home"}
  MaxLoads = 2
  MaxFaults = 1
  MaxPlaying = 2
INVARIANT OneLoopback
INVARIANT MuteIsUndoable
INVARIANT RecordedOrExcused
PROPERTY InputsReturnWithSilence
