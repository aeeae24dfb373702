\* A unit that streams its status and its EKF solution; an epoch may be dropped.
SPECIFICATION Spec
CONSTANTS
  Logs = {"Status", "EkfNav"}
  Settings <- AskedFor
  Faults = {"CPU"}
  Temperatures = {2}
  EkfWords <- OneWord
  Positions <- OneFix
  Counted = {"drops"}
  MaxCount = 1
  Horizon = 3
  NonFinite = NonFinite
  None = None
INVARIANTS
  OneStory
  SilenceIsTheDevices
PROPERTIES
  VerdictStands
  RestartIsNotGrowth
  SilenceReported
