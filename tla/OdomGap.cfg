\* Half a wrap passes between two NAV epochs (the position was invalid) while the other streams flow.
SPECIFICATION Spec
CONSTANTS
  Members = {quat, imu}
  Required = {quat}
  Wrap = 8
  Tolerance = 1
  Wait = 1
  MaxEpochs = 2
  MaxHistory = 9
  MaxAge = 9
  MaxDelay = 0
  MaxLag = 0
  Start = 2
  MaxTime = 10
  None = None
INVARIANT NewEpochsTaken
