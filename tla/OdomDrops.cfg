\* What the comment on DiagSnapshot says; an epoch that lacks two members counts twice.
SPECIFICATION Spec
CONSTANTS
  Members = {quat, vel, imu}
  Required = {quat, vel}
  Wrap = 16
  Tolerance = 1
  Wait = 1
  MaxEpochs = 2
  MaxHistory = 2
  MaxAge = 2
  MaxDelay = 1
  MaxLag = 1
  Start = 14
  MaxTime = 18
  None = None
INVARIANT DropsCountEpochs
