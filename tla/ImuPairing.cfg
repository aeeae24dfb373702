\* Logs late by up to a tick across the wrap; IMU_SHORT may appear at any time.
SPECIFICATION Spec
CONSTANTS
  Wrap = 16
  ImuSource = "Auto"
  Enabled = {"imu", "heading"}
  Tolerance <- EachOne
  Wait = 2
  MaxHeld = 2
  MaxHistory = 2
  MaxAge = 2
  MaxLag = 1
  Start = 14
  MaxTime = 17
  None = None
PROPERTIES
  OneSource
  NothingCloserComes
  HeldInTime
  HeadingsForward
