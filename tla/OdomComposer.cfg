\* Two streams late by up to a tick, NAV by two, across the wrap of the timestamps.
SPECIFICATION Spec
CONSTANTS
  Members = {quat, imu}
  Required = {quat}
  Wrap = 16
  Tolerance = 1
  Wait = 1
  MaxEpochs = 2
  MaxHistory = 2
  MaxAge = 2
  MaxDelay = 2
  MaxLag = 1
  Start = 14
  MaxTime = 17
  None = None
INVARIANTS
  DropsSeen
  OnlyLateRefused
PROPERTIES
  QueueSpec
  RetiredInTime
  NothingCloserComes
