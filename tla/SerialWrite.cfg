SPECIFICATION Spec
CONSTANTS
  correction = correction
  command = command
  None = None
  Writers = {correction, command}
  Stoppable = {correction}
  Sizes = {2}
  Timeout = 8
  LockSlice = 2
  PollSlice = 4
  Millisecond = 2
  MaxFrames = 2
INVARIANTS FramesUnbroken SuccessIsWhole OnTime StopObserved
