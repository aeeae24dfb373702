\* The stamps wrap twice; a period spans several gaps and no gap is half a wrap.
SPECIFICATION Spec
CONSTANTS
  Wrap = 24
  Period = 20
  Early = 1
  MaxGap = 5
  Delays = {0, 2}
  MaxTime = 52
  None = None
INVARIANTS
  TimelineExact
  AverageRate
  NeverHalved
