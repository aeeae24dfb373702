\* A clock that starts just before its wrap.
SPECIFICATION Spec
CONSTANTS
  Kinds = {"stream", "utc", "invalid_utc", "fix"}
  Wrap = 24
  Slack = 1
  Lead = 4
  Outage = 8
  UtcTimeout = 2
  RealTime = TRUE
  MaxLag = 1
  MaxLate = 2
  MaxSilence = 1
  Patience = 5
  MinUptime = 10
  Start = 22
  None = None
INVARIANTS
  StampsAreTrue
  NoticedSoon
PROPERTIES
  OneRun
  OnlyRestartsConfirm
