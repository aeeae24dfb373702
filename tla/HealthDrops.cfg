\* One epoch is dropped and reported; one more after the counter started over.
SPECIFICATION Spec
CONSTANTS
  Logs = {"Status"}
  Settings <- AskedFor
  Faults = {}
  Temperatures = {}
  EkfWords <- OneWord
  Positions <- OneFix
  Counted = {"drops"}
  MaxCount = 1
  Horizon = 3
  NonFinite = NonFinite
  None = None
PROPERTIES
  DropsWarned
