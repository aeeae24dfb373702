\* Count limit (three ones), byte limit (two twos), oversize (five) and empty (zero) all occur.
SPECIFICATION FairSpec
CONSTANTS
  Corrections = {0, 1, 2, 5}
  MaxMessages = 3
  MaxBytes = 4
  MaxAccepted = 5
INVARIANTS
  BytesAccounted
  NothingRunsAfterDestruction
PROPERTIES
  ChannelSpec
  HandedOn
  DestructionEnds
