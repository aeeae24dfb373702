\* The whole node: one device, every request in every order, no bound needed.
SPECIFICATION FairSpec
INVARIANTS
  OneDispatcher
  NoUseAfterFree
  StreamsWhenActive
  HealthAgrees
  LastWord
  NeverPersistInvalid
PROPERTIES
  SessionMarksKept
  LinkSpec
  CallbacksReturn
  ReportedPromptly
