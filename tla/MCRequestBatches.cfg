SPECIFICATION Spec
CONSTANTS
  Blank = Blank
  BadOptions = BadOptions
  Profiles <- MCProfiles
  CreateOptions <- MCCreateOptions
  Lists <- MCLists
  Deadlines = {Blank, 2, 5}
  MaxRuntimes = 2
  MaxTime = 2
  Programs = {"p"}
  SourceBytes <- MCSourceBytes
  FoundBefore <- MCFoundBefore
  FoundAfter <- MCFoundAfter
  ValueBytes <- MCValueBytes
  BadValues = {"ill"}
  EqualityClass <- MCEqualityClass
  KeyBytes <- MCKeyBytes
  MarshaledBytes <- MCMarshaledBytes
  EnvelopeBytes = 1
  RequestBytes = 1
  DurationLimit = 16
  Milli = 4
INVARIANTS
  TypeOK
  ResultsMatchRequests
  AnsweredAsAlone
  SplitIsAccepted
  DeadlineIsFinal
PROPERTIES
  DeadlineIsOverall
CHECK_DEADLOCK FALSE
