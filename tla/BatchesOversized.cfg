SPECIFICATION Spec
CONSTANTS
  Blank = Blank
  BadOptions = BadOptions
  Profiles <- MCProfiles
  CreateOptions <- MCCreateOptions
  Lists <- MCLists
  Deadlines = {Blank}
  MaxRuntimes = 1
  MaxTime = 2
  Programs = {"p"}
  SourceBytes <- MCSourceBytes
  FoundBefore <- MCFoundBefore
  FoundAfter <- MCFoundAfter
  ValueBytes <- MCValueBytes
  BadValues = {"ill"}
  EqualityClass <- MCEqualityClass
  KeyBytes <- MCKeyBytes
  MarshaledBytes <- MCMarshaledBytes
  EnvelopeBytes = 1
  RequestBytes = 1
  DurationLimit = 16
  Milli = 4
INVARIANT OversizedStaysItsOwn
CHECK_DEADLOCK FALSE
