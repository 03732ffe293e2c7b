SPECIFICATION Spec
CONSTANTS
  good1 = good1
  good2 = good2
  bad = bad
  p1 = p1
  p2 = p2
  Keys <- MCKeys
  Values = {p1, p2}
  Absent = Absent
  ConfiguredCapacity = 1
  Callers = {c1, c2, c3}
  Calls = {x1, x2, x3, x4}
  NoCall = NoCall
  NoKey = NoKey
  Compiled <- MCCompiled
  CompileError = CompileError
  InternalError = InternalError
  Nothing = Nothing
  Panicking = {good1}
INVARIANTS
  TypeOK
  NoDuplicateCompile
  AnswersOwnKey
  CachesOnlyOwnPrograms
  WaitersHaveALeader
PROPERTIES
  ServiceSpec
  UnaffectedCallsReturn
CHECK_DEADLOCK FALSE
