SPECIFICATION Spec
CONSTANTS
  good1 = good1
  good2 = good2
  bad = bad
  p1 = p1
  p2 = p2
  Keys <- MCTwoKeys
  Values = {p1, p2}
  Absent = Absent
  ConfiguredCapacity = 1
  Callers = {c1, c2}
  Calls = {x1, x2, x3}
  NoCall = NoCall
  NoKey = NoKey
  Compiled <- MCTwoCompiled
  CompileError = CompileError
  InternalError = InternalError
  Nothing = Nothing
  Panicking = {good1}
PROPERTY EveryCallReturns
CHECK_DEADLOCK FALSE
