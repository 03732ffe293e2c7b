SPECIFICATION Spec
CONSTANTS
  Operations = {o1, o2, o3}
  Closers = {c1, c2}
PROPERTY CloseReturns
