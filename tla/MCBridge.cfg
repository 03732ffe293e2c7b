SPECIFICATION Spec
CONSTANTS
  Clients = {o1, o2}
  Admins = {a1, a2}
  Absent = Absent
  PreparedCapacity = 1
  MaxRuntimes = 2
  MaxIds = 2
INVARIANTS
  TypeOK
  ReplacedIsBeingClosed
  ClearedStaysEmpty
  IdNamesItsProgram
SYMMETRY BridgeSymmetry
CHECK_DEADLOCK FALSE
