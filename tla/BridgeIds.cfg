SPECIFICATION Spec
CONSTANTS
  Clients = {o1, o2}
  Admins = {a1}
  Absent = Absent
  PreparedCapacity = 1
  MaxRuntimes = 2
  MaxIds = 1
INVARIANT OnlyOwnIds
CHECK_DEADLOCK FALSE
