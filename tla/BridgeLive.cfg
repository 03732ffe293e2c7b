SPECIFICATION Spec
CONSTANTS
  Clients = {o1}
  Admins = {a1, a2}
  Absent = Absent
  PreparedCapacity = 1
  MaxRuntimes = 2
  MaxIds = 1
PROPERTIES
  DisposedIsCleared
CHECK_DEADLOCK FALSE
