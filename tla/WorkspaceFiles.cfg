CONSTANTS
  Client = {a, b}
  Path = {main, lib, tmp}
  Entry = main
  Initial = {main, lib}
  Absent = Absent
  None = None
  Ops = {"update", "create", "rename", "delete", "reset"}
  Early = TRUE
  Batching = TRUE
  MaxVersion = 3
  MaxWrites = 2
  Backlog = 1
SPECIFICATION Spec
SYMMETRY Symmetry
CHECK_DEADLOCK FALSE
INVARIANTS StoredIsRecorded UndisturbedConverges
