CONSTANTS
  Client = {a, b}
  Path = {main, lib}
  Entry = main
  Initial = {main, lib}
  Absent = Absent
  None = None
  Ops = {"update"}
  Early = FALSE
  Batching = FALSE
  MaxVersion = 4
  MaxWrites = 3
  Backlog = 4
SPECIFICATION Spec
SYMMETRY Symmetry
CHECK_DEADLOCK FALSE
INVARIANT NextWriteIsRefused
