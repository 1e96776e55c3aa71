CONSTANTS
  Client = {a, b}
  Path = {main, lib}
  Entry = main
  Initial = {main}
  Absent = Absent
  None = None
  Ops = {"update", "create"}
  Early = FALSE
  Batching = FALSE
  MaxVersion = 4
  MaxWrites = 3
  Backlog = 4
SPECIFICATION Spec
SYMMETRY Symmetry
CHECK_DEADLOCK FALSE
INVARIANTS NoPeerCrossed NoBlindOverwrite
PROPERTY RevisionNeverFalls
