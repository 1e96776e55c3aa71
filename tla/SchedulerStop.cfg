SPECIFICATION Spec
CONSTANTS
  Run = {r1, r2}
  None = None
  MaxVersion = 1
  MaxEvents = 1
  Slots = 1
  Kinds = {"auto", "live", "request"}
  ServeModes = {"off", "armed"}
SYMMETRY Symmetry
INVARIANTS
  InputReachesItsRun
  AtMostOneLateEvent
