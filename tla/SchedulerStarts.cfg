SPECIFICATION Spec
CONSTANTS
  Run = {r1, r2, r3}
  None = None
  MaxVersion = 2
  MaxEvents = 0
  Slots = 2
  Kinds = {"auto", "deps"}
  ServeModes = {"off"}
SYMMETRY Symmetry
INVARIANTS
  GeneratedIsExclusive
  NoOrphanRun
  SlotsAgree
  OnePendingAutoRun
PROPERTIES
  ImplementsRunSlot
