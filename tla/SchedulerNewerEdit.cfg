SPECIFICATION Spec
CONSTANTS
  Run = {r1, r2}
  None = None
  MaxVersion = 2
  MaxEvents = 0
  Slots = 1
  Kinds = {"auto"}
  ServeModes = {"off"}
SYMMETRY Symmetry
PROPERTY
  NewerEditSurvives
