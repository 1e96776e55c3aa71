SPECIFICATION FairSpec
CONSTANTS
  Run = {r1, r2}
  None = None
  MaxVersion = 2
  MaxEvents = 1
  Slots = 1
  Kinds = {"auto"}
  ServeModes = {"off"}
PROPERTIES
  RunsEnd
  StartsTakePlace
  RunsAreAnswered
