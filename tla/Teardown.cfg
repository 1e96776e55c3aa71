CONSTANTS
  scratch = scratch
  project = project
  first = first
  second = second
  ask = ask
  again = again
  Id = {scratch, project}
  Persistent = {project}
  Socket = {first, second}
  Port = {1, 2}
  None = None
  MaxStops = 1
  Owner = scratch
  Shared = {"node"}
  Own = {"clang"}
  Zig = {"program"}
  Request = {ask, again}
  Confinement = {1, 2}
  MaxProcs = 3
  Loads <- MCLoads
SPECIFICATION FairSpec
INVARIANTS LiveKeepsDirectory SocketKeepsItsSession PortsDistinct AnswerIsOwn RightConfinement
PROPERTIES DiskIsReclaimedInTime AbandonedIsDestroyed DestroyedHasNoHelper
CHECK_DEADLOCK FALSE
