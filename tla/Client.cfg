CONSTANTS
  Path = {main, lib, tmp}
  Entry = main
  Initial = {main, lib}
  Absent = Absent
  Foreign = Foreign
  Ops <- MCOps
  Big = {3}
  QueueLimit = 2
  MaxVersion = 5
SPECIFICATION ClientSpec
INVARIANTS SentInOrder UnsavedIsKnown
PROPERTY RecoveryKeepsTheWork
CHECK_DEADLOCK FALSE
