CONSTANTS
  Nil = Nil
  Editor = {d, e}
  MaxProxies = 2
  MaxServers = 3
SPECIFICATION LspFairSpec
INVARIANTS OneServer AnswersGoToThePump NoRestartLoop
 
CHECK_DEADLOCK FALSE
