SPECIFICATION FairSpec
CONSTANTS
  Main = main
  NoThread = noThread
  w1 = w1
  w2 = w2
  w3 = w3
  Workers = {w1, w2}
  InMemory = {w1}
  Options <- AskOptions
  LogKinds = {"warning"}
  Quiet = FALSE
  Accessible = FALSE
  MaxLogs = 1
  MaxPrompts = 0
PROPERTY FlushCompletes
CHECK_DEADLOCK FALSE
