SPECIFICATION FairSpec
CONSTANTS
  Main = main
  NoThread = noThread
  w1 = w1
  w2 = w2
  w3 = w3
  Workers = {w1, w2, w3}
  InMemory = {w1, w2}
  Options <- SafeOptions
  LogKinds = {"info", "warning"}
  Quiet = FALSE
  Accessible = TRUE
  MaxLogs = 1
  MaxPrompts = 1
INVARIANTS
  TypeOK
  OnceInOrder
  ExitShowsEverything
  PromptShowsEarlierLogs
  NoSendAfterShutdown
  LockDiscipline
PROPERTIES
  Terminates
  ImplementsStream
