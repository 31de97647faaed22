SPECIFICATION FairSpec
CONSTANTS
  Tasks <- PdOnlyTasks
  Clients <- PdOnlyClients
  TaskOf <- PdOnlyTaskOf
  Futures <- PdOnlyFutures
  Eager = {"pd", "bq"}
  Looping = {"bq"}
  MaxHold = 3
PROPERTIES
  PdGranted
