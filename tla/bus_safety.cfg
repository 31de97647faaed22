SPECIFICATION FairSpec
CONSTANTS
  Tasks <- MCTasks
  Clients <- MCClients
  TaskOf <- MCTaskOf
  Futures <- MCFutures
  Eager = {"pd", "bq"}
  Looping = {"bq"}
  MaxHold = 2
INVARIANTS
  TypeOK
  GuardHeld
  WaiterKnown
PROPERTIES
  BusNotIdle
  LoopingKeepsBus
  ImplementsLock
