SPECIFICATION FairSpec
CONSTANTS
  Services = {"http"}
  LinkFirst = {"http"}
CHECK_DEADLOCK FALSE
PROPERTIES
  WaitEnds
