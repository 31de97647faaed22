SPECIFICATION FairSpec
CONSTANTS
  Services = {"artnet", "http"}
  LinkFirst = {"http"}
CHECK_DEADLOCK FALSE
INVARIANTS
  SleepsOnLiveLink
PROPERTIES
  ConnectsWhenDown
  Reconnects
  ServicesStart
