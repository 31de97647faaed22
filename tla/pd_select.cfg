SPECIFICATION Spec
CONSTANTS
  Objects <- MCObjects
  MaxObjects = 3
INVARIANTS
  RequestTypeOK
  BestRequest
