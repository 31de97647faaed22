SPECIFICATION Spec
CONSTANTS
  o1 = o1
  Offers = {o1}
  RxCapacity = 22
  MessageIds = 2
  IdRetries = 2
  MaxErrs = 0
  MaxNoise = 0
  MaxBoots = 0
INVARIANTS
  AckedIsPending
