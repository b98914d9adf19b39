SPECIFICATION FairSpec
CONSTANTS
  NumIds = 2
  Loud = {u}
  Quiet = {q}
  KeepAlives = {k1, k2}
  Tolerate = 1
  Duplicating = TRUE
  MaxSent = 1
  None = None
INVARIANTS EveryPromiseTracked IdentifiersTakeTurns
PROPERTIES ImplementsRequestService DeadDeviceGoesOffline ReachableDeviceComesOnline EveryRequestSettles
