SPECIFICATION FairSpec
CONSTANTS
  Sockets = {s1, s2, s3}
  MaxLookups = 2
  None = None
INVARIANTS ConnectedHasOpenSocket IncompleteMessageTimed
PROPERTIES DisconnectIsFinal UnwritableHeals KeepsConnecting
