SPECIFICATION Spec
CONSTANTS
  Values = {off, dim, bright}
  Off = off
  Slots = {s1, s2, s3}
  None = None
  Fresh = Fresh
SYMMETRY Symmetry
INVARIANTS
  OfflineIsUnknown
  LoadingEnds
  KnownIsCurrent
