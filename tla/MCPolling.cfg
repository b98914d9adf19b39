SPECIFICATION FairSpec
CONSTANTS
  Period = 2
  Holdoff = 5
  MaxTimeout = 1
  Readings = {r1, r2}
  Unknown = Unknown
  Timeout = 1
  Grace = 2
  Requests = {1, 2}
  Calls = {1, 2}
  Silence = 3
  Brightness = {1, 2}
INVARIANTS LiveSensorIsFresh WishesOnly LedsFollow
PROPERTIES SilentSensorGoesStale Converges KeepsListening
