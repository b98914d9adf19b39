SPECIFICATION FairSpec
CONSTANTS
  Keys = {lamp, heater}
  Values = {off, on}
  Default = off
  Absent = absent
  Torn = torn
INVARIANTS
  KeptOverRestarts
PROPERTIES
  WrittenDown
