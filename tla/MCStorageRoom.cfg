SPECIFICATION StorageSpec
CONSTANTS
  Inputs = {motion, door}
  StartTimerFromManualOn = TRUE
  Motion = motion
  Initial = 2
  MostReports = 2
  Appliances = {washer, dryer}
INVARIANTS NotForgotten DismissedStaysDark NotifiesOfEnd
PROPERTIES DisabledForAWhile EmptyRoomGoesDark RadarAloneIsSlow
