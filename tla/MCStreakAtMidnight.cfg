SPECIFICATION StreakSpec
CONSTANTS
  Slots = 4
  Zones = {0, 1}
  LastSlot = 27
  Never = Never
INVARIANT StreakIsRunOfDays
CHECK_DEADLOCK FALSE
