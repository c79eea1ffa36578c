SPECIFICATION Spec
CONSTANTS
  Keys = {k1}
  MaxEvents = 1
  Steps = 6
  MaxFlips = 1
  LateFlips = TRUE
CHECK_DEADLOCK FALSE
INVARIANTS
  NoFalseAlarm
