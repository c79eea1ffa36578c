SPECIFICATION Spec
CONSTANTS
  Keys = {k1, k2}
  MaxEvents = 3
  Steps = 5
  MaxFlips = 1
  LateFlips = FALSE
CHECK_DEADLOCK FALSE
INVARIANTS
  TypeOK
  NoFalseAlarm
  CatchesLoss
  CatchesWrongRecord
  CatchesPositions
