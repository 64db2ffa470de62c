CONSTANTS
  Publisher = pub
  Accelerated = {accel}
  CpuOnly = {}
  Legacy = {legacy}
  Foreign = {}
  Leavers = {accel}
  Threads = {t1}
  MaxPublishes = 1
SPECIFICATION Spec
INVARIANTS LegacyGetAll
CHECK_DEADLOCK FALSE
