CONSTANTS
  Publisher = pub
  Accelerated = {accel}
  CpuOnly = {cpu}
  Legacy = {legacy}
  Foreign = {foreign}
  Leavers = {accel}
  Threads = {t1, t2}
  MaxPublishes = 2
SPECIFICATION FairSpec
INVARIANTS CalledAtMostOnce NoPairMissed KnownReached SettledGetAll
PROPERTIES KnownIsEntered
CHECK_DEADLOCK FALSE
