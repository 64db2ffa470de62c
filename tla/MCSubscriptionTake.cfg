CONSTANTS
  Threads = {t1, t2}
  Buffers = {b1, b2}
  MaxOutstanding = 2
  MaxSamples = 3
  MaxCount = 2
  MaxFailures = 1
SPECIFICATION Spec
INVARIANTS LoansAccounted HeldIsExclusive OneFate
PROPERTIES EmptyOnlyIfEmpty
SYMMETRY Symmetric
CHECK_DEADLOCK FALSE
