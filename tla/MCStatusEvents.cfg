CONSTANTS
  p1 = p1
  p2 = p2
  p3 = p3
  Peers = {p1, p2}
  MaxMissed = 2
  MaxSets = 3
SPECIFICATION Spec
SYMMETRY Symmetry
INVARIANTS ReportedOnce NothingForgotten OffByStolenOnly
CHECK_DEADLOCK FALSE
