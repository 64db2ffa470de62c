CONSTANTS
  Kind = "subscription"
  Setters = {s1, s2}
  Callbacks = {a, b}
  MaxSamples = 3
  MaxSets = 3
SPECIFICATION FairSpec
INVARIANTS AnnouncedOnce SilentOnlyAfterRace
PROPERTIES LocksAreReleased
CHECK_DEADLOCK FALSE
