CONSTANTS
  t1 = t1
  t2 = t2
  Threads = {t1, t2}
  Faults = {"set_up", "thread", "wait", "add_node", "reader", "writer"}
  MaxCalls = 5
  MaxUpdates = 2
SPECIFICATION FairSpec
INVARIANTS NothingUsedIsGone UsersHaveContext NothingLeft
PROPERTIES CallsReturn UpdatesApplied ErrorReturned
CHECK_DEADLOCK FALSE
