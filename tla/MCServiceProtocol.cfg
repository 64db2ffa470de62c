CONSTANTS
  RmwClients = {c1}
  PlainClients = {p1}
  Threads = {t1}
  Unstable = {p1}
  MaxRequests = 1
SPECIFICATION FairSpec
INVARIANTS EndpointsPaired ReceivedOnceAndOwn WrittenReachesRequester GoneOnlyAfterUnmatch
PROPERTIES EveryRequestSettles ImplementsPromise
CHECK_DEADLOCK FALSE
