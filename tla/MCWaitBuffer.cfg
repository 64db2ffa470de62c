CONSTANTS
  sub = sub
  client = client
  deadline = deadline
  matched = matched
  writer = writer
  graph = graph
  Subscriptions = {sub}
  Readers = {}
  Events = {}
  MatchedEvents = {}
  Guards = {}
  EntityOf <- EventOnReader
  BufferFails = TRUE
  MaxDeliveries = 3
SPECIFICATION Spec
INVARIANTS BufferDataDetected
