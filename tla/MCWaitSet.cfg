CONSTANTS
  sub = sub
  client = client
  deadline = deadline
  matched = matched
  writer = writer
  graph = graph
  Subscriptions = {sub}
  Readers = {client}
  Events = {deadline, matched}
  MatchedEvents = {matched}
  Guards = {graph}
  EntityOf <- EventOnReader
  BufferFails = FALSE
  MaxDeliveries = 4
SPECIFICATION FairSpec
INVARIANTS WaiterNotStuck
PROPERTIES EverythingTaken
