SPECIFICATION Spec
CONSTANTS
  Entities <- MCEntities
  Kind <- MCKind
  TopicOf <- MCTopicOf
  Types = {"A", "B"}
  BufferAware = {"A", "B"}
  MaxCreated = 2
  MaxFaults = 2
INVARIANTS
  SharedWhileUsed
  NoDanglingListener
  GoneLeavesNothing
  LiveIsWhole
CHECK_DEADLOCK FALSE
