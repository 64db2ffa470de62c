CONSTANTS
  e1 = e1
  e2 = e2
  p1 = p1
  p2 = p2
  t1 = t1
  t2 = t2
  None = None
  NoData = NoData
  Endpoints = {e1, e2}
  Participants = {p1, p2}
  Writers = {t1, t2}
  MaxInt = 7
  MaxHandles = 3
  ParticipantOf <- MCParticipantOf
  Cases <- MCCases
  Messages <- MCMessages
  Keys <- MCKeys
  Profiles <- MCProfiles
  DescOf <- TypeDesc
  KeyRoom <- TypeKeyRoom
  KeyStream <- TypeKeyStream
  KeyValue <- TypeKeyValue
  KeyIsFixed <- TypeKeyIsFixed
  KeyIsOpen <- TypeKeyIsOpen
SPECIFICATION Spec
INVARIANTS
  PayloadFits
  TakenIsPublished
  HandlesTellKeys
  PlainIsLayout
  QosKept
