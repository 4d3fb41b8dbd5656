SPECIFICATION FairSpec
CONSTANTS
  run = run
  acme = acme
  quick = quick
  Messages <- MCMessages
  Workers = {g1, g2}
  MaxWorkers = 2
  Events = {e1, e2}
  Unknown = unknown
  Admin = admin
  Absent = Absent
  Null = Null
  FeedSize = 1
  MaxDeliveries = 3
  NoMsg = NoMsg
  NoEvent = NoEvent
  NoRow = NoRow
INVARIANTS TypeOK OwnContents
PROPERTIES ImplementsEventLog SlotsComeBack ShutdownEnds
