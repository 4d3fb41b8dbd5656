SPECIFICATION FairSpec
CONSTANTS
  Workspaces = {w1}
  Values = {std, fast}
  Default = std
  Requests = {r1}
  Retention = 1
  Batch = 1
  MaxTime = 2
  MaxId = 2
  NoSettings = NoSettings
  NoWs = NoWs
PROPERTIES OldEntriesGo
