SPECIFICATION ToolsSpec
CONSTANTS
  t1 = t1
  t2 = t2
  t3 = t3
  y1 = y1
  y2 = y2
  x = x
  y = y
  RelayProcess = {t1, t2, t3}
  TotalBatches = 2
  StartBatch = 1
  ReviewFrom = 2
  CycleCap = 1
  MaxCap = 2
  NoWorker = NoWorker
  NoEvent = NoEvent
  Controller = {y1, y2}
  LastBatch = 2
  Content = {x, y}
  BaseContent = x
  Automation <- MCAutomation
  RepairLimit = 1
  MaxCommits = 2
  NoLock = NoLock
  NoSnapshot = NoSnapshot
SYMMETRY MCSymmetry
CHECK_DEADLOCK FALSE
INVARIANTS
  ToolsTypeOK
  SoleRelayWorker
  AdvancesOnGrounds
  SoleController
  
PROPERTIES
  UncertainNeverRepeated
