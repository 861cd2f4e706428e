SPECIFICATION WorkersSpec
CONSTANTS
  p1 = p1
  p2 = p2
  p3 = p3
  Process = {p1, p2}
  Batches = 2
  NoWorker = NoWorker
  Launcher = Launcher
  Gone = Gone
  MaxCrashes = 1
  Speaker = {p1, p2}
  MaxRounds = 2
  Thread = {p3}
  NoThread = NoThread
  FlushAt = 2
  Queued = 1
  MaxRetries = 1
  Workers = 2
  Retriers = 2
  Iterations = 3
  DebateRounds = 4
  StableRounds = 2
  Models = 6
  CliModel = {1, 2, 4, 6}
  SlotsOf <- MCSlotsOf
  Builder = {p1, p2}
  LastEvent = 2
  GuardedRun = {p1, p2, p3}
  UserUrl = UserUrl
CHECK_DEADLOCK FALSE
CONSTRAINT WhileTenured
INVARIANTS
  WorkersTypeOK
  SoleWorker
  MirrorBehindLedger
  ClaimedOncePerQueueing
  DeliversWhatWasJudged
  SlotsBounded
  LogExplainsBuild
  UserUrlKept
PROPERTIES
  
  PauseSettles
