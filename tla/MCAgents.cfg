SPECIFICATION AgentsSpec
CONSTANTS
  b1 = b1
  i1 = i1
  i2 = i2
  i3 = i3
  i4 = i4
  v1 = v1
  v2 = v2
  SessionBatch = {b1}
  Invocation = {i1, i2, i3}
  Vendor = {v1, v2}
  MaxMoves = 1
  MaxInFlight = 2
  NoVendor = NoVendor
  NoInvocation = NoInvocation
  MaxExtensions = 2
  MaxSends = 2
  Planner = {i1, i2, i3, i4}
  MaxRounds = 3
  NoPlan = NoPlan
  Refiner = {i1, i2, i3}
  MaxBatches = 2
  Legacy = Legacy
  NoOutline = NoOutline
SYMMETRY MCSymmetry
CHECK_DEADLOCK FALSE
INVARIANTS
  AgentsTypeOK
  OneSessionPerRole
  UnsettledStaysMarked
  BrokenContinuityBlocks
  ApprovedPlanWasReviewed
  RunnerAnswersKept
  OneDecomposition
PROPERTIES
  WedgedNotSpared
