SPECIFICATION ImplementationSpec
CONSTANTS
  create = create
  accept = accept
  start = start
  execute = execute
  ready = ready
  blocker = blocker
  complete = complete
  review = review
  approved = approved
  rejected = rejected
  hold = hold
  escalate = escalate
  a1 = a1
  a2 = a2
  a3 = a3
  a4 = a4
  unblock = unblock
  human = human
  s1 = s1
  p1 = p1
  p2 = p2
  Command = {create, accept, start, execute, ready, blocker, complete, review,
             approved, rejected, escalate, hold, unblock}
  Runs = {start, execute, review}
  Direct = {create, accept, complete, hold, unblock}
  Supersedes = {start, execute, review}
  CommandType <- MCCommandType
  KindsOf <- MCKindsOf
  Scripts <- MCScripts
  StableIdentity <- MCStableIdentity
  AttemptSeq <- MCAttemptSeq
  Actor = {a1, a2, a3, a4, human}
  Identity = {a1, a2, a3, a4}
  Sha = {s1}
  Process = {p1, p2}
  NoSha = NoSha
  NoIdentity = NoIdentity
  NoRow = NoRow
  NoCommand = NoCommand
  MaxArchive = 2
  MaxCrashes = 1
  MaxReviewRounds = 2
  MaxCorrections = 2
  MaxFixAgains = 1
  MaxHandoffs = 3
  LastCommit = 3
  NoRange = NoRange
SYMMETRY MCSymmetry
CHECK_DEADLOCK FALSE
INVARIANTS
  AcceptedAtApproval
  InvokerHoldsReceipt
  HandoffComplete
PROPERTIES
  AbandonedStaysVisible
