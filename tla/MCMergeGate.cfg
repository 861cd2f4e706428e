SPECIFICATION PhaseSpec
CONSTANTS
  create = create
  accept = accept
  start = start
  execute = execute
  ready = ready
  complete = complete
  risk = risk
  verify = verify
  audit = audit
  auditblock = auditblock
  a1 = a1
  a2 = a2
  a3 = a3
  a4 = a4
  a5 = a5
  record = record
  human = human
  s1 = s1
  p1 = p1
  p2 = p2
  Command = {create, accept, start, execute, ready, complete, risk, verify, audit, auditblock}
  Runs = {start, execute, verify, audit}
  Direct = {create, accept, complete, risk}
  Supersedes = {start, execute}
  CommandType <- MCCommandType
  KindsOf <- MCKindsOf
  Scripts <- MCScripts
  StableIdentity <- MCStableIdentity
  AttemptSeq <- MCAttemptSeq
  Actor = {a1, a2, a3, a4, a5, human}
  Identity = {a1, a2, a3, a4, a5, record}
  Sha = {s1}
  Process = {p1, p2}
  NoSha = NoSha
  NoIdentity = NoIdentity
  NoRow = NoRow
  NoCommand = NoCommand
  MaxArchive = 2
  MaxCrashes = 1
  c1 = c1
  c2 = c2
  unit = unit
  works = works
  f1 = f1
  r1 = r1
  r2 = r2
  g1 = g1
  g2 = g2
  Commit = {c1, c2}
  Ancestors <- MCAncestors
  FirstCommit = c1
  PlanCommand = {unit}
  CriteriaOf <- MCCriteriaOf
  Finding = {f1}
  Record = {r1}
  GateCommand = {g1, g2}
  StaleCommand = {s1}
  GateProcess = {p1, p2}
  NoCommit = NoCommit
  NoRecord = NoRecord
  NoAudit = NoAudit
  NoGateCommand = NoGateCommand
  MaxVersion = 12
  MaxReviews = 2
  MaxPasses = 1
  MaxAttempts = 2
  Checks = 2
  MaxGrants = 1
  b1 = b1
  x1 = x1
  e1 = e1
  e2 = e2
  k1 = k1
  t1 = t1
  t2 = t2
  v1 = v1
  v2 = v2
  Revision = {c1, c2}
  Capture = {k1}
  Verifier = {v1, v2}
  MaxRuns = 2
  NoLog = NoLog
  NoCapture = NoCapture
  Tip = {c1, c2}
  Tooling = {t1, t2}
  Report <- MCReport
  Reported = {e1, e2}
  BaselineId = {b1}
  ComparisonId = {x1}
  NoBaseline = NoBaseline
  NoFindings = NoFindings
  NoComparison = NoComparison
  Total = 2
  MaxCommits = 3
SYMMETRY MCGateSymmetry
CHECK_DEADLOCK FALSE
INVARIANTS
  PhaseTypeOK
  ApprovalStands
  RecordedLogIsItsRun
  EndorsedIntroducesNothing
PROPERTIES
  CompletedNeverRepeated
  ReadyIsWhole
