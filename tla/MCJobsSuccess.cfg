SPECIFICATION FairJobsSpec
CONSTANTS
  create = create
  accept = accept
  start = start
  execute = execute
  ready = ready
  complete = complete
  risk = risk
  verify = verify
  audit = audit
  a1 = a1
  a2 = a2
  a3 = a3
  a4 = a4
  record = record
  derived = derived
  human = human
  s1 = s1
  p1 = p1
  p2 = p2
  vjob = vjob
  ajob = ajob
  Command = {create, accept, start, execute, ready, complete, risk, audit}
  Runs = {start, execute, audit}
  Direct = {create, accept, complete, risk}
  Supersedes = {start, execute}
  CommandType <- MCCommandType
  KindsOf <- MCKindsOf
  Scripts <- MCScripts
  StableIdentity <- MCStableIdentity
  AttemptSeq <- MCAttemptSeq
  Actor = {a1, a2, a3, a4, human}
  Identity = {a1, a2, a3, a4, record, derived}
  Sha = {s1}
  Process = {p1, p2}
  NoSha = NoSha
  NoIdentity = NoIdentity
  NoRow = NoRow
  NoCommand = NoCommand
  MaxArchive = 1
  MaxCrashes = 1
  Job = {ajob}
  JobCommand <- MCJobCommand
  ExpectedKind <- MCExpectedKind
  ExpectedIdentity <- MCExpectedIdentity
  NoJob = NoJob
  MaxAttempts = 2
  EnqueueStates = {"VERIFYING"}
  Attended = {p1}
CHECK_DEADLOCK FALSE
PROPERTIES
  SucceededSettlesJob
