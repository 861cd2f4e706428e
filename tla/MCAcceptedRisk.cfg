SPECIFICATION VerifyingSpec
CONSTANTS
  c1 = c1
  c2 = c2
  unit = unit
  works = works
  f1 = f1
  r1 = r1
  g1 = g1
  s1 = s1
  p1 = p1
  Commit = {c1, c2}
  Ancestors <- MCAncestors
  FirstCommit = c1
  PlanCommand = {unit}
  CriteriaOf <- MCCriteriaOf
  Finding = {f1}
  Record = {r1}
  GateCommand = {g1}
  StaleCommand = {s1}
  GateProcess = {p1}
  NoCommit = NoCommit
  NoRecord = NoRecord
  NoAudit = NoAudit
  NoGateCommand = NoGateCommand
  MaxVersion = 8
CHECK_DEADLOCK FALSE
PROPERTIES
  AcceptedRiskIsVerified
