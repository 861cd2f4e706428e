CONSTANTS
  create = create
  accept = accept
  start = start
  block = block
  Command = {create, accept, start, block}
  CommandType <- MCCommandType
  KindsOf <- MCKindsOf
  Actor = {a1}
  Sha = {s1}
  Identity = {i1, i2}
  NoSha = NoSha
  NoIdentity = NoIdentity
  NoRow = NoRow
  MaxArchive = 1
SPECIFICATION Spec
SYMMETRY MCSymmetry
INVARIANTS
  EventLogMatchesReceipts
  
PROPERTIES
  ImplementsLedger
CHECK_DEADLOCK FALSE
