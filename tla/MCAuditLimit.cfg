SPECIFICATION StagesSpec
CONSTANTS
  MaxReviews = 2
  MaxPasses = 1
  MaxAttempts = 2
  Checks = 2
  MaxGrants = 1
CHECK_DEADLOCK FALSE
INVARIANTS
  AuditLimitMeansAudit
