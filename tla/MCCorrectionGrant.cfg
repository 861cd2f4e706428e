SPECIFICATION RoundsSpec
CONSTANTS
  MaxReviewRounds = 2
  MaxCorrections = 1
  MaxFixAgains = 1
  MaxHandoffs = 3
  LastCommit = 2
  NoRange = NoRange
CHECK_DEADLOCK FALSE
INVARIANTS
  GrantedPassRuns
