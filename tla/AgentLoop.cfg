SPECIFICATION FairSpec
CONSTANTS
  Runs = {r1}
  Scenes = {s1}
  MaxRounds = 2
  MaxCalls = 2
  MaxTurn = 2
  MaxEditions = 3
  MaxFailures = 1
  MaxForeign = 1
  Nobody = Nobody
INVARIANTS
  ReceiptsTrue
  Tended
PROPERTIES
  QuietAfterLoss ImplementsLedger
  RunsEnd
CHECK_DEADLOCK FALSE
