SPECIFICATION Spec
CONSTANTS
  Runs = {r1, r2}
  Scenes = {s1}
  MaxRounds = 2
  MaxCalls = 1
  MaxTurn = 1
  MaxEditions = 1
  MaxFailures = 0
  MaxForeign = 1
  Nobody = Nobody
SYMMETRY RunSymmetry
INVARIANTS
  NoLostEdit
CHECK_DEADLOCK FALSE
