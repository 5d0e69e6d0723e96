SPECIFICATION FairSpec
CONSTANTS
  k = k
  q = q
  e = e
  Rules = {k, e, q}
  Trigger <- OneOfEach
  Tests = {t1}
  Worker = Worker
  Quit = Quit
  Slots = 1
  Capacity = 1
  MaxActions = 2
  MaxInputs = 2
  None = None
INVARIANT
  QuietBehindDrain
PROPERTIES
  StopsHold
  HooksSettle
CHECK_DEADLOCK FALSE
