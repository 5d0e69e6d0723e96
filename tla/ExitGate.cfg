CONSTANTS
  c1 = c1
  MaxRequests = 2
  Conns = {c1}
  t1 = t1
  TitleJobs = {t1}
SPECIFICATION Spec
INVARIANTS
  NothingUnsaved
  QuietOnceDrained
  LiveIsAdmitted
  GatesRestored
PROPERTIES
  ImplementsDeparture
CHECK_DEADLOCK FALSE
