CONSTANTS
  c1 = c1
  MaxRequests = 2
  Conns = {}
  t1 = t1
  TitleJobs = {}
SPECIFICATION Spec
PROPERTIES
  ExitConcludes
  Released
CHECK_DEADLOCK FALSE
