\* A worker, its drain, and the worker a resumed Store starts meanwhile.
CONSTANTS
  MaxWorkers = 2
  MaxCommits = 2
SPECIFICATION Spec
CHECK_DEADLOCK FALSE
INVARIANTS
  RelaxedOnlyWhenMaintained DrainCovers
PROPERTIES
  Attended DrainReturns
