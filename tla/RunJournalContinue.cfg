\* A run and its continuation, both with late answers.
CONSTANTS
  s1 = s1
  a1 = a1
  NoRun = NoRun
  Elsewhere = Elsewhere
  Scenes = {s1}
  Agents = {a1}
  AgentOf <- OneScene
  Runs = {r1, r2}
  Bindings = {"local"}
  StartKinds = {"chat"}
  Endings = {}
  Replies <- KeptOrNot
  MaxEvents = 2
  MaxRounds = 1
  MaxCalls = 1
  ToolBudget = 2
  MaxServerRevision = 1
SYMMETRY RunSymmetry
SPECIFICATION Spec
CHECK_DEADLOCK FALSE
INVARIANTS
  ContinuationNeverActs TraceAgrees ProvenanceValid RunningAgrees
