\* One run and every way one of its receipts can go; its calls are to an MCP server
\* whose registration changes under it.
CONSTANTS
  s1 = s1
  a1 = a1
  NoRun = NoRun
  Elsewhere = Elsewhere
  Scenes = {s1}
  Agents = {a1}
  AgentOf <- OneScene
  Runs = {r1}
  Bindings = {"mcp", "rejected"}
  StartKinds = {"chat", "external"}
  Endings = {"completed", "failed"}
  Replies <- AllReplies
  MaxEvents = 3
  MaxRounds = 1
  MaxCalls = 2
  ToolBudget = 1
  MaxServerRevision = 2
SPECIFICATION Spec
CHECK_DEADLOCK FALSE
INVARIANTS
  JournalValid WithinBudget NoCallUnderOldGrant
PROPERTIES
  JournalMonotone ImplementsLedger
