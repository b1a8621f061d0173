\* One queue of two with three events and two processes over one record; one
\* tag served with two templates, two requests and an operator's call; two
\* sessions of which one fits; two controlled attempts; bodies of three bytes;
\* two health checks of one route; the definitions of MCServices for the rest.
CONSTANTS
  MaxRows = 3
  MaxPending = 2
  Processes = {p, q}
  MaxSamples = 2
  Worlds <- MCWorlds
  Requests = {q1, q2}
  Continuing = {q2}
  Api = api
  MaxRecords = 1
  MaxUpsets = 1
  Keys = {k1, k2}
  Clients = {c1, c2}
  MaxSessions = 1
  MaxRepairs = 4
  Attempts = {a1, a2}
  MaxTurns = 3
  MaxBody = 3
  MaxChunk = 2
  MaxEvents = 2
  Routes = {r1}
  DefaultRoute = r1
  Checks = {c1, c2}
  Ttl = 1
  MaxAge = 3
  ToolNames <- MCToolNames
  PackNames <- MCPackNames
  Schemas <- MCSchemas
  SchemaAliases <- MCSchemaAliases
  PackAliases <- MCPackAliases
  Emitted = {"digits", "list text", "integer", "array", "null"}
  MaxIterations = 20
  Messages <- MCMessages
  Declared = {"read", "list"}
  Plans <- MCPlans
  Natives <- MCNatives
  Libraries <- MCLibraries
  ModelNames = {"qwen", "other"}
  BackendKinds = {"ollama", "compatible"}
  Records <- MCRecords
  ToolOrder <- MCOrder
  Cost <- MCCost
  Invalid = {"odd"}
  Reserved = {"ours", "read_result", "recall_history", "search_history", "get_tool_schema"}
  Asks <- MCAsks
  Policies <- MCPolicies
  Servings <- MCServings
  Contracts <- MCContracts
  DefaultSafe = 8
SPECIFICATION ServicesSpec
INVARIANTS ServicesTypeOK EvidenceSound QualificationSound SessionsHonest FrontDoorSound ToolOutputSound PlanSound
CHECK_DEADLOCK FALSE
