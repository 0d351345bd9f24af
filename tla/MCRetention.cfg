CONSTANTS
  Workers = {w1}
  search = search
  Handlers = {search}
  SearchHandler = search
  HandlerTopics <- MCHandlerTopics
  Registered <- MCRegistered
  AttemptLimit <- MCAttemptLimit
  Lease = 1
  BatchSize = 1
  Documents = {d}
  EmittedTopics <- CreatedOnly
  NoRow = NoRow
  NoTime = NoTime
  MaxVersion = 1
  MaxFaults = 1
  MaxRetries = 1
  PlanIds = {p1, p2}
  Policies <- MCPolicies
  PlanTtl = 1
  MaxClock = 2
  MaxRevision = 2
  NoPlan = NoPlan
SPECIFICATION RSpec
PROPERTIES RemovesAsPreviewed
CHECK_DEADLOCK FALSE
