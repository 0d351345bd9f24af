CONSTANTS
  Workers = {w1, w2}
  search = search
  plugin = plugin
  Handlers = {search}
  SearchHandler = search
  HandlerTopics <- MCHandlerTopics
  Registered <- MCRegistered
  AttemptLimit <- MCAttemptLimit
  Lease = 1
  BatchSize = 2
  Documents = {d}
  EmittedTopics <- IndexTopicsAndRemoval
  NoRow = NoRow
  NoTime = NoTime
  MaxVersion = 2
  MaxFaults = 1
  MaxRetries = 0
SPECIFICATION MCSpec
SYMMETRY WorkerSymmetry
INVARIANTS LeasesAreAccounted IndexFollowsEvents
PROPERTIES WorkersYield DeliversAsPromised
CHECK_DEADLOCK FALSE
