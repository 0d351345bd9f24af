CONSTANTS
  Workers = {w1, w2}
  search = search
  plugin = plugin
  Handlers = {search, plugin}
  SearchHandler = search
  HandlerTopics <- PluginTopics
  Registered <- PluginInOne
  AttemptLimit <- MCAttemptLimit
  Lease = 1
  BatchSize = 2
  Documents = {d}
  EmittedTopics <- IndexTopics
  NoRow = NoRow
  NoTime = NoTime
  MaxVersion = 1
  MaxFaults = 1
  MaxRetries = 1
SPECIFICATION LiveSpec
PROPERTIES EventuallySettled
CHECK_DEADLOCK FALSE
