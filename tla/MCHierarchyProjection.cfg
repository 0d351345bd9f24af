CONSTANTS
  d1 = d1
  d2 = d2
  d3 = d3
  Docs <- DocsDef
  Servers = {s1, s2}
  Collection = Collection
  Nobody = Nobody
  Scenarios <- ScenariosDef
SPECIFICATION FairSpec
INVARIANTS StaleFailsClosed
PROPERTIES ProjectsTheTree CrashIsRepaired
CHECK_DEADLOCK FALSE
