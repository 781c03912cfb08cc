SPECIFICATION FairSpec
CONSTANTS
  a = a
  b = b
  r = r
  batch = batch
  NoTask = NoTask
  Tasks = {a, b}
  Resources = {r}
  Batches = {batch}
  BatchTasks <- MCBatchTasks
  Deps <- ChainedTwice
  LockedResources <- OneResource
  Priority <- MCPriority
  MaxRetries <- MCMaxRetries
  MaxConcurrency = 2
  MaxBoots = 2
  GracefulStops = FALSE
PROPERTY DepsPromoted
