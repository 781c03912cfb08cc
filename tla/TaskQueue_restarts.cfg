SPECIFICATION Spec
CONSTANTS
  a = a
  b = b
  r = r
  batch = batch
  NoTask = NoTask
  Tasks = {a, b}
  Resources = {r}
  Batches = {batch}
  BatchTasks <- MCBatchTasks
  Deps <- Independent
  LockedResources <- OneLocks
  Priority <- MCPriority
  MaxRetries <- NoRetries
  MaxConcurrency = 2
  MaxBoots = 3
  GracefulStops = TRUE
PROPERTY OnlyStopsAbandon
