SPECIFICATION Spec
CONSTANTS
  a = a
  b = b
  r = r
  batch = batch
  NoTask = NoTask
  Tasks = {a, b}
  Resources = {r}
  Batches = {batch}
  BatchTasks <- MCBatchTasks
  Deps <- Chained
  LockedResources <- OneResource
  Priority <- MCPriority
  MaxRetries <- MCMaxRetries
  MaxConcurrency = 2
  MaxBoots = 2
  GracefulStops = TRUE
INVARIANT RunningRecoverable
