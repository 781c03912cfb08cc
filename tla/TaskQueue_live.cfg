SPECIFICATION FairSpec
CONSTANTS
  a = a
  b = b
  c = c
  r = r
  batch = batch
  NoTask = NoTask
  Tasks = {a, b, c}
  Resources = {r}
  Batches = {batch}
  BatchTasks <- MCBatchTasks
  Deps <- MCDeps
  LockedResources <- MCLockedResources
  Priority <- MCPriority
  MaxRetries <- MCMaxRetries
  MaxConcurrency = 1
  MaxBoots = 2
  GracefulStops = FALSE
PROPERTIES
  DistinctDepsPromoted
  ScheduledTaskRuns
  RunningTaskLeaves
