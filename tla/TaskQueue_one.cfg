SPECIFICATION Spec
CONSTANTS
  a = a
  b = b
  c = c
  r = r
  batch = batch
  NoTask = NoTask
  Tasks = {a, b, c}
  Resources = {r}
  Batches = {batch}
  BatchTasks <- MCBatchTasks
  Deps <- MCDeps
  LockedResources <- MCLockedResources
  Priority <- MCPriority
  MaxRetries <- MCMaxRetries
  MaxConcurrency = 2
  MaxBoots = 1
  GracefulStops = FALSE
INVARIANTS
  RetryBudget
  RetryArmed
PROPERTIES
  PriorityRespected
