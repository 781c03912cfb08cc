-------------------------- MODULE MCTaskQueueOne --------------------------
(* Workload of one uninterrupted process with two workers: `a' is retried, *)
(* `b' and `c' are preferred to it.                                        *)
EXTENDS TaskQueue, TLC

CONSTANTS a, b, c, r, batch

MCDeps == a :> <<>> @@ b :> <<>> @@ c :> <<>>
MCLockedResources == a :> <<r>> @@ b :> <<>> @@ c :> <<>>
MCPriority == a :> 5 @@ b :> 9 @@ c :> 7
MCMaxRetries == a :> 2 @@ b :> 0 @@ c :> 0
MCBatchTasks == batch :> {a}

=============================================================================
