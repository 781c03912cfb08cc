-------------------------- MODULE MCTaskQueueLive --------------------------
(* Workload of the run about liveness, for one worker, so that a poll      *)
(* fetches one task: `a' and `b' want one resource, `b' is preferred, and  *)
(* `c' waits for both.                                                     *)
EXTENDS TaskQueue, TLC

CONSTANTS a, b, c, r, batch

MCDeps == a :> <<>> @@ b :> <<>> @@ c :> <<a, b>>
MCLockedResources == a :> <<r>> @@ b :> <<r>> @@ c :> <<>>
MCPriority == a :> 5 @@ b :> 9 @@ c :> 5
MCMaxRetries == a :> 0 @@ b :> 0 @@ c :> 0
MCBatchTasks == batch :> {b}

=============================================================================
