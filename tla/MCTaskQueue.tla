---------------------------- MODULE MCTaskQueue ----------------------------
(* Small workloads for TLC: `a' and `b' want one resource, `c' waits for   *)
(* `a' and is preferred to both.                                           *)
EXTENDS TaskQueue, TLC

CONSTANTS a, b, c, r, batch

MCDeps == a :> <<>> @@ b :> <<>> @@ c :> <<a>>
MCLockedResources == a :> <<r>> @@ b :> <<r>> @@ c :> <<>>
MCPriority == a :> 5 @@ b :> 5 @@ c :> 9
MCMaxRetries == a :> 1 @@ b :> 0 @@ c :> 0
MCBatchTasks == batch :> {b, c}

=============================================================================
