-------------------------- MODULE MCTaskQueueTwo --------------------------
(* Two tasks for the runs about restarts: they can run at the same time,   *)
(* or `b' waits for `a', which its list names once or twice, and for its   *)
(* resource.                                                               *)
EXTENDS TaskQueue, TLC

CONSTANTS a, b, r, batch

Independent == a :> <<>> @@ b :> <<>>
Chained == a :> <<>> @@ b :> <<a>>
ChainedTwice == a :> <<>> @@ b :> <<a, a>>
OneResource == a :> <<r>> @@ b :> <<r>>
OneLocks == a :> <<r>> @@ b :> <<>>
MCPriority == a :> 5 @@ b :> 5
MCMaxRetries == a :> 1 @@ b :> 0
NoRetries == a :> 0 @@ b :> 0
MCBatchTasks == batch :> {b}

=============================================================================
