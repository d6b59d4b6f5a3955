------------------------ MODULE MCIngestionPipeline ------------------------
(***************************************************************************)
(* Four updates: one that fails validation, a reading, one that makes its  *)
(* batch fail, and the broadcast of the reading again.  In this order a    *)
(* raising close_old_connections can make the worker acknowledge the       *)
(* second and third update twice, while the fourth is still in the queue.  *)
(***************************************************************************)
EXTENDS IngestionPipeline

\* The fourth update repeats the (channel, timestamp) of the second.
MCRowKey == [u \in Updates |-> IF u = 4 THEN 2 ELSE u]

\* The first update fails validation, the third makes its batch fail.
MCMixedKind ==
    [u \in Updates |-> CASE u = 1 -> "invalid" [] u = 3 -> "poison" [] OTHER -> "ok"]

MCAllOk == [u \in Updates |-> "ok"]
=============================================================================
