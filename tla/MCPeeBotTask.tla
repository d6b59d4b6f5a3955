---------------------------- MODULE MCPeeBotTask ----------------------------
(***************************************************************************)
(* PeeBotTask on short tank level curves.  A unit of time is 15 seconds    *)
(* except that the observation window and the stability window are cut     *)
(* short; the overlap is the detection window, as in the code.             *)
(***************************************************************************)
EXTENDS PeeBotTask, TLC

\* One fill between 2 and 4, then level.
OneFill == [t \in 1..MaxTime |-> IF t <= 2 THEN 50 ELSE IF t = 3 THEN 51 ELSE 53]

\* The same at every second time only: the feed sends changes.
SparseFill == [t \in {1, 2, 3, 5} \cap (1..MaxTime) |-> IF t <= 2 THEN 50 ELSE 52]

WorkerSymmetry == Permutations(Workers)
=============================================================================
