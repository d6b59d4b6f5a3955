--------------------------- MODULE MCPeeBotSystem ---------------------------
(***************************************************************************)
(* PeeBotSystem on one fill, with the two worker processes of the           *)
(* deployment.                                                             *)
(***************************************************************************)
EXTENDS PeeBotSystem, TLC

\* One fill between 2 and 3, then level, and no reading later on.
ShortFill == [t \in 1..4 |-> IF t <= 2 THEN 50 ELSE 52]

WorkerSymmetry == Permutations(Workers)
=============================================================================
