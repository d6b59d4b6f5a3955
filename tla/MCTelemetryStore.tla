-------------------------- MODULE MCTelemetryStore --------------------------
(***************************************************************************)
(* TelemetryStore around a New Year: three years of six units, a day of    *)
(* two, and a process that sees the second year turn into the third.       *)
(***************************************************************************)
EXTENDS TelemetryStore

CONSTANT Other

Years == [y \in 0..2 |-> 6 * y]

Listed == <<Other, Target>>
=============================================================================
