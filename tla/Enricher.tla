------------------------------ MODULE Enricher ------------------------------
(***************************************************************************)
(* TelemetryEnricher.enrich of                                             *)
(* apps/telemetry_ingestion/services/enricher.py: the feed sends the time  *)
(* of a measurement as hours since the start of its year, plus a day; the  *)
(* enricher adds them to the year of its own clock, and takes the year     *)
(* before when the result lies more than a day ahead.                      *)
(*                                                                         *)
(* Time is in units; years need not have the same length.                  *)
(***************************************************************************)
EXTENDS Integers

CONSTANTS
    LastYear,
    YearStart,      \* first unit of each year from 0 to LastYear
    Day,            \* 24 hours
    NoField         \* a field the update does not carry

ASSUME CalendarParameters ==
    /\ LastYear \in Nat
    /\ YearStart \in [0..LastYear -> Int]
    /\ \A y, z \in 0..LastYear : y < z => YearStart[y] < YearStart[z]
    /\ Day \in Nat
    /\ NoField \notin Int

\* t lies in year y.
InYear(t, y) ==
    /\ y \in 0..LastYear
    /\ YearStart[y] <= t
    /\ \A z \in 0..LastYear : y < z => t < YearStart[z]

Year(t) == CHOOSE y \in 0..LastYear : InYear(t, y)

\* What the feed counts from: December 31 of the year before.
BaseEpoch(y) == YearStart[y] - Day

\* The TimeStamp field the feed sends for a measurement.
Hours(t) == t - BaseEpoch(Year(t))

\* Mutant of Enrich: no rollover.
MutantNoRollover(hours, clock) ==
    IF hours = NoField THEN clock ELSE BaseEpoch(Year(clock)) + hours

\* The timestamp enrich() makes of it when its clock shows clock; without the field, or
\* with one that is no number of hours, it is the clock itself.
Enrich(hours, clock) ==
    IF hours = NoField THEN clock
    ELSE LET ts == BaseEpoch(Year(clock)) + hours
         IN  IF ts > clock + Day THEN BaseEpoch(Year(clock) - 1) + hours ELSE ts

\* A measurement of the clock's year, or one of the year before whose age leaves a day
\* to the length of that year.
Datable(t, clock) ==
    \/ Year(t) = Year(clock) /\ t <= clock + Day
    \/ /\ Year(t) = Year(clock) - 1
       /\ clock - t < YearStart[Year(clock)] - YearStart[Year(t)] - Day
=============================================================================
