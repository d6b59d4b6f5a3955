------------------------------ MODULE FillScan ------------------------------
(***************************************************************************)
(* PeeBotProcessor.analyze step by step: refuse short inputs, sort, run    *)
(* the two-index loop of _detect_fill_event (start_idx walks the readings, *)
(* end_idx only ever moves forward), then _check_stability on the first    *)
(* window that rises enough.  FillDetector!Analyze says what it computes.  *)
(*                                                                         *)
(* Indices count from 1 here, from 0 in the code; startIdx = 0 before the  *)
(* first iteration.                                                        *)
(***************************************************************************)
EXTENDS FillDetector

CONSTANT Inputs     \* the sequences of readings analyze() may be called with

ASSUME InputsAreReadings == Inputs \subseteq Seq(Reading)

VARIABLES
    readings,       \* the argument of analyze()
    sorted,         \* sorted_readings
    startIdx, endIdx,
    result,         \* what analyze() returns
    pc

vars == <<readings, sorted, startIdx, endIdx, result, pc>>

Phases == {"call", "outer", "slide", "stability", "done"}

TypeOK ==
    /\ readings \in Seq(Reading)
    /\ sorted \in Seq(Reading)
    /\ startIdx \in 0..Len(sorted)
    /\ endIdx \in Nat
    /\ result \in [detectedAt: Int, windowEnd: Int, netDelta: Int, confidence: Int]
    /\ pc \in Phases

Init ==
    /\ readings \in Inputs
    /\ sorted = <<>>
    /\ startIdx = 0
    /\ endIdx = 1
    /\ result = NoDetection
    /\ pc = "call"

-----------------------------------------------------------------------------
\* if len(readings) < 3: return None
TooFew ==
    /\ pc = "call"
    /\ Len(readings) < MinReadings
    /\ pc' = "done"
    /\ UNCHANGED <<readings, sorted, startIdx, endIdx, result>>

SortReadings ==
    /\ pc = "call"
    /\ Len(readings) >= MinReadings
    /\ sorted' \in Orderings(readings)
    /\ pc' = "outer"
    /\ UNCHANGED <<readings, startIdx, endIdx, result>>

\* Mutants of NextStart: the loop runs once too often; start_idx is not advanced.
MutantOneTooMany ==
    /\ pc = "outer"
    /\ startIdx <= Len(sorted)
    /\ startIdx' = startIdx + 1
    /\ endIdx' = IF endIdx < startIdx + 1 THEN startIdx + 1 ELSE endIdx
    /\ pc' = "slide"
    /\ UNCHANGED <<readings, sorted, result>>

MutantStuckStart ==
    /\ pc = "outer"
    /\ startIdx < Len(sorted)
    /\ startIdx' = 1
    /\ endIdx' = IF endIdx < 1 THEN 1 ELSE endIdx
    /\ pc' = "slide"
    /\ UNCHANGED <<readings, sorted, result>>

\* for start_idx, ...: end_idx is pulled up to it when it lags behind
NextStart ==
    /\ pc = "outer"
    /\ startIdx < Len(sorted)
    /\ startIdx' = startIdx + 1
    /\ endIdx' = IF endIdx < startIdx + 1 THEN startIdx + 1 ELSE endIdx
    /\ pc' = "slide"
    /\ UNCHANGED <<readings, sorted, result>>

Exhausted ==
    /\ pc = "outer"
    /\ startIdx = Len(sorted)
    /\ pc' = "done"
    /\ UNCHANGED <<readings, sorted, startIdx, endIdx, result>>

\* Mutant of CanSlide: a reading at the very end of the window is left out.
MutantExclusiveBound ==
    /\ endIdx + 1 <= Len(sorted)
    /\ sorted[endIdx + 1].ts < sorted[startIdx].ts + DetectionWindow

\* The condition of the inner while loop.
CanSlide ==
    /\ endIdx + 1 <= Len(sorted)
    /\ sorted[endIdx + 1].ts <= sorted[startIdx].ts + DetectionWindow

Slide ==
    /\ pc = "slide"
    /\ CanSlide
    /\ endIdx' = endIdx + 1
    /\ UNCHANGED <<readings, sorted, startIdx, result, pc>>

\* end_idx <= start_idx, or net_delta below the threshold: continue
Rises ==
    /\ startIdx < endIdx
    /\ sorted[endIdx].value - sorted[startIdx].value >= NetDelta

Reject ==
    /\ pc = "slide"
    /\ ~CanSlide
    /\ ~Rises
    /\ pc' = "outer"
    /\ UNCHANGED <<readings, sorted, startIdx, endIdx, result>>

Accept ==
    /\ pc = "slide"
    /\ ~CanSlide
    /\ Rises
    /\ pc' = "stability"
    /\ UNCHANGED <<readings, sorted, startIdx, endIdx, result>>

\* _check_stability, then the DetectionResult or None
CheckStability ==
    /\ pc = "stability"
    /\ result' = IF IsStable(sorted, endIdx)
                 THEN Detection(sorted, startIdx, endIdx)
                 ELSE NoDetection
    /\ pc' = "done"
    /\ UNCHANGED <<readings, sorted, startIdx, endIdx>>

Next ==
    \/ TooFew \/ SortReadings \/ NextStart \/ Exhausted
    \/ Slide \/ Reject \/ Accept \/ CheckStability

Spec == Init /\ [][Next]_vars

\* analyze() runs on one thread without awaiting anything: it keeps going.
FairSpec == Spec /\ WF_vars(Next)

-----------------------------------------------------------------------------
(* Properties                                                              *)

\* Every window that starts before the current one has been seen and does not
\* qualify, and end_idx, which is never moved back, still lies inside the
\* current window: the two facts the single pass of _detect_fill_event rests on.
ScanInvariant ==
    pc \in {"outer", "slide", "stability"} =>
        /\ sorted \in Orderings(readings)
        /\ Len(sorted) >= MinReadings
        /\ endIdx \in 1..Len(sorted)
        /\ result = NoDetection
        /\ pc # "outer" =>
              /\ startIdx \in 1..endIdx
              /\ sorted[endIdx].ts <= sorted[startIdx].ts + DetectionWindow
        /\ pc = "outer" /\ startIdx > 0 =>
              sorted[endIdx].ts <= sorted[startIdx].ts + DetectionWindow
        /\ \A a \in 1..(IF pc = "outer" THEN startIdx ELSE startIdx - 1) :
              \A b \in DOMAIN sorted : ~IsFill(sorted, a, b)
        /\ pc = "stability" => IsFill(sorted, startIdx, endIdx)

\* analyze() returns the earliest window that rises by the threshold ("Returns
\* the earliest qualifying event", pee_bot.py:82) when the level holds after it,
\* and None otherwise, whatever the order of its input.
ReportsEarliestFill ==
    pc = "done" =>
        IF Len(readings) < MinReadings
        THEN result = NoDetection
        ELSE /\ sorted \in Orderings(readings)
             /\ result = Analyze(sorted)

\* Every call returns.
Terminates == <>(pc = "done")

\* FR-PROC-003 asks for a fill over any 30-second sub-window that stays stable
\* afterwards.  The code gives up at the first fill that does not, so this fails.
AnyStableFillIsReported ==
    pc = "done" /\ Len(readings) >= MinReadings /\ result = NoDetection =>
        \A i, j \in DOMAIN sorted : ~(IsFill(sorted, i, j) /\ IsStable(sorted, j))
=============================================================================
