-------------------------- MODULE FillScan_proofs --------------------------
(***************************************************************************)
(* FillScan computes FillDetector!Analyze for every input and every        *)
(* setting of the thresholds: the inductive invariant is ScanInvariant     *)
(* with the ordering of the input, and the loop's exit conditions turn it  *)
(* into ReportsEarliestFill.                                               *)
(***************************************************************************)
EXTENDS FillScan, FillDetector_proofs

-----------------------------------------------------------------------------
(* The inductive invariant                                                 *)

\* Before the first iteration the variables are as Init set them.
NotStarted ==
    /\ pc = "call" => startIdx = 0
    /\ startIdx = 0 => endIdx = 1 /\ result = NoDetection

IInv == TypeOK /\ NotStarted /\ ScanInvariant /\ ReportsEarliestFill

\* The invariant holds before analyze() is called.
LEMMA InitInv == Init => IInv
<1> SUFFICES ASSUME Init PROVE IInv
  OBVIOUS
<1>1. TypeOK
  BY InputsAreReadings DEF Init, TypeOK, NoDetection, Phases, InputsAreReadings
<1> QED
  BY <1>1 DEF Init, IInv, NotStarted, ScanInvariant, ReportsEarliestFill

\* The facts about the current scan that every step starts from.
LEMMA ScanFacts ==
    ASSUME IInv, pc \in {"outer", "slide", "stability"}
    PROVE  /\ sorted \in Seq(Reading) /\ Chronological(sorted)
           /\ Len(sorted) = Len(readings)
           /\ endIdx \in 1..Len(sorted) /\ startIdx \in 0..Len(sorted)
           /\ Len(sorted) \in Nat
           /\ \A k \in DOMAIN sorted : sorted[k].ts \in Int /\ sorted[k].value \in Int
           /\ DOMAIN sorted = 1..Len(sorted)
  BY OrderingsAreSorted, ReadingFields DEF IInv, TypeOK, ScanInvariant

\* Refusing a short input keeps the invariant.
LEMMA TooFewStep == ASSUME IInv, TooFew PROVE IInv'
<1>1. TypeOK'
  BY DEF IInv, TooFew, TypeOK, Phases
<1> QED
  BY <1>1 DEF IInv, TooFew, NotStarted, ScanInvariant, ReportsEarliestFill

\* Sorting establishes the facts about the scan.
LEMMA SortStep == ASSUME IInv, SortReadings PROVE IInv'
<1>1. /\ sorted' \in Seq(Reading)
      /\ Len(sorted') = Len(readings)
  BY OrderingsAreSorted DEF IInv, TypeOK, SortReadings
<1>2. /\ startIdx' = 0 /\ endIdx' = 1 /\ result' = NoDetection /\ pc' = "outer"
      /\ readings' = readings
  BY DEF IInv, NotStarted, SortReadings
<1>3. Len(sorted') \in Nat /\ Len(sorted') >= 3
  BY <1>1 DEF SortReadings, MinReadings
<1>4. TypeOK'
  BY <1>1, <1>2, <1>3 DEF IInv, TypeOK, Phases, NoDetection
<1>5. ScanInvariant'
  BY <1>1, <1>2, <1>3 DEF ScanInvariant, SortReadings, MinReadings
<1> QED
  BY <1>2, <1>4, <1>5 DEF IInv, NotStarted, ReportsEarliestFill

\* Moving start_idx on keeps end_idx inside the window, pulled up if it lags.
LEMMA NextStartStep == ASSUME IInv, NextStart PROVE IInv'
<1>1. /\ sorted \in Seq(Reading) /\ Chronological(sorted)
      /\ endIdx \in 1..Len(sorted) /\ startIdx \in 0..Len(sorted)
      /\ Len(sorted) \in Nat
      /\ \A k \in DOMAIN sorted : sorted[k].ts \in Int
      /\ DOMAIN sorted = 1..Len(sorted)
  BY ScanFacts DEF NextStart
<1>2. /\ sorted' = sorted /\ readings' = readings /\ result' = result
      /\ pc = "outer" /\ pc' = "slide"
      /\ startIdx' = startIdx + 1 /\ startIdx' \in 1..Len(sorted)
      /\ endIdx' \in startIdx'..Len(sorted)
  BY <1>1 DEF NextStart
<1>3. sorted[endIdx'].ts <= sorted[startIdx'].ts + DetectionWindow
  <2>1. CASE endIdx < startIdx + 1
    <3>1. endIdx' = startIdx'
      BY <1>2, <2>1 DEF NextStart
    <3> QED
      BY <3>1, <1>1, <1>2, DetectorParameters DEF DetectorParameters
  <2>2. CASE ~(endIdx < startIdx + 1) /\ startIdx > 0
    <3>1. endIdx' = endIdx
      BY <2>2 DEF NextStart
    <3>2. sorted[endIdx].ts <= sorted[startIdx].ts + DetectionWindow
      BY <1>2, <2>2 DEF IInv, ScanInvariant
    <3>3. sorted[startIdx].ts <= sorted[startIdx'].ts
      BY <1>1, <1>2, <2>2 DEF Chronological
    <3>4. sorted[startIdx].ts \in Int /\ sorted[startIdx'].ts \in Int /\ sorted[endIdx].ts \in Int
      BY <1>1, <1>2, <2>2
    <3> QED
      BY <3>1, <3>2, <3>3, <3>4, DetectorParameters DEF DetectorParameters
  <2>3. CASE ~(endIdx < startIdx + 1) /\ startIdx = 0
    \* the first window starts with end_idx = 0, so end_idx is 1 here
    <3>1. endIdx = 1
      BY <2>3 DEF IInv, NotStarted
    <3>2. endIdx' = startIdx'
      BY <1>2, <2>3, <3>1 DEF NextStart
    <3> QED
      BY <3>2, <1>1, <1>2, DetectorParameters DEF DetectorParameters
  <2> QED
    BY <1>1, <2>1, <2>2, <2>3
<1>4. \A a \in 1..startIdx' - 1 : \A b \in DOMAIN sorted : ~IsFill(sorted, a, b)
  BY <1>1, <1>2 DEF IInv, ScanInvariant
<1>5. TypeOK'
  BY <1>1, <1>2 DEF IInv, TypeOK, Phases
<1>6. ScanInvariant'
  BY <1>1, <1>2, <1>3, <1>4 DEF IInv, ScanInvariant, IsFill, IsWindowEnd
<1> QED
  BY <1>2, <1>5, <1>6 DEF IInv, NotStarted, ReportsEarliestFill

\* When every start was rejected there is no fill, as None says.
LEMMA ExhaustedStep == ASSUME IInv, Exhausted PROVE IInv'
<1>1. /\ sorted \in Seq(Reading) /\ sorted \in Orderings(readings)
      /\ Len(sorted) = Len(readings) /\ Len(sorted) >= MinReadings
      /\ DOMAIN sorted = 1..Len(sorted) /\ startIdx = Len(sorted)
      /\ result = NoDetection
  BY ScanFacts DEF Exhausted, IInv, ScanInvariant
<1>2. \A a, b \in DOMAIN sorted : ~IsFill(sorted, a, b)
  BY <1>1 DEF Exhausted, IInv, ScanInvariant
<1>3. Analyze(sorted) = NoDetection
  BY <1>2 DEF Analyze, IsEarliestFill
<1>4. TypeOK'
  BY DEF IInv, Exhausted, TypeOK, Phases
<1>5. ReportsEarliestFill'
  BY <1>1, <1>3 DEF Exhausted, ReportsEarliestFill
<1> QED
  BY <1>1, <1>4, <1>5 DEF IInv, Exhausted, NotStarted, ScanInvariant, MinReadings

\* Moving end_idx on stays inside the current window.
LEMMA SlideStep == ASSUME IInv, Slide PROVE IInv'
<1>1. /\ endIdx \in 1..Len(sorted) /\ startIdx \in 1..endIdx
      /\ Len(sorted) \in Nat
  BY ScanFacts DEF Slide, IInv, ScanInvariant
<1>2. /\ endIdx' = endIdx + 1 /\ endIdx + 1 <= Len(sorted)
      /\ sorted[endIdx + 1].ts <= sorted[startIdx].ts + DetectionWindow
      /\ pc = "slide"
      /\ UNCHANGED <<readings, sorted, startIdx, result, pc>>
  BY DEF Slide, CanSlide
<1>3. TypeOK'
  BY <1>1, <1>2 DEF IInv, TypeOK
<1>4. ScanInvariant'
  BY <1>1, <1>2 DEF IInv, ScanInvariant
<1> QED
  BY <1>1, <1>2, <1>3, <1>4 DEF IInv, NotStarted, ReportsEarliestFill

\* When end_idx cannot move on, the current window is complete.
LEMMA WindowComplete ==
    ASSUME IInv, pc = "slide", ~CanSlide
    PROVE  IsWindowEnd(sorted, startIdx, endIdx)
<1>1. /\ sorted \in Seq(Reading) /\ Chronological(sorted)
      /\ endIdx \in 1..Len(sorted) /\ startIdx \in 1..endIdx
      /\ Len(sorted) \in Nat
      /\ \A k \in DOMAIN sorted : sorted[k].ts \in Int
      /\ DOMAIN sorted = 1..Len(sorted)
      /\ sorted[endIdx].ts <= sorted[startIdx].ts + DetectionWindow
  BY ScanFacts DEF IInv, ScanInvariant
<1>2. ASSUME NEW k \in endIdx + 1..Len(sorted)
      PROVE  sorted[k].ts > sorted[startIdx].ts + DetectionWindow
  <2>1. endIdx + 1 \in DOMAIN sorted /\ k \in DOMAIN sorted /\ startIdx \in DOMAIN sorted
    BY <1>1
  <2>2. ~(sorted[endIdx + 1].ts <= sorted[startIdx].ts + DetectionWindow)
    BY <1>1, <2>1 DEF CanSlide
  <2>3. sorted[endIdx + 1].ts <= sorted[k].ts
    <3>1. CASE k = endIdx + 1
      BY <1>1, <2>1, <3>1
    <3>2. CASE endIdx + 1 < k
      BY <1>1, <2>1, <3>2 DEF Chronological
    <3> QED
      BY <1>1, <3>1, <3>2
  <2>4. sorted[endIdx + 1].ts \in Int /\ sorted[k].ts \in Int /\ sorted[startIdx].ts \in Int
    BY <1>1, <2>1
  <2> QED
    BY <2>2, <2>3, <2>4, DetectorParameters DEF DetectorParameters
<1> QED
  BY <1>1, <1>2 DEF IsWindowEnd

\* A window that does not rise enough is no fill, whatever end one chooses.
LEMMA RejectStep == ASSUME IInv, Reject PROVE IInv'
<1>1. /\ sorted \in Seq(Reading)
      /\ endIdx \in 1..Len(sorted) /\ startIdx \in 1..endIdx
      /\ Len(sorted) \in Nat
      /\ DOMAIN sorted = 1..Len(sorted)
      /\ pc = "slide" /\ pc' = "outer"
      /\ UNCHANGED <<readings, sorted, startIdx, endIdx, result>>
  BY ScanFacts DEF Reject, IInv, ScanInvariant
<1>2. IsWindowEnd(sorted, startIdx, endIdx)
  BY WindowComplete DEF Reject
<1>3. ASSUME NEW b \in DOMAIN sorted
      PROVE  ~IsFill(sorted, startIdx, b)
  <2>1. SUFFICES ASSUME IsFill(sorted, startIdx, b) PROVE FALSE
    OBVIOUS
  <2>2. startIdx \in DOMAIN sorted
    BY <1>1
  <2>3. b = endIdx
    BY <1>1, <1>2, <2>1, <2>2, WindowEndUnique DEF IsFill
  <2> QED
    BY <2>1, <2>3 DEF IsFill, Reject, Rises
<1>4. \A a \in 1..startIdx : \A b \in DOMAIN sorted : ~IsFill(sorted, a, b)
  <2>1. \A a \in 1..startIdx - 1 : \A b \in DOMAIN sorted : ~IsFill(sorted, a, b)
    BY <1>1 DEF IInv, ScanInvariant
  <2> QED
    BY <1>1, <1>3, <2>1
<1>5. TypeOK'
  BY <1>1 DEF IInv, TypeOK, Phases
<1>6. ScanInvariant'
  BY <1>1, <1>4 DEF IInv, ScanInvariant
<1> QED
  BY <1>1, <1>5, <1>6 DEF IInv, NotStarted, ReportsEarliestFill

\* The accepted window is a fill, and no earlier start has one.
LEMMA AcceptStep == ASSUME IInv, Accept PROVE IInv'
<1>1. IsFill(sorted, startIdx, endIdx)
  BY WindowComplete DEF Accept, Rises, IsFill
<1>2. TypeOK'
  BY DEF IInv, Accept, TypeOK, Phases
<1>3. ScanInvariant'
  BY <1>1 DEF Accept, IInv, ScanInvariant
<1> QED
  BY <1>2, <1>3 DEF Accept, IInv, NotStarted, ReportsEarliestFill

\* The result is what Analyze says of the accepted window.
LEMMA CheckStabilityStep == ASSUME IInv, CheckStability PROVE IInv'
<1>1. /\ sorted \in Seq(Reading) /\ sorted \in Orderings(readings)
      /\ Len(sorted) = Len(readings) /\ Len(sorted) >= MinReadings
      /\ startIdx \in DOMAIN sorted /\ endIdx \in DOMAIN sorted
      /\ pc = "stability" /\ pc' = "done"
      /\ UNCHANGED <<readings, sorted, startIdx, endIdx>>
  BY ScanFacts DEF CheckStability, IInv, ScanInvariant
<1>2. IsEarliestFill(sorted, startIdx, endIdx)
  BY <1>1 DEF IsEarliestFill, IInv, ScanInvariant
<1>3. result' = Analyze(sorted)
  BY <1>1, <1>2, AnalyzeKnownFill DEF CheckStability
<1>4. result' \in [detectedAt: Int, windowEnd: Int, netDelta: Int, confidence: Int]
  <2>1. /\ sorted[startIdx].ts \in Int /\ sorted[endIdx].ts \in Int
        /\ sorted[endIdx].value - sorted[startIdx].value \in Int
    BY <1>1, ReadingFields
  <2>2. Confidence(sorted, startIdx, endIdx) \in Int
    BY <1>1, ConfidenceIsInt
  <2> QED
    BY <2>1, <2>2 DEF CheckStability, Detection, NoDetection
<1>5. TypeOK'
  BY <1>1, <1>4 DEF IInv, TypeOK, Phases
<1>6. startIdx # 0
  BY ScanFacts DEF CheckStability, IInv, ScanInvariant
<1>7. ReportsEarliestFill'
  BY <1>1, <1>3 DEF ReportsEarliestFill, MinReadings
<1> QED
  BY <1>1, <1>5, <1>6, <1>7 DEF IInv, NotStarted, ScanInvariant

\* Every step of analyze() keeps the invariant.
LEMMA StepInv == ASSUME IInv, [Next]_vars PROVE IInv'
<1>1. CASE UNCHANGED vars
  BY <1>1 DEF vars, IInv, TypeOK, NotStarted, ScanInvariant, ReportsEarliestFill
<1> QED
  BY <1>1, TooFewStep, SortStep, NextStartStep, ExhaustedStep, SlideStep,
     RejectStep, AcceptStep, CheckStabilityStep DEF Next

-----------------------------------------------------------------------------
(* Theorems                                                                *)

\* The inductive invariant holds in every state of every call.
THEOREM Invariance == Spec => []IInv
<1>1. IInv /\ [Next]_vars => IInv'
  BY StepInv
<1> QED
  BY InitInv, <1>1, PTL DEF Spec

\* analyze() type-checks for every input.
THEOREM TypeCorrect == Spec => []TypeOK
<1>1. IInv => TypeOK
  BY DEF IInv
<1> QED
  BY Invariance, <1>1, PTL

\* The two facts the single pass rests on hold for every input.
THEOREM ScanCorrect == Spec => []ScanInvariant
<1>1. IInv => ScanInvariant
  BY DEF IInv
<1> QED
  BY Invariance, <1>1, PTL

\* analyze() reports the earliest window that rises by the threshold, exactly
\* when the level holds after it, for every sequence of readings and every
\* setting of the four thresholds.
THEOREM DetectorCorrect == Spec => []ReportsEarliestFill
<1>1. IInv => ReportsEarliestFill
  BY DEF IInv
<1> QED
  BY Invariance, <1>1, PTL
=============================================================================
