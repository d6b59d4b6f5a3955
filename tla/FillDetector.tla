---------------------------- MODULE FillDetector ----------------------------
(***************************************************************************)
(* The fill-event detector of apps/event_processors/processors/pee_bot.py  *)
(* as pure definitions over a chronological sequence of readings: what a   *)
(* qualifying 30-second window is, which one is reported, when the level   *)
(* counts as stable afterwards and how confident the detection is.         *)
(*                                                                         *)
(* FillScan models the loop that computes this; PeeBotTask uses Analyze as *)
(* the outcome of one analysis.                                            *)
(*                                                                         *)
(* A reading is its timestamp and its integer tank level (NODE3000005 is   *)
(* an integer percentage).  Time is in arbitrary units.                    *)
(***************************************************************************)
EXTENDS Integers, Sequences, FiniteSets

CONSTANTS
    DetectionWindow,    \* DETECTION_WINDOW_SECONDS
    NetDelta,           \* NET_DELTA_THRESHOLD
    StabilityWindow,    \* STABILITY_WINDOW_SECONDS
    Tolerance           \* STABILITY_TOLERANCE

ASSUME DetectorParameters ==
    /\ DetectionWindow \in Nat
    /\ NetDelta \in Nat
    /\ StabilityWindow \in Nat
    /\ Tolerance \in Nat

Reading == [ts: Int, value: Int]

\* analyze() refuses fewer readings than this.
MinReadings == 3

\* s is what sorted(readings, key=timestamp) returns.
Chronological(s) ==
    \A i, j \in DOMAIN s : i < j => s[i].ts <= s[j].ts

\* Every stable chronological ordering of r: equal timestamps keep their order.
Orderings(r) ==
    LET Order == {p \in [DOMAIN r -> DOMAIN r] :
                    \A i, j \in DOMAIN r :
                       i < j => \/ r[p[i]].ts < r[p[j]].ts
                                \/ r[p[i]].ts = r[p[j]].ts /\ p[i] < p[j]}
    IN  {[i \in DOMAIN r |-> r[p[i]]] : p \in Order}

-----------------------------------------------------------------------------
(* The window that starts at reading i, and the one that is reported.      *)

\* j is the last reading of the detection window that starts at reading i.
IsWindowEnd(s, i, j) ==
    /\ j \in i..Len(s)
    /\ s[j].ts <= s[i].ts + DetectionWindow
    /\ \A k \in j + 1..Len(s) : s[k].ts > s[i].ts + DetectionWindow

\* The window from i to j holds more than one reading and rises enough.
IsFill(s, i, j) ==
    /\ IsWindowEnd(s, i, j)
    /\ i < j
    /\ s[j].value - s[i].value >= NetDelta

IsEarliestFill(s, i, j) ==
    /\ IsFill(s, i, j)
    /\ \A a \in 1..i - 1, b \in DOMAIN s : ~IsFill(s, a, b)

-----------------------------------------------------------------------------
(* What follows the window's last reading.                                 *)

StabilityReadings(s, j) ==
    {k \in DOMAIN s : s[j].ts < s[k].ts /\ s[k].ts <= s[j].ts + StabilityWindow}

HoldingReadings(s, j) ==
    {k \in StabilityReadings(s, j) : s[k].value >= s[j].value - Tolerance}

\* No reading of the stability window falls below the floor; an empty window passes.
IsStable(s, j) == HoldingReadings(s, j) = StabilityReadings(s, j)

AtMost(n, cap) == IF n <= cap THEN n ELSE cap

\* get_confidence() in hundredths:
\*   min(delta/4, 1) * 0.4 + min(holding/5, 1) * 0.3 + min(density/6, 1) * 0.3, at most 1
\* (a sum below 0 would be 0, but a fill rises)
Confidence(s, i, j) ==
    AtMost(10 * AtMost(s[j].value - s[i].value, 4)
             + 6 * AtMost(Cardinality(HoldingReadings(s, j)), 5)
             + 5 * AtMost(j - i + 1, 6), 100)

Detection(s, i, j) ==
    [detectedAt |-> s[i].ts, windowEnd |-> s[j].ts,
     netDelta |-> s[j].value - s[i].value, confidence |-> Confidence(s, i, j)]

NoDetection == [detectedAt |-> 0, windowEnd |-> 0, netDelta |-> 0, confidence |-> 0]

\* What analyze() returns for readings already in order: the earliest fill,
\* unless the level falls back after it.
Analyze(s) ==
    IF /\ Len(s) >= MinReadings
       /\ \E i, j \in DOMAIN s : IsEarliestFill(s, i, j) /\ IsStable(s, j)
    THEN LET fill == CHOOSE f \in (DOMAIN s) \X (DOMAIN s) :
                        IsEarliestFill(s, f[1], f[2])
         IN  Detection(s, fill[1], fill[2])
    ELSE NoDetection
=============================================================================
