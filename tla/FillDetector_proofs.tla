------------------------ MODULE FillDetector_proofs ------------------------
(***************************************************************************)
(* What the definitions of FillDetector say of every sequence of readings: *)
(* windows and the earliest fill are unique, and Analyze returns its       *)
(* detection or none.                                                      *)
(***************************************************************************)
EXTENDS FillDetector, FiniteSetTheorems, TLAPS

\* The fields of a reading and its index are integers.
LEMMA ReadingFields ==
    ASSUME NEW s \in Seq(Reading), NEW i \in DOMAIN s
    PROVE  s[i].ts \in Int /\ s[i].value \in Int /\ i \in 1..Len(s)
<1>1. s[i] \in Reading
  OBVIOUS
<1> QED
  BY <1>1 DEF Reading

\* Sorting returns readings, as many as it was given, in chronological order.
LEMMA OrderingsAreSorted ==
    ASSUME NEW r \in Seq(Reading), NEW s \in Orderings(r)
    PROVE  /\ s \in Seq(Reading)
           /\ Len(s) = Len(r)
           /\ Chronological(s)
<1>1. PICK p \in [DOMAIN r -> DOMAIN r] :
        /\ s = [i \in DOMAIN r |-> r[p[i]]]
        /\ \A i, j \in DOMAIN r :
             i < j => \/ r[p[i]].ts < r[p[j]].ts
                      \/ r[p[i]].ts = r[p[j]].ts /\ p[i] < p[j]
  BY DEF Orderings
<1>2. DOMAIN r = 1..Len(r) /\ Len(r) \in Nat
  OBVIOUS
<1>3. \A i \in DOMAIN r : s[i] = r[p[i]] /\ s[i] \in Reading
  BY <1>1
<1>4. s \in Seq(Reading) /\ Len(s) = Len(r)
  BY <1>1, <1>2, <1>3
<1>5. ASSUME NEW i \in DOMAIN s, NEW j \in DOMAIN s, i < j
      PROVE  s[i].ts <= s[j].ts
  <2>1. i \in DOMAIN r /\ j \in DOMAIN r
    BY <1>4, <1>2
  <2>2. p[i] \in DOMAIN r /\ p[j] \in DOMAIN r
    BY <2>1
  <2>3. r[p[i]].ts \in Int /\ r[p[j]].ts \in Int
    BY <2>2, ReadingFields
  <2>4. r[p[i]].ts <= r[p[j]].ts
    BY <1>1, <1>5, <2>1, <2>3
  <2> QED
    BY <1>3, <2>1, <2>4
<1> QED
  BY <1>4, <1>5 DEF Chronological

\* At most one window starts at a reading.
LEMMA WindowEndUnique ==
    ASSUME NEW s \in Seq(Reading), NEW i \in DOMAIN s, NEW j, NEW k,
           IsWindowEnd(s, i, j), IsWindowEnd(s, i, k)
    PROVE  j = k
<1>1. j \in 1..Len(s) /\ k \in 1..Len(s) /\ i \in 1..Len(s)
  BY DEF IsWindowEnd
<1>2. s[j].ts \in Int /\ s[k].ts \in Int /\ s[i].ts \in Int
  BY <1>1, ReadingFields
<1>3. ~(k > j) /\ ~(j > k)
  BY <1>1, <1>2, DetectorParameters DEF IsWindowEnd, DetectorParameters
<1> QED
  BY <1>1, <1>3

\* At most one fill is the earliest.
LEMMA EarliestUnique ==
    ASSUME NEW s \in Seq(Reading),
           NEW i \in DOMAIN s, NEW j \in DOMAIN s, IsEarliestFill(s, i, j),
           NEW a \in DOMAIN s, NEW b \in DOMAIN s, IsEarliestFill(s, a, b)
    PROVE  i = a /\ j = b
<1>1. i = a
  BY DEF IsEarliestFill
<1> QED
  BY <1>1, WindowEndUnique DEF IsEarliestFill, IsFill

\* What Analyze returns when the earliest fill is known.
LEMMA AnalyzeKnownFill ==
    ASSUME NEW s \in Seq(Reading), Len(s) >= MinReadings,
           NEW i \in DOMAIN s, NEW j \in DOMAIN s, IsEarliestFill(s, i, j)
    PROVE  Analyze(s) = IF IsStable(s, j) THEN Detection(s, i, j) ELSE NoDetection
<1>1. CASE IsStable(s, j)
  <2> DEFINE fill == CHOOSE f \in (DOMAIN s) \X (DOMAIN s) : IsEarliestFill(s, f[1], f[2])
  <2>1. \E f \in (DOMAIN s) \X (DOMAIN s) : IsEarliestFill(s, f[1], f[2])
    <3>1. <<i, j>> \in (DOMAIN s) \X (DOMAIN s)
      OBVIOUS
    <3> QED
      BY <3>1
  <2>2. fill \in (DOMAIN s) \X (DOMAIN s) /\ IsEarliestFill(s, fill[1], fill[2])
    BY <2>1
  <2>3. fill[1] = i /\ fill[2] = j
    BY <2>2, EarliestUnique
  <2>4. Analyze(s) = Detection(s, fill[1], fill[2])
    BY <1>1 DEF Analyze
  <2> QED
    BY <1>1, <2>3, <2>4
<1>2. CASE ~IsStable(s, j)
  <2>1. \A a, b \in DOMAIN s : ~(IsEarliestFill(s, a, b) /\ IsStable(s, b))
    BY <1>2, EarliestUnique
  <2> QED
    BY <1>2, <2>1 DEF Analyze
<1> QED
  BY <1>1, <1>2

\* The readings that hold the level are finitely many.
LEMMA HoldingIsFinite ==
    ASSUME NEW s \in Seq(Reading), NEW j
    PROVE  Cardinality(HoldingReadings(s, j)) \in Nat
<1>1. IsFiniteSet(DOMAIN s)
  BY FS_Interval
<1>2. IsFiniteSet(HoldingReadings(s, j))
  BY <1>1, FS_Subset DEF HoldingReadings, StabilityReadings
<1> QED
  BY <1>2, FS_CardinalityType

\* The confidence is a whole number of hundredths.
LEMMA ConfidenceIsInt ==
    ASSUME NEW s \in Seq(Reading), NEW i \in DOMAIN s, NEW j \in DOMAIN s
    PROVE  Confidence(s, i, j) \in Int
<1>1. /\ Cardinality(HoldingReadings(s, j)) \in Int
      /\ s[j].value - s[i].value \in Int
      /\ j - i + 1 \in Int
  BY HoldingIsFinite, ReadingFields
<1>2. \A n \in Int : AtMost(n, 4) \in Int /\ AtMost(n, 5) \in Int /\ AtMost(n, 6) \in Int
  BY DEF AtMost
<1>3. /\ AtMost(s[j].value - s[i].value, 4) \in Int
      /\ AtMost(Cardinality(HoldingReadings(s, j)), 5) \in Int
      /\ AtMost(j - i + 1, 6) \in Int
  BY <1>1, <1>2, Zenon
<1>4. ASSUME NEW x \in Int, NEW y \in Int, NEW z \in Int
      PROVE  AtMost(10 * x + 6 * y + 5 * z, 100) \in Int
  BY DEF AtMost
<1> QED
  BY <1>3, <1>4, Zenon DEF Confidence

\* Whatever the thresholds, the confidence of a fill is a share of a hundred.
LEMMA ConfidenceIsShare ==
    ASSUME NEW s \in Seq(Reading), NEW i \in DOMAIN s, NEW j \in DOMAIN s, IsFill(s, i, j)
    PROVE  Confidence(s, i, j) \in 0..100
<1> DEFINE held == Cardinality(HoldingReadings(s, j))
<1>1. held \in Nat
  BY HoldingIsFinite
<1>2. /\ s[i].value \in Int /\ s[j].value \in Int
      /\ i \in Int /\ j \in Int
  BY ReadingFields
<1>3. s[j].value - s[i].value \in Nat /\ j - i + 1 \in Nat
  BY <1>2, DetectorParameters DEF IsFill, DetectorParameters
<1>4. ASSUME NEW n \in Nat
      PROVE  AtMost(n, 4) \in 0..4 /\ AtMost(n, 5) \in 0..5 /\ AtMost(n, 6) \in 0..6
  BY DEF AtMost
<1>5. /\ AtMost(s[j].value - s[i].value, 4) \in 0..4
      /\ AtMost(held, 5) \in 0..5
      /\ AtMost(j - i + 1, 6) \in 0..6
  <2> HIDE DEF held
  <2> QED
    BY <1>1, <1>3, <1>4, Zenon
<1>6. ASSUME NEW x \in 0..4, NEW y \in 0..5, NEW z \in 0..6
      PROVE  AtMost(10 * x + 6 * y + 5 * z, 100) \in 0..100
  <2>1. 10 * x + 6 * y + 5 * z \in 0..100
    OBVIOUS
  <2> QED
    BY <2>1 DEF AtMost
<1> QED
  BY <1>5, <1>6, Zenon DEF Confidence

\* Analyze returns no detection, or that of a fill among the readings.
LEMMA AnalyzeDetects ==
    ASSUME NEW s \in Seq(Reading), Analyze(s) # NoDetection
    PROVE  \E i, j \in DOMAIN s : IsFill(s, i, j) /\ Analyze(s) = Detection(s, i, j)
<1>1. Len(s) >= MinReadings
  BY DEF Analyze
<1>2. PICK i \in DOMAIN s, j \in DOMAIN s : IsEarliestFill(s, i, j) /\ IsStable(s, j)
  BY DEF Analyze
<1>3. Analyze(s) = Detection(s, i, j)
  BY <1>1, <1>2, AnalyzeKnownFill
<1> QED
  BY <1>2, <1>3 DEF IsEarliestFill
=============================================================================
