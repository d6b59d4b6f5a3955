-------------------------- MODULE PeeBotTask_proofs --------------------------
(***************************************************************************)
(* Proofs about PeeBotTask, for every number of workers, every tank level, *)
(* every window, overlap and lag: the types, that the overlap closes the   *)
(* seams between runs, that no detection is lost and that only an          *)
(* overtaken run puts the cursor back; and about PeeBotSystem, that a      *)
(* worker repeats only its torn announcements.                             *)
(***************************************************************************)
EXTENDS PeeBotSystem, FillDetector_proofs

-----------------------------------------------------------------------------
(* The readings of a query, in order                                       *)

\* How many of S come before t.
Rank(S, t) == Cardinality({u \in S : u < t})

\* Readings are finitely many and their timestamps are numbers.
LEMMA TimesAreNumbers ==
    ASSUME NEW S \in SUBSET Times
    PROVE  /\ S \subseteq 1..MaxTime /\ S \subseteq Nat \ {0}
           /\ \A t \in S : t \in Int /\ t >= 1
           /\ IsFiniteSet(S) /\ Cardinality(S) \in Nat
<1>1. S \subseteq 1..MaxTime /\ MaxTime \in Nat
  BY TaskParameters DEF TaskParameters
<1>2. IsFiniteSet(1..MaxTime)
  BY <1>1, FS_Interval
<1>3. IsFiniteSet(S)
  BY <1>1, <1>2, FS_Subset
<1>4. Cardinality(S) \in Nat
  BY <1>3, FS_CardinalityType
<1>5. 1..MaxTime \subseteq Nat \ {0}
  BY <1>1
<1> QED
  BY <1>1, <1>3, <1>4, <1>5

\* The rank grows with the timestamp and stays below the number of readings.
LEMMA RankGrows ==
    ASSUME NEW S \in SUBSET Times, NEW t \in S
    PROVE  /\ Rank(S, t) \in 0..Cardinality(S) - 1
           /\ \A u \in S : t < u => Rank(S, t) < Rank(S, u)
<1> DEFINE Before(x) == {u \in S : u < x}
<1>1. S \subseteq Nat /\ IsFiniteSet(S) /\ Cardinality(S) \in Nat
  BY TimesAreNumbers
<1>2. ASSUME NEW x
      PROVE  IsFiniteSet(Before(x)) /\ Cardinality(Before(x)) \in Nat
  BY <1>1, FS_Subset, FS_CardinalityType
<1>3. ASSUME NEW T \in SUBSET S, Before(t) \subseteq T, t \in T
      PROVE  Cardinality(Before(t)) < Cardinality(T)
  <2>1. IsFiniteSet(T) /\ Cardinality(T) \in Nat
    BY <1>1, FS_Subset, FS_CardinalityType
  <2>2. t \notin Before(t)
    BY <1>1
  <2>3. Cardinality(Before(t)) <= Cardinality(T) /\ Cardinality(Before(t)) # Cardinality(T)
    BY <1>3, <2>1, <2>2, FS_Subset
  <2> QED
    BY <1>2, <2>1, <2>3
<1>4. Cardinality(Before(t)) < Cardinality(S)
  BY <1>3
<1>5. ASSUME NEW u \in S, t < u
      PROVE  Cardinality(Before(t)) < Cardinality(Before(u))
  <2>1. Before(t) \subseteq Before(u)
    <3>1. \A x \in S : x < t => x < u
      BY <1>1, <1>5
    <3> QED
      BY <3>1
  <2>2. t \in Before(u) /\ Before(u) \in SUBSET S
    BY <1>5
  <2> QED
    BY <1>3, <2>1, <2>2
<1> QED
  BY <1>1, <1>2, <1>4, <1>5 DEF Rank

\* Every place from the first to the last is taken by one reading.
LEMMA NthExists ==
    ASSUME NEW S \in SUBSET Times, NEW k \in 1..Cardinality(S)
    PROVE  Nth(S, k) \in S /\ Rank(S, Nth(S, k)) = k - 1
<1> DEFINE n == Cardinality(S)
           f == [t \in S |-> Rank(S, t)]
<1>1. (\A t \in S : t \in Int) /\ IsFiniteSet(S) /\ n \in Nat
  BY TimesAreNumbers
<1>2. IsFiniteSet(0..n - 1) /\ Cardinality(0..n - 1) = n
  <2>1. n - 1 \in Int
    BY <1>1
  <2> QED
    BY <1>1, <2>1, FS_Interval
<1>3. \A t \in S : Rank(S, t) \in 0..n - 1
  BY RankGrows
<1>4. \A t, u \in S : t # u => Rank(S, t) # Rank(S, u)
  BY <1>1, <1>3, RankGrows
<1>5. f \in Injection(S, 0..n - 1)
  BY <1>3, <1>4 DEF Injection, IsInjective
<1>6. f \in Surjection(S, 0..n - 1)
  BY <1>1, <1>2, <1>5, FS_Injection
<1>7. k - 1 \in 0..n - 1
  BY <1>1
<1>8. \E t \in S : Rank(S, t) = k - 1
  BY <1>6, <1>7 DEF Surjection
<1> QED
  BY <1>8 DEF Nth, Rank

\* What analyze() is given lists the readings the query returned: each of them, with
\* its level, in chronological order.
THEOREM InOrderLists ==
    ASSUME NEW S \in SUBSET Times
    PROVE  /\ InOrder(S) \in Seq(Reading) /\ Len(InOrder(S)) = Cardinality(S)
           /\ \A k \in DOMAIN InOrder(S) :
                 InOrder(S)[k].ts \in S /\ InOrder(S)[k].value = Level[InOrder(S)[k].ts]
           /\ \A k, l \in DOMAIN InOrder(S) :
                 k < l => InOrder(S)[k].ts < InOrder(S)[l].ts
           /\ \A t \in S : \E k \in DOMAIN InOrder(S) : InOrder(S)[k].ts = t
<1> DEFINE n == Cardinality(S)
           s == InOrder(S)
<1>1. (\A t \in S : t \in Int) /\ n \in Nat
  BY TimesAreNumbers
<1>2. s = [k \in 1..n |-> [ts |-> Nth(S, k), value |-> Level[Nth(S, k)]]]
  BY DEF InOrder
<1> HIDE DEF s
<1>3. ASSUME NEW k \in 1..n
      PROVE  /\ s[k].ts = Nth(S, k) /\ s[k].ts \in S
             /\ s[k].value = Level[s[k].ts] /\ s[k] \in Reading
  <2>1. Nth(S, k) \in S
    BY NthExists
  <2>2. Nth(S, k) \in Int
    BY <1>1, <2>1
  <2>3. Level[Nth(S, k)] \in Int
    <3>1. Level \in [Times -> Int] /\ Nth(S, k) \in Times
      BY <2>1, TaskParameters DEF TaskParameters
    <3> QED
      BY <3>1
  <2> QED
    BY <1>2, <2>1, <2>2, <2>3 DEF Reading
<1>4. s \in Seq(Reading) /\ Len(s) = n /\ DOMAIN s = 1..n
  BY <1>1, <1>2, <1>3
<1>5. ASSUME NEW k \in 1..n, NEW l \in 1..n, k < l
      PROVE  s[k].ts < s[l].ts
  <2>1. /\ Nth(S, k) \in S /\ Nth(S, l) \in S
        /\ Rank(S, Nth(S, k)) = k - 1 /\ Rank(S, Nth(S, l)) = l - 1
    BY NthExists
  <2>2. ~(Nth(S, l) < Nth(S, k)) /\ Nth(S, l) # Nth(S, k)
    BY <1>1, <1>5, <2>1, RankGrows
  <2> QED
    BY <1>1, <1>3, <2>1, <2>2
<1>6. ASSUME NEW t \in S
      PROVE  \E k \in 1..n : s[k].ts = t
  <2>1. Rank(S, t) + 1 \in 1..n
    BY <1>1, RankGrows
  <2>2. /\ Nth(S, Rank(S, t) + 1) \in S
        /\ Rank(S, Nth(S, Rank(S, t) + 1)) = (Rank(S, t) + 1) - 1
    BY <2>1, NthExists
  <2>3. Rank(S, Nth(S, Rank(S, t) + 1)) = Rank(S, t)
    BY <1>1, <2>2, RankGrows
  <2>4. Nth(S, Rank(S, t) + 1) = t
    <3> DEFINE u == Nth(S, Rank(S, t) + 1)
    <3> HIDE DEF u
    <3>1. u \in S /\ Rank(S, u) = Rank(S, t) /\ Rank(S, t) \in Int
      BY <1>1, <2>2, <2>3, RankGrows DEF u
    <3>2. ~(u < t) /\ ~(t < u)
      BY <3>1, RankGrows
    <3> QED
      BY <1>1, <3>1, <3>2 DEF u
  <2> QED
    BY <1>3, <2>1, <2>4
<1> QED
  BY <1>3, <1>4, <1>5, <1>6 DEF s

\* A query that returned anything returned a latest reading.
LEMMA LatestIsLast ==
    ASSUME NEW S \in SUBSET Times, S # {}
    PROVE  Latest(S) \in S /\ \A u \in S : u <= Latest(S)
<1> DEFINE n == Cardinality(S)
           s == InOrder(S)
<1>1. (\A t \in S : t \in Int) /\ n \in Nat /\ n # 0
  BY TimesAreNumbers, FS_EmptySet
<1>2. /\ s \in Seq(Reading) /\ Len(s) = n
      /\ \A k \in DOMAIN s : s[k].ts \in S
      /\ \A k, l \in DOMAIN s : k < l => s[k].ts < s[l].ts
      /\ \A t \in S : \E k \in DOMAIN s : s[k].ts = t
  BY InOrderLists
<1> HIDE DEF s
<1>3. DOMAIN s = 1..n /\ n \in DOMAIN s
  BY <1>1, <1>2
<1>4. \A u \in S : u <= s[n].ts
  <2> SUFFICES ASSUME NEW u \in S
               PROVE  u <= s[n].ts
    OBVIOUS
  <2>1. PICK k \in DOMAIN s : s[k].ts = u
    BY <1>2
  <2>2. k < n \/ k = n
    BY <1>1, <1>3
  <2> QED
    BY <1>1, <1>2, <1>3, <2>1, <2>2
<1>5. \E t \in S : \A u \in S : u <= t
  BY <1>2, <1>3, <1>4
<1> QED
  BY <1>5 DEF Latest

\* What a run detects is a fill among the readings it queried.
LEMMA DetectionTyped ==
    ASSUME NEW S \in SUBSET Times, Analyze(InOrder(S)) # NoDetection
    PROVE  Analyze(InOrder(S)) \in Fill /\ Analyze(InOrder(S)).detectedAt \in S
<1> DEFINE s == InOrder(S)
<1>1. s \in Seq(Reading) /\ \A k \in DOMAIN s : s[k].ts \in S
  BY InOrderLists
<1> HIDE DEF s
<1>2. PICK i \in DOMAIN s, j \in DOMAIN s :
         IsFill(s, i, j) /\ Analyze(s) = Detection(s, i, j)
  BY <1>1, AnalyzeDetects DEF s
<1>3. Confidence(s, i, j) \in 0..100
  BY <1>1, <1>2, ConfidenceIsShare
<1>4. s[j].value - s[i].value \in Int
  BY <1>1, ReadingFields
<1>5. s[i].ts \in S /\ s[j].ts \in S
  BY <1>1
<1> QED
  BY <1>2, <1>3, <1>4, <1>5 DEF Detection, Fill, s

\* A detection is never mistaken for none: readings are later than 0.
LEMMA FillIsDetection == NoDetection \notin Fill
<1>1. 0 \notin Times
  BY TaskParameters DEF TaskParameters
<1> QED
  BY <1>1 DEF Fill, NoDetection

-----------------------------------------------------------------------------
(* The types *)

\* Only Beat fills the broker beyond what errors and crashes bring back.
Counted == \A r \in 0..MaxRetries : messages[r] <= MaxBacklog + faults

\* A run that creates an event, or posts, has detected one.
Detecting == \A w \in Workers : pc[w] \in {"create", "post"} => found[w] \in Fill

TypesHold == TypeOK /\ Counted /\ Detecting

Found == Fill \cup {NoDetection}

RunTyped ==
    /\ pc \in [Workers -> Steps]
    /\ retries \in [Workers -> 0..MaxRetries]
    /\ loaded \in [Workers -> {0} \cup Times]
    /\ batch \in [Workers -> Batch]
    /\ found \in [Workers -> Found]
    /\ Detecting

BrokerTyped ==
    /\ messages \in [0..MaxRetries -> 0..MaxBacklog + MaxFaults]
    /\ faults \in 0..MaxFaults
    /\ Counted

TableTyped ==
    /\ row \in [cursor: {0} \cup Times, lastRun: 0..MaxTime]
    /\ events \in Seq(Fill)
    /\ analysed \subseteq [batch: Batch, found: Found]

ClockTyped ==
    now \in 0..MaxTime /\ store \in SUBSET Times /\ nextBeat \in 0..MaxTime + BeatPeriod

LEMMA TypesAre == TypesHold <=> RunTyped /\ BrokerTyped /\ TableTyped /\ ClockTyped
BY DEF TypesHold, TypeOK, RunTyped, BrokerTyped, TableTyped, ClockTyped, Found

LEMMA ParametersTyped ==
    /\ Window \in Nat /\ Overlap \in Nat /\ BeatPeriod \in Nat \ {0}
    /\ MaxRetries \in Nat /\ MaxLag \in Nat /\ MaxBacklog \in Nat
    /\ MaxFaults \in Nat /\ MaxTime \in Nat
BY TaskParameters DEF TaskParameters

LEMMA NoBatchTyped == NoBatch \in Batch /\ NoDetection \in Found
BY DEF NoBatch, Batch, Found

\* The local variables of a run that ends are forgotten.
LEMMA EndRunTyped ==
    ASSUME RunTyped, NEW w \in Workers, EndRun(w)
    PROVE  RunTyped'
<1>1. /\ pc' = [pc EXCEPT ![w] = "idle"] /\ retries' = [retries EXCEPT ![w] = 0]
      /\ loaded' = [loaded EXCEPT ![w] = 0] /\ batch' = [batch EXCEPT ![w] = NoBatch]
      /\ found' = [found EXCEPT ![w] = NoDetection]
  BY DEF EndRun, Goto
<1>2. /\ pc' \in [Workers -> Steps] /\ loaded' \in [Workers -> {0} \cup Times]
      /\ batch' \in [Workers -> Batch] /\ found' \in [Workers -> Found]
  BY <1>1, NoBatchTyped DEF RunTyped, Steps
<1>3. retries' \in [Workers -> 0..MaxRetries]
  BY <1>1, ParametersTyped DEF RunTyped
<1>4. Detecting'
  BY <1>1, <1>2 DEF RunTyped, Detecting
<1> QED
  BY <1>2, <1>3, <1>4 DEF RunTyped

\* A message comes back, or not; errors are counted.
LEMMA FaultTyped ==
    ASSUME BrokerTyped, Fault, NEW r \in 0..MaxRetries,
           messages' \in {messages, [messages EXCEPT ![r] = @ + 1]}
    PROVE  BrokerTyped'
<1>1. /\ faults' = faults + 1 /\ faults' \in 0..MaxFaults /\ faults \in Nat
      /\ MaxBacklog \in Nat /\ MaxFaults \in Nat
  BY ParametersTyped DEF Fault, BrokerTyped
<1>2. \A q \in 0..MaxRetries : messages[q] \in Nat /\ messages[q] <= MaxBacklog + faults
  BY <1>1 DEF BrokerTyped, Counted
<1>3. DOMAIN messages' = 0..MaxRetries
      /\ messages' = [q \in 0..MaxRetries |-> messages'[q]]
  BY DEF BrokerTyped
<1>4. \A q \in 0..MaxRetries : messages'[q] \in {messages[q], messages[q] + 1}
  BY DEF BrokerTyped
<1>5. \A q \in 0..MaxRetries :
         messages'[q] \in 0..MaxBacklog + MaxFaults /\ messages'[q] <= MaxBacklog + faults'
  BY <1>1, <1>2, <1>4
<1> QED
  BY <1>1, <1>3, <1>5 DEF BrokerTyped, Counted

LEMMA RetryTyped ==
    ASSUME RunTyped, BrokerTyped, NEW w \in Workers, RetryRun(w)
    PROVE  RunTyped' /\ BrokerTyped'
<1>1. EndRun(w) /\ Fault
  BY DEF RetryRun
<1>2. BrokerTyped'
  <2>1. retries[w] \in 0..MaxRetries /\ MaxRetries \in Nat
    BY ParametersTyped DEF RunTyped
  <2>2. CASE retries[w] < MaxRetries
    <3>1. /\ retries[w] + 1 \in 0..MaxRetries
          /\ messages' = [messages EXCEPT ![retries[w] + 1] = @ + 1]
      BY <2>1, <2>2 DEF RetryRun
    <3> QED
      BY <1>1, <3>1, FaultTyped
  <2>3. CASE ~(retries[w] < MaxRetries)
    BY <1>1, <2>1, <2>3, FaultTyped DEF RetryRun
  <2> QED
    BY <2>2, <2>3
<1> QED
  BY <1>1, <1>2, EndRunTyped

\* The cursor a run saves is that of a reading, or the one it loaded.
LEMMA NewCursorTyped ==
    ASSUME RunTyped, NEW w \in Workers
    PROVE  NewCursor(w) \in {0} \cup Times
<1>1. batch[w].got \in SUBSET Times /\ loaded[w] \in {0} \cup Times
  BY DEF RunTyped, Batch
<1> QED
  BY <1>1, LatestIsLast DEF NewCursor

LEMMA SavedTyped ==
    ASSUME RunTyped, TableTyped, ClockTyped, NEW w \in Workers,
           row' = [cursor |-> NewCursor(w), lastRun |-> now],
           analysed' = analysed \cup {[batch |-> batch[w], found |-> found[w]]},
           UNCHANGED events
    PROVE  TableTyped'
<1>1. batch[w] \in Batch /\ found[w] \in Found
  BY DEF RunTyped
<1> QED
  BY <1>1, NewCursorTyped DEF TableTyped, ClockTyped

LEMMA CreatedTyped ==
    ASSUME RunTyped, TableTyped, NEW w \in Workers, pc[w] = "create",
           events' = Append(events, found[w]), UNCHANGED <<row, analysed>>
    PROVE  TableTyped'
BY DEF RunTyped, TableTyped, Detecting

\* What a query leaves in the local variables of the run.
LEMMA Queried ==
    ASSUME NEW w \in Workers, QueryReadings(w)
    PROVE  /\ pc[w] = "query"
           /\ batch' = [batch EXCEPT ![w] = [since |-> Since(loaded[w]),
                                             got |-> Fetched(QueryFrom(loaded[w]))]]
           /\ found' = [found EXCEPT ![w] = Analyze(InOrder(Fetched(QueryFrom(loaded[w]))))]
           /\ pc' = [pc EXCEPT ![w] =
                       IF Analyze(InOrder(Fetched(QueryFrom(loaded[w])))) = NoDetection
                       THEN "save" ELSE "create"]
           /\ UNCHANGED <<now, store, nextBeat, messages, row, events, retries, loaded,
                          faults, analysed>>
BY Zenon DEF QueryReadings, Goto

LEMMA QueryTyped ==
    ASSUME RunTyped, ClockTyped, NEW w \in Workers, QueryReadings(w)
    PROVE  RunTyped'
<1> DEFINE got == Fetched(QueryFrom(loaded[w]))
           seen == Analyze(InOrder(got))
           since == Since(loaded[w])
<1>1. got \in SUBSET Times
  BY DEF Fetched, ClockTyped
<1>2. seen = NoDetection \/ seen \in Fill
  BY <1>1, DetectionTyped
<1>3. since \in Int
  BY ParametersTyped DEF Since, QueryFrom, ClockTyped
<1>4. /\ pc[w] = "query" /\ UNCHANGED <<retries, loaded>>
      /\ batch' = [batch EXCEPT ![w] = [since |-> since, got |-> got]]
      /\ found' = [found EXCEPT ![w] = seen]
      /\ pc' = [pc EXCEPT ![w] = IF seen = NoDetection THEN "save" ELSE "create"]
  BY Queried
<1> HIDE DEF got, seen, since
<1>5. /\ pc' \in [Workers -> Steps] /\ found' \in [Workers -> Found]
  BY <1>2, <1>4, NoBatchTyped DEF RunTyped, Steps, Found
<1>6. batch' \in [Workers -> Batch]
  <2>1. [since |-> since, got |-> got] \in Batch
    BY <1>1, <1>3 DEF Batch
  <2> QED
    BY <1>4, <2>1 DEF RunTyped
<1>7. Detecting'
  BY <1>2, <1>4, <1>5 DEF RunTyped, Detecting
<1> QED
  BY <1>4, <1>5, <1>6, <1>7 DEF RunTyped

\* The other steps of a run change its program counter.
LEMMA StepTyped ==
    ASSUME RunTyped, BrokerTyped, TableTyped, ClockTyped, NEW w \in Workers, Step(w)
    PROVE  RunTyped' /\ BrokerTyped' /\ TableTyped' /\ ClockTyped'
<1>1. CASE \E r \in 0..MaxRetries : Take(w, r)
  <2> PICK r \in 0..MaxRetries : Take(w, r)
    BY <1>1
  <2>1. /\ messages[r] > 0 /\ messages' = [messages EXCEPT ![r] = @ - 1]
        /\ retries' = [retries EXCEPT ![w] = r] /\ pc' = [pc EXCEPT ![w] = "load"]
        /\ UNCHANGED <<now, store, nextBeat, row, events, loaded, batch, found, faults,
                       analysed>>
    BY DEF Take, Goto
  <2>2. MaxBacklog + MaxFaults \in Nat /\ MaxBacklog + faults \in Nat
    BY ParametersTyped DEF BrokerTyped
  <2>3. \A q \in 0..MaxRetries : messages'[q] \in {messages[q], messages[q] - 1}
                                  /\ messages'[q] >= 0
    BY <2>1 DEF BrokerTyped
  <2>4. messages' = [q \in 0..MaxRetries |-> messages'[q]]
    BY <2>1 DEF BrokerTyped
  <2>5. \A q \in 0..MaxRetries : /\ messages'[q] \in 0..MaxBacklog + MaxFaults
                                 /\ messages'[q] <= MaxBacklog + faults
    <3> SUFFICES ASSUME NEW q \in 0..MaxRetries
                 PROVE  /\ messages'[q] \in 0..MaxBacklog + MaxFaults
                        /\ messages'[q] <= MaxBacklog + faults
      OBVIOUS
    <3>1. messages[q] \in 0..MaxBacklog + MaxFaults /\ messages[q] <= MaxBacklog + faults
      BY DEF BrokerTyped, Counted
    <3> QED
      BY <2>2, <2>3, <3>1
  <2>6. BrokerTyped'
    BY <2>1, <2>4, <2>5 DEF BrokerTyped, Counted
  <2>7. RunTyped'
    BY <2>1 DEF RunTyped, Detecting, Steps
  <2> QED
    BY <2>1, <2>6, <2>7 DEF TableTyped, ClockTyped
<1>2. CASE LoadState(w)
  <2>1. row.cursor \in {0} \cup Times
    BY DEF TableTyped
  <2>2. RunTyped'
    BY <1>2, <2>1 DEF LoadState, Goto, RunTyped, Detecting, Steps
  <2> QED
    BY <1>2, <2>2 DEF LoadState, BrokerTyped, Counted, TableTyped, ClockTyped
<1>3. CASE QueryReadings(w)
  BY <1>3, QueryTyped, Queried DEF BrokerTyped, Counted, TableTyped, ClockTyped
<1>4. CASE CreateEvent(w)
  <2>1. RunTyped'
    BY <1>4 DEF CreateEvent, Goto, RunTyped, Detecting, Steps
  <2>2. TableTyped'
    BY <1>4, CreatedTyped DEF CreateEvent
  <2> QED
    BY <1>4, <2>1, <2>2 DEF CreateEvent, BrokerTyped, Counted, ClockTyped
<1>5. CASE TryPost(w)
  <2>1. RunTyped'
    BY <1>5 DEF TryPost, Goto, RunTyped, Detecting, Steps
  <2> QED
    BY <1>5, <2>1 DEF TryPost, BrokerTyped, Counted, TableTyped, ClockTyped
<1>6. CASE SaveState(w)
  BY <1>6, SavedTyped, EndRunTyped DEF SaveState, BrokerTyped, Counted, ClockTyped
<1> QED
  BY <1>1, <1>2, <1>3, <1>4, <1>5, <1>6 DEF Step

\* However a run breaks off.
LEMMA BreakTyped ==
    ASSUME RunTyped, BrokerTyped, TableTyped, ClockTyped, NEW w \in Workers, Breaks(w)
    PROVE  RunTyped' /\ BrokerTyped' /\ TableTyped' /\ ClockTyped'
<1>1. CASE OperationalFault(w)
  BY <1>1, RetryTyped DEF OperationalFault, TableTyped, ClockTyped
<1>2. CASE CreateThenFault(w)
  BY <1>2, RetryTyped, CreatedTyped DEF CreateThenFault, ClockTyped
<1>3. CASE SaveThenFault(w)
  BY <1>3, RetryTyped, SavedTyped DEF SaveThenFault, ClockTyped
<1>4. CASE OtherError(w)
  <2>1. RunTyped' /\ UNCHANGED <<now, store, nextBeat, messages, events, analysed>> /\ Fault
    BY <1>4, EndRunTyped DEF OtherError
  <2>2. BrokerTyped'
    <3>1. 0 \in 0..MaxRetries
      BY ParametersTyped
    <3> QED
      BY <2>1, <3>1, FaultTyped
  <2>3. row' \in {row, [row EXCEPT !.lastRun = now]}
    BY <1>4 DEF OtherError
  <2>4. TableTyped'
    BY <2>1, <2>3 DEF TableTyped, ClockTyped
  <2> QED
    BY <2>1, <2>2, <2>4 DEF ClockTyped
<1>5. CASE Killed(w)
  <2>1. retries[w] \in 0..MaxRetries
    BY DEF RunTyped
  <2> QED
    BY <1>5, <2>1, FaultTyped, EndRunTyped DEF Killed, TableTyped, ClockTyped
<1> QED
  BY <1>1, <1>2, <1>3, <1>4, <1>5 DEF Breaks

LEMMA TypesStep == TypesHold /\ [Next]_vars => TypesHold'
<1> SUFFICES ASSUME RunTyped, BrokerTyped, TableTyped, ClockTyped, [Next]_vars
             PROVE  RunTyped' /\ BrokerTyped' /\ TableTyped' /\ ClockTyped'
  BY TypesAre, PTL
<1>1. CASE Tick
  <2>1. now' \in 0..MaxTime
    BY <1>1, ParametersTyped DEF Tick, ClockTyped
  <2> QED
    BY <1>1, <2>1 DEF Tick, run, RunTyped, Detecting, BrokerTyped, Counted, TableTyped,
                      ClockTyped
<1>2. CASE \E t \in Times : StoreReading(t)
  BY <1>2 DEF StoreReading, run, RunTyped, Detecting, BrokerTyped, Counted, TableTyped,
              ClockTyped
<1>3. CASE Beat
  <2>1. nextBeat' \in 0..MaxTime + BeatPeriod
    BY <1>3, ParametersTyped DEF Beat, ClockTyped
  <2>2. /\ messages[0] \in Nat /\ messages[0] < MaxBacklog /\ 0 \in 0..MaxRetries
        /\ messages' = [messages EXCEPT ![0] = @ + 1] /\ faults' = faults
        /\ faults \in Nat /\ MaxBacklog \in Nat /\ MaxFaults \in Nat
    BY <1>3, ParametersTyped DEF Beat, Backlog, BrokerTyped
  <2>3. BrokerTyped'
    <3>1. messages[0] + 1 \in 0..MaxBacklog + MaxFaults
          /\ messages[0] + 1 <= MaxBacklog + faults
      BY <2>2
    <3> QED
      BY <2>2, <3>1 DEF BrokerTyped, Counted
  <2> QED
    BY <1>3, <2>1, <2>3 DEF Beat, run, RunTyped, Detecting, TableTyped, ClockTyped
<1>4. CASE \E w \in Workers : Step(w) \/ Breaks(w)
  BY <1>4, StepTyped, BreakTyped
<1>5. CASE UNCHANGED vars
  BY <1>5 DEF vars, run, RunTyped, Detecting, BrokerTyped, Counted, TableTyped, ClockTyped
<1> QED
  BY <1>1, <1>2, <1>3, <1>4, <1>5 DEF Next

LEMMA TypesInit == Init => TypesHold
<1> SUFFICES ASSUME Init
             PROVE  RunTyped /\ BrokerTyped /\ TableTyped /\ ClockTyped
  BY TypesAre
<1>1. RunTyped
  BY NoBatchTyped, ParametersTyped DEF Init, RunTyped, Detecting, Steps
<1>2. BrokerTyped
  BY ParametersTyped DEF Init, BrokerTyped, Counted
<1>3. TableTyped /\ ClockTyped
  BY ParametersTyped DEF Init, TableTyped, ClockTyped
<1> QED
  BY <1>1, <1>2, <1>3

LEMMA TypesInvariant == Spec => []TypesHold
BY TypesInit, TypesStep, PTL DEF Spec

\* The tables, the messages and the local variables of the runs keep their types; the
\* broker holds at most what Beat may publish and errors bring back, and every row of
\* DetectedEvent is a fill between two readings.
THEOREM TypeCorrect == Spec => []TypeOK
<1>1. TypesHold => TypeOK
  BY DEF TypesHold
<1> QED
  BY TypesInvariant, <1>1, PTL

-----------------------------------------------------------------------------
(* What a step does to a run, and to what the runs share                   *)

Same(w) ==
    pc'[w] = pc[w] /\ loaded'[w] = loaded[w] /\ batch'[w] = batch[w] /\ found'[w] = found[w]

Ends(w) ==
    pc'[w] = "idle" /\ loaded'[w] = 0 /\ batch'[w] = NoBatch /\ found'[w] = NoDetection

\* The run goes from one step to another; from "load" it brings the row's cursor.
Goes(w, from, to) ==
    /\ pc[w] = from /\ pc'[w] = to
    /\ loaded'[w] = IF from = "load" THEN row.cursor ELSE loaded[w]
    /\ batch'[w] = batch[w] /\ found'[w] = found[w]

Queries(w) ==
    /\ pc[w] = "query" /\ pc'[w] \in {"save", "create"}
    /\ loaded'[w] = loaded[w]
    /\ batch'[w] = [since |-> Since(loaded[w]), got |-> Fetched(QueryFrom(loaded[w]))]
    /\ found'[w] = Analyze(InOrder(Fetched(QueryFrom(loaded[w]))))
    /\ pc'[w] = "save" => found'[w] = NoDetection
    /\ UNCHANGED <<now, store, row, events, analysed>>

Moves(w) ==
    \/ Same(w) \/ Ends(w) \/ Queries(w)
    \/ Goes(w, "idle", "load") \/ Goes(w, "load", "query") \/ Goes(w, "post", "save")
    \/ Goes(w, "create", "post") /\ events' = Append(events, found[w])

CursorKept == row'.cursor = row.cursor /\ analysed' = analysed

Saves(w) ==
    /\ pc[w] = "save" /\ Ends(w)
    /\ row'.cursor = NewCursor(w)
    /\ analysed' = analysed \cup {[batch |-> batch[w], found |-> found[w]]}
    /\ UNCHANGED <<now, store, events>>

LEMMA EndRunEnds ==
    ASSUME RunTyped, NEW w \in Workers, EndRun(w)
    PROVE  Ends(w) /\ \A v \in Workers \ {w} : Same(v)
BY DEF EndRun, Goto, Ends, Same, RunTyped

\* Every step moves one run at most, and no run but the one that saves moves the cursor.
LEMMA RunMoves ==
    ASSUME TypesHold, [Next]_vars
    PROVE  /\ \A w \in Workers : Moves(w)
           /\ CursorKept \/ \E w \in Workers : Saves(w)
<1> USE DEF TypesHold
<1>1. RunTyped /\ TableTyped
  BY TypesAre
<1>2. CASE Tick \/ (\E t \in Times : StoreReading(t)) \/ Beat \/ UNCHANGED vars
  <2>1. UNCHANGED <<pc, loaded, batch, found, row, analysed>>
    BY <1>2 DEF Tick, StoreReading, Beat, vars, run
  <2> QED
    BY <2>1 DEF Moves, Same, CursorKept
<1>3. ASSUME NEW v \in Workers, Step(v)
      PROVE  /\ Moves(v) /\ \A w \in Workers \ {v} : Same(w)
             /\ CursorKept \/ Saves(v)
  <2>1. CASE \E r \in 0..MaxRetries : Take(v, r)
    BY <1>1, <2>1 DEF Take, Goto, RunTyped, Moves, Goes, Same, CursorKept
  <2>2. CASE LoadState(v)
    BY <1>1, <2>2 DEF LoadState, Goto, RunTyped, Moves, Goes, Same, CursorKept
  <2>3. CASE QueryReadings(v)
    <3> DEFINE got == Fetched(QueryFrom(loaded[v]))
               seen == Analyze(InOrder(got))
               b == [since |-> Since(loaded[v]), got |-> got]
    <3>1. /\ pc[v] = "query" /\ UNCHANGED <<loaded, now, store, row, events, analysed>>
          /\ batch' = [batch EXCEPT ![v] = b]
          /\ found' = [found EXCEPT ![v] = seen]
          /\ pc' = [pc EXCEPT ![v] = IF seen = NoDetection THEN "save" ELSE "create"]
      BY <2>3, Queried
    <3>2. Queries(v) <=>
            /\ pc[v] = "query" /\ pc'[v] \in {"save", "create"}
            /\ loaded'[v] = loaded[v] /\ batch'[v] = b /\ found'[v] = seen
            /\ pc'[v] = "save" => found'[v] = NoDetection
            /\ UNCHANGED <<now, store, row, events, analysed>>
      BY DEF Queries
    <3> HIDE DEF got, seen, b
    <3>3. Queries(v)
      BY <1>1, <3>1, <3>2 DEF RunTyped
    <3>4. \A w \in Workers \ {v} : Same(w)
      BY <1>1, <3>1 DEF RunTyped, Same
    <3> QED
      BY <3>1, <3>3, <3>4 DEF Moves, CursorKept
  <2>4. CASE CreateEvent(v)
    BY <1>1, <2>4 DEF CreateEvent, Goto, RunTyped, Moves, Goes, Same, CursorKept
  <2>5. CASE TryPost(v)
    BY <1>1, <2>5 DEF TryPost, Goto, RunTyped, Moves, Goes, Same, CursorKept
  <2>6. CASE SaveState(v)
    <3>1. Ends(v) /\ \A w \in Workers \ {v} : Same(w)
      BY <1>1, <2>6, EndRunEnds DEF SaveState
    <3> QED
      BY <2>6, <3>1 DEF SaveState, Moves, Saves
  <2> QED
    BY <1>3, <2>1, <2>2, <2>3, <2>4, <2>5, <2>6 DEF Step
<1>4. ASSUME NEW v \in Workers, Breaks(v)
      PROVE  /\ Moves(v) /\ \A w \in Workers \ {v} : Same(w)
             /\ CursorKept \/ Saves(v)
  <2>1. EndRun(v)
    BY <1>4 DEF Breaks, OperationalFault, CreateThenFault, SaveThenFault, OtherError,
                Killed, RetryRun
  <2>2. Ends(v) /\ \A w \in Workers \ {v} : Same(w)
    BY <1>1, <2>1, EndRunEnds
  <2>3. CASE SaveThenFault(v)
    BY <2>2, <2>3 DEF SaveThenFault, Moves, Saves
  <2>4. CASE OperationalFault(v) \/ CreateThenFault(v) \/ Killed(v)
    BY <2>2, <2>4 DEF OperationalFault, CreateThenFault, Killed, Moves, CursorKept
  <2>5. CASE OtherError(v)
    <3>1. row' \in {row, [row EXCEPT !.lastRun = now]} /\ analysed' = analysed
      BY <2>5 DEF OtherError
    <3>2. row'.cursor = row.cursor
      BY <1>1, <3>1 DEF TableTyped
    <3> QED
      BY <2>2, <3>1, <3>2 DEF Moves, CursorKept
  <2> QED
    BY <1>4, <2>3, <2>4, <2>5 DEF Breaks
<1>5. CASE \E v \in Workers : Step(v) \/ Breaks(v)
  <2> PICK v \in Workers : Step(v) \/ Breaks(v)
    BY <1>5
  <2>1. /\ Moves(v) /\ \A w \in Workers \ {v} : Same(w)
        /\ CursorKept \/ Saves(v)
    BY <1>3, <1>4
  <2> QED
    BY <2>1 DEF Moves
<1> QED
  BY <1>2, <1>5 DEF Next

\* Time does not go back, no reading and no event is deleted.
LEMMA TablesGrow ==
    ASSUME TypesHold, [Next]_vars
    PROVE  /\ now <= now' /\ store \subseteq store'
           /\ analysed \subseteq analysed'
           /\ events' = events \/ \E e \in Fill : events' = Append(events, e)
<1>1. RunTyped /\ TableTyped /\ ClockTyped
  BY TypesAre
<1>2. now <= now' /\ store \subseteq store'
  <2>1. now \in Int
    BY <1>1, ParametersTyped DEF ClockTyped
  <2>2. now' \in {now, now + 1} /\ store \subseteq store'
    BY Queried DEF Next, Tick, StoreReading, Beat, Step, Take, LoadState, CreateEvent, TryPost,
           SaveState, Breaks, OperationalFault, CreateThenFault, SaveThenFault,
           OtherError, Killed, vars
  <2> QED
    BY <2>1, <2>2
<1>3. analysed \subseteq analysed'
  BY RunMoves DEF CursorKept, Saves
<1>4. events' = events \/ \E w \in Workers : pc[w] = "create" /\ events' = Append(events, found[w])
  BY Queried DEF Next, Tick, StoreReading, Beat, Step, Take, LoadState, CreateEvent, TryPost,
           SaveState, Breaks, OperationalFault, CreateThenFault, SaveThenFault,
           OtherError, Killed, vars
<1> QED
  BY <1>1, <1>2, <1>3, <1>4 DEF RunTyped, Detecting

-----------------------------------------------------------------------------
(* No detection is lost                                                    *)

Recorded == {events[k] : k \in DOMAIN events}

\* A run that has something to post or to save has recorded its detection, and so have
\* the runs that saved.
RunRecorded(w) ==
    pc[w] \in {"post", "save"} /\ found[w] # NoDetection => found[w] \in Recorded

AllRecorded ==
    /\ \A w \in Workers : RunRecorded(w)
    /\ \A a \in analysed : a.found # NoDetection => a.found \in Recorded

LEMMA RecordedGrows ==
    ASSUME TypesHold, [Next]_vars
    PROVE  /\ Recorded \subseteq Recorded'
           /\ \A e \in Fill : events' = Append(events, e) => e \in Recorded'
<1>1. events \in Seq(Fill)
  BY DEF TypesHold, TypeOK
<1>2. ASSUME NEW e \in Fill, events' = Append(events, e)
      PROVE  Recorded \subseteq Recorded' /\ e \in Recorded'
  <2>1. /\ \A k \in DOMAIN events : k \in DOMAIN events' /\ events'[k] = events[k]
        /\ Len(events) + 1 \in DOMAIN events' /\ events'[Len(events) + 1] = e
    BY <1>1, <1>2
  <2> QED
    BY <2>1 DEF Recorded
<1>3. events' = events => Recorded' = Recorded
  BY DEF Recorded
<1> QED
  BY <1>2, <1>3, TablesGrow

LEMMA RecordedStep == TypesHold /\ AllRecorded /\ [Next]_vars => AllRecorded'
<1> SUFFICES ASSUME TypesHold, AllRecorded, [Next]_vars
             PROVE  AllRecorded'
  OBVIOUS
<1>1. Recorded \subseteq Recorded' /\ \A e \in Fill : events' = Append(events, e) => e \in Recorded'
  BY RecordedGrows
<1>2. ASSUME NEW w \in Workers
      PROVE  RunRecorded(w)'
  <2>1. Moves(w)
    BY RunMoves
  <2>2. CASE Same(w) \/ Ends(w) \/ Goes(w, "idle", "load") \/ Goes(w, "load", "query")
    BY <1>1, <2>2 DEF Same, Ends, Goes, AllRecorded, RunRecorded
  <2>3. CASE Queries(w)
    BY <2>3 DEF Queries, RunRecorded
  <2>4. CASE Goes(w, "post", "save")
    BY <1>1, <2>4 DEF Goes, AllRecorded, RunRecorded
  <2>5. CASE Goes(w, "create", "post") /\ events' = Append(events, found[w])
    <3>1. found[w] \in Fill /\ found'[w] = found[w]
      BY <2>5 DEF Goes, TypesHold, Detecting
    <3> QED
      BY <1>1, <2>5, <3>1 DEF RunRecorded
  <2> QED
    BY <2>1, <2>2, <2>3, <2>4, <2>5 DEF Moves
<1>3. ASSUME NEW a \in analysed', a.found # NoDetection
      PROVE  a.found \in Recorded'
  <2>1. CASE a \in analysed
    BY <1>1, <1>3, <2>1 DEF AllRecorded
  <2>2. CASE a \notin analysed
    <3>1. PICK w \in Workers : Saves(w) /\ a.found = found[w]
      BY <2>2, <1>3, RunMoves DEF CursorKept, Saves
    <3>2. RunRecorded(w) /\ pc[w] = "save"
      BY <3>1 DEF Saves, AllRecorded
    <3> QED
      BY <1>1, <1>3, <3>1, <3>2 DEF RunRecorded
  <2> QED
    BY <2>1, <2>2
<1> QED
  BY <1>2, <1>3 DEF AllRecorded

\* A run saves the cursor only once the event it found is in the table, whatever errors,
\* retries and kills happened before: at "save" what it found is none or recorded.
THEOREM DetectionKept == Spec => []DetectionNotLost
<1>1. Init => AllRecorded
  BY DEF Init, AllRecorded, RunRecorded
<1>2. AllRecorded => DetectionNotLost
  BY DEF AllRecorded, Recorded, DetectionNotLost
<1> QED
  BY TypesInvariant, <1>1, <1>2, RecordedStep, PTL DEF Spec

-----------------------------------------------------------------------------
(* The overlap closes the seams                                            *)

\* Two readings that belong into one detection window although the feed lags.
Close(i, j) == i <= j /\ j - i <= Overlap - MaxLag

\* Pairs of readings the cursor c has passed were analyzed together.
Covered(c) == \A i, j \in Times : Close(i, j) /\ j + MaxLag < c => Together(i, j)

\* What a batch holds when its run saves the cursor: every such pair, unless it lay
\* before the observation window or before the cursor the run started from.
Complete(w) ==
    \A i, j \in Times :
        /\ Close(i, j)
        /\ batch[w].got # {} /\ j + MaxLag < Latest(batch[w].got)
        => \/ i \in batch[w].got /\ j \in batch[w].got
           \/ i < batch[w].since
           \/ j + MaxLag < loaded[w]

\* Readings are stored before they are older than the lag.
InTime == \A t \in Times : t + MaxLag < now => t \in store

NoneAhead == \A t \in store : t <= now

SeamInv ==
    /\ InTime /\ NoneAhead
    /\ Covered(row.cursor)
    /\ \A w \in Workers :
          /\ Covered(loaded[w])
          /\ pc[w] \in {"create", "post", "save"} => Complete(w)

LEMMA TimeStep ==
    ASSUME TypesHold, InTime, NoneAhead, [Next]_vars
    PROVE  InTime' /\ NoneAhead'
<1>1. /\ now \in Nat /\ MaxLag \in Nat
      /\ \A t \in Times : t \in Int
  <2>1. \A t \in Times : t \in Int
    BY TimesAreNumbers
  <2> QED
    BY <2>1, ParametersTyped DEF TypesHold, TypeOK
<1>2. store \subseteq Times
  BY DEF TypesHold, TypeOK
<1>3. CASE Tick
  <2>1. /\ now' = now + 1 /\ store' = store
        /\ \A t \in Times : t <= now - MaxLag => t \in store
    BY <1>3 DEF Tick
  <2> QED
    BY <1>1, <1>2, <2>1 DEF InTime, NoneAhead
<1>4. CASE \E t \in Times : StoreReading(t)
  BY <1>4 DEF StoreReading, InTime, NoneAhead
<1>5. CASE UNCHANGED <<now, store>>
  BY <1>5 DEF InTime, NoneAhead
<1>6. Tick \/ (\E t \in Times : StoreReading(t)) \/ UNCHANGED <<now, store>>
  BY Queried DEF Next, Beat, Step, Take, LoadState, CreateEvent, TryPost, SaveState,
         Breaks, OperationalFault, CreateThenFault, SaveThenFault, OtherError, Killed, vars
<1> QED
  BY <1>3, <1>4, <1>5, <1>6

\* What was analyzed together remains so.
LEMMA CoveredGrows ==
    ASSUME TypesHold, [Next]_vars, NEW c, Covered(c)
    PROVE  Covered(c)'
BY TablesGrow DEF Covered, Together

\* The query that starts from a cursor covers what the cursor does not.
LEMMA QueryIsComplete ==
    ASSUME TypesHold, InTime, NoneAhead, NEW w \in Workers, Queries(w)
    PROVE  Complete(w)'
<1> DEFINE from == QueryFrom(loaded[w])
           got  == Fetched(from)
<1>1. /\ now \in Nat /\ MaxLag \in Nat /\ Overlap \in Nat /\ Window \in Nat
      /\ (\A t \in Times : t \in Int) /\ store \subseteq Times
      /\ loaded[w] \in {0} \cup Times /\ loaded[w] \in Int
  <2>1. loaded[w] \in {0} \cup Times
    BY DEF TypesHold, TypeOK
  <2>2. \A t \in Times : t \in Int
    BY TimesAreNumbers
  <2> QED
    BY <2>1, <2>2, ParametersTyped DEF TypesHold, TypeOK
<1>2. /\ batch'[w].got = got /\ batch'[w].since = Since(loaded[w])
      /\ loaded'[w] = loaded[w]
  BY DEF Queries
<1>3. got = {t \in store : from <= t /\ t <= now}
  BY DEF Fetched
<1>4. from \in Int /\ Since(loaded[w]) \in Int
  BY <1>1 DEF QueryFrom, Since
<1> HIDE DEF from, got
<1>5. got \subseteq Times /\ \A t \in got : t <= now
  BY <1>1, <1>3
<1> SUFFICES ASSUME NEW i \in Times, NEW j \in Times, Close(i, j),
                    got # {}, j + MaxLag < Latest(got)
             PROVE  \/ i \in got /\ j \in got
                    \/ i < Since(loaded[w])
                    \/ j + MaxLag < loaded[w]
  BY <1>2 DEF Complete
<1>6. Latest(got) \in got
  BY <1>5, LatestIsLast
<1>7. Latest(got) <= now /\ Latest(got) \in Int /\ i \in Int /\ j \in Int
  BY <1>1, <1>5, <1>6
<1>8. i <= j /\ j - i <= Overlap - MaxLag /\ i + MaxLag < now /\ j + MaxLag < now
  BY <1>1, <1>7 DEF Close
<1>9. i \in store /\ j \in store /\ i <= now /\ j <= now
  BY <1>1, <1>7, <1>8 DEF InTime
<1>10. CASE from <= i
  BY <1>3, <1>4, <1>7, <1>8, <1>9, <1>10
<1>11. CASE ~(from <= i) /\ UsesCursor(loaded[w])
  <2>1. from = loaded[w] - Overlap
    BY <1>11 DEF from, QueryFrom
  <2> QED
    BY <1>1, <1>7, <1>8, <1>11, <2>1
<1>12. CASE ~(from <= i) /\ ~UsesCursor(loaded[w])
  <2>1. Since(loaded[w]) = from
    BY <1>12 DEF from, Since
  <2> QED
    BY <1>4, <1>7, <1>12, <2>1
<1> QED
  BY <1>10, <1>11, <1>12

\* The cursor a run saves passes only what its batch, or the cursor it started from,
\* covered.
LEMMA SaveCovers ==
    ASSUME TypesHold, NEW w \in Workers, Covered(loaded[w]), Complete(w), Saves(w),
           analysed \subseteq analysed'
    PROVE  Covered(row.cursor)'
<1> DEFINE c == IF batch[w].got = {} THEN loaded[w] ELSE Latest(batch[w].got)
<1>1. NewCursor(w) = c /\ row'.cursor = c
  BY DEF NewCursor, Saves
<1>2. [batch |-> batch[w], found |-> found[w]] \in analysed'
  BY DEF Saves
<1>3. \A i, j \in Times : Close(i, j) /\ j + MaxLag < loaded[w] => Together(i, j)'
  BY DEF Covered, Together
<1>4. ASSUME NEW i \in Times, NEW j \in Times, Close(i, j), j + MaxLag < c
      PROVE  Together(i, j)'
  <2>1. CASE batch[w].got = {}
    BY <1>3, <1>4, <2>1
  <2>2. CASE batch[w].got # {}
    <3>1. \/ i \in batch[w].got /\ j \in batch[w].got
          \/ i < batch[w].since
          \/ j + MaxLag < loaded[w]
      BY <1>4, <2>2 DEF Complete
    <3> QED
      BY <1>2, <1>3, <1>4, <3>1 DEF Together
  <2> QED
    BY <2>1, <2>2
<1> QED
  BY <1>1, <1>4 DEF Covered

LEMMA SeamStep == TypesHold /\ SeamInv /\ [Next]_vars => SeamInv'
<1> SUFFICES ASSUME TypesHold, SeamInv, [Next]_vars
             PROVE  SeamInv'
  OBVIOUS
<1>1. InTime' /\ NoneAhead'
  BY TimeStep DEF SeamInv
<1>2. \A c : Covered(c) => Covered(c)'
  BY CoveredGrows
<1>3. Covered(row.cursor)'
  <2>1. CASE CursorKept
    BY <1>2, <2>1 DEF SeamInv, CursorKept, Covered
  <2>2. CASE \E w \in Workers : Saves(w)
    <3> PICK w \in Workers : Saves(w)
      BY <2>2
    <3>1. Covered(loaded[w]) /\ Complete(w)
      BY DEF Saves, SeamInv
    <3> QED
      BY <3>1, SaveCovers, TablesGrow
  <2> QED
    BY <2>1, <2>2, RunMoves
<1>4. ASSUME NEW w \in Workers
      PROVE  /\ Covered(loaded[w])'
             /\ pc'[w] \in {"create", "post", "save"} => Complete(w)'
  <2>1. Moves(w)
    BY RunMoves
  <2>2. CASE Same(w)
    BY <1>2, <2>2 DEF SeamInv, Same, Covered, Complete
  <2>3. CASE Ends(w)
    <3>1. \A j \in Times : ~(j + MaxLag < 0)
      BY ParametersTyped, TimesAreNumbers
    <3> QED
      BY <2>3, <3>1 DEF Ends, Covered
  <2>4. CASE Queries(w)
    BY <1>2, <2>4, QueryIsComplete DEF SeamInv, Queries, Covered
  <2>5. CASE Goes(w, "idle", "load") \/ Goes(w, "load", "query")
    BY <1>2, <2>5 DEF SeamInv, Goes, Covered
  <2>6. CASE Goes(w, "post", "save") \/ Goes(w, "create", "post")
    BY <1>2, <2>6 DEF SeamInv, Goes, Covered, Complete
  <2> QED
    BY <2>1, <2>2, <2>3, <2>4, <2>5, <2>6 DEF Moves
<1> QED
  BY <1>1, <1>3, <1>4 DEF SeamInv

\* No two readings within the overlap (less the lag) are left apart for good once the
\* cursor has passed them: a reading older than the lag is stored before time goes on, so
\* every query sees it that starts early enough, and what lies before the start of a
\* query lies before the cursor it started from.
THEOREM SeamsClosed == Spec => []NoSplitWindow
<1>1. Init => SeamInv
  <2> SUFFICES ASSUME Init
               PROVE  SeamInv
    OBVIOUS
  <2>1. \A j \in Times : j >= 1 /\ j \in Int
    BY TimesAreNumbers
  <2>2. \A j \in Times : ~(j + MaxLag < 0)
    BY <2>1, ParametersTyped
  <2> QED
    BY <2>2 DEF Init, SeamInv, InTime, NoneAhead, Covered
<1>2. TypesHold /\ SeamInv => NoSplitWindow
  BY DEF TypesHold, TypeOK, SeamInv, Covered, Close, NoSplitWindow
<1> QED
  BY TypesInvariant, <1>1, <1>2, SeamStep, PTL DEF Spec

-----------------------------------------------------------------------------
(* Only an overtaken run puts the cursor back                              *)

\* Cursors are those of stored readings.
FromStore ==
    /\ row.cursor \in {0} \cup store
    /\ \A w \in Workers : loaded[w] \in {0} \cup store /\ batch[w].got \subseteq store

\* A query looks back behind the cursor it started from, or starts after it.
Onward ==
    \A w \in Workers :
        pc[w] \in {"create", "post", "save"} /\ batch[w].got # {} =>
            loaded[w] <= Latest(batch[w].got)

CursorInv == NoneAhead /\ InTime /\ FromStore /\ Onward

LEMMA FromStoreStep ==
    ASSUME TypesHold, FromStore, [Next]_vars
    PROVE  FromStore'
<1>1. store \subseteq store'
  BY TablesGrow
<1>2. ASSUME NEW w \in Workers
      PROVE  loaded'[w] \in {0} \cup store /\ batch'[w].got \subseteq store
  <2>1. Moves(w)
    BY RunMoves
  <2>2. CASE Same(w) \/ Ends(w)
    BY <2>2 DEF Same, Ends, FromStore, NoBatch
  <2>3. CASE Queries(w)
    BY <2>3 DEF Queries, FromStore, Fetched
  <2>4. CASE \/ Goes(w, "idle", "load") \/ Goes(w, "load", "query")
             \/ Goes(w, "post", "save") \/ Goes(w, "create", "post")
    BY <2>4 DEF Goes, FromStore
  <2> QED
    BY <2>1, <2>2, <2>3, <2>4 DEF Moves
<1>3. row'.cursor \in {0} \cup store
  <2>1. CASE CursorKept
    BY <2>1 DEF CursorKept, FromStore
  <2>2. CASE \E w \in Workers : Saves(w)
    <3> PICK w \in Workers : Saves(w)
      BY <2>2
    <3>1. batch[w].got \in SUBSET Times
      BY DEF TypesHold, TypeOK, Batch
    <3>2. batch[w].got # {} => Latest(batch[w].got) \in batch[w].got
      BY <3>1, LatestIsLast
    <3> QED
      BY <3>2 DEF Saves, NewCursor, FromStore
  <2> QED
    BY <2>1, <2>2, RunMoves
<1> QED
  BY <1>1, <1>2, <1>3 DEF FromStore

\* What a query returns, if anything, is not older than the cursor it starts from.
LEMMA QueryGoesOn ==
    ASSUME TypesHold, NoneAhead, FromStore, NEW w \in Workers, Queries(w),
           batch'[w].got # {}
    PROVE  loaded'[w] <= Latest(batch'[w].got)
<1> DEFINE c    == loaded[w]
           from == QueryFrom(c)
           got  == Fetched(from)
<1>1. /\ \A t \in Times : t \in Int /\ t >= 1
      /\ store \subseteq Times /\ c \in {0} \cup store
  <2>1. \A t \in Times : t \in Int /\ t >= 1
    BY TimesAreNumbers
  <2> QED
    BY <2>1 DEF TypesHold, TypeOK, FromStore
<1>2. now \in Nat /\ Overlap \in Nat /\ Window \in Nat /\ c \in Int
  BY <1>1, ParametersTyped DEF TypesHold, TypeOK
<1>3. batch'[w].got = got /\ loaded'[w] = c
  BY DEF Queries
<1>4. got = {t \in store : from <= t /\ t <= now}
  BY DEF Fetched
<1> HIDE DEF got, from, c
<1>5. got \in SUBSET Times
  BY <1>1, <1>4
<1>6. Latest(got) \in got /\ \A u \in got : u <= Latest(got)
  BY <1>3, <1>5, LatestIsLast
<1>7. Latest(got) \in Int /\ Latest(got) >= 1 /\ from <= Latest(got)
  BY <1>1, <1>4, <1>5, <1>6
<1>8. CASE UsesCursor(c)
  <2>1. c > 0 /\ from = c - Overlap
    BY <1>8 DEF UsesCursor, QueryFrom, from
  <2>2. c \in store
    BY <1>1, <2>1
  <2>3. c \in got
    BY <1>2, <1>4, <2>1, <2>2 DEF NoneAhead
  <2> QED
    BY <1>3, <1>6, <2>3
<1>9. CASE ~UsesCursor(c)
  <2>1. from = now - Window /\ (~(c > 0) \/ ~(c > now - Window))
    BY <1>9 DEF UsesCursor, QueryFrom, from
  <2> QED
    BY <1>2, <1>3, <1>7, <2>1
<1> QED
  BY <1>8, <1>9

LEMMA OnwardStep ==
    ASSUME TypesHold, NoneAhead, FromStore, Onward, [Next]_vars
    PROVE  Onward'
<1> SUFFICES ASSUME NEW w \in Workers, pc'[w] \in {"create", "post", "save"},
                    batch'[w].got # {}
             PROVE  loaded'[w] <= Latest(batch'[w].got)
  BY DEF Onward
<1>1. Moves(w)
  BY RunMoves
<1>2. CASE Same(w)
  BY <1>2 DEF Same, Onward
<1>3. CASE Queries(w)
  BY <1>3, QueryGoesOn
<1>4. CASE Goes(w, "post", "save") \/ Goes(w, "create", "post")
  BY <1>4 DEF Goes, Onward
<1>5. CASE Ends(w) \/ Goes(w, "idle", "load") \/ Goes(w, "load", "query")
  BY <1>5 DEF Ends, Goes
<1> QED
  BY <1>1, <1>2, <1>3, <1>4, <1>5 DEF Moves

LEMMA CursorInvariant == Spec => [](TypesHold /\ CursorInv)
<1>1. Init => CursorInv
  <2> SUFFICES ASSUME Init
               PROVE  CursorInv
    OBVIOUS
  <2>1. \A t \in Times : t \in Int /\ t >= 1
    BY TimesAreNumbers
  <2>2. \A t \in Times : ~(t + MaxLag < 0)
    BY <2>1, ParametersTyped
  <2> QED
    BY <2>2 DEF Init, CursorInv, NoneAhead, InTime, FromStore, Onward, NoBatch
<1>2. TypesHold /\ CursorInv /\ [Next]_vars => CursorInv'
  BY TimeStep, FromStoreStep, OnwardStep DEF CursorInv
<1> QED
  BY TypesInvariant, <1>1, <1>2, PTL DEF Spec

\* A run that saves never puts the cursor back behind the one it loaded, for any number
\* of workers and in whatever order messages, retries, redeliveries and late readings
\* arrive: its query returned nothing, or a reading that is no older.  So only a run that
\* loaded an older cursor than the one in the row puts it back at all.
THEOREM RewindsBounded == Spec => OnlyOvertakenRunsRewind
<1>1. ASSUME TypesHold, CursorInv, [Next]_vars
      PROVE  [row'.cursor < row.cursor =>
                  \E w \in Workers : pc[w] = "save" /\ loaded[w] <= row'.cursor]_vars
  <2> SUFFICES ASSUME row'.cursor < row.cursor
               PROVE  \E w \in Workers : pc[w] = "save" /\ loaded[w] <= row'.cursor
    OBVIOUS
  <2>1. /\ row.cursor \in Int
        /\ \A w \in Workers : loaded[w] \in Int
    <3>1. \A t \in Times : t \in Int
      BY TimesAreNumbers
    <3> QED
      BY <1>1, <3>1 DEF TypesHold, TypeOK
  <2>2. ~CursorKept
    BY <2>1 DEF CursorKept
  <2>3. PICK w \in Workers : Saves(w)
    BY <1>1, <2>2, RunMoves
  <2>4. batch[w].got # {} => loaded[w] <= Latest(batch[w].got)
    BY <1>1, <2>3 DEF Saves, CursorInv, Onward
  <2>5. pc[w] = "save" /\ loaded[w] <= row'.cursor
    BY <2>1, <2>3, <2>4 DEF Saves, NewCursor
  <2> QED
    BY <2>5
<1> QED
  BY CursorInvariant, <1>1, PTL DEF Spec, OnlyOvertakenRunsRewind

-----------------------------------------------------------------------------
(* The task and its announcements                                          *)

\* Announcing, ageing and being killed are steps of the task or no steps of it.
LEMMA SystemStepIsTaskStep == [SystemNext]_svars => [Next]_vars
BY DEF SystemNext, svars, SystemTick, Quietly, PostAnnounces, KilledUnrecorded, Next, Step,
       Breaks

\* The composition changes nothing of the task: what is proved of PeeBotTask holds of it.
THEOREM SystemRunsTask == SystemSpec => Spec
<1>1. SystemInit => Init
  BY DEF SystemInit
<1> QED
  BY <1>1, SystemStepIsTaskStep, PTL DEF SystemSpec, Spec

\* With announcements, kills between a post and its record, and the time limit, still no
\* detection is lost, no window falls between two runs, and only an overtaken run puts the
\* cursor back.
THEOREM SystemKeepsTask ==
    SystemSpec => []DetectionNotLost /\ []NoSplitWindow /\ OnlyOvertakenRunsRewind
BY SystemRunsTask, DetectionKept, SeamsClosed, RewindsBounded, PTL DEF OnlyOvertakenRunsRewind

AgeTyped == age \in [Workers -> 0..MaxRun]

Post == [by: Workers, topic: Times, at: 0..MaxTime, counts: BOOLEAN]

\* A step announces what the run of a worker found.
Announces(w) ==
    /\ pc[w] = "post" /\ Gate!Cleared(w)
    /\ UNCHANGED now
    /\ \E counts \in BOOLEAN :
          posted' = Append(posted, [by |-> w, topic |-> found[w].detectedAt, at |-> now,
                                    counts |-> counts])

\* Time passes for the runs and for nothing else, or it does not and no run gets older.
Ages ==
    \/ /\ now' = now + 1 /\ UNCHANGED <<posted, pc, found>>
       /\ \A w \in Workers :
             age'[w] = IF pc[w] = "idle" THEN 0 ELSE age[w] + 1
       /\ \A w \in Workers : pc[w] # "idle" => age[w] < MaxRun
    \/ /\ now' = now
       /\ \A w \in Workers : age'[w] = age[w] \/ (age'[w] = 0 /\ pc'[w] = "idle")

LEMMA SystemStep ==
    ASSUME TypesHold, AgeTyped, [SystemNext]_svars
    PROVE  /\ Ages /\ DOMAIN age' = Workers /\ age' = [w \in Workers |-> age'[w]]
           /\ posted' = posted \/ \E w \in Workers : Announces(w)
<1>1. CASE SystemTick
  <2>1. UNCHANGED <<posted, pc, found>> /\ now' = now + 1
    BY <1>1 DEF SystemTick, Tick, run
  <2>2. /\ age' = [w \in Workers |-> IF pc[w] = "idle" THEN 0 ELSE age[w] + 1]
        /\ \A w \in Workers : pc[w] # "idle" => age[w] < MaxRun
    BY <1>1 DEF SystemTick
  <2> QED
    BY <2>1, <2>2 DEF Ages
<1>2. CASE \/ Beat /\ UNCHANGED <<age, posted>>
           \/ \E t \in Times : StoreReading(t) /\ UNCHANGED <<age, posted>>
           \/ UNCHANGED svars
  <2>1. UNCHANGED <<now, age, posted>>
    BY <1>2 DEF Beat, StoreReading, svars, vars
  <2> QED
    BY <2>1 DEF Ages, AgeTyped
<1>3. ASSUME NEW w \in Workers, Quietly(w, Step(w)) \/ Quietly(w, Breaks(w))
      PROVE  UNCHANGED <<now, posted>> /\ age' = IF pc'[w] = "idle" THEN [age EXCEPT ![w] = 0] ELSE age
  <2>1. Step(w) \/ Breaks(w)
    BY <1>3 DEF Quietly
  <2>2. UNCHANGED now
    BY <2>1, Queried DEF Step, Take, LoadState, CreateEvent, TryPost, SaveState, Breaks,
           OperationalFault, CreateThenFault, SaveThenFault, OtherError, Killed
  <2> QED
    BY <1>3, <2>2 DEF Quietly
<1>4. ASSUME NEW w \in Workers, PostAnnounces(w)
      PROVE  UNCHANGED age /\ Announces(w)
  <2>1. pc[w] = "post" /\ UNCHANGED <<now, age>>
    BY <1>4 DEF PostAnnounces, TryPost
  <2>2. PICK counts \in BOOLEAN : Gate!Announce(w, found[w].detectedAt, counts)
    BY <1>4 DEF PostAnnounces
  <2> QED
    BY <2>1, <2>2 DEF Announces, Gate!Announce
<1>5. ASSUME NEW w \in Workers, KilledUnrecorded(w)
      PROVE  age' = [age EXCEPT ![w] = 0] /\ pc'[w] = "idle" /\ Announces(w)
  <2>1. pc[w] = "post" /\ UNCHANGED now /\ age' = [age EXCEPT ![w] = 0]
    BY <1>5 DEF KilledUnrecorded, Killed
  <2>2. pc'[w] = "idle"
    BY <1>5 DEF KilledUnrecorded, Killed, EndRun, Goto, TypesHold, TypeOK
  <2>3. Gate!Announce(w, found[w].detectedAt, FALSE)
    BY <1>5 DEF KilledUnrecorded
  <2> QED
    BY <2>1, <2>2, <2>3 DEF Announces, Gate!Announce
<1>6. CASE \E w \in Workers :
              \/ Quietly(w, Step(w)) \/ Quietly(w, Breaks(w))
              \/ PostAnnounces(w) \/ KilledUnrecorded(w)
  <2> PICK w \in Workers : \/ Quietly(w, Step(w)) \/ Quietly(w, Breaks(w))
                           \/ PostAnnounces(w) \/ KilledUnrecorded(w)
    BY <1>6
  <2>1. /\ now' = now /\ age' \in {age, [age EXCEPT ![w] = 0]}
        /\ age' # age => pc'[w] = "idle"
        /\ posted' = posted \/ Announces(w)
    BY <1>3, <1>4, <1>5 DEF Announces
  <2> QED
    BY <2>1 DEF Ages, AgeTyped
<1> QED
  BY <1>1, <1>2, <1>6 DEF SystemNext

LEMMA SystemTypesStep ==
    ASSUME TypesHold, AgeTyped, posted \in Seq(Post), [SystemNext]_svars
    PROVE  AgeTyped' /\ posted' \in Seq(Post)
<1>1. /\ Ages /\ age' = [w \in Workers |-> age'[w]]
      /\ posted' = posted \/ \E w \in Workers : Announces(w)
  BY SystemStep
<1>2. MaxRun \in Nat /\ \A w \in Workers : age[w] \in 0..MaxRun
  BY SystemParameters DEF SystemParameters, AgeTyped
<1>3. \A w \in Workers : age'[w] \in 0..MaxRun
  BY <1>1, <1>2 DEF Ages
<1>4. ASSUME NEW w \in Workers, Announces(w)
      PROVE  posted' \in Seq(Post)
  <2>1. found[w] \in Fill
    BY <1>4 DEF Announces, TypesHold, Detecting
  <2>2. found[w].detectedAt \in Times /\ now \in 0..MaxTime
    BY <2>1 DEF Fill, TypesHold, TypeOK
  <2>3. PICK counts \in BOOLEAN :
           posted' = Append(posted, [by |-> w, topic |-> found[w].detectedAt, at |-> now,
                                     counts |-> counts])
    BY <1>4 DEF Announces
  <2>4. [by |-> w, topic |-> found[w].detectedAt, at |-> now, counts |-> counts] \in Post
    BY <2>2 DEF Post
  <2> QED
    BY <2>3, <2>4
<1> QED
  BY <1>1, <1>3, <1>4 DEF AgeTyped

SystemTypes == TypesHold /\ AgeTyped /\ posted \in Seq(Post)

LEMMA SystemTypesInvariant == SystemSpec => []SystemTypes
<1>1. SystemInit => AgeTyped /\ posted \in Seq(Post)
  BY SystemParameters DEF SystemInit, AgeTyped, SystemParameters
<1>2. SystemTypes /\ [SystemNext]_svars => SystemTypes'
  BY SystemTypesStep, SystemStepIsTaskStep, TypesStep DEF SystemTypes
<1>3. SystemInit => Init
  BY DEF SystemInit
<1> QED
  BY <1>1, <1>2, <1>3, TypesInit, PTL DEF SystemSpec, SystemTypes

\* No run outlives the time limit, and every announcement is a worker's, about a time the
\* feed may have a reading for.
THEOREM SystemTypeCorrect == SystemSpec => []SystemTypeOK
<1>1. SystemTypes => SystemTypeOK
  BY DEF SystemTypes, TypesHold, AgeTyped, Post, SystemTypeOK
<1> QED
  BY SystemTypesInvariant, <1>1, PTL

-----------------------------------------------------------------------------
(* A worker repeats only its torn announcements                            *)

\* What a run is about to post was recent when the run queried, and a run is short.
Recent ==
    \A w \in Workers : pc[w] \in {"create", "post"} =>
        /\ found[w].detectedAt <= now
        /\ now - found[w].detectedAt <= Window + Overlap + age[w]

\* Nothing is announced before it happened, or in the future.
Timely == \A k \in DOMAIN posted : posted[k].topic <= posted[k].at

\* A query looks back no further than the observation window and the overlap.
LEMMA QueryIsRecent ==
    ASSUME TypesHold, NEW w \in Workers, Queries(w), found'[w] # NoDetection
    PROVE  /\ found'[w].detectedAt <= now
           /\ now - found'[w].detectedAt <= Window + Overlap
<1> DEFINE from == QueryFrom(loaded[w])
           got  == Fetched(from)
<1>1. got = {t \in store : from <= t /\ t <= now} /\ found'[w] = Analyze(InOrder(got))
  BY DEF Queries, Fetched
<1>2. /\ now \in Int /\ Window \in Nat /\ Overlap \in Nat
      /\ loaded[w] \in {0} \cup Times
  BY ParametersTyped DEF TypesHold, TypeOK
<1>3. \A t \in Times : t \in Int
  BY TimesAreNumbers
<1>4. from \in Int /\ now - from <= Window + Overlap
  <2>1. loaded[w] \in Int
    BY <1>2, <1>3
  <2> QED
    BY <1>2, <2>1 DEF QueryFrom, UsesCursor
<1> HIDE DEF from, got
<1>5. got \in SUBSET Times
  BY <1>1 DEF TypesHold, TypeOK
<1>6. found'[w].detectedAt \in got
  BY <1>1, <1>5, DetectionTyped
<1>7. found'[w].detectedAt \in Int
  BY <1>3, <1>5, <1>6
<1>8. from <= found'[w].detectedAt /\ found'[w].detectedAt <= now
  BY <1>1, <1>6
<1> QED
  BY <1>2, <1>4, <1>7, <1>8

LEMMA RecentStep ==
    ASSUME SystemTypes, SystemTypes', Recent, [SystemNext]_svars
    PROVE  Recent'
<1> SUFFICES ASSUME NEW w \in Workers, pc'[w] \in {"create", "post"}
             PROVE  /\ found'[w].detectedAt <= now'
                    /\ now' - found'[w].detectedAt <= Window + Overlap + age'[w]
  BY DEF Recent
<1>1. /\ now \in Int /\ Window \in Nat /\ Overlap \in Nat
      /\ age[w] \in Nat /\ age'[w] \in Nat
  BY ParametersTyped, SystemParameters
     DEF SystemTypes, TypesHold, TypeOK, AgeTyped, SystemParameters
<1>2. found'[w] \in Fill
  BY DEF SystemTypes, TypesHold, Detecting
<1>3. found'[w].detectedAt \in Int
  <2>1. \A t \in Times : t \in Int
    BY TimesAreNumbers
  <2>2. found'[w].detectedAt \in Times
    BY <1>2 DEF Fill
  <2> QED
    BY <2>1, <2>2
<1>4. Ages /\ Moves(w)
  BY SystemStep, SystemStepIsTaskStep, RunMoves DEF SystemTypes
<1>5. CASE /\ now' = now + 1 /\ UNCHANGED <<pc, found>>
           /\ age'[w] = IF pc[w] = "idle" THEN 0 ELSE age[w] + 1
  <2>1. /\ found'[w] = found[w] /\ age'[w] = age[w] + 1
        /\ found[w].detectedAt <= now
        /\ now - found[w].detectedAt <= Window + Overlap + age[w]
    BY <1>5 DEF Recent
  <2> QED
    BY <1>1, <1>3, <1>5, <2>1
<1>6. CASE now' = now /\ age'[w] = age[w]
  <2>1. CASE Same(w) \/ Goes(w, "create", "post")
    <3>1. pc[w] \in {"create", "post"} /\ found'[w] = found[w]
      BY <2>1 DEF Same, Goes
    <3> QED
      BY <1>6, <3>1 DEF Recent
  <2>2. CASE Queries(w)
    <3>1. found'[w] # NoDetection
      BY <1>2, FillIsDetection
    <3>2. /\ found'[w].detectedAt <= now
          /\ now - found'[w].detectedAt <= Window + Overlap
      BY <2>2, <3>1, QueryIsRecent DEF SystemTypes
    <3> QED
      BY <1>1, <1>3, <1>6, <3>2
  <2>3. CASE \/ Ends(w) \/ Goes(w, "idle", "load") \/ Goes(w, "load", "query")
             \/ Goes(w, "post", "save")
    BY <2>3 DEF Ends, Goes
  <2> QED
    BY <1>4, <2>1, <2>2, <2>3 DEF Moves
<1> QED
  BY <1>4, <1>5, <1>6 DEF Ages

\* The new announcement is no older than the cooldown, so none that counts can be about
\* the same fill.
LEMMA RepeatStep ==
    ASSUME SystemTypes, Recent, Timely, OwnRepeatsAreTorn, [SystemNext]_svars
    PROVE  Timely' /\ OwnRepeatsAreTorn'
<1>1. CASE posted' = posted
  BY <1>1 DEF Timely, OwnRepeatsAreTorn
<1>2. CASE \E w \in Workers : Announces(w)
  <2> PICK w \in Workers : Announces(w)
    BY <1>2
  <2> DEFINE topic == found[w].detectedAt
  <2>1. PICK counts \in BOOLEAN :
           posted' = Append(posted, [by |-> w, topic |-> topic, at |-> now,
                                     counts |-> counts])
    BY DEF Announces
  <2>2. PICK e : e = [by |-> w, topic |-> topic, at |-> now, counts |-> counts]
    OBVIOUS
  <2>3. PICK n : n = Len(posted) + 1
    OBVIOUS
  <2>4. /\ posted \in Seq(Post) /\ posted' = Append(posted, e)
        /\ DOMAIN posted' = DOMAIN posted \cup {n} /\ n \notin DOMAIN posted
        /\ \A k \in DOMAIN posted : k < n /\ ~(n < k) /\ posted'[k] = posted[k]
        /\ ~(n < n) /\ posted'[n] = e
    BY <2>1, <2>2, <2>3 DEF SystemTypes
  <2>5. e.by = w /\ e.topic = topic /\ e.at = now
    BY <2>2
  <2>6. /\ topic <= now /\ now - topic <= Window + Overlap + age[w]
    BY DEF Announces, Recent
  <2>7. /\ now \in Int /\ Window \in Nat /\ Overlap \in Nat /\ Cooldown \in Nat
        /\ age[w] \in 0..MaxRun /\ MaxRun \in Nat /\ topic \in Int
    <3>1. found[w] \in Fill
      BY DEF Announces, SystemTypes, TypesHold, Detecting
    <3>2. topic \in Times /\ \A t \in Times : t \in Int
      BY <3>1, TimesAreNumbers DEF Fill
    <3> QED
      BY <3>2, ParametersTyped, SystemParameters
         DEF SystemTypes, TypesHold, TypeOK, AgeTyped, SystemParameters
  <2>8. Timely'
    BY <2>4, <2>5, <2>6 DEF Timely
  <2>9. ASSUME Window + Overlap + MaxRun <= Cooldown, NEW k \in DOMAIN posted,
               posted[k].by = w, posted[k].topic = topic
        PROVE  ~posted[k].counts
    <3> SUFFICES ASSUME posted[k].counts
                 PROVE  FALSE
      OBVIOUS
    <3>1. now - posted[k].at > Cooldown
      BY <2>9 DEF Announces, Gate!Cleared
    <3>2. topic <= posted[k].at
      BY <2>9 DEF Timely
    <3>3. posted[k].at \in Int
      <4>1. posted[k] \in Post
        BY <2>4, <2>9
      <4> QED
        BY <4>1 DEF Post
    <3> QED
      BY <2>6, <2>7, <2>9, <3>1, <3>2, <3>3
  <2>10. OwnRepeatsAreTorn'
    <3> SUFFICES ASSUME Window + Overlap + MaxRun <= Cooldown,
                        NEW k \in DOMAIN posted', NEW l \in DOMAIN posted', k < l,
                        posted'[k].by = posted'[l].by, posted'[k].topic = posted'[l].topic
                 PROVE  ~posted'[k].counts
      BY DEF OwnRepeatsAreTorn
    <3>1. CASE k \in DOMAIN posted /\ l \in DOMAIN posted
      BY <2>4, <3>1 DEF OwnRepeatsAreTorn
    <3>2. CASE k \in DOMAIN posted /\ l = n
      BY <2>4, <2>5, <2>9, <3>2
    <3> QED
      BY <2>4, <3>1, <3>2
  <2> QED
    BY <2>8, <2>10
<1> QED
  BY <1>1, <1>2, SystemStep DEF SystemTypes

\* If the observation window, the overlap and the longest run fit into the cooldown, no
\* kill, retry, redelivery or stale cursor makes a worker repeat an announcement of its
\* own, unless the record of the first one was not written, for any number of workers.
THEOREM RepeatsAreTorn == SystemSpec => []OwnRepeatsAreTorn
<1>1. SystemInit => Recent /\ Timely /\ OwnRepeatsAreTorn
  BY DEF SystemInit, Init, Recent, Timely, OwnRepeatsAreTorn
<1>2. SystemTypes /\ SystemTypes' /\ Recent /\ Timely /\ OwnRepeatsAreTorn
      /\ [SystemNext]_svars
        => Recent' /\ Timely' /\ OwnRepeatsAreTorn'
  BY RecentStep, RepeatStep
<1> QED
  BY SystemTypesInvariant, <1>1, <1>2, PTL DEF SystemSpec

\* The announcements are not from the future, and a recorded one is followed by none of
\* its author's within the cooldown.
Spaced ==
    /\ \A k \in DOMAIN posted : posted[k].at <= now
    /\ \A k, l \in DOMAIN posted :
          k < l /\ posted[k].by = posted[l].by /\ posted[k].counts =>
              posted[l].at - posted[k].at > Cooldown

LEMMA SpacedStep ==
    ASSUME SystemTypes, SystemTypes', Spaced, [SystemNext]_svars
    PROVE  Spaced'
<1>1. /\ now \in Int /\ now' \in Int /\ now <= now' /\ Cooldown \in Int
      /\ posted \in Seq(Post) /\ \A k \in DOMAIN posted : posted[k].at \in Int
  <2>1. now \in Int /\ now' \in Int /\ posted \in Seq(Post)
    BY ParametersTyped DEF SystemTypes, TypesHold, TypeOK
  <2>2. now <= now'
    <3>1. now' = now + 1 \/ now' = now
      BY SystemStep DEF SystemTypes, Ages
    <3> QED
      BY <2>1, <3>1
  <2>3. \A k \in DOMAIN posted : posted[k].at \in Int
    <3>1. \A k \in DOMAIN posted : posted[k] \in Post
      BY <2>1
    <3>2. MaxTime \in Nat
      BY ParametersTyped
    <3> QED
      BY <3>1, <3>2 DEF Post
  <2> QED
    BY <2>1, <2>2, <2>3, SystemParameters DEF SystemParameters
<1>2. CASE posted' = posted
  BY <1>1, <1>2 DEF Spaced
<1>3. ASSUME NEW w \in Workers, Announces(w)
      PROVE  Spaced'
  <2>1. /\ now' = now
        /\ \A k \in DOMAIN posted :
              posted[k].by = w /\ posted[k].counts => now - posted[k].at > Cooldown
    BY <1>3 DEF Announces, Gate!Cleared
  <2>2. PICK e : /\ \E counts \in BOOLEAN :
                       e = [by |-> w, topic |-> found[w].detectedAt, at |-> now,
                            counts |-> counts]
                 /\ posted' = Append(posted, e)
    BY <1>3 DEF Announces
  <2>3. e.by = w /\ e.at = now
    BY <2>2
  <2>4. /\ DOMAIN posted' = 1..Len(posted) + 1 /\ DOMAIN posted = 1..Len(posted)
        /\ Len(posted) \in Nat /\ posted'[Len(posted) + 1] = e
        /\ \A k \in DOMAIN posted : posted'[k] = posted[k]
    BY <1>1, <2>2
  <2>5. \A k \in DOMAIN posted' : posted'[k].at <= now'
    BY <1>1, <2>1, <2>3, <2>4 DEF Spaced
  <2>6. ASSUME NEW k \in DOMAIN posted', NEW l \in DOMAIN posted', k < l,
               posted'[k].by = posted'[l].by, posted'[k].counts
        PROVE  posted'[l].at - posted'[k].at > Cooldown
    <3>1. k \in DOMAIN posted /\ posted'[k] = posted[k]
      BY <2>4, <2>6
    <3>2. CASE l \in DOMAIN posted
      BY <2>4, <2>6, <3>1, <3>2 DEF Spaced
    <3>3. CASE l \notin DOMAIN posted
      <4>1. l = Len(posted) + 1
        BY <2>4, <3>3
      <4> QED
        BY <2>1, <2>3, <2>4, <2>6, <3>1, <4>1
    <3> QED
      BY <3>2, <3>3
  <2> QED
    BY <2>5, <2>6 DEF Spaced
<1> QED
  BY <1>2, <1>3, SystemStep DEF SystemTypes

\* In the whole system, with any number of overlapping runs, kills and redeliveries, a
\* worker announces nothing within the cooldown after an announcement of its own that is
\* on record.
THEOREM SystemKeepsCooldown ==
    SystemSpec => [](\A k, l \in DOMAIN posted :
                        k < l /\ posted[k].by = posted[l].by /\ posted[k].counts =>
                            posted[l].at - posted[k].at > Cooldown)
<1>1. SystemInit => Spaced
  BY DEF SystemInit, Init, Spaced
<1>2. SystemTypes /\ SystemTypes' /\ Spaced /\ [SystemNext]_svars => Spaced'
  BY SpacedStep
<1>3. Spaced => \A k, l \in DOMAIN posted :
                   k < l /\ posted[k].by = posted[l].by /\ posted[k].counts =>
                       posted[l].at - posted[k].at > Cooldown
  BY DEF Spaced
<1> QED
  BY SystemTypesInvariant, <1>1, <1>2, <1>3, PTL DEF SystemSpec
=============================================================================
