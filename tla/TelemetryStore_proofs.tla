------------------------ MODULE TelemetryStore_proofs ------------------------
(***************************************************************************)
(* Proofs about TelemetryStore and the enricher it uses: which dates the   *)
(* rollover heuristic gets right, the types, that rows are dated true and  *)
(* unique, and that the store catches up with the feed; for every          *)
(* calendar, feed, set of clocks and size of the queue.                    *)
(***************************************************************************)
EXTENDS TelemetryStore, WellFoundedInduction, TLAPS

-----------------------------------------------------------------------------
(* The enricher                                                            *)

\* A time lies in one year only, the one Year picks.
LEMMA YearUnique ==
    ASSUME NEW t \in Int, NEW y \in 0..LastYear, InYear(t, y)
    PROVE  Year(t) = y
  <1>1. \A z \in 0..LastYear : InYear(t, z) => z = y
    BY CalendarParameters DEF CalendarParameters, InYear
  <1> QED BY <1>1 DEF Year

\* Around New Year: whatever year the enricher assumes, a measurement of the clock's year
\* or of the year before comes out right exactly when it is datable.  REQ-ENR-002 and
\* REQ-ENR-004 ask for it; a stale one of last year is dated a year late.
THEOREM RolloverExact ==
    ASSUME NEW clock \in Int, NEW t \in Int, NEW y \in 1..LastYear, NEW x \in {y - 1, y},
           InYear(clock, y), InYear(t, x)
    PROVE  Enrich(Hours(t), clock) = t <=> Datable(t, clock)
  <1>1. /\ y \in 0..LastYear /\ x \in 0..LastYear /\ y - 1 \in 0..LastYear
        /\ YearStart[y] \in Int /\ YearStart[x] \in Int /\ YearStart[y - 1] \in Int
        /\ YearStart[y - 1] < YearStart[y] /\ Day \in Nat
    BY CalendarParameters DEF CalendarParameters
  <1>2. Year(clock) = y /\ Year(t) = x
    BY <1>1, YearUnique
  <1>3. Hours(t) = t - YearStart[x] + Day
    BY <1>1, <1>2 DEF Hours, BaseEpoch
  <1>4. Hours(t) # NoField
    BY <1>1, <1>3, CalendarParameters DEF CalendarParameters
  <1>5. Enrich(Hours(t), clock) =
          IF YearStart[y] + t - YearStart[x] > clock + Day
          THEN YearStart[y - 1] + t - YearStart[x]
          ELSE YearStart[y] + t - YearStart[x]
    BY <1>1, <1>2, <1>3, <1>4 DEF Enrich, BaseEpoch
  <1>6. CASE x = y
    BY <1>1, <1>2, <1>5, <1>6 DEF Datable
  <1>7. CASE x = y - 1
    BY <1>1, <1>2, <1>5, <1>7 DEF Datable
  <1> QED BY <1>6, <1>7

\* A snapshot broadcast again after a restart keeps its key: two dates given to one
\* measurement agree as long as it is datable at both, New Year in between or not.
THEOREM RebroadcastKeepsKey ==
    ASSUME NEW t \in Int, NEW x \in 0..LastYear, InYear(t, x),
           NEW c \in Int, NEW y \in 1..LastYear, x \in {y - 1, y}, InYear(c, y), Datable(t, c),
           NEW d \in Int, NEW z \in 1..LastYear, x \in {z - 1, z}, InYear(d, z), Datable(t, d)
    PROVE  Enrich(Hours(t), c) = Enrich(Hours(t), d)
  <1>1. Enrich(Hours(t), c) = t
    BY RolloverExact
  <1>2. Enrich(Hours(t), d) = t
    BY RolloverExact
  <1> QED BY <1>1, <1>2

\* A nonempty set of naturals has a least element.
LEMMA LeastOf ==
    ASSUME NEW T \in SUBSET Nat, T # {}
    PROVE  \E x \in T : \A y \in T : x <= y
  <1>1. PICK x \in T : \A y \in T : ~(<<y, x>> \in OpToRel(<, Nat))
    BY NatLessThanWellFounded, WFMin
  <1>2. \A y \in T : ~(y < x)
    BY <1>1 DEF OpToRel
  <1> QED BY <1>2

\* Every time from the start of the calendar on lies in a year.
LEMMA YearExists ==
    ASSUME NEW t \in Int, YearStart[0] <= t
    PROVE  Year(t) \in 0..LastYear /\ InYear(t, Year(t))
  <1> DEFINE T == {n \in 0..LastYear : YearStart[LastYear - n] <= t}
  <1>1. LastYear \in Nat /\ \A y \in 0..LastYear : YearStart[y] \in Int
    BY CalendarParameters DEF CalendarParameters
  <1>2. LastYear \in T /\ T \in SUBSET Nat
    BY <1>1
  <1>3. PICK n \in T : \A k \in T : n <= k
    BY <1>2, LeastOf
  <1>4. PICK y \in 0..LastYear : y = LastYear - n
    BY <1>1
  <1>5. InYear(t, y)
    <2>1. YearStart[y] <= t
      BY <1>4
    <2>2. ASSUME NEW z \in 0..LastYear, y < z
          PROVE  t < YearStart[z]
      <3>1. LastYear - z \in 0..LastYear /\ LastYear - (LastYear - z) = z /\ LastYear - z < n
        BY <1>1, <1>4, <2>2
      <3>2. LastYear - z \notin T
        BY <1>1, <1>3, <3>1
      <3> QED
        BY <1>1, <3>1, <3>2
    <2> QED
      BY <2>1, <2>2 DEF InYear
  <1> QED
    BY <1>4, <1>5, YearUnique

\* A measurement the enricher dates otherwise was not datable by its clock.
LEMMA MisdatedWasNotDatable ==
    ASSUME NEW t \in Int, YearStart[0] <= t,
           NEW clock \in Int, LastYear >= 1, YearStart[1] <= clock,
           Enrich(Hours(t), clock) # t
    PROVE  ~Datable(t, clock)
  <1>1. /\ LastYear \in Nat /\ 0 \in 0..LastYear /\ 1 \in 0..LastYear
        /\ YearStart[0] \in Int /\ YearStart[1] \in Int /\ YearStart[0] < YearStart[1]
    BY CalendarParameters DEF CalendarParameters
  <1>2. /\ Year(t) \in 0..LastYear /\ InYear(t, Year(t))
        /\ Year(clock) \in 0..LastYear /\ InYear(clock, Year(clock))
    BY <1>1, YearExists
  <1>3. Year(clock) \in 1..LastYear
    <2>1. Year(clock) # 0
      BY <1>1, <1>2 DEF InYear
    <2> QED
      BY <1>1, <1>2, <2>1
  <1>4. CASE Year(t) \in {Year(clock) - 1, Year(clock)}
    BY <1>2, <1>3, <1>4, RolloverExact
  <1>5. CASE Year(t) \notin {Year(clock) - 1, Year(clock)}
    BY <1>5 DEF Datable
  <1> QED
    BY <1>4, <1>5

\* Whatever hours an update carries, the enricher makes a time of them.
LEMMA DatesTyped ==
    ASSUME NEW hours \in Int \cup {NoField},
           NEW clock \in Int, LastYear >= 1, YearStart[1] <= clock
    PROVE  Enrich(hours, clock) \in Int
  <1>1. /\ LastYear \in Nat /\ 0 \in 0..LastYear /\ 1 \in 0..LastYear
        /\ \A y \in 0..LastYear : YearStart[y] \in Int
        /\ YearStart[0] < YearStart[1] /\ Day \in Nat
    BY CalendarParameters DEF CalendarParameters
  <1>2. Year(clock) \in 0..LastYear /\ InYear(clock, Year(clock))
    BY <1>1, YearExists
  <1>3. Year(clock) - 1 \in 0..LastYear
    <2>1. Year(clock) # 0
      BY <1>1, <1>2 DEF InYear
    <2> QED
      BY <1>1, <1>2, <2>1
  <1>4. BaseEpoch(Year(clock)) \in Int /\ BaseEpoch(Year(clock) - 1) \in Int
    BY <1>1, <1>2, <1>3 DEF BaseEpoch
  <1> QED
    BY <1>4 DEF Enrich

-----------------------------------------------------------------------------
(* The types                                                               *)

LEMMA Parameters ==
    /\ Target \in Channels /\ SeedOrder \in Seq(Channels)
    /\ Values \subseteq Int /\ MeasureTimes \subseteq Int /\ InjectTimes \subseteq Int
    /\ Lags \subseteq Int /\ MaxInbox \in Nat \ {0} /\ MaxFails \in Nat
    /\ StartTime \in Int /\ MaxTime \in Int /\ StartTime <= MaxTime
    /\ NoField \notin Int
BY StoreParameters, CalendarParameters DEF StoreParameters, CalendarParameters

\* A measurement has the time and the value the feed sends of it.
LEMMA Measured ==
    ASSUME NEW m \in Measurement
    PROVE  /\ m.at \in Int /\ YearStart[0] <= m.at
           /\ m.value \in Values /\ m.value # NoField
           /\ m # None /\ Hours(m.at) \in Int
<1>1. m.at \in MeasureTimes /\ m.value \in Values /\ m = [at |-> m.at, value |-> m.value]
  BY DEF Measurement
<1>2. m.at \in Int /\ m.value \in Int
  BY <1>1, Parameters
<1>3. m \in [at : Int, value : Int]
  BY <1>1, <1>2
<1>4. m # None
  BY <1>3, StoreParameters DEF StoreParameters
<1>5. YearStart[0] <= m.at
  BY <1>1, CalendarCovers DEF CalendarCovers
<1>6. Hours(m.at) \in Int
  <2>1. /\ LastYear \in Nat /\ Day \in Nat /\ \A y \in 0..LastYear : YearStart[y] \in Int
    BY CalendarParameters DEF CalendarParameters
  <2>2. Year(m.at) \in 0..LastYear
    BY <1>2, <1>5, YearExists
  <2> QED
    BY <1>2, <2>1, <2>2 DEF Hours, BaseEpoch
<1> QED
  BY <1>1, <1>2, <1>4, <1>5, <1>6, Parameters

\* The clock of the ingestion host is past the first year of the calendar.
LEMMA ClockLater ==
    ASSUME now \in StartTime..MaxTime, NEW lag \in Lags
    PROVE  now - lag \in Int /\ YearStart[1] <= now - lag /\ LastYear >= 1
<1>1. lag \in Int /\ StartTime \in Int /\ now \in Int /\ StartTime <= now
  BY Parameters
<1>2. YearStart[1] <= StartTime - lag /\ LastYear >= 1 /\ YearStart[1] \in Int
  BY CalendarCovers, CalendarParameters DEF CalendarCovers, CalendarParameters
<1> QED
  BY <1>1, <1>2

\* The queue after an update, and without its head.
LEMMA InboxTyped ==
    ASSUME inbox \in Seq(Update), Len(inbox) <= MaxInbox
    PROVE  /\ \A u \in Update : Enqueue(u) \in Seq(Update) /\ Len(Enqueue(u)) <= MaxInbox
           /\ inbox # <<>> => /\ Head(inbox) \in Update /\ Tail(inbox) \in Seq(Update)
                              /\ Len(Tail(inbox)) <= MaxInbox
<1>1. MaxInbox \in Nat \ {0} /\ Len(inbox) \in Nat
  BY Parameters
<1>2. inbox # <<>> => /\ Head(inbox) \in Update /\ Tail(inbox) \in Seq(Update)
                      /\ Len(Tail(inbox)) = Len(inbox) - 1
  OBVIOUS
<1>3. ASSUME NEW u \in Update
      PROVE  Enqueue(u) \in Seq(Update) /\ Len(Enqueue(u)) <= MaxInbox
  <2>1. CASE Len(inbox) = MaxInbox
    <3>1. inbox # <<>> /\ Enqueue(u) = Append(Tail(inbox), u)
      BY <1>1, <2>1 DEF Enqueue
    <3> QED
      BY <1>1, <1>2, <2>1, <3>1
  <2>2. CASE Len(inbox) # MaxInbox
    <3>1. Enqueue(u) = Append(inbox, u)
      BY <2>2 DEF Enqueue
    <3> QED
      BY <1>1, <2>2, <3>1
  <2> QED
    BY <2>1, <2>2
<1> QED
  BY <1>1, <1>2, <1>3

FeedTyped ==
    /\ now \in StartTime..MaxTime
    /\ current \in Measurement \cup {None}
    /\ sent \in Measurement \cup {None}
    /\ valued \in Measurement \cup {None}
    /\ gap \in BOOLEAN

ProcessTyped ==
    /\ proc \in {"up", "down"}
    /\ map \subseteq Channels /\ (proc = "up" <=> map # {})
    /\ inbox \in Seq(Update) /\ Len(inbox) <= MaxInbox

RowsTyped == rows \subseteq Row /\ misdated \subseteq Measurement \X Int

ChannelsTyped ==
    /\ table \in [Channels -> {"absent", "active", "deleted"}]
    /\ toSeed \in Seq(Channels)
    /\ fails \in 0..MaxFails
    /\ client \in [Clients -> {"idle", "found"}]

LEMMA TypesAre == TypeOK <=> FeedTyped /\ ProcessTyped /\ RowsTyped /\ ChannelsTyped
BY DEF TypeOK, FeedTyped, ProcessTyped, RowsTyped, ChannelsTyped

LEMMA InsertTyped ==
    ASSUME rows \subseteq Row, NEW ts \in Int, NEW v \in Values, NEW by \in {"feed", "client"},
           NEW src \in Measurement \cup {None}, Insert(ts, v, by, src)
    PROVE  rows' \subseteq Row
<1>1. [at |-> ts, value |-> v, by |-> by, src |-> src] \in Row
  BY DEF Row
<1> QED
  BY <1>1 DEF Insert

\* The update the feed sends is the change from the one it sent before.
LEMMA DeltaTyped ==
    ASSUME FeedTyped, NEW m \in Measurement
    PROVE  Delta(m) \in Update
<1>1. Hours(m.at) \in Int /\ m.value \in Values
  BY Measured
<1> QED
  BY <1>1 DEF Delta, Update

\* What the worker does with the update at the head of the queue.
LEMMA Processed ==
    ASSUME ProcessTyped, Process
    PROVE  /\ proc = "up" /\ inbox # <<>> /\ inbox' = Tail(inbox)
           /\ Head(inbox) \in Update /\ Head(inbox).src \in Measurement
           /\ UNCHANGED <<now, current, sent, valued, gap, proc, map, table, toSeed, fails,
                          client>>
           /\ \/ ~Valid(Head(inbox)) /\ UNCHANGED <<rows, misdated>>
              \/ /\ Valid(Head(inbox)) /\ Head(inbox).value \in Values
                 /\ \E lag \in Lags : \E ts \in {Enrich(Head(inbox).hours, now - lag)} :
                       /\ Insert(ts, Head(inbox).value, "feed", Head(inbox).src)
                       /\ misdated' = IF ts = Head(inbox).src.at THEN misdated
                                      ELSE misdated \cup {<<Head(inbox).src, now - lag>>}
<1> DEFINE u == Head(inbox)
<1>1. /\ proc = "up" /\ inbox # <<>> /\ inbox' = Tail(inbox)
      /\ UNCHANGED <<now, current, sent, valued, gap, proc, map, table, toSeed, fails, client>>
  BY DEF Process, feed, seeding
<1>2. u \in Update
  BY <1>1, InboxTyped DEF ProcessTyped
<1>3. u.src \in Measurement /\ (Valid(u) => u.value \in Values)
  BY <1>2 DEF Update, Valid
<1>4. \/ ~Valid(u) /\ UNCHANGED <<rows, misdated>>
      \/ /\ Valid(u)
         /\ \E lag \in Lags : \E ts \in {Enrich(u.hours, now - lag)} :
               /\ Insert(ts, u.value, "feed", u.src)
               /\ misdated' = IF ts = u.src.at THEN misdated
                              ELSE misdated \cup {<<u.src, now - lag>>}
  BY Zenon DEF Process, store
<1> QED
  BY <1>1, <1>2, <1>3, <1>4

\* An update goes to the end of the queue; the others were there before.
LEMMA EnqueueMoves ==
    ASSUME ProcessTyped, NEW u \in Update
    PROVE  /\ \A i \in DOMAIN Enqueue(u) :
                 \/ Enqueue(u)[i] = u
                 \/ \E j \in DOMAIN inbox : Enqueue(u)[i] = inbox[j]
           /\ \E i \in DOMAIN Enqueue(u) : Enqueue(u)[i] = u
           /\ Len(inbox) # MaxInbox =>
                 \A j \in DOMAIN inbox :
                    \E i \in DOMAIN Enqueue(u) : Enqueue(u)[i] = inbox[j]
<1>1. MaxInbox \in Nat \ {0} /\ inbox \in Seq(Update)
  BY Parameters DEF ProcessTyped
<1>2. CASE Len(inbox) = MaxInbox
  <2>1. inbox # <<>> /\ Enqueue(u) = Append(Tail(inbox), u)
    BY <1>1, <1>2 DEF Enqueue
  <2>2. /\ Tail(inbox) \in Seq(Update)
        /\ \A i \in DOMAIN Tail(inbox) : i + 1 \in DOMAIN inbox /\ Tail(inbox)[i] = inbox[i + 1]
    BY <1>1, <2>1
  <2>3. PICK t \in Seq(Update) : t = Tail(inbox)
    BY <2>2
  <2>4. /\ \A i \in DOMAIN Append(t, u) :
             \/ Append(t, u)[i] = u
             \/ i \in DOMAIN t /\ Append(t, u)[i] = t[i]
        /\ Len(t) + 1 \in DOMAIN Append(t, u) /\ Append(t, u)[Len(t) + 1] = u
    OBVIOUS
  <2> QED
    BY <1>2, <2>1, <2>2, <2>3, <2>4
<1>3. CASE Len(inbox) # MaxInbox
  <2>1. Enqueue(u) = Append(inbox, u)
    BY <1>3 DEF Enqueue
  <2>2. /\ \A i \in DOMAIN Append(inbox, u) :
             \/ Append(inbox, u)[i] = u
             \/ i \in DOMAIN inbox /\ Append(inbox, u)[i] = inbox[i]
        /\ \A j \in DOMAIN inbox : j \in DOMAIN Append(inbox, u) /\ Append(inbox, u)[j] = inbox[j]
        /\ Len(inbox) + 1 \in DOMAIN Append(inbox, u)
        /\ Append(inbox, u)[Len(inbox) + 1] = u
    BY <1>1
  <2> QED
    BY <2>1, <2>2
<1> QED
  BY <1>2, <1>3

\* Taking the head leaves the others where they were, one place on.
LEMMA TailMoves ==
    ASSUME ProcessTyped, inbox # <<>>
    PROVE  /\ \A i \in DOMAIN Tail(inbox) :
                 \E j \in DOMAIN inbox : Tail(inbox)[i] = inbox[j]
           /\ \A j \in DOMAIN inbox :
                 \/ inbox[j] = Head(inbox)
                 \/ \E i \in DOMAIN Tail(inbox) : Tail(inbox)[i] = inbox[j]
           /\ \E j \in DOMAIN inbox : Head(inbox) = inbox[j]
<1>1. inbox \in Seq(Update)
  BY DEF ProcessTyped
<1>2. \A i \in DOMAIN Tail(inbox) : i + 1 \in DOMAIN inbox /\ Tail(inbox)[i] = inbox[i + 1]
  BY <1>1
<1>3. 1 \in DOMAIN inbox /\ Head(inbox) = inbox[1]
  BY <1>1
<1>4. \A j \in DOMAIN inbox : j = 1 \/ (j - 1 \in DOMAIN Tail(inbox) /\ Tail(inbox)[j - 1] = inbox[j])
  BY <1>1
<1> QED
  BY <1>2, <1>3, <1>4

LEMMA TypesStep == TypeOK /\ [Next]_vars => TypeOK'
<1> SUFFICES ASSUME FeedTyped, ProcessTyped, RowsTyped, ChannelsTyped, [Next]_vars
             PROVE  FeedTyped' /\ ProcessTyped' /\ RowsTyped' /\ ChannelsTyped'
  BY TypesAre, PTL
<1> USE DEF feed, ingestion, store, seeding
<1>1. CASE Tick
  <2>1. now' \in StartTime..MaxTime
    BY <1>1, Parameters DEF Tick, FeedTyped
  <2> QED
    BY <1>1, <2>1 DEF Tick, FeedTyped, ProcessTyped, RowsTyped, ChannelsTyped
<1>2. CASE Measure \/ Reconnect
  BY <1>2 DEF Measure, Reconnect, FeedTyped, ProcessTyped, RowsTyped, ChannelsTyped
<1>3. CASE Start
  <2>1. map' \subseteq Channels /\ map' # {} /\ proc' = "up"
    BY <1>3 DEF Start, ActiveChannels
  <2> QED
    BY <1>3, <2>1 DEF Start, FeedTyped, ProcessTyped, RowsTyped, ChannelsTyped
<1>4. CASE Crash
  <2>1. inbox' \in Seq(Update) /\ Len(inbox') <= MaxInbox
    BY <1>4, Parameters DEF Crash
  <2> QED
    BY <1>4, <2>1 DEF Crash, FeedTyped, ProcessTyped, RowsTyped, ChannelsTyped
<1>5. CASE Receive
  <2>1. current \in Measurement
    BY <1>5 DEF Receive, FeedTyped
  <2>2. Delta(current) \in Update
    BY <2>1, DeltaTyped
  <2>3. inbox' \in Seq(Update) /\ Len(inbox') <= MaxInbox
    BY <1>5, <2>2, InboxTyped DEF Receive, ProcessTyped
  <2>4. valued' \in Measurement \cup {None} /\ gap' \in BOOLEAN
    BY <1>5, <2>1 DEF Receive, FeedTyped
  <2> QED
    BY <1>5, <2>1, <2>3, <2>4 DEF Receive, FeedTyped, ProcessTyped, RowsTyped, ChannelsTyped
<1>6. CASE Process
  <2>1. /\ proc = "up" /\ inbox # <<>> /\ inbox' = Tail(inbox)
        /\ Head(inbox) \in Update /\ Head(inbox).src \in Measurement
        /\ UNCHANGED <<now, current, sent, valued, gap, proc, map, table, toSeed, fails,
                       client>>
        /\ \/ ~Valid(Head(inbox)) /\ UNCHANGED <<rows, misdated>>
           \/ /\ Valid(Head(inbox)) /\ Head(inbox).value \in Values
              /\ \E lag \in Lags : \E ts \in {Enrich(Head(inbox).hours, now - lag)} :
                    /\ Insert(ts, Head(inbox).value, "feed", Head(inbox).src)
                    /\ misdated' = IF ts = Head(inbox).src.at THEN misdated
                                   ELSE misdated \cup {<<Head(inbox).src, now - lag>>}
    BY <1>6, Processed
  <2>2. inbox' \in Seq(Update) /\ Len(inbox') <= MaxInbox
    BY <2>1, InboxTyped DEF ProcessTyped
  <2>3. RowsTyped'
    <3>1. CASE UNCHANGED <<rows, misdated>>
      BY <3>1 DEF RowsTyped
    <3>2. CASE ~UNCHANGED <<rows, misdated>>
      <4> PICK lag \in Lags : \E ts \in {Enrich(Head(inbox).hours, now - lag)} :
               /\ Insert(ts, Head(inbox).value, "feed", Head(inbox).src)
               /\ misdated' = IF ts = Head(inbox).src.at THEN misdated
                              ELSE misdated \cup {<<Head(inbox).src, now - lag>>}
        BY <2>1, <3>2
      <4>1. PICK ts \in {Enrich(Head(inbox).hours, now - lag)} :
               /\ Insert(ts, Head(inbox).value, "feed", Head(inbox).src)
               /\ misdated' = IF ts = Head(inbox).src.at THEN misdated
                              ELSE misdated \cup {<<Head(inbox).src, now - lag>>}
        OBVIOUS
      <4>2. now - lag \in Int /\ YearStart[1] <= now - lag /\ LastYear >= 1
        BY ClockLater DEF FeedTyped
      <4>3. Head(inbox).hours \in Int \cup {NoField} /\ Head(inbox).value \in Values
        BY <2>1, <3>2 DEF Update
      <4>4. ts \in Int
        BY <4>2, <4>3, DatesTyped
      <4>5. rows' \subseteq Row
        BY <2>1, <4>1, <4>3, <4>4, InsertTyped DEF RowsTyped
      <4>6. misdated' \subseteq Measurement \X Int
        BY <2>1, <4>1, <4>2 DEF RowsTyped
      <4> QED
        BY <4>5, <4>6 DEF RowsTyped
    <3> QED
      BY <3>1, <3>2
  <2> QED
    BY <2>1, <2>2, <2>3 DEF FeedTyped, ProcessTyped, ChannelsTyped
<1>7. CASE FlushFails
  <2>1. inbox' \in Seq(Update) /\ Len(inbox') <= MaxInbox
    BY <1>7, InboxTyped DEF FlushFails, ProcessTyped
  <2> QED
    BY <1>7, <2>1 DEF FlushFails, FeedTyped, ProcessTyped, RowsTyped, ChannelsTyped
<1>8. CASE BeginSeed
  BY <1>8, Parameters DEF BeginSeed, FeedTyped, ProcessTyped, RowsTyped, ChannelsTyped
<1>9. CASE SeedOne
  <2>1. Head(toSeed) \in Channels /\ Tail(toSeed) \in Seq(Channels)
    BY <1>9 DEF SeedOne, ChannelsTyped
  <2> QED
    BY <1>9, <2>1 DEF SeedOne, FeedTyped, ProcessTyped, RowsTyped, ChannelsTyped
<1>10. CASE SeedFails
  <2>1. fails' \in 0..MaxFails
    BY <1>10, Parameters DEF SeedFails, ChannelsTyped
  <2> QED
    BY <1>10, <2>1 DEF SeedFails, FeedTyped, ProcessTyped, RowsTyped, ChannelsTyped
<1>11. CASE \E c \in Clients : Lookup(c)
  BY <1>11 DEF Lookup, FeedTyped, ProcessTyped, RowsTyped, ChannelsTyped
<1>12. CASE \E c \in Clients : Create(c)
  <2>1. PICK c \in Clients, ts \in InjectTimes, v \in Values : Insert(ts, v, "client", None)
    BY <1>12 DEF Create
  <2>2. ts \in Int
    BY Parameters
  <2>3. rows' \subseteq Row
    BY <2>1, <2>2, InsertTyped DEF RowsTyped
  <2> QED
    BY <1>12, <2>3 DEF Create, FeedTyped, ProcessTyped, RowsTyped, ChannelsTyped
<1>13. CASE UNCHANGED vars
  BY <1>13 DEF vars, FeedTyped, ProcessTyped, RowsTyped, ChannelsTyped
<1> QED
  BY <1>1, <1>2, <1>3, <1>4, <1>5, <1>6, <1>7, <1>8, <1>9, <1>10, <1>11, <1>12, <1>13
     DEF Next

LEMMA TypesInit == Init => TypeOK
<1> SUFFICES ASSUME Init
             PROVE  FeedTyped /\ ProcessTyped /\ RowsTyped /\ ChannelsTyped
  BY TypesAre
<1>1. FeedTyped /\ ProcessTyped
  <2>1. StartTime \in StartTime..MaxTime
    BY Parameters
  <2>2. <<>> \in Seq(Update) /\ Len(<<>>) <= MaxInbox
    BY Parameters
  <2> QED
    BY <2>1, <2>2 DEF Init, FeedTyped, ProcessTyped
<1>2. RowsTyped /\ ChannelsTyped
  BY Parameters DEF Init, RowsTyped, ChannelsTyped
<1> QED
  BY <1>1, <1>2

\* Whatever hours, clocks, clients and interrupted seedings there are, the tables and the
\* queue keep their types, and a process that is up has channels.
THEOREM TypeCorrect == Spec => []TypeOK
BY TypesInit, TypesStep, PTL DEF Spec

-----------------------------------------------------------------------------
(* The invariant                                                           *)

\* What the process and the tables know of the measurements.
Sources == {r.src : r \in rows} \cup {inbox[i].src : i \in DOMAIN inbox}

Known == ({current, sent, valued} \cup Sources) \ {None}

\* Measurements have different times, and the feed's is the newest.
Ordered ==
    /\ \A a, b \in Known : a.at = b.at => a = b
    /\ \A a \in Known : current # None /\ a.at <= current.at

\* valued is the newest measurement whose update carried the Value field.
FromValued(m) == valued # None /\ m.at <= valued.at

\* An update is about its measurement.
UpdateTrue(u) ==
    /\ u.hours = Hours(u.src.at)
    /\ Valid(u) => u.value = u.src.value /\ FromValued(u.src)

UpdatesTrue == \A i \in DOMAIN inbox : UpdateTrue(inbox[i])

\* A row from the feed holds the value of its measurement.
RowTrue(r) ==
    \/ r.by = "client" /\ r.src = None
    \/ r.by = "feed" /\ r.src # None /\ r.value = r.src.value /\ FromValued(r.src)

RowsTrue == \A r \in rows : RowTrue(r)

OneRowPerTime == \A r, q \in rows : r.at = q.at => r = q

\* Updates without a value come after one with the same value.
ValueKnown == sent # None => valued # None /\ valued.value = sent.value

HasRow == \E r \in rows : r.at = valued.at /\ (r.by = "feed" => r.value = valued.value)

UnderWay == \E i \in DOMAIN inbox : Valid(inbox[i]) /\ inbox[i].src = valued

\* The measurement that brought the current value has its row, or will have.
Held ==
    proc = "up" /\ sent # None /\ ~gap /\ misdated = {} => HasRow \/ UnderWay

StoreInv ==
    /\ Ordered /\ UpdatesTrue /\ RowsTrue /\ TimestampsAreTrue /\ OneRowPerTime
    /\ ValueKnown /\ Held

-----------------------------------------------------------------------------
(* Measurements in order                                                   *)

Content == <<current, sent, valued, gap, proc, inbox, rows, misdated>>

\* Steps of time, of the seeding and the first step of an injection.
LEMMA QuietSteps ==
    ASSUME [Next]_vars
    PROVE  \/ UNCHANGED Content
           \/ Measure \/ Reconnect \/ Start \/ Crash \/ Receive \/ Process \/ FlushFails
           \/ \E c \in Clients : Create(c)
BY DEF Next, Tick, BeginSeed, SeedOne, SeedFails, Lookup, vars, feed, ingestion, store,
       seeding, Content

LEMMA QuietKeeps == StoreInv /\ UNCHANGED Content => StoreInv'
BY DEF StoreInv, Content, Ordered, Known, Sources, UpdatesTrue, UpdateTrue, FromValued, Valid,
       RowsTrue, RowTrue, TimestampsAreTrue, Misdated, OneRowPerTime, ValueKnown, Held, HasRow,
       UnderWay

\* The row an Insert leaves for a time: the one that was there, or the new one.
LEMMA Inserted ==
    ASSUME NEW ts, NEW v, NEW by, NEW src, Insert(ts, v, by, src)
    PROVE  \E e : /\ e = [at |-> ts, value |-> v, by |-> by, src |-> src]
                  /\ rows' = IF Taken(ts) THEN rows ELSE rows \cup {e}
                  /\ \E r \in rows' : r.at = ts /\ (r = e \/ r \in rows)
<1> PICK e : e = [at |-> ts, value |-> v, by |-> by, src |-> src]
  OBVIOUS
<1>1. e.at = ts
  OBVIOUS
<1> QED
  BY <1>1 DEF Insert, Taken

\* Nothing is known of a measurement that the feed did not have.
LEMMA NothingNew ==
    ASSUME TypeOK, [Next]_vars, ~Measure
    PROVE  Known' \subseteq Known /\ current' = current
<1>1. FeedTyped /\ ProcessTyped /\ RowsTyped
  BY TypesAre
<1>2. CASE UNCHANGED Content
  BY <1>2 DEF Content, Known, Sources
<1>3. CASE Reconnect \/ Start
  BY <1>3 DEF Reconnect, Start, Known, Sources, ingestion, store, seeding
<1>4. CASE Crash
  BY <1>4 DEF Crash, Known, Sources, feed, store, seeding
<1>5. CASE Receive
  <2>1. /\ inbox' = Enqueue(Delta(current)) /\ sent' = current
        /\ valued' \in {current, valued} /\ current' = current /\ rows' = rows
        /\ current \in Measurement
    BY <1>1, <1>5 DEF Receive, store, FeedTyped
  <2>2. Delta(current) \in Update /\ Delta(current).src = current
    BY <1>1, <2>1, DeltaTyped DEF Delta
  <2>3. \A i \in DOMAIN inbox' :
           inbox'[i].src = current \/ \E j \in DOMAIN inbox : inbox'[i].src = inbox[j].src
    BY <1>1, <2>1, <2>2, EnqueueMoves
  <2>4. Sources' \subseteq Sources \cup {current}
    BY <2>1, <2>3 DEF Sources
  <2> QED
    BY <2>1, <2>4 DEF Known
<1>6. CASE Process
  <2>1. /\ inbox # <<>> /\ inbox' = Tail(inbox) /\ UNCHANGED <<current, sent, valued>>
        /\ \/ rows' = rows
           \/ \E ts : Insert(ts, Head(inbox).value, "feed", Head(inbox).src)
    BY <1>1, <1>6, Processed
  <2>2. /\ \A i \in DOMAIN inbox' : \E j \in DOMAIN inbox : inbox'[i] = inbox[j]
        /\ \E j \in DOMAIN inbox : Head(inbox) = inbox[j]
    BY <1>1, <2>1, TailMoves
  <2>3. \A r \in rows' : r \in rows \/ r.src = Head(inbox).src
    BY <2>1, Inserted
  <2>4. Sources' \subseteq Sources
    BY <2>2, <2>3 DEF Sources
  <2> QED
    BY <2>1, <2>4 DEF Known
<1>7. CASE FlushFails
  <2>1. /\ inbox # <<>> /\ inbox' = Tail(inbox)
        /\ UNCHANGED <<current, sent, valued, rows>>
    BY <1>7 DEF FlushFails, store
  <2>2. \A i \in DOMAIN inbox' : \E j \in DOMAIN inbox : inbox'[i] = inbox[j]
    BY <1>1, <2>1, TailMoves
  <2> QED
    BY <2>1, <2>2 DEF Known, Sources
<1>8. CASE \E c \in Clients : Create(c)
  <2>1. PICK ts \in InjectTimes, v \in Values : Insert(ts, v, "client", None)
    BY <1>8 DEF Create
  <2>2. \A r \in rows' : r \in rows \/ r.src = None
    BY <2>1, Inserted
  <2>3. UNCHANGED <<current, sent, valued, inbox>>
    BY <1>8 DEF Create, feed, ingestion
  <2> QED
    BY <2>2, <2>3 DEF Known, Sources
<1> QED
  BY <1>2, <1>3, <1>4, <1>5, <1>6, <1>7, <1>8, QuietSteps

\* All that is known are measurements.
LEMMA KnownTyped ==
    ASSUME TypeOK
    PROVE  \A m \in Known : m \in Measurement /\ m.at \in Int
<1>1. FeedTyped /\ ProcessTyped /\ RowsTyped
  BY TypesAre
<1>2. \A r \in rows : r.src \in Measurement \cup {None}
  BY <1>1 DEF RowsTyped, Row
<1>3. \A i \in DOMAIN inbox : inbox[i].src \in Measurement
  <2>1. \A i \in DOMAIN inbox : inbox[i] \in Update
    BY <1>1 DEF ProcessTyped
  <2> QED
    BY <2>1 DEF Update
<1>4. \A m \in Known : m \in Measurement
  BY <1>1, <1>2, <1>3 DEF FeedTyped, Known, Sources
<1> QED
  BY <1>4, Measured

LEMMA OrderedStep ==
    ASSUME TypeOK, TypeOK', Ordered, [Next]_vars
    PROVE  Ordered'
<1>1. CASE ~Measure
  BY <1>1, NothingNew DEF Ordered
<1>2. CASE Measure
  <2>1. PICK m \in Measurement : (current # None => current.at < m.at) /\ current' = m
    BY <1>2 DEF Measure
  <2>2. Known' \subseteq Known \cup {m}
    BY <1>2, <2>1 DEF Measure, Known, Sources, ingestion, store, seeding
  <2>3. \A a \in Known : a.at \in Int /\ m.at \in Int /\ m # None
    BY <2>1, KnownTyped, Measured
  <2>4. current # None => current \in Known
    BY DEF Known
  <2>5. \A a \in Known : a.at < m.at
    BY <2>1, <2>3, <2>4 DEF Ordered
  <2>6. m.at \in Int /\ m # None
    BY <2>1, Measured
  <2>7. \A a, b \in Known \cup {m} : a.at = b.at => a = b
    BY <2>3, <2>5, <2>6 DEF Ordered
  <2>8. \A a \in Known \cup {m} : a.at <= m.at
    BY <2>3, <2>5, <2>6
  <2> QED
    BY <2>1, <2>2, <2>6, <2>7, <2>8 DEF Ordered
<1> QED
  BY <1>1, <1>2

-----------------------------------------------------------------------------
(* Updates and rows are about their measurements                           *)

\* The newest measurement that came with a value only becomes newer.
LEMMA ValuedGrows ==
    ASSUME TypeOK, Ordered, [Next]_vars, NEW m \in Measurement, FromValued(m)
    PROVE  FromValued(m)'
<1>1. CASE Receive
  <2>1. valued' = valued \/ (valued' = current /\ current # None)
    BY <1>1 DEF Receive
  <2>2. valued \in Known /\ m.at \in Int
    BY Measured DEF FromValued, Known
  <2>3. valued.at \in Int /\ current # None /\ valued.at <= current.at
    BY <2>2, KnownTyped DEF Ordered
  <2>4. current \in Known
    BY <2>3 DEF Known
  <2>5. current.at \in Int
    BY <2>4, KnownTyped
  <2> QED
    BY <2>1, <2>2, <2>3, <2>5 DEF FromValued
<1>2. CASE ~Receive
  <2>1. valued' = valued
    BY <1>2, QuietSteps, Processed, TypesAre
       DEF Content, Measure, Reconnect, Start, Crash, FlushFails, Create, feed
  <2> QED
    BY <2>1 DEF FromValued
<1> QED
  BY <1>1, <1>2

LEMMA UpdatesStep ==
    ASSUME TypeOK, Ordered, UpdatesTrue, [Next]_vars
    PROVE  UpdatesTrue'
<1>1. FeedTyped /\ ProcessTyped /\ RowsTyped
  BY TypesAre
<1>2. ASSUME NEW u \in Update, UpdateTrue(u)
      PROVE  UpdateTrue(u)'
  <2>1. u.src \in Measurement
    BY DEF Update
  <2>2. PICK m \in Measurement : m = u.src
    BY <2>1
  <2>3. FromValued(m) => FromValued(m)'
    BY ValuedGrows
  <2>4. FromValued(u.src) => FromValued(u.src)'
    BY <2>2, <2>3
  <2> QED
    BY <1>2, <2>4 DEF UpdateTrue, Valid
<1>3. \A j \in DOMAIN inbox : inbox[j] \in Update /\ UpdateTrue(inbox[j])
  BY <1>1 DEF ProcessTyped, UpdatesTrue
<1>4. CASE UNCHANGED inbox
  BY <1>2, <1>3, <1>4 DEF UpdatesTrue
<1>5. CASE Crash
  BY <1>5 DEF Crash, UpdatesTrue
<1>6. CASE Process \/ FlushFails
  <2>1. inbox # <<>> /\ inbox' = Tail(inbox)
    BY <1>1, <1>6, Processed DEF FlushFails
  <2>2. \A i \in DOMAIN inbox' : \E j \in DOMAIN inbox : inbox'[i] = inbox[j]
    BY <1>1, <2>1, TailMoves
  <2> QED
    BY <1>2, <1>3, <2>2 DEF UpdatesTrue
<1>7. CASE Receive
  <2>1. /\ inbox' = Enqueue(Delta(current)) /\ current \in Measurement
        /\ valued' = IF Valid(Delta(current)) THEN current ELSE valued
    BY <1>1, <1>7 DEF Receive, FeedTyped
  <2>2. PICK u \in Update : u = Delta(current)
    BY <1>1, <2>1, DeltaTyped
  <2>3. /\ u.hours = Hours(current.at) /\ u.src = current
        /\ Valid(u) => u.value = current.value
    BY <2>2 DEF Delta, Valid
  <2>4. current # None /\ current.at \in Int
    BY <2>1, Measured
  <2>5. UpdateTrue(u)'
    BY <2>1, <2>2, <2>3, <2>4 DEF UpdateTrue, Valid, FromValued
  <2>6. \A i \in DOMAIN inbox' : inbox'[i] = u \/ \E j \in DOMAIN inbox : inbox'[i] = inbox[j]
    BY <1>1, <2>1, <2>2, EnqueueMoves
  <2> QED
    BY <1>2, <1>3, <2>5, <2>6 DEF UpdatesTrue
<1> QED
  BY <1>4, <1>5, <1>6, <1>7, QuietSteps
     DEF Content, Measure, Reconnect, Start, Create, ingestion

\* What Process does, given that updates are true: it leaves the rows, or inserts the
\* measurement of the head, dated as its time unless that was not datable.
LEMMA ProcessInserts ==
    ASSUME TypeOK, UpdatesTrue, Process
    PROVE  \/ ~Valid(Head(inbox)) /\ UNCHANGED <<rows, misdated>>
           \/ \E clock \in Int : \E ts \in Int : \E m \in Measurement :
                 /\ Valid(Head(inbox)) /\ m = Head(inbox).src /\ FromValued(m)
                 /\ Insert(ts, m.value, "feed", m)
                 /\ \/ ts = m.at /\ misdated' = misdated
                    \/ ~Datable(m.at, clock) /\ misdated' = misdated \cup {<<m, clock>>}
<1>1. FeedTyped /\ ProcessTyped /\ RowsTyped
  BY TypesAre
<1> DEFINE u == Head(inbox)
<1>2. /\ inbox # <<>> /\ u \in Update /\ u.src \in Measurement
      /\ \/ ~Valid(u) /\ UNCHANGED <<rows, misdated>>
         \/ /\ Valid(u) /\ u.value \in Values
            /\ \E lag \in Lags : \E ts \in {Enrich(u.hours, now - lag)} :
                  /\ Insert(ts, u.value, "feed", u.src)
                  /\ misdated' = IF ts = u.src.at THEN misdated
                                 ELSE misdated \cup {<<u.src, now - lag>>}
  BY <1>1, Processed
<1>3. UpdateTrue(u)
  BY <1>1, <1>2, TailMoves DEF UpdatesTrue
<1> HIDE DEF u
<1>4. ASSUME Valid(u), NEW lag \in Lags,
             \E ts \in {Enrich(u.hours, now - lag)} :
                  /\ Insert(ts, u.value, "feed", u.src)
                  /\ misdated' = IF ts = u.src.at THEN misdated
                                 ELSE misdated \cup {<<u.src, now - lag>>}
      PROVE  \E clock \in Int : \E ts \in Int : \E m \in Measurement :
                 /\ m = u.src /\ FromValued(m)
                 /\ Insert(ts, m.value, "feed", m)
                 /\ \/ ts = m.at /\ misdated' = misdated
                    \/ ~Datable(m.at, clock) /\ misdated' = misdated \cup {<<m, clock>>}
  <2>1. PICK clock \in Int : clock = now - lag /\ YearStart[1] <= clock /\ LastYear >= 1
    BY <1>1, ClockLater DEF FeedTyped
  <2>2. PICK m \in Measurement : m = u.src
    BY <1>2
  <2>3. u.hours = Hours(m.at) /\ u.value = m.value /\ FromValued(m)
    BY <1>3, <1>4, <2>2 DEF UpdateTrue
  <2>4. m.at \in Int /\ YearStart[0] <= m.at /\ Hours(m.at) \in Int
    BY Measured
  <2>5. PICK ts \in Int : ts = Enrich(Hours(m.at), clock)
    BY <2>1, <2>4, DatesTyped
  <2>6. /\ Insert(ts, m.value, "feed", m)
        /\ misdated' = IF ts = m.at THEN misdated ELSE misdated \cup {<<m, clock>>}
    BY <1>4, <2>1, <2>2, <2>3, <2>5
  <2>7. ts = m.at \/ ~Datable(m.at, clock)
    BY <2>1, <2>4, <2>5, MisdatedWasNotDatable
  <2> QED
    BY <2>2, <2>3, <2>6, <2>7
<1> QED
  BY <1>2, <1>4 DEF u

\* What a row may hold at once: a row of another step stays as it was.
LEMMA RowsStep ==
    ASSUME TypeOK, Ordered, UpdatesTrue, RowsTrue, [Next]_vars
    PROVE  RowsTrue'
<1>1. rows \subseteq Row
  BY DEF TypeOK
<1>2. ASSUME NEW r \in rows
      PROVE  RowTrue(r)'
  <2>1. RowTrue(r) /\ r.src \in Measurement \cup {None}
    BY <1>1 DEF RowsTrue, Row
  <2>2. CASE r.src = None
    BY <2>1, <2>2 DEF RowTrue
  <2>3. CASE r.src # None
    <3>1. PICK m \in Measurement : m = r.src
      BY <2>1, <2>3
    <3>2. FromValued(m) => FromValued(m)'
      BY ValuedGrows
    <3>3. FromValued(r.src) => FromValued(r.src)'
      BY <3>1, <3>2
    <3> QED
      BY <2>1, <3>3 DEF RowTrue
  <2> QED
    BY <2>2, <2>3
<1>3. CASE UNCHANGED rows
  BY <1>2, <1>3 DEF RowsTrue
<1>4. CASE Process
  <2>1. CASE UNCHANGED rows
    BY <1>3, <2>1
  <2>2. CASE ~UNCHANGED rows
    <3>1. PICK clock \in Int, ts \in Int, m \in Measurement :
             FromValued(m) /\ Insert(ts, m.value, "feed", m)
      BY <1>4, <2>2, ProcessInserts
    <3>2. PICK e : /\ e = [at |-> ts, value |-> m.value, by |-> "feed", src |-> m]
                   /\ rows' = IF Taken(ts) THEN rows ELSE rows \cup {e}
      BY <3>1, Inserted
    <3>3. e.by = "feed" /\ e.src = m /\ e.value = m.value /\ m # None
      BY <3>2, Measured
    <3>4. FromValued(m)'
      BY <3>1, ValuedGrows
    <3>5. FromValued(e.src)'
      BY <3>3, <3>4 DEF FromValued
    <3>6. RowTrue(e)'
      BY <3>3, <3>5 DEF RowTrue
    <3> QED
      BY <1>2, <3>2, <3>6 DEF RowsTrue
  <2> QED
    BY <2>1, <2>2
<1>5. CASE \E c \in Clients : Create(c)
  <2>1. PICK ts \in InjectTimes, v \in Values : Insert(ts, v, "client", None)
    BY <1>5 DEF Create
  <2>2. PICK e : /\ e = [at |-> ts, value |-> v, by |-> "client", src |-> None]
                 /\ rows' = IF Taken(ts) THEN rows ELSE rows \cup {e}
    BY <2>1, Inserted
  <2>3. RowTrue(e)'
    BY <2>2 DEF RowTrue
  <2> QED
    BY <1>2, <2>2, <2>3 DEF RowsTrue
<1> QED
  BY <1>3, <1>4, <1>5, QuietSteps
     DEF Content, Measure, Reconnect, Start, Crash, Receive, FlushFails, store

-----------------------------------------------------------------------------
(* Rows are dated true, and unique                                         *)

\* A row already there keeps its time; a new one has the time of its measurement, or the
\* measurement was not datable.
LEMMA DatedStep ==
    ASSUME TypeOK, UpdatesTrue, TimestampsAreTrue, [Next]_vars
    PROVE  TimestampsAreTrue'
<1>1. CASE UNCHANGED <<rows, misdated>>
  BY <1>1 DEF TimestampsAreTrue, Misdated
<1>2. CASE Process /\ ~UNCHANGED <<rows, misdated>>
  <2>1. PICK clock \in Int, ts \in Int, m \in Measurement :
           /\ Insert(ts, m.value, "feed", m)
           /\ \/ ts = m.at /\ misdated' = misdated
              \/ ~Datable(m.at, clock) /\ misdated' = misdated \cup {<<m, clock>>}
    BY <1>2, ProcessInserts
  <2>2. PICK e : /\ e = [at |-> ts, value |-> m.value, by |-> "feed", src |-> m]
                 /\ rows' = IF Taken(ts) THEN rows ELSE rows \cup {e}
    BY <2>1, Inserted
  <2>3. e.at = ts /\ e.src = m
    BY <2>2
  <2>4. misdated \subseteq misdated'
    BY <2>1
  <2> PICK d : d = <<m, clock>>
    OBVIOUS
  <2>5. /\ d[1] = m /\ d[2] = clock
        /\ \/ ts = m.at /\ misdated' = misdated
           \/ ~Datable(m.at, clock) /\ misdated' = misdated \cup {d}
    BY <2>1
  <2>6. /\ \A c \in misdated' : ~Datable(c[1].at, c[2])
        /\ ts = m.at \/ Misdated(m)'
    BY <2>5, Zenon DEF TimestampsAreTrue, Misdated
  <2>7. \A r \in rows : r.by = "feed" /\ r.at # r.src.at => Misdated(r.src)'
    BY <2>4 DEF TimestampsAreTrue, Misdated
  <2> QED
    BY <2>2, <2>3, <2>6, <2>7 DEF TimestampsAreTrue, Misdated
<1>3. CASE \E c \in Clients : Create(c)
  <2>1. PICK ts \in InjectTimes, v \in Values : Insert(ts, v, "client", None)
    BY <1>3 DEF Create
  <2>2. PICK e : /\ e = [at |-> ts, value |-> v, by |-> "client", src |-> None]
                 /\ rows' = IF Taken(ts) THEN rows ELSE rows \cup {e}
    BY <2>1, Inserted
  <2>3. e.by # "feed" /\ misdated' = misdated
    BY <1>3, <2>2 DEF Create
  <2> QED
    BY <2>2, <2>3 DEF TimestampsAreTrue, Misdated
<1> QED
  BY <1>1, <1>2, <1>3, QuietSteps
     DEF Content, Measure, Reconnect, Start, Crash, Receive, FlushFails, store

LEMMA UniqueStep ==
    ASSUME TypeOK, UpdatesTrue, OneRowPerTime, [Next]_vars
    PROVE  OneRowPerTime'
<1>1. CASE UNCHANGED rows
  BY <1>1 DEF OneRowPerTime
<1>2. ASSUME NEW ts, NEW v, NEW by, NEW src, Insert(ts, v, by, src)
      PROVE  OneRowPerTime'
  <2>1. PICK e : /\ e = [at |-> ts, value |-> v, by |-> by, src |-> src]
                 /\ rows' = IF Taken(ts) THEN rows ELSE rows \cup {e}
    BY <1>2, Inserted
  <2>2. e.at = ts
    BY <2>1
  <2> QED
    BY <2>1, <2>2 DEF OneRowPerTime, Taken
<1>3. CASE Process
  BY <1>1, <1>2, <1>3, ProcessInserts
<1>4. CASE \E c \in Clients : Create(c)
  BY <1>2, <1>4 DEF Create
<1> QED
  BY <1>1, <1>3, <1>4, QuietSteps
     DEF Content, Measure, Reconnect, Start, Crash, Receive, FlushFails, store

-----------------------------------------------------------------------------
(* The store catches up                                                    *)

\* An update lacks its value only after one with the same value.
LEMMA ValueKnownStep ==
    ASSUME TypeOK, ValueKnown, [Next]_vars
    PROVE  ValueKnown'
<1>1. CASE Receive
  <2>1. /\ current \in Measurement /\ sent' = current
        /\ valued' = IF Valid(Delta(current)) THEN current ELSE valued
    BY <1>1 DEF Receive, TypeOK
  <2>2. current.value # NoField /\ current # None
    BY <2>1, Measured
  <2>3. ~Valid(Delta(current)) => sent # None /\ sent.value = current.value
    BY <2>2 DEF Valid, Delta
  <2> QED
    BY <2>1, <2>2, <2>3 DEF ValueKnown
<1>2. CASE sent' = None
  BY <1>2 DEF ValueKnown
<1>3. CASE UNCHANGED <<sent, valued>>
  BY <1>3 DEF ValueKnown
<1> QED
  BY <1>1, <1>2, <1>3, QuietSteps, Processed, TypesAre
     DEF Content, Measure, Reconnect, Start, Crash, FlushFails, Create, feed

\* The tables only grow.
LEMMA StoreGrows ==
    ASSUME TypeOK, UpdatesTrue, [Next]_vars
    PROVE  rows \subseteq rows' /\ misdated \subseteq misdated'
<1>1. CASE Process
  BY <1>1, ProcessInserts DEF Insert
<1>2. CASE \E c \in Clients : Create(c)
  BY <1>2 DEF Create, Insert
<1> QED
  BY <1>1, <1>2, QuietSteps
     DEF Content, Measure, Reconnect, Start, Crash, Receive, FlushFails, store

\* Once the update of valued is taken from the queue, and nothing was ever misdated, its
\* time has a row: its own, an injected one, or one with the same measurement.
LEMMA ValuedIsWritten ==
    ASSUME TypeOK, Ordered, UpdatesTrue, RowsTrue, TimestampsAreTrue, Process,
           Valid(Head(inbox)), Head(inbox).src = valued, misdated = {}, misdated' = {}
    PROVE  HasRow'
<1>1. /\ inbox # <<>> /\ valued' = valued
  BY Processed, TypesAre
<1>2. PICK clock \in Int, ts \in Int, m \in Measurement :
         /\ m = valued /\ Insert(ts, m.value, "feed", m)
         /\ \/ ts = m.at /\ misdated' = misdated
            \/ ~Datable(m.at, clock) /\ misdated' = misdated \cup {<<m, clock>>}
  BY ProcessInserts
<1>3. ts = m.at /\ m # None
  BY <1>2, Measured
<1>4. PICK e : /\ e = [at |-> ts, value |-> m.value, by |-> "feed", src |-> m]
               /\ \E r \in rows' : r.at = ts /\ (r = e \/ r \in rows)
  BY <1>2, Inserted
<1>5. PICK r \in rows' : r.at = ts /\ (r = e \/ r \in rows)
  BY <1>4
<1>6. CASE r = e
  BY <1>1, <1>2, <1>3, <1>4, <1>5, <1>6 DEF HasRow
<1>7. ASSUME r \in rows, r.by = "feed"
      PROVE  r.value = valued.value
  <2>1. r.src # None /\ r.value = r.src.value /\ r.src.at = r.at
    BY <1>7 DEF RowsTrue, RowTrue, TimestampsAreTrue, Misdated
  <2>2. r.src \in Known /\ valued \in Known
    BY <1>2, <1>3, <1>7, <2>1 DEF Known, Sources
  <2>3. r.src = valued
    BY <1>2, <1>3, <1>5, <2>1, <2>2 DEF Ordered
  <2> QED
    BY <2>1, <2>3
<1> QED
  BY <1>1, <1>2, <1>3, <1>5, <1>6, <1>7 DEF HasRow

LEMMA HeldStep ==
    ASSUME TypeOK, StoreInv, [Next]_vars
    PROVE  Held'
<1> SUFFICES ASSUME proc' = "up", sent' # None, ~gap', misdated' = {}
             PROVE  HasRow' \/ UnderWay'
  BY DEF Held
<1> USE DEF StoreInv
<1>1. FeedTyped /\ ProcessTyped /\ RowsTyped
  BY TypesAre
<1>2. rows \subseteq rows' /\ misdated = {}
  BY StoreGrows
<1>3. valued' = valued /\ HasRow => HasRow'
  BY <1>2 DEF HasRow
<1>4. CASE UNCHANGED Content \/ Measure \/ \E c \in Clients : Create(c)
  <2>1. UNCHANGED <<sent, valued, gap, proc, inbox>>
    BY <1>4 DEF Content, Measure, Create, feed, ingestion
  <2>2. HasRow \/ UnderWay
    BY <1>2, <2>1 DEF Held
  <2>3. UnderWay => UnderWay'
    BY <2>1 DEF UnderWay, Valid
  <2> QED
    BY <1>3, <2>1, <2>2, <2>3
<1>5. ~Reconnect /\ ~Start /\ ~Crash /\ ~FlushFails
  BY DEF Reconnect, Start, Crash, FlushFails
<1>6. CASE Receive
  <2>1. /\ proc = "up" /\ current \in Measurement
        /\ inbox' = Enqueue(Delta(current))
        /\ gap' = (sent # None /\ (gap \/ Len(inbox) = MaxInbox))
        /\ valued' = IF Valid(Delta(current)) THEN current ELSE valued
    BY <1>1, <1>6 DEF Receive, FeedTyped
  <2>2. PICK u \in Update : u = Delta(current)
    BY <1>1, <2>1, DeltaTyped
  <2>3. CASE Valid(u)
    <3>1. u.src = valued'
      BY <2>1, <2>2, <2>3 DEF Delta
    <3>2. \E i \in DOMAIN inbox' : inbox'[i] = u
      BY <1>1, <2>1, <2>2, EnqueueMoves
    <3> QED
      BY <2>3, <3>1, <3>2 DEF UnderWay, Valid
  <2>4. CASE ~Valid(u)
    <3>1. sent # None
      BY <2>1, <2>2, <2>4, Measured DEF Delta, Valid
    <3>2. ~gap /\ Len(inbox) # MaxInbox /\ valued' = valued
      BY <2>1, <2>2, <2>4, <3>1
    <3>3. HasRow \/ UnderWay
      BY <1>2, <2>1, <3>1, <3>2 DEF Held
    <3>4. \A j \in DOMAIN inbox : \E i \in DOMAIN inbox' : inbox'[i] = inbox[j]
      BY <1>1, <2>1, <2>2, <3>2, EnqueueMoves
    <3>5. UnderWay => UnderWay'
      BY <3>2, <3>4 DEF UnderWay, Valid
    <3> QED
      BY <1>3, <3>2, <3>3, <3>5
  <2> QED
    BY <2>3, <2>4
<1>7. CASE Process
  <2>1. /\ inbox # <<>> /\ inbox' = Tail(inbox)
        /\ UNCHANGED <<sent, valued, gap, proc>>
    BY <1>1, <1>7, Processed
  <2>2. HasRow \/ UnderWay
    BY <1>2, <2>1 DEF Held
  <2>3. ASSUME NEW j \in DOMAIN inbox, Valid(inbox[j]), inbox[j].src = valued
        PROVE  HasRow' \/ UnderWay'
    <3>1. inbox[j] = Head(inbox) \/ \E i \in DOMAIN inbox' : inbox'[i] = inbox[j]
      BY <1>1, <2>1, TailMoves
    <3>2. CASE inbox[j] = Head(inbox)
      BY <1>2, <1>7, <2>3, <3>2, ValuedIsWritten
    <3>3. CASE \E i \in DOMAIN inbox' : inbox'[i] = inbox[j]
      BY <2>1, <2>3, <3>3 DEF UnderWay, Valid
    <3> QED
      BY <3>1, <3>2, <3>3
  <2> QED
    BY <1>3, <2>1, <2>2, <2>3 DEF UnderWay
<1> QED
  BY <1>4, <1>5, <1>6, <1>7, QuietSteps

LEMMA StoreInvInit == Init => StoreInv
BY DEF Init, StoreInv, Ordered, Known, Sources, UpdatesTrue, RowsTrue, TimestampsAreTrue,
       OneRowPerTime, ValueKnown, Held

LEMMA StoreInvariant == Spec => [](TypeOK /\ StoreInv)
<1>1. Init => TypeOK /\ StoreInv
  BY TypesInit, StoreInvInit
<1>2. TypeOK /\ StoreInv /\ [Next]_vars => (TypeOK /\ StoreInv)'
  <2> SUFFICES ASSUME TypeOK, StoreInv, [Next]_vars
               PROVE  (TypeOK /\ StoreInv)'
    OBVIOUS
  <2>1. TypeOK'
    BY TypesStep
  <2>2. Ordered' /\ UpdatesTrue' /\ RowsTrue' /\ TimestampsAreTrue' /\ OneRowPerTime'
    BY <2>1, OrderedStep, UpdatesStep, RowsStep, DatedStep, UniqueStep DEF StoreInv
  <2>3. ValueKnown' /\ Held'
    BY ValueKnownStep, HeldStep DEF StoreInv
  <2> QED
    BY <2>1, <2>2, <2>3 DEF StoreInv
<1> QED
  BY <1>1, <1>2, PTL DEF Spec

\* Whatever lags, reconnections, injected readings and snapshots broadcast again there
\* are, a row from the feed has the time of its measurement, but for those the clock that
\* processed them could not date.
THEOREM TimestampsTrue == Spec => []TimestampsAreTrue
<1>1. TypeOK /\ StoreInv => TimestampsAreTrue
  BY DEF StoreInv
<1> QED
  BY <1>1, StoreInvariant, PTL

\* A time has one row, and a measurement that was never misdated has one row, whoever
\* inserts and however often it is broadcast again.
THEOREM OneRowHolds == Spec => []OneRowPerKey
<1>1. TypeOK /\ StoreInv => OneRowPerKey
  <2> SUFFICES ASSUME StoreInv, NEW r \in rows, NEW q \in rows, r # q
               PROVE  r.at # q.at /\ (r.src = None \/ r.src # q.src \/ Misdated(r.src))
    BY DEF OneRowPerKey
  <2>1. r.at # q.at
    BY DEF StoreInv, OneRowPerTime
  <2>2. ASSUME r.src # None, r.src = q.src
        PROVE  Misdated(r.src)
    <3>1. r.by = "feed" /\ q.by = "feed"
      BY <2>2 DEF StoreInv, RowsTrue, RowTrue
    <3> QED
      BY <2>1, <2>2, <3>1 DEF StoreInv, TimestampsAreTrue
  <2> QED
    BY <2>1, <2>2
<1> QED
  BY <1>1, StoreInvariant, PTL

\* With nothing under way, no update lost since the last snapshot and none misdated, the
\* newest row from the feed is the one that brought the current value, or an injected
\* reading has its time: for every size of the queue and every feed.
THEOREM CatchesUp == Spec => []StoreCatchesUp
<1>1. TypeOK /\ StoreInv => StoreCatchesUp
  <2> SUFFICES ASSUME TypeOK, StoreInv, Settled, ~gap, misdated = {}
               PROVE  /\ \E r \in rows :
                            r.at = valued.at /\ (r.by = "feed" => r.value = current.value)
                      /\ \A r \in rows : r.by = "feed" => r.at <= valued.at
    BY DEF StoreCatchesUp
  <2>1. proc = "up" /\ sent # None /\ sent = current /\ inbox = <<>>
    BY DEF Settled
  <2>2. valued.value = current.value
    BY <2>1 DEF StoreInv, ValueKnown
  <2>3. HasRow
    <3>1. ~UnderWay
      BY <2>1 DEF UnderWay
    <3> QED
      BY <2>1, <3>1 DEF StoreInv, Held
  <2>4. \A r \in rows : r.by = "feed" => r.at <= valued.at
    BY DEF StoreInv, RowsTrue, RowTrue, FromValued, TimestampsAreTrue, Misdated
  <2> QED
    BY <2>2, <2>3, <2>4 DEF HasRow
<1> QED
  BY <1>1, StoreInvariant, PTL
=============================================================================
