----------------------- MODULE IngestionLedger_proofs -----------------------
(***************************************************************************)
(* Proofs about the readings of IngestionPipeline as a whole: they pass    *)
(* through the pipeline in the order of the feed, a drain that was not cut *)
(* short settles all of them, and the pipeline implements ReadingLedger.   *)
(***************************************************************************)
EXTENDS IngestionPipeline_proofs

Sorted(s) == \A i, j \in DOMAIN s : i < j => s[i] < s[j]

Below(S, T) == \A x \in S, y \in T : x < y

\* The updates that have been in the queue, as far as state and history tell.
Entered == Elements(evicted) \cup Elements(queue) \cup promised \cup Elements(buffer) \cup failed

\* Readings go from the SDK thread to the loop and through the queue in the order of
\* the feed.
InOrder ==
    /\ Sorted(queue) /\ Sorted(scheduled)
    /\ Below(Elements(evicted), Elements(queue))
    /\ Below(Entered, Elements(scheduled))
    /\ handing # 0 => Below(Entered \cup Elements(scheduled), {handing})
    /\ Below(Entered \cup Elements(scheduled) \cup {handing}, {nextUpdate})

-----------------------------------------------------------------------------
\* Appending something larger keeps a sequence sorted, and so does taking its head,
\* which is smaller than the rest.
LEMMA SortedQueue ==
    ASSUME NEW s \in Seq(Nat), NEW e \in Nat, Sorted(s)
    PROVE  /\ Below(Elements(s), {e}) => Sorted(Append(s, e))
           /\ s # <<>> => Sorted(Tail(s)) /\ Below({Head(s)}, Elements(Tail(s)))
  <1>1. ASSUME Below(Elements(s), {e}) PROVE Sorted(Append(s, e))
    <2>1. /\ \A i \in DOMAIN Append(s, e) : i \in DOMAIN s \/ i = Len(s) + 1
          /\ \A i \in DOMAIN s : i \in 1..Len(s) /\ Append(s, e)[i] = s[i] /\ s[i] \in Elements(s)
          /\ Append(s, e)[Len(s) + 1] = e /\ Len(s) \in Nat
      BY DEF Elements
    <2>2. \A i \in DOMAIN s : s[i] < e
      BY <1>1, <2>1 DEF Below
    <2>3. SUFFICES ASSUME NEW i \in DOMAIN Append(s, e), NEW j \in DOMAIN Append(s, e), i < j
                   PROVE  Append(s, e)[i] < Append(s, e)[j]
      BY DEF Sorted
    <2>4. CASE j \in DOMAIN s
      <3>1. i \in DOMAIN s
        BY <2>1, <2>3, <2>4
      <3> QED BY <2>1, <2>3, <2>4, <3>1 DEF Sorted
    <2>5. CASE j = Len(s) + 1
      <3>1. i \in DOMAIN s
        BY <2>1, <2>3, <2>5
      <3> QED BY <2>1, <2>2, <2>5, <3>1
    <2> QED BY <2>1, <2>3, <2>4, <2>5
  <1>2. ASSUME s # <<>> PROVE Sorted(Tail(s)) /\ Below({Head(s)}, Elements(Tail(s)))
    <2>1. /\ \A i \in DOMAIN Tail(s) : i \in Nat \ {0} /\ i + 1 \in DOMAIN s /\ Tail(s)[i] = s[i + 1]
          /\ 1 \in DOMAIN s /\ Head(s) = s[1]
      BY <1>2
    <2>2. \A i, j \in DOMAIN s : i < j => s[i] < s[j]
      BY DEF Sorted
    <2>3. Sorted(Tail(s))
      <3> SUFFICES ASSUME NEW i \in DOMAIN Tail(s), NEW j \in DOMAIN Tail(s), i < j
                   PROVE  Tail(s)[i] < Tail(s)[j]
        BY DEF Sorted
      <3> QED BY <2>1, <2>2
    <2>4. \A i \in DOMAIN Tail(s) : Head(s) < Tail(s)[i]
      BY <2>1, <2>2
    <2> QED BY <2>3, <2>4 DEF Below, Elements
  <1> QED BY <1>1, <1>2

\* A producer callback takes the oldest scheduled update, which is younger than all that
\* was ever queued, and drops at most the oldest queued one.
LEMMA CallbackMoves ==
    ASSUME TypeOK, OnDataReceived
    PROVE  LET u == Head(scheduled)
           IN  /\ u \in Updates /\ u \in Elements(scheduled)
               /\ scheduled' = Tail(scheduled)
               /\ Elements(scheduled) = Elements(Tail(scheduled)) \cup {u}
               /\ promised' = IF Running THEN promised \cup {u} ELSE promised
               /\ UNCHANGED <<handing, nextUpdate, main, worker, buffer, rows, failed,
                              closeFailed, timedOut>>
               /\ \/ /\ queue # <<>> /\ Head(queue) \in Updates /\ Head(queue) \in Elements(queue)
                     /\ queue' = Append(Tail(queue), u)
                     /\ Tail(queue) \in Seq(Updates)
                     /\ evicted' = Append(evicted, Head(queue))
                     /\ Elements(queue) = Elements(Tail(queue)) \cup {Head(queue)}
                     /\ Elements(queue') = Elements(Tail(queue)) \cup {u}
                     /\ Elements(evicted') = Elements(evicted) \cup {Head(queue)}
                  \/ /\ queue' = Append(queue, u)
                     /\ Elements(queue') = Elements(queue) \cup {u}
                     /\ evicted' = evicted
  <1> DEFINE u == Head(scheduled)
  <1>1. /\ scheduled \in Seq(Updates) /\ scheduled # <<>>
        /\ queue \in Seq(Updates) /\ evicted \in Seq(Updates)
    BY DEF OnDataReceived, TypeOK
  <1>2. u \in Updates /\ Elements(scheduled) = Elements(Tail(scheduled)) \cup {u}
    BY <1>1, QueueOps, ElementsOfQueue
  <1>3. \A s \in Seq(Updates), e \in Updates : Elements(Append(s, e)) = Elements(s) \cup {e}
    BY ElementsOfQueue
  <1>4. CASE Len(queue) = QueueSize
    <2>1. queue # <<>>
      BY <1>4, IngestionParameters DEF IngestionParameters
    <2>2. /\ Head(queue) \in Updates /\ Tail(queue) \in Seq(Updates)
          /\ Elements(queue) = Elements(Tail(queue)) \cup {Head(queue)}
      BY <1>1, <2>1, QueueOps, ElementsOfQueue
    <2>3. queue' = Append(Tail(queue), u) /\ evicted' = Append(evicted, Head(queue))
      BY <1>4 DEF OnDataReceived
    <2>4. /\ Elements(queue') = Elements(Tail(queue)) \cup {u}
          /\ Elements(evicted') = Elements(evicted) \cup {Head(queue)}
      <3> HIDE DEF u
      <3> QED BY <1>1, <1>2, <1>3, <2>2, <2>3
    <2> QED BY <1>2, <2>1, <2>2, <2>3, <2>4 DEF OnDataReceived, work, ctl, db
  <1>5. CASE Len(queue) # QueueSize
    <2>1. queue' = Append(queue, u) /\ evicted' = evicted
      BY <1>5 DEF OnDataReceived
    <2>2. Elements(queue') = Elements(queue) \cup {u}
      BY <1>1, <1>2, <1>3, <2>1
    <2> QED BY <1>2, <2>1, <2>2 DEF OnDataReceived, work, ctl, db
  <1> QED BY <1>4, <1>5

\* A pull takes the oldest queued update.
LEMMA PullMoves ==
    ASSUME TypeOK, GetItem
    PROVE  /\ queue # <<>> /\ queue' = Tail(queue) /\ Head(queue) \in Updates
           /\ Elements(queue) = Elements(queue') \cup {Head(queue)}
           /\ Elements(buffer') \subseteq Elements(buffer) \cup {Head(queue)}
           /\ UNCHANGED <<evicted, scheduled, handing, nextUpdate, promised, main, rows, failed,
                          closeFailed, timedOut>>
  <1>1. queue \in Seq(Updates) /\ queue # <<>> /\ queue' = Tail(queue)
    BY DEF GetItem, TypeOK
  <1>2. Head(queue) \in Updates /\ Elements(queue) = Elements(queue') \cup {Head(queue)}
    BY <1>1, QueueOps, ElementsOfQueue
  <1>3. buffer \in Seq(Updates) /\ (buffer' = buffer \/ buffer' = Append(buffer, Head(queue)))
    BY DEF GetItem, TypeOK
  <1>4. Elements(Append(buffer, Head(queue))) = Elements(buffer) \cup {Head(queue)}
    BY <1>2, <1>3, ElementsOfQueue
  <1> QED BY <1>1, <1>2, <1>3, <1>4 DEF GetItem, feed, ctl, db, hist

\* The types that comparing updates needs.
LEMMA NumbersTyped ==
    ASSUME TypeOK
    PROVE  /\ Updates \subseteq Nat /\ nextUpdate \in Nat /\ handing \in Nat
           /\ queue \in Seq(Nat) /\ scheduled \in Seq(Nat)
           /\ Elements(queue) \subseteq Nat /\ Elements(scheduled) \subseteq Nat
           /\ Entered \subseteq Nat
  <1>1. Updates \subseteq Nat /\ \A s \in Seq(Updates) : s \in Seq(Nat)
    <2>1. Updates \subseteq Nat
      BY IngestionParameters DEF Updates, IngestionParameters
    <2> SUFFICES ASSUME NEW s \in Seq(Updates) PROVE s \in Seq(Nat)
      BY <2>1
    <2>2. Len(s) \in Nat /\ s \in [1..Len(s) -> Updates]
      OBVIOUS
    <2>3. s \in [1..Len(s) -> Nat]
      BY <2>1, <2>2
    <2> QED BY <2>2, <2>3
  <1>2. nextUpdate \in Nat /\ handing \in Nat
    BY IngestionParameters DEF TypeOK, IngestionParameters
  <1>3. /\ Elements(queue) \subseteq Updates /\ Elements(scheduled) \subseteq Updates
        /\ Elements(evicted) \subseteq Updates /\ promised \subseteq Updates
        /\ Elements(buffer) \subseteq Updates /\ failed \subseteq Updates
    BY ElementsTyped DEF TypeOK
  <1> QED BY <1>1, <1>2, <1>3 DEF TypeOK, Entered

\* A step that lets no update into the queue, nor moves one there or before it.
LEMMA UnmovedInOrder ==
    ASSUME InOrder, Entered' \subseteq Entered,
           UNCHANGED <<evicted, queue, scheduled, handing, nextUpdate>>
    PROVE  InOrder'
  BY DEF InOrder, Sorted, Below, Elements

\* Every step keeps the order of the feed.
LEMMA OrderStep ==
    ASSUME TypeOK, InOrder, [Next]_vars PROVE InOrder'
  <1>0. /\ Updates \subseteq Nat /\ nextUpdate \in Nat /\ handing \in Nat
        /\ queue \in Seq(Nat) /\ scheduled \in Seq(Nat)
        /\ Elements(queue) \subseteq Nat /\ Elements(scheduled) \subseteq Nat
        /\ Entered \subseteq Nat
    BY NumbersTyped
  <1>1. CASE ReceiveUpdate
    <2>1. /\ handing = 0 /\ handing' = nextUpdate /\ nextUpdate' = nextUpdate + 1
          /\ UNCHANGED <<evicted, queue, scheduled, promised, buffer, failed>>
      BY <1>1 DEF ReceiveUpdate, q, work, db, hist
    <2>2. Entered' = Entered /\ Elements(scheduled') = Elements(scheduled) /\ Entered \subseteq Nat
      BY <1>0, <2>1 DEF Entered
    <2>3. Below(Entered \cup Elements(scheduled), {nextUpdate})
      BY DEF InOrder, Below
    <2>4. /\ Below(Entered \cup Elements(scheduled), {handing'})
          /\ Below(Entered \cup Elements(scheduled) \cup {handing'}, {nextUpdate'})
      BY <1>0, <2>1, <2>2, <2>3 DEF Below
    <2> QED BY <2>1, <2>2, <2>4 DEF InOrder, Sorted, Below
  <1>2. CASE HandOver
    <2>1. /\ handing # 0 /\ handing' = 0
          /\ scheduled' = scheduled \/ scheduled' = Append(scheduled, handing)
          /\ UNCHANGED <<nextUpdate, evicted, queue, promised, buffer, failed>>
      BY <1>2 DEF HandOver, q, work, db, hist
    <2>2. Elements(scheduled') \subseteq Elements(scheduled) \cup {handing}
      <3>1. Elements(Append(scheduled, handing)) = Elements(scheduled) \cup {handing}
        BY <1>0, ElementsOfQueue
      <3> QED BY <2>1, <3>1
    <2>3. /\ Below(Entered \cup Elements(scheduled), {handing})
          /\ Below(Entered \cup Elements(scheduled) \cup {handing}, {nextUpdate})
      BY <2>1 DEF InOrder
    <2>4. Sorted(scheduled')
      <3>1. Below(Elements(scheduled), {handing})
        BY <2>3 DEF Below
      <3> QED BY <1>0, <2>1, <3>1, SortedQueue DEF InOrder
    <2>5. Entered' = Entered /\ Entered \subseteq Nat
      BY <1>0, <2>1 DEF Entered
    <2>6. 0 < nextUpdate
      BY <1>0, <2>1, <2>3 DEF Below
    <2>7. /\ Below(Entered, Elements(scheduled'))
          /\ Below(Entered \cup Elements(scheduled') \cup {0}, {nextUpdate})
      BY <2>2, <2>3, <2>6 DEF InOrder, Below
    <2> QED BY <2>1, <2>4, <2>5, <2>7 DEF InOrder, Sorted, Below
  <1>3. CASE OnDataReceived
    <2> DEFINE u == Head(scheduled)
               rest == Elements(Tail(scheduled))
    <2>1. /\ u \in Nat /\ u \in Elements(scheduled) /\ scheduled # <<>>
          /\ scheduled' = Tail(scheduled)
          /\ Elements(scheduled) = rest \cup {u}
          /\ promised' \subseteq promised \cup {u}
          /\ UNCHANGED <<handing, nextUpdate>>
      BY <1>0, <1>3, CallbackMoves DEF OnDataReceived
    <2>2. Below({u}, rest) /\ Sorted(scheduled')
      BY <1>0, <2>1, SortedQueue DEF InOrder
    <2>3. Below(Entered, {u})
      BY <2>1 DEF InOrder, Below
    <2>4. Entered' \subseteq Entered \cup {u}
      BY <1>3, <2>1, CallbackMoves DEF Entered
    <2>5. Sorted(queue') /\ Below(Elements(evicted'), Elements(queue'))
      <3>1. CASE /\ queue # <<>> /\ Tail(queue) \in Seq(Updates)
                 /\ queue' = Append(Tail(queue), u)
                 /\ Elements(queue) = Elements(Tail(queue)) \cup {Head(queue)}
                 /\ Elements(queue') = Elements(Tail(queue)) \cup {u}
                 /\ Elements(evicted') = Elements(evicted) \cup {Head(queue)}
        <4>1. Sorted(Tail(queue)) /\ Below({Head(queue)}, Elements(Tail(queue)))
          BY <1>0, <3>1, SortedQueue DEF InOrder
        <4>2. Below(Elements(queue), {u}) /\ Below(Elements(evicted), {u})
          BY <2>3 DEF Below, Entered
        <4>3. Below(Elements(Tail(queue)), {u})
          BY <3>1, <4>2 DEF Below
        <4>4. Sorted(queue')
          <5>1. Tail(queue) \in Seq(Nat)
            BY <1>0, <3>1
          <5> HIDE DEF u
          <5> QED BY <2>1, <3>1, <4>1, <4>3, <5>1, SortedQueue
        <4>5. Below(Elements(evicted'), Elements(queue'))
          BY <3>1, <4>1, <4>2 DEF InOrder, Below
        <4> QED BY <4>4, <4>5
      <3>2. CASE /\ queue' = Append(queue, u) /\ evicted' = evicted
                 /\ Elements(queue') = Elements(queue) \cup {u}
        <4>1. Below(Elements(queue), {u}) /\ Below(Elements(evicted), {u})
          BY <2>3 DEF Below, Entered
        <4>2. Sorted(queue')
          <5> HIDE DEF u
          <5> QED BY <1>0, <2>1, <3>2, <4>1, SortedQueue DEF InOrder
        <4> QED BY <3>2, <4>1, <4>2 DEF InOrder, Below
      <3> QED BY <1>3, <3>1, <3>2, CallbackMoves
    <2>6. Below(Entered', rest)
      BY <2>1, <2>2, <2>4 DEF InOrder, Below
    <2>7. handing # 0 => Below(Entered' \cup rest, {handing})
      BY <2>1, <2>4 DEF InOrder, Below
    <2>8. Below(Entered' \cup rest \cup {handing}, {nextUpdate})
      BY <2>1, <2>4 DEF InOrder, Below
    <2> QED BY <2>1, <2>2, <2>5, <2>6, <2>7, <2>8 DEF InOrder
  <1>4. CASE GetItem
    <2>1. /\ queue # <<>> /\ queue' = Tail(queue)
          /\ Elements(queue') \subseteq Elements(queue)
          /\ UNCHANGED <<evicted, scheduled, handing, nextUpdate, promised>>
      BY <1>4, PullMoves
    <2>2. Sorted(queue')
      BY <1>0, <2>1, SortedQueue DEF InOrder
    <2>3. Entered' \subseteq Entered /\ Elements(scheduled') = Elements(scheduled)
      BY <1>4, <2>1, PullMoves DEF Entered
    <2> QED BY <2>1, <2>2, <2>3 DEF InOrder, Below, Sorted
  <1>5. CASE Entered' \subseteq Entered
             /\ UNCHANGED <<evicted, queue, scheduled, handing, nextUpdate>>
    BY <1>5, UnmovedInOrder
  <1>6. CASE IntervalPasses \/ GetTimesOut \/ UNCHANGED vars
    BY <1>5, <1>6 DEF IntervalPasses, GetTimesOut, vars, feed, q, work, db, hist, Entered
  <1>7. CASE Flush \/ CancelledInGet \/ CancelledInFlush
    <2>1. UNCHANGED <<evicted, queue, scheduled, handing, nextUpdate, promised>>
      BY <1>7 DEF Flush, FlushWritten, FlushRefused, EndFlush, FlushLosesConnection,
                  ConnectionClosed, ConnectionCloseFails, CancelledInGet, CancelledInFlush,
                  feed, q, hist
    <2>2. buffer' = buffer \/ buffer' = <<>>
      BY <1>7 DEF Flush, FlushWritten, FlushRefused, EndFlush, FlushLosesConnection,
                  ConnectionClosed, ConnectionCloseFails, CancelledInGet, CancelledInFlush
    <2>3. failed' \subseteq failed \cup Elements(buffer)
      BY <1>7 DEF Flush, FlushWritten, FlushRefused, EndFlush, FlushLosesConnection,
                  ConnectionClosed, ConnectionCloseFails, CancelledInGet, CancelledInFlush, db
    <2>4. Elements(buffer') \subseteq Elements(buffer)
      BY <2>2 DEF Elements
    <2> QED BY <1>5, <2>1, <2>3, <2>4 DEF Entered
  <1>8. CASE Connecting \/ Signal \/ DrainTimesOut \/ Stopping
    BY <1>5, <1>8 DEF Connecting, Start, NoChannels, Connect, ConnectFails, BackoffExpires,
                      Signal, DrainTimesOut, Stopping, Disconnect, CancelWorker, Stop,
                      feed, q, work, db, hist, Entered
  <1> QED BY <1>1, <1>2, <1>3, <1>4, <1>6, <1>7, <1>8 DEF Next, Sdk, Worker

\* Readings are never overtaken, for every feed and every queue size.
LEMMA OrderInvariant == Spec => [](TypeOK /\ InOrder)
  <1>1. Init => TypeOK /\ InOrder
    BY InitTyped DEF Init, InOrder, Sorted, Below, Entered, Elements
  <1>2. TypeOK /\ InOrder /\ [Next]_vars => (TypeOK /\ InOrder)'
    BY StepTyped, OrderStep
  <1> QED BY <1>1, <1>2, PTL DEF Spec

\* What is dropped on overflow is older than everything still queued (ADR-008), for every
\* feed and every queue size.
THEOREM FreshestSurviveHolds == Spec => []FreshestSurvive
  <1>1. InOrder => FreshestSurvive
    BY DEF InOrder, Below, Elements, FreshestSurvive
  <1> QED BY <1>1, OrderInvariant, PTL

-----------------------------------------------------------------------------
\* Before the worker task exists there is no client, hence no update on its way.
NotStarted == worker = "none" /\ promised = {}

Starting ==
    /\ main = "start" => NotStarted /\ ~clientUp /\ scheduled = <<>> /\ handing = 0
    /\ main = "stopped" => NotStarted \/ worker = "gone"

\* What the worker has pulled and will acknowledge.
Held == IF worker = "gone" THEN 0 ELSE pending

\* Once the drain is over without having timed out, no promised reading is left in the
\* queue (what callbacks still add to it was not promised), unless more was acknowledged
\* than the worker pulled.
Drained ==
    main \in {"cancel", "await", "stopped"} /\ ~timedOut /\ Elements(queue) \cap promised # {} =>
        closeFailed /\ unfinished < Len(queue) + Held + Len(evicted)

OrderlyInv == DrainInv /\ LossInv /\ InOrder /\ Starting /\ Drained

\* run_async creates the worker task before anything is connected, and returns when the
\* task has ended, or when it never created one.
LEMMA StartingStep ==
    ASSUME TypeOK, Cancelling, Starting, [Next]_vars PROVE Starting'
  <1> USE DEF Starting, NotStarted, feed, q, work, ctl, db, hist
  <1>1. CASE UNCHANGED vars
    BY <1>1 DEF vars
  <1>2. CASE Sdk \/ OnDataReceived
    BY <1>2 DEF Sdk, ReceiveUpdate, HandOver, OnDataReceived
  <1>3. CASE IntervalPasses \/ GetItem \/ GetTimesOut
    BY <1>3 DEF IntervalPasses, GetItem, GetTimesOut, FlushOrGet
  <1>4. CASE Flush
    BY <1>4 DEF Flush, FlushWritten, FlushRefused, FlushLosesConnection, ConnectionClosed,
                ConnectionCloseFails, EndFlush, Flushing, Closing, ResumeWorker, Acknowledge
  <1>5. CASE CancelledInGet \/ CancelledInFlush
    BY <1>5 DEF CancelledInGet, CancelledInFlush
  <1>6. CASE Connecting \/ Signal \/ DrainTimesOut
    BY <1>6 DEF Connecting, Start, NoChannels, Connect, ConnectFails, BackoffExpires,
                Signal, DrainTimesOut
  <1>7. CASE Stopping
    BY <1>7 DEF Stopping, Disconnect, CancelWorker, Stop
  <1> QED BY <1>1, <1>2, <1>3, <1>4, <1>5, <1>6, <1>7 DEF Next, Worker

\* While the worker is not in its final flush, nothing unfinished means nothing queued.
LEMMA NothingUnfinished ==
    ASSUME TypeOK, AckBalance, ~closeFailed, unfinished = 0,
           worker \notin {"finalFlush", "finalClose", "gone"}
    PROVE  queue = <<>> /\ evicted = <<>>
  <1>1. /\ Len(queue) \in Nat /\ Len(evicted) \in Nat /\ pending \in Nat
        /\ queue \in Seq(Updates) /\ evicted \in Seq(Updates)
    BY DEF TypeOK
  <1>2. Len(queue) = 0 /\ Len(evicted) = 0
    BY <1>1 DEF AckBalance
  <1> QED BY <1>1, <1>2

\* A callback adds one to what is queued or dropped.
LEMMA CallbackCounts ==
    ASSUME TypeOK, OnDataReceived
    PROVE  /\ unfinished' = unfinished + 1
           /\ Len(queue') + Len(evicted') = Len(queue) + Len(evicted) + 1
  <1>1. /\ queue \in Seq(Updates) /\ evicted \in Seq(Updates) /\ Head(scheduled) \in Updates
        /\ Len(queue) \in Nat /\ Len(evicted) \in Nat
    BY QueueOps DEF TypeOK, OnDataReceived
  <1>2. unfinished' = unfinished + 1
    BY DEF OnDataReceived
  <1>3. CASE Len(queue) = QueueSize
    <2>1. queue # <<>>
      BY <1>3, IngestionParameters DEF IngestionParameters
    <2>2. Len(queue') = Len(queue)
      BY <1>1, <1>3, <2>1, QueueOps DEF OnDataReceived
    <2>3. Len(evicted') = Len(evicted) + 1
      <3>1. Head(queue) \in Updates
        BY <1>1, <2>1, QueueOps
      <3> QED BY <1>1, <1>3, <3>1, QueueOps DEF OnDataReceived
    <2> QED BY <1>1, <1>2, <2>2, <2>3
  <1>4. CASE Len(queue) # QueueSize
    <2>1. Len(queue') = Len(queue) + 1 /\ evicted' = evicted
      BY <1>1, <1>4, QueueOps DEF OnDataReceived
    <2> QED BY <1>1, <1>2, <2>1
  <1> QED BY <1>3, <1>4

\* The drain ends when everything is acknowledged; then the queue is empty, or something
\* was acknowledged twice.  An acknowledgement never brings the count back up.
LEMMA DrainedStep ==
    ASSUME OrderlyInv, AckBalance', TypeOK', [Next]_vars PROVE Drained'
  <1> USE DEF feed, q, work, ctl, db, hist
  <1>0. TypeOK /\ Cancelling /\ AckBalance /\ InOrder /\ Starting /\ Drained
    BY DEF OrderlyInv, DrainInv
  <1> SUFFICES ASSUME main' \in {"cancel", "await", "stopped"}, ~timedOut',
                      Elements(queue') \cap promised' # {}
               PROVE  closeFailed' /\ unfinished' < Len(queue') + Held' + Len(evicted')
    BY DEF Drained
  <1>1. /\ unfinished \in Nat /\ pending \in Nat /\ Held \in Nat
        /\ queue \in Seq(Updates) /\ Len(queue) \in Nat /\ Len(evicted) \in Nat
        /\ unfinished' \in Nat /\ pending' \in Nat /\ Held' \in Nat
        /\ queue' \in Seq(Updates) /\ Len(queue') \in Nat /\ Len(evicted') \in Nat
    BY <1>0 DEF TypeOK, Held
  <1>2. Len(queue') > 0
    <2>1. queue' # <<>>
      BY DEF Elements
    <2> QED BY <1>1, <2>1
  <1>3. CASE OnDataReceived
    <2> DEFINE u == Head(scheduled)
    <2>1. /\ main' = main /\ promised' = promised /\ ~timedOut
          /\ u \in Elements(scheduled) /\ Elements(queue') \subseteq Elements(queue) \cup {u}
      BY <1>0, <1>3, CallbackMoves DEF OnDataReceived, Running
    <2>2. u \notin promised
      <3>1. Below(promised, {u})
        BY <1>0, <2>1 DEF InOrder, Below, Entered
      <3>2. u \in Nat
        BY <1>0, <2>1, NumbersTyped
      <3> QED BY <3>1, <3>2 DEF Below
    <2>3. closeFailed /\ unfinished < Len(queue) + Held + Len(evicted)
      <3>1. Elements(queue) \cap promised # {}
        BY <2>1, <2>2
      <3> QED BY <1>0, <2>1, <3>1 DEF Drained
    <2>4. /\ unfinished' = unfinished + 1
          /\ Len(queue') + Len(evicted') = Len(queue) + Len(evicted) + 1
      BY <1>0, <1>3, CallbackCounts
    <2>5. UNCHANGED <<worker, pending, closeFailed>>
      BY <1>3 DEF OnDataReceived
    <2>6. Held' = Held
      BY <2>5 DEF Held
    <2> HIDE DEF u
    <2> QED BY <1>1, <2>3, <2>4, <2>5, <2>6
  <1>4. CASE GetItem
    <2>1. /\ main' = main /\ promised' = promised /\ timedOut' = timedOut
          /\ Elements(queue') \subseteq Elements(queue)
          /\ queue # <<>> /\ queue' = Tail(queue) /\ UNCHANGED <<evicted, closeFailed>>
      BY <1>0, <1>4, PullMoves
    <2>2. closeFailed /\ unfinished < Len(queue) + Held + Len(evicted)
      BY <1>0, <2>1 DEF Drained
    <2>3. Held = pending /\ Held' = pending + 1 /\ unfinished' = unfinished
      BY <1>4 DEF GetItem, FlushOrGet, Held
    <2>4. Len(queue') = Len(queue) - 1
      BY <1>1, <2>1
    <2> QED BY <1>1, <2>1, <2>2, <2>3, <2>4
  <1>5. CASE Acknowledge /\ ResumeWorker /\ (Flushing \/ Closing)
             /\ UNCHANGED <<queue, evicted, promised, timedOut>> /\ pending' \in {0, pending}
             /\ (closeFailed => closeFailed')
    <2>1. unfinished' = (IF unfinished > pending THEN unfinished - pending ELSE 0)
      BY <1>5 DEF Acknowledge, AfterAck
    <2>2. CASE main' = main
      <3>1. closeFailed /\ unfinished < Len(queue) + Held + Len(evicted)
        BY <1>0, <1>5, <2>2 DEF Drained
      <3>2. Held = pending
        BY <1>5 DEF Held, Flushing, Closing
      <3> QED BY <1>1, <1>2, <1>5, <2>1, <3>1, <3>2
    <2>3. CASE main' # main
      <3>1. main = "join" /\ unfinished' = 0
        BY <1>5, <2>3 DEF Acknowledge
      <3>2. worker' = "get"
        BY <1>0, <1>5, <3>1 DEF ResumeWorker, Flushing, Closing, Cancelling
      <3>3. closeFailed'
        BY <1>1, <1>2, <3>1, <3>2 DEF AckBalance
      <3> QED BY <1>1, <1>2, <3>1, <3>3
    <2> QED BY <2>2, <2>3
  <1>6. CASE EndFlush /\ (Flushing \/ Closing)
    BY <1>5, <1>6 DEF EndFlush
  <1>7. CASE ConnectionCloseFails
    BY <1>5, <1>7 DEF ConnectionCloseFails
  <1>8. CASE Disconnect
    <2>1. worker \notin {"finalFlush", "finalClose", "gone"}
      BY <1>0, <1>8 DEF Disconnect, Cancelling
    <2>2. UNCHANGED <<queue, unfinished, evicted, closeFailed>> /\ (queue = <<>> \/ ~(unfinished > 0))
      BY <1>8 DEF Disconnect
    <2>3. unfinished' = 0 /\ queue # <<>>
      BY <1>1, <1>2, <2>2
    <2>4. closeFailed
      BY <1>0, <2>1, <2>2, <2>3, NothingUnfinished
    <2> QED BY <1>1, <1>2, <2>2, <2>3, <2>4
  <1>9. CASE NoChannels
    BY <1>0, <1>9 DEF NoChannels, Starting, NotStarted
  <1>10. CASE DrainTimesOut
    BY <1>10 DEF DrainTimesOut
  <1>11. CASE /\ UNCHANGED <<queue, promised, timedOut, evicted, closeFailed>>
              /\ unfinished' <= unfinished /\ Held' = Held
              /\ main' \in {"cancel", "await", "stopped"} => main \in {"cancel", "await", "stopped"}
    BY <1>0, <1>1, <1>11 DEF Drained
  <1>12. CASE Sdk \/ IntervalPasses \/ GetTimesOut \/ UNCHANGED vars
    BY <1>1, <1>11, <1>12 DEF Sdk, ReceiveUpdate, HandOver, IntervalPasses, GetTimesOut, FlushOrGet,
                              Held, vars
  <1>13. CASE FlushLosesConnection
    BY <1>1, <1>11, <1>13 DEF FlushLosesConnection, Flushing, Held
  <1>14. CASE CancelledInGet
    <2>1. Held' = Held
      BY <1>1, <1>14 DEF CancelledInGet, Held
    <2> QED BY <1>1, <1>11, <1>14, <2>1 DEF CancelledInGet
  <1>15. CASE CancelledInFlush
    <2>1. unfinished' <= unfinished
      BY <1>1, <1>15 DEF CancelledInFlush, AfterAck
    <2>2. Held' = Held
      BY <1>15 DEF CancelledInFlush, Held
    <2> QED BY <1>11, <1>15, <2>1, <2>2 DEF CancelledInFlush
  <1>16. CASE Start \/ Connect \/ ConnectFails \/ BackoffExpires \/ Signal
    BY <1>16 DEF Start, Connect, ConnectFails, BackoffExpires, Signal
  <1>17. CASE CancelWorker \/ Stop
    BY <1>1, <1>11, <1>17 DEF CancelWorker, Stop, Held
  <1> QED
    BY <1>3, <1>4, <1>6, <1>7, <1>8, <1>9, <1>10, <1>12, <1>13, <1>14, <1>15, <1>16, <1>17
    DEF Next, Worker, Flush, FlushWritten, FlushRefused, ConnectionClosed, Connecting, Stopping

\* The invariant that a stop rests on.
LEMMA OrderlyInvariant == Spec => []OrderlyInv
  <1>1. Init => Starting /\ Drained
    BY DEF Init, Starting, NotStarted, Drained
  <1>2. OrderlyInv /\ [Next]_vars /\ DrainInv' /\ LossInv' /\ InOrder' => OrderlyInv'
    BY StartingStep, DrainedStep DEF OrderlyInv, DrainInv
  <1>3. Spec => []LossInv
    BY LossInvariant
  <1> QED BY <1>1, <1>2, <1>3, DrainInvariant, OrderInvariant, PTL DEF OrderlyInv, Spec

\* When the process has stopped, a reading is only in the queue or the buffer after a
\* drain that was cut short, or after a close that raised.
LEMMA StoppedIsSettled == OrderlyInv => OrderlyStop
  <1> SUFFICES ASSUME OrderlyInv, main = "stopped", ~timedOut, ~closeFailed,
                      NEW u \in Readable(promised)
               PROVE  u \in Lost \/ Persisted(u)
    BY DEF OrderlyStop
  <1>1. u \in promised /\ worker = "gone"
    BY DEF OrderlyInv, Starting, NotStarted, Readable
  <1>2. u \notin Elements(queue)
    BY <1>1 DEF OrderlyInv, Drained
  <1> QED BY <1>1, <1>2 DEF OrderlyInv, LossInv, OnItsWay

\* After a shutdown whose drain did not time out every reading queued before the
\* disconnect is in the table or was given up with a log line, wherever the signal met
\* the worker, for every feed, queue size, buffer size and number of database faults.
THEOREM OrderlyStopHolds == Spec => []OrderlyStop
  BY OrderlyInvariant, StoppedIsSettled, PTL

\* A reading taken over while the client was connected is in the table, was given up with
\* a log line, or is with a live worker, unless the drain logged its timeout or items were
\* acknowledged twice after a raising close_old_connections: no other interleaving of
\* callbacks, flushes, drain and cancellation loses one, for every feed, queue size,
\* buffer size and number of database faults.
THEOREM NothingElseLoses == Spec => []NoUnexplainedLoss
  <1>1. OrderlyInv => NoUnexplainedLoss
    <2> SUFFICES ASSUME OrderlyInv, NEW u \in Readable(promised), u \in Elements(queue),
                        worker = "gone", ~timedOut
                 PROVE  AckedTwice
      BY DEF OrderlyInv, LossInv, OnItsWay, NoUnexplainedLoss
    <2>1. main \in {"cancel", "await", "stopped"}
      BY DEF OrderlyInv, DrainInv, Cancelling
    <2>2. Elements(queue) \cap promised # {} /\ Len(queue) \in Nat /\ Len(evicted) \in Nat
      BY DEF Readable, OrderlyInv, DrainInv, TypeOK
    <2> QED BY <2>1, <2>2 DEF OrderlyInv, Drained, Held, AckedTwice
  <1> QED BY <1>1, OrderlyInvariant, PTL

-----------------------------------------------------------------------------
\* What the ledger sees of a state.
Taken == Readable(promised)
Stored == {u \in Readable(promised) : Persisted(u)}
GivenUpReadings == Readable(promised) \cap Lost
Hurried == timedOut \/ closeFailed

\* The table only grows, nothing lost is found again, and a drain that was cut short
\* stays so.
LEMMA NothingUnsettles ==
    ASSUME TypeOK, [Next]_vars
    PROVE  /\ \A u : Persisted(u) => Persisted(u)'
           /\ Lost \subseteq Lost'
           /\ Hurried => Hurried'
  <1> USE DEF feed, q, work, ctl, db, hist
  <1>1. rows \subseteq rows'
    <2>1. buffer \in Seq(Updates)
      BY DEF TypeOK
    <2> QED BY <2>1, RowsStep, InsertPersists
  <1>2. Lost \subseteq Lost'
    <2>1. CASE OnDataReceived
      BY <2>1, CallbackMoves DEF Lost
    <2>2. CASE ~OnDataReceived
      <3>1. UNCHANGED evicted /\ failed \subseteq failed'
        BY <2>2 DEF Next, Sdk, ReceiveUpdate, HandOver, IntervalPasses, Worker, GetItem,
                    GetTimesOut, Flush, FlushWritten, FlushRefused, EndFlush,
                    FlushLosesConnection, ConnectionClosed, ConnectionCloseFails,
                    CancelledInGet, CancelledInFlush, Connecting, Start, NoChannels, Connect,
                    ConnectFails, BackoffExpires, Signal, DrainTimesOut, Stopping, Disconnect,
                    CancelWorker, Stop, vars
      <3> QED BY <3>1 DEF Lost
    <2> QED BY <2>1, <2>2
  <1>3. timedOut => timedOut'
    BY DEF Next, Sdk, ReceiveUpdate, HandOver, OnDataReceived, IntervalPasses, Worker, GetItem,
           GetTimesOut, Flush, FlushWritten, FlushRefused, EndFlush,
           FlushLosesConnection, ConnectionClosed, ConnectionCloseFails,
           CancelledInGet, CancelledInFlush, Connecting, Start, NoChannels, Connect,
           ConnectFails, BackoffExpires, Signal, DrainTimesOut, Stopping, Disconnect,
           CancelWorker, Stop, vars
  <1> QED BY <1>1, <1>2, <1>3, CloseFailureSticks DEF Persisted, Hurried

\* A step that takes nothing over and does not change the phase settles something, or
\* nothing at all.
LEMMA SettlingStep ==
    ASSUME TypeOK, [Next]_vars, Taken' = Taken, Running' = Running,
           main # "stopped", main' # "stopped"
    PROVE  Ledger!Settle
  <1> DEFINE written == Stored'
             given == GivenUpReadings'
  <1>1. written \in SUBSET Taken /\ given \in SUBSET Taken
    BY DEF Stored, GivenUpReadings, Taken
  <1>2. Stored' = Stored \cup written /\ GivenUpReadings' = GivenUpReadings \cup given
    <2>1. Stored \subseteq Stored' /\ GivenUpReadings \subseteq GivenUpReadings'
      BY NothingUnsettles DEF Stored, GivenUpReadings, Taken
    <2> QED BY <2>1
  <1>3. Hurried' \in {Hurried, TRUE}
    BY NothingUnsettles DEF Hurried, TypeOK
  <1>4. (IF Running THEN "open" ELSE IF main = "stopped" THEN "stopped" ELSE "draining") # "stopped"
    OBVIOUS
  <1>5. (IF Running THEN "open" ELSE IF main = "stopped" THEN "stopped" ELSE "draining")'
          = (IF Running THEN "open" ELSE IF main = "stopped" THEN "stopped" ELSE "draining")
    OBVIOUS
  <1> HIDE DEF written, given
  <1> QED BY <1>1, <1>2, <1>3, <1>4, <1>5
          DEF Ledger!Settle, Taken, Stored, GivenUpReadings, Hurried

\* A callback while the process runs takes over the reading it puts in the queue: it was
\* never there before, and at most the oldest queued one is given up for it.
LEMMA TakingStep ==
    ASSUME OrderlyInv, OnDataReceived, Running, Kind[Head(scheduled)] = "ok"
    PROVE  Ledger!Take
  <1> DEFINE u == Head(scheduled)
             given == Taken \cap (Lost' \ Lost)
  <1>0. TypeOK /\ InOrder
    BY DEF OrderlyInv, DrainInv
  <1>1. /\ u \in Updates /\ u \in Elements(scheduled)
        /\ promised' = promised \cup {u}
        /\ UNCHANGED <<main, rows, failed, closeFailed, timedOut>>
        /\ \/ /\ Elements(evicted') = Elements(evicted) \cup {Head(queue)}
              /\ Head(queue) \in Elements(queue)
           \/ evicted' = evicted
    BY <1>0, CallbackMoves
  <1>2. u \notin Entered
    <2>1. u \in Nat /\ \A x \in Entered : x < u
      BY <1>0, <1>1, NumbersTyped DEF InOrder, Below
    <2> QED BY <2>1
  <1>3. u \in Readable(Updates) \ Taken
    BY <1>1, <1>2 DEF Taken, Readable, Entered
  <1>4. Taken' = Taken \cup {u}
    BY <1>1 DEF Taken, Readable
  <1>5. \/ Lost' = Lost
        \/ Head(queue) \in Elements(queue) /\ Lost' = Lost \cup {Head(queue)}
    BY <1>1 DEF Lost
  <1>6. u \notin Lost'
    BY <1>2, <1>5 DEF Entered, Lost
  <1>7. /\ given \in SUBSET Taken
        /\ \A a, b \in given : a = b
        /\ GivenUpReadings' = GivenUpReadings \cup given
    <2>1. GivenUpReadings' = Taken' \cap Lost'
      BY DEF GivenUpReadings, Taken
    <2> QED BY <1>4, <1>5, <1>6, <2>1 DEF GivenUpReadings, Taken
  <1>8. Stored' \in {Stored, Stored \cup {u}}
    <2>1. \A x : Persisted(x)' <=> Persisted(x)
      BY <1>1 DEF Persisted
    <2>2. \A x : x \in Stored <=> x \in Taken /\ Persisted(x)
      BY DEF Stored, Taken
    <2>3. \A x : x \in Stored' <=> x \in Taken' /\ Persisted(x)'
      BY DEF Stored, Taken
    <2>4. CASE Persisted(u)
      <3>1. Stored' = Stored \cup {u}
        BY <1>4, <2>1, <2>2, <2>3, <2>4
      <3> QED BY <3>1
    <2>5. CASE ~Persisted(u)
      <3>1. Stored' = Stored
        BY <1>4, <2>1, <2>2, <2>3, <2>5
      <3> QED BY <3>1
    <2> QED BY <2>4, <2>5
  <1>9. Running' /\ Hurried' = Hurried
    BY <1>1 DEF Running, Hurried
  <1> HIDE DEF u, given
  <1> QED
    BY <1>3, <1>4, <1>7, <1>8, <1>9 DEF Ledger!Take, Taken, Stored, GivenUpReadings, Hurried

\* A step that changes none of what the ledger sees.
LEMMA InvisibleStep ==
    ASSUME promised' = promised, rows' = rows, Lost' = Lost, main' = main,
           timedOut' = timedOut, closeFailed' = closeFailed
    PROVE  UNCHANGED Ledger!vars
  BY DEF Ledger!vars, Readable, Persisted, Running

\* Ending the loop, ending the drain and ending the process do not touch the readings.
LEMMA StoppingStep ==
    ASSUME OrderlyInv, OrderlyInv', Disconnect \/ Stop \/ NoChannels
    PROVE  Ledger!Drain \/ Ledger!Stop
  <1> USE DEF feed, q, work, ctl, db, hist
  <1>1. UNCHANGED <<promised, rows, evicted, failed, timedOut, closeFailed>>
    BY DEF Disconnect, Stop, NoChannels
  <1>2. /\ Taken' = Taken /\ Stored' = Stored /\ GivenUpReadings' = GivenUpReadings
        /\ Hurried' = Hurried
    BY <1>1 DEF Taken, Stored, GivenUpReadings, Hurried, Readable, Persisted, Lost
  <1>3. CASE Disconnect
    <2>1. Running /\ ~Running' /\ main' # "stopped"
      BY <1>3 DEF Disconnect, Running
    <2> QED BY <1>2, <2>1 DEF Ledger!Drain, Taken, Stored, GivenUpReadings, Hurried
  <1>4. CASE Stop \/ NoChannels
    <2>1. main # "stopped" /\ main' = "stopped" /\ ~Running'
      BY <1>4 DEF Stop, NoChannels, Running
    <2>2. Hurried \/ \A u \in Taken : u \in Stored \/ u \in GivenUpReadings
      <3>1. OrderlyStop'
        BY StoppedIsSettled, PTL
      <3>2. Hurried' \/ \A u \in Readable(promised') : u \in Lost' \/ Persisted(u)'
        BY <2>1, <3>1 DEF OrderlyStop, Hurried
      <3>3. Lost' = Lost /\ \A u : Persisted(u)' <=> Persisted(u)
        BY <1>1 DEF Lost, Persisted
      <3> QED BY <1>1, <1>2, <3>2, <3>3 DEF Taken, Stored, GivenUpReadings
    <2> QED BY <1>2, <2>1, <2>2
            DEF Ledger!Stop, Ledger!Unsettled, Taken, Stored, GivenUpReadings, Hurried
  <1> QED BY <1>3, <1>4

\* Every step of the pipeline is a step of the ledger, or invisible to it.
LEMMA LedgerStep ==
    ASSUME OrderlyInv, OrderlyInv', [Next]_vars
    PROVE  [Ledger!Next]_(Ledger!vars)
  <1> USE DEF feed, q, work, ctl, db, hist
  <1>0. TypeOK /\ Cancelling /\ Starting
    BY DEF OrderlyInv, DrainInv
  <1>1. CASE OnDataReceived
    <2>1. /\ main # "stopped" /\ main' = main /\ Running' = Running
          /\ promised' = IF Running THEN promised \cup {Head(scheduled)} ELSE promised
          /\ UNCHANGED <<rows, timedOut, closeFailed>>
      BY <1>1 DEF OnDataReceived, Running
    <2>2. CASE Running /\ Kind[Head(scheduled)] = "ok"
      BY <1>1, <2>2, TakingStep DEF Ledger!Next
    <2>3. CASE ~(Running /\ Kind[Head(scheduled)] = "ok")
      <3>1. Taken' = Taken
        BY <2>1, <2>3 DEF Taken, Readable
      <3> QED BY <1>0, <2>1, <3>1, SettlingStep DEF Ledger!Next
    <2> QED BY <2>2, <2>3
  <1>2. CASE Worker
    <2>1. main # "stopped"
      BY <1>0, <1>2 DEF Worker, GetItem, GetTimesOut, Flush, FlushWritten, FlushRefused,
         FlushLosesConnection, ConnectionClosed, ConnectionCloseFails, Flushing, Closing,
         CancelledInGet, CancelledInFlush, Starting, NotStarted
    <2>2. promised' = promised /\ (main' = main \/ (main = "join" /\ main' = "cancel"))
      BY <1>2 DEF Worker, GetItem, GetTimesOut, Flush, FlushWritten, FlushRefused, EndFlush,
         Acknowledge, FlushLosesConnection, ConnectionClosed, ConnectionCloseFails,
         CancelledInGet, CancelledInFlush
    <2>3. Running' = Running /\ main' # "stopped"
      BY <2>1, <2>2 DEF Running
    <2> QED BY <1>0, <2>1, <2>2, <2>3, SettlingStep DEF Ledger!Next, Taken, Readable
  <1>3. CASE Disconnect \/ Stop \/ NoChannels
    BY <1>3, StoppingStep DEF Ledger!Next
  <1>4. CASE Sdk \/ IntervalPasses \/ Signal \/ UNCHANGED vars
    BY <1>4, InvisibleStep DEF Sdk, ReceiveUpdate, HandOver, IntervalPasses, Signal, Lost, vars
  <1>5. CASE Start \/ Connect \/ ConnectFails \/ BackoffExpires \/ DrainTimesOut \/ CancelWorker
    <2>1. /\ main # "stopped" /\ main' # "stopped" /\ Running' = Running
          /\ promised' = promised
      BY <1>5 DEF Start, Connect, ConnectFails, BackoffExpires, DrainTimesOut, CancelWorker,
                  Running
    <2> QED BY <1>0, <2>1, SettlingStep DEF Ledger!Next, Taken, Readable
  <1> QED BY <1>1, <1>2, <1>3, <1>4, <1>5 DEF Next, Connecting, Stopping

\* The pipeline implements the ledger, for every feed, queue size, buffer size and number
\* of database faults: a step takes over at most one reading, one that never was in the
\* queue; nothing settled becomes unsettled; nothing is taken over after the disconnect;
\* and a process that did not stop in a hurry stops with everything settled.
THEOREM LedgerImplemented == Spec => ImplementsLedger
  <1>1. Init => Ledger!Init
    BY DEF Init, Ledger!Init, Readable, Running
  <1>2. OrderlyInv /\ OrderlyInv' /\ [Next]_vars => [Ledger!Next]_(Ledger!vars)
    BY LedgerStep
  <1> QED BY <1>1, <1>2, OrderlyInvariant, PTL DEF Spec, Ledger!Spec, ImplementsLedger
=============================================================================
