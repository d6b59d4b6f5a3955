---------------------- MODULE IngestionPipeline_proofs ----------------------
(***************************************************************************)
(* Proofs about IngestionPipeline: typing; the balance of the queue's      *)
(* unfinished count, from which it follows that the drain can only get     *)
(* stuck after an overflow; and what each step does to the readings that   *)
(* are on their way.                                                       *)
(***************************************************************************)
EXTENDS IngestionPipeline, WellFoundedInduction, TLAPS

\* Before run_async cancels it, the worker is not in its final flush.
Cancelling ==
    /\ cancelled => main = "await"
    /\ worker \in {"finalFlush", "finalClose", "gone"} =>
          main \in {"await", "stopped"} /\ ~cancelled

\* queue.join() returns as soon as nothing is unfinished.
JoinWaits == main = "join" => unfinished > 0

DrainInv == TypeOK /\ Cancelling /\ JoinWaits /\ AckBalance

-----------------------------------------------------------------------------
\* What the queue operations do to typed sequences.
LEMMA QueueOps ==
    ASSUME NEW S, NEW s \in Seq(S), NEW e \in S
    PROVE  /\ Append(s, e) \in Seq(S) /\ Len(Append(s, e)) = Len(s) + 1
           /\ Len(s) \in Nat
           /\ s # <<>> => /\ Tail(s) \in Seq(S) /\ Len(Tail(s)) = Len(s) - 1
                          /\ Head(s) \in S /\ Len(s) > 0
                          /\ Append(Tail(s), e) \in Seq(S)
                          /\ Len(Append(Tail(s), e)) = Len(s)
  OBVIOUS

\* A typed sequence has elements of its type.
LEMMA ElementsTyped == ASSUME NEW S, NEW s \in Seq(S) PROVE Elements(s) \subseteq S
  BY DEF Elements

\* Acknowledging never makes the count negative.
LEMMA AfterAckTyped ==
    ASSUME unfinished \in Nat, NEW n \in Nat PROVE AfterAck(n) \in Nat
  BY DEF AfterAck

\* The rows of an insert come from the table and the batch.
LEMMA InsertTyped ==
    ASSUME NEW table \in SUBSET Updates, NEW batch \in Seq(Updates)
    PROVE  /\ InsertIgnore(table, batch) \in SUBSET Updates
           /\ \A t \in MaybeInserted(table, batch) : t \in SUBSET Updates
  <1>1. InsertIgnore(table, batch) \in SUBSET Updates
    BY DEF InsertIgnore
  <1> QED BY <1>1 DEF MaybeInserted

\* The initial state is typed.
LEMMA InitTyped == Init => TypeOK
  <1> SUFFICES ASSUME Init PROVE TypeOK
    OBVIOUS
  <1>1. \A S : <<>> \in Seq(S) /\ Len(<<>>) = 0
    OBVIOUS
  <1>2. Len(queue) <= QueueSize /\ nextUpdate \in 1..MaxUpdates + 1 /\ handing \in 0..MaxUpdates
        /\ dbFaults \in 0..MaxDbFaults /\ unfinished \in Nat /\ pending \in Nat
    BY <1>1, IngestionParameters DEF Init, IngestionParameters
  <1> QED BY <1>1, <1>2 DEF Init, TypeOK

\* The end of a flush keeps the types, whatever became of the batch.
LEMMA EndFlushTyped ==
    ASSUME TypeOK, EndFlush, worker \in {"flush", "close", "finalFlush", "finalClose"},
           dbFaults' \in 0..MaxDbFaults, rows' \in SUBSET Updates, failed' \in SUBSET Updates
    PROVE  TypeOK'
  <1>1. unfinished' \in Nat
    BY AfterAckTyped DEF EndFlush, Acknowledge, TypeOK
  <1>2. main' \in {"start", "connect", "wait", "backoff", "join", "cancel", "await", "stopped"}
    BY DEF EndFlush, Acknowledge, TypeOK
  <1>3. worker' \in {"get", "gone"}
    BY DEF EndFlush, ResumeWorker
  <1>4. buffer' = <<>> /\ pending' = 0
        /\ UNCHANGED <<flushDue, queue, cancelled, shutdown, timedOut>> /\ UNCHANGED <<feed, hist>>
    BY DEF EndFlush
  <1> QED BY <1>1, <1>2, <1>3, <1>4 DEF TypeOK, feed, hist

\* Every step keeps the types; in particular the queue never exceeds its maxsize.
LEMMA StepTyped == TypeOK /\ [Next]_vars => TypeOK'
  <1> SUFFICES ASSUME TypeOK, [Next]_vars PROVE TypeOK'
    OBVIOUS
  <1> USE IngestionParameters DEF IngestionParameters, feed, q, work, ctl, db, hist
  <1>1. CASE UNCHANGED vars
    BY <1>1 DEF vars, TypeOK
  <1>2. CASE ReceiveUpdate
    BY <1>2 DEF ReceiveUpdate, TypeOK
  <1>3. CASE HandOver
    <2>1. handing \in Updates
      BY <1>3 DEF HandOver, TypeOK, Updates
    <2>2. scheduled' \in Seq(Updates)
      BY <1>3, <2>1 DEF HandOver, TypeOK
    <2> QED BY <1>3, <2>2 DEF HandOver, TypeOK
  <1>4. CASE OnDataReceived
    <2> DEFINE u == Head(scheduled)
    <2>1. u \in Updates /\ scheduled' \in Seq(Updates)
      BY <1>4, QueueOps DEF OnDataReceived, TypeOK
    <2>2. queue' \in Seq(Updates) /\ Len(queue') <= QueueSize
      BY <1>4, <2>1, QueueOps DEF OnDataReceived, TypeOK
    <2>3. evicted' \in Seq(Updates)
      <3>1. CASE Len(queue) = QueueSize
        <4>1. Head(queue) \in Updates
          BY <3>1 DEF TypeOK
        <4> QED BY <1>4, <3>1, <4>1 DEF OnDataReceived, TypeOK
      <3>2. CASE Len(queue) # QueueSize
        BY <1>4, <3>2 DEF OnDataReceived, TypeOK
      <3> QED BY <3>1, <3>2
    <2>4. promised' \in SUBSET Updates
      BY <1>4, <2>1 DEF OnDataReceived, TypeOK
    <2> QED BY <1>4, <2>1, <2>2, <2>3, <2>4 DEF OnDataReceived, TypeOK
  <1>5. CASE IntervalPasses
    BY <1>5 DEF IntervalPasses, TypeOK
  <1>6. CASE GetItem
    <2>1. queue' \in Seq(Updates) /\ Len(queue') <= QueueSize /\ buffer' \in Seq(Updates)
      BY <1>6, QueueOps DEF GetItem, TypeOK
    <2>2. worker' \in {"get", "flush"} /\ flushDue' \in BOOLEAN
      BY <1>6 DEF GetItem, FlushOrGet, TypeOK
    <2> QED BY <1>6, <2>1, <2>2 DEF GetItem, TypeOK
  <1>7. CASE GetTimesOut
    <2>1. worker' \in {"get", "flush"} /\ flushDue' \in BOOLEAN
      BY <1>7 DEF GetTimesOut, FlushOrGet, TypeOK
    <2> QED BY <1>7, <2>1 DEF GetTimesOut, TypeOK
  <1>8. CASE FlushWritten
    <2>1. rows' \in SUBSET Updates
      BY <1>8, InsertTyped DEF FlushWritten, TypeOK
    <2> QED BY <1>8, <2>1, EndFlushTyped DEF FlushWritten, Flushing, TypeOK
  <1>9. CASE FlushRefused
    <2>1. failed' \in SUBSET Updates
      BY <1>9, ElementsTyped DEF FlushRefused, TypeOK
    <2> QED BY <1>9, <2>1, EndFlushTyped DEF FlushRefused, Flushing, TypeOK
  <1>10. CASE FlushLosesConnection
    <2>1. failed' \in SUBSET Updates
      BY <1>10, ElementsTyped DEF FlushLosesConnection, TypeOK
    <2>2. rows' \in SUBSET Updates
      BY <1>10, InsertTyped DEF FlushLosesConnection, TypeOK
    <2> QED BY <1>10, <2>1, <2>2 DEF FlushLosesConnection, TypeOK
  <1>11. CASE ConnectionClosed
    BY <1>11, EndFlushTyped DEF ConnectionClosed, Closing, TypeOK
  <1>12. CASE ConnectionCloseFails
    <2>1. unfinished' \in Nat /\ worker' \in {"get", "gone"}
      BY <1>12, AfterAckTyped DEF ConnectionCloseFails, Acknowledge, ResumeWorker, TypeOK
    <2> QED BY <1>12, <2>1 DEF ConnectionCloseFails, Acknowledge, TypeOK
  <1>13. CASE CancelledInGet
    BY <1>13 DEF CancelledInGet, TypeOK
  <1>14. CASE CancelledInFlush
    <2>1. rows' \in SUBSET Updates
      BY <1>14, InsertTyped DEF CancelledInFlush, TypeOK
    <2>2. unfinished' \in Nat
      BY <1>14, AfterAckTyped DEF CancelledInFlush, TypeOK
    <2> QED BY <1>14, <2>1, <2>2 DEF CancelledInFlush, TypeOK
  <1>15. CASE Connecting
    <2>1. CASE Start
      BY <2>1 DEF Start, TypeOK
    <2>2. CASE NoChannels \/ ConnectFails \/ BackoffExpires
      BY <2>2 DEF NoChannels, ConnectFails, BackoffExpires, TypeOK
    <2>3. CASE Connect
      BY <2>3 DEF Connect, TypeOK
    <2> QED BY <1>15, <2>1, <2>2, <2>3 DEF Connecting
  <1>16. CASE Signal \/ DrainTimesOut
    BY <1>16 DEF Signal, DrainTimesOut, TypeOK
  <1>17. CASE Stopping
    BY <1>17 DEF Stopping, Disconnect, CancelWorker, Stop, TypeOK
  <1> QED
    BY <1>1, <1>2, <1>3, <1>4, <1>5, <1>6, <1>7, <1>8, <1>9, <1>10, <1>11, <1>12,
       <1>13, <1>14, <1>15, <1>16, <1>17 DEF Next, Sdk, Worker, Flush

\* Type correctness, for every feed, queue size and buffer size.
THEOREM TypeCorrect == Spec => []TypeOK
  <1>1. Init => TypeOK
    BY InitTyped
  <1>2. TypeOK /\ [Next]_vars => TypeOK'
    BY StepTyped
  <1> QED BY <1>1, <1>2, PTL DEF Spec

-----------------------------------------------------------------------------
\* Cancellation starts at "await", and the final flush only after it.
LEMMA CancellingStep ==
    TypeOK /\ Cancelling /\ [Next]_vars => Cancelling'
  <1> SUFFICES ASSUME TypeOK, Cancelling, [Next]_vars PROVE Cancelling'
    OBVIOUS
  <1> USE DEF Cancelling, feed, q, work, ctl, db, hist
  <1>1. CASE UNCHANGED vars
    BY <1>1 DEF vars
  <1>2. CASE Sdk \/ OnDataReceived \/ IntervalPasses
    BY <1>2 DEF Sdk, ReceiveUpdate, HandOver, OnDataReceived, IntervalPasses
  <1>3. CASE GetItem \/ GetTimesOut
    BY <1>3 DEF GetItem, GetTimesOut, FlushOrGet
  <1>4. CASE EndFlush /\ (Flushing \/ Closing)
    BY <1>4 DEF EndFlush, Flushing, Closing, ResumeWorker, Acknowledge
  <1>5. CASE FlushLosesConnection
    BY <1>5 DEF FlushLosesConnection, Flushing
  <1>6. CASE ConnectionCloseFails
    BY <1>6 DEF ConnectionCloseFails, Closing, ResumeWorker, Acknowledge
  <1>7. CASE CancelledInGet \/ CancelledInFlush
    BY <1>7 DEF CancelledInGet, CancelledInFlush
  <1>8. CASE Connecting \/ Signal \/ DrainTimesOut
    BY <1>8 DEF Connecting, Start, NoChannels, Connect, ConnectFails, BackoffExpires,
                Signal, DrainTimesOut
  <1>9. CASE Stopping
    BY <1>9 DEF Stopping, Disconnect, CancelWorker, Stop
  <1> QED
    BY <1>1, <1>2, <1>3, <1>4, <1>5, <1>6, <1>7, <1>8, <1>9
    DEF Next, Worker, Flush, FlushWritten, FlushRefused, ConnectionClosed

\* The drain starts with something unfinished, and the acknowledgement that brings the
\* count to zero ends it.
LEMMA JoinStep ==
    TypeOK /\ Cancelling /\ JoinWaits /\ [Next]_vars => JoinWaits'
  <1> SUFFICES ASSUME TypeOK, Cancelling, JoinWaits, [Next]_vars PROVE JoinWaits'
    OBVIOUS
  <1> USE DEF JoinWaits, feed, q, work, ctl, db, hist
  <1>0. unfinished \in Nat /\ pending \in Nat
    BY DEF TypeOK
  <1>1. CASE UNCHANGED vars
    BY <1>1 DEF vars
  <1>2. CASE Sdk \/ IntervalPasses
    BY <1>2 DEF Sdk, ReceiveUpdate, HandOver, IntervalPasses
  <1>3. CASE OnDataReceived
    BY <1>0, <1>3 DEF OnDataReceived
  <1>4. CASE GetItem \/ GetTimesOut
    BY <1>4 DEF GetItem, GetTimesOut
  <1>5. CASE Acknowledge
    <2>1. unfinished' \in Nat
      BY <1>0, <1>5, AfterAckTyped DEF Acknowledge
    <2> QED BY <1>5, <2>1 DEF Acknowledge
  <1>6. CASE FlushLosesConnection \/ CancelledInGet
    BY <1>6 DEF FlushLosesConnection, CancelledInGet
  <1>7. CASE CancelledInFlush
    BY <1>7 DEF CancelledInFlush, Cancelling
  <1>8. CASE Connecting \/ Signal \/ DrainTimesOut
    BY <1>8 DEF Connecting, Start, NoChannels, Connect, ConnectFails, BackoffExpires,
                Signal, DrainTimesOut
  <1>9. CASE Stopping
    BY <1>9 DEF Stopping, Disconnect, CancelWorker, Stop
  <1> QED
    BY <1>1, <1>2, <1>3, <1>4, <1>5, <1>6, <1>7, <1>8, <1>9
    DEF Next, Worker, Flush, FlushWritten, FlushRefused, ConnectionClosed,
        ConnectionCloseFails, EndFlush

\* What the worker and the queue hold and what was dropped add up to the count.
LEMMA BalanceStep ==
    ASSUME ~closeFailed, DrainInv, [Next]_vars PROVE AckBalance'
  <1> USE DEF DrainInv, AckBalance, feed, q, work, ctl, db, hist
  <1>0. /\ unfinished \in Nat /\ pending \in Nat
        /\ queue \in Seq(Updates) /\ evicted \in Seq(Updates) /\ scheduled \in Seq(Updates)
        /\ Len(queue) \in Nat /\ Len(evicted) \in Nat
    BY DEF TypeOK
  <1>1. CASE UNCHANGED vars
    BY <1>1 DEF vars
  <1>2. CASE Sdk \/ IntervalPasses
    BY <1>2 DEF Sdk, ReceiveUpdate, HandOver, IntervalPasses
  <1>3. CASE OnDataReceived
    <2> DEFINE u == Head(scheduled)
    <2>1. u \in Updates
      BY <1>0, <1>3, QueueOps DEF OnDataReceived
    <2>2. unfinished' = unfinished + 1 /\ UNCHANGED <<pending, worker>>
      BY <1>3 DEF OnDataReceived
    <2>3. CASE Len(queue) = QueueSize
      <3>1. queue # <<>>
        BY <2>3, IngestionParameters DEF IngestionParameters
      <3>2. Len(queue') = Len(queue)
        BY <1>0, <1>3, <2>1, <2>3, <3>1, QueueOps DEF OnDataReceived
      <3>3. Len(evicted') = Len(evicted) + 1
        <4>1. Head(queue) \in Updates
          BY <1>0, <3>1, QueueOps
        <4> QED BY <1>0, <1>3, <2>3, <4>1, QueueOps DEF OnDataReceived
      <3> QED BY <1>0, <2>2, <3>2, <3>3
    <2>4. CASE Len(queue) # QueueSize
      <3>1. Len(queue') = Len(queue) + 1 /\ evicted' = evicted
        BY <1>0, <1>3, <2>1, <2>4, QueueOps DEF OnDataReceived
      <3> QED BY <1>0, <2>2, <3>1
    <2> QED BY <2>3, <2>4
  <1>4. CASE GetItem
    <2>1. worker = "get" /\ pending' = pending + 1 /\ UNCHANGED <<unfinished, evicted>>
      BY <1>4 DEF GetItem
    <2>2. Len(queue') = Len(queue) - 1
      <3>1. \A s \in Seq(Updates) : s # <<>> => Len(Tail(s)) = Len(s) - 1
        OBVIOUS
      <3> QED BY <1>0, <1>4, <3>1 DEF GetItem
    <2> QED BY <1>0, <2>1, <2>2
  <1>5. CASE GetTimesOut
    BY <1>5 DEF GetTimesOut
  <1>6. CASE EndFlush /\ (Flushing \/ Closing)
    <2>1. CASE worker \in {"flush", "close"}
      <3>1. unfinished' = unfinished - pending
        BY <1>0, <1>6, <2>1 DEF EndFlush, Acknowledge, AfterAck
      <3> QED BY <1>0, <1>6, <2>1, <3>1 DEF EndFlush
    <2>2. CASE worker \in {"finalFlush", "finalClose"}
      BY <1>6, <2>2 DEF EndFlush, ResumeWorker
    <2> QED BY <1>6, <2>1, <2>2 DEF Flushing, Closing
  <1>7. CASE FlushLosesConnection
    BY <1>7 DEF FlushLosesConnection, Flushing
  <1>8. CASE CancelledInGet
    BY <1>8 DEF CancelledInGet
  <1>9. CASE CancelledInFlush
    BY <1>9 DEF CancelledInFlush
  <1>10. CASE Connecting \/ Signal \/ DrainTimesOut
    <2>1. CASE Start
      <3>1. Cancelling /\ main = "start" /\ UNCHANGED <<queue, unfinished, pending, evicted>>
        BY <2>1 DEF Start
      <3>2. worker \notin {"finalFlush", "finalClose", "gone"}
        BY <3>1 DEF Cancelling
      <3> QED BY <3>1, <3>2
    <2>2. CASE Signal \/ DrainTimesOut \/ NoChannels \/ Connect \/ ConnectFails \/ BackoffExpires
      BY <2>2 DEF NoChannels, Connect, ConnectFails, BackoffExpires, Signal, DrainTimesOut
    <2> QED BY <1>10, <2>1, <2>2 DEF Connecting
  <1>11. CASE Stopping
    BY <1>11 DEF Stopping, Disconnect, CancelWorker, Stop
  <1>12. CASE ConnectionCloseFails
    BY <1>12 DEF ConnectionCloseFails
  <1> QED
    BY <1>1, <1>2, <1>3, <1>4, <1>5, <1>6, <1>7, <1>8, <1>9, <1>10, <1>11, <1>12
    DEF Next, Worker, Flush, FlushWritten, FlushRefused, ConnectionClosed

\* The history of a failed close is never rewritten.
LEMMA CloseFailureSticks == closeFailed /\ [Next]_vars => closeFailed'
  <1> SUFFICES ASSUME closeFailed, [Next]_vars PROVE closeFailed'
    OBVIOUS
  <1> USE DEF hist
  <1>1. CASE UNCHANGED vars
    BY <1>1 DEF vars
  <1>2. CASE Sdk \/ OnDataReceived \/ IntervalPasses
    BY <1>2 DEF Sdk, ReceiveUpdate, HandOver, OnDataReceived, IntervalPasses
  <1>3. CASE Worker
    BY <1>3 DEF Worker, Flush, GetItem, GetTimesOut, FlushWritten, FlushRefused, EndFlush,
                FlushLosesConnection, ConnectionClosed, ConnectionCloseFails,
                CancelledInGet, CancelledInFlush
  <1>4. CASE Connecting \/ Signal \/ DrainTimesOut \/ Stopping
    BY <1>4 DEF Connecting, Start, NoChannels, Connect, ConnectFails, BackoffExpires,
                Signal, DrainTimesOut, Stopping, Disconnect, CancelWorker, Stop
  <1> QED BY <1>1, <1>2, <1>3, <1>4 DEF Next

\* The inductive invariant holds in every reachable state.
LEMMA DrainInvariant == Spec => []DrainInv
  <1>1. Init => DrainInv
    <2> SUFFICES ASSUME Init PROVE DrainInv
      OBVIOUS
    <2>1. AckBalance
      <3>1. Len(<<>>) = 0
        OBVIOUS
      <3> QED BY <3>1 DEF Init, AckBalance
    <2>2. Cancelling
      <3>1. ~cancelled /\ worker = "none"
        BY DEF Init
      <3> QED BY <3>1 DEF Cancelling
    <2>3. JoinWaits
      BY DEF Init, JoinWaits
    <2> QED BY <2>1, <2>2, <2>3, InitTyped DEF DrainInv
  <1>2. DrainInv /\ [Next]_vars => DrainInv'
    <2>1. ASSUME closeFailed, DrainInv, [Next]_vars PROVE AckBalance'
      BY <2>1, CloseFailureSticks DEF AckBalance
    <2> QED BY <2>1, StepTyped, CancellingStep, JoinStep, BalanceStep DEF DrainInv
  <1> QED BY <1>1, <1>2, PTL DEF Spec

\* The unfinished count is balanced in every reachable state, for every feed, queue
\* size, buffer size and number of database faults.
THEOREM AckBalanceHolds == Spec => []AckBalance
  <1>1. DrainInv => AckBalance
    BY DEF DrainInv
  <1> QED BY <1>1, DrainInvariant, PTL

\* If the drain waits although nobody holds an item, a message was dropped on overflow.
THEOREM DrainStallsOnlyAfterOverflow == Spec => []OnlyOverflowStallsDrain
  <1>1. DrainInv => OnlyOverflowStallsDrain
    <2> SUFFICES ASSUME DrainInv, ~closeFailed, main = "join", queue = <<>>, pending = 0
                 PROVE  evicted # <<>>
      BY DEF OnlyOverflowStallsDrain
    <2>1. worker \notin {"finalFlush", "finalClose", "gone"}
      BY DEF DrainInv, Cancelling
    <2>2. unfinished = Len(queue) + pending + Len(evicted) /\ unfinished > 0
      BY <2>1 DEF DrainInv, AckBalance, JoinWaits
    <2> QED BY <2>2
  <1> QED BY <1>1, DrainInvariant, PTL

-----------------------------------------------------------------------------
\* A nonempty set of naturals has a least element.
LEMMA LeastNatural ==
    ASSUME NEW T \in SUBSET Nat, T # {}
    PROVE  \E x \in T : \A y \in T : x <= y
  <1>1. PICK x \in T : \A y \in T : ~(<<y, x>> \in OpToRel(<, Nat))
    BY NatLessThanWellFounded, WFMin
  <1>2. \A y \in T : ~(y < x)
    BY <1>1 DEF OpToRel
  <1> QED BY <1>2

\* The elements of a queue after it was appended to, and before its head was taken.
LEMMA ElementsOfQueue ==
    ASSUME NEW S, NEW s \in Seq(S), NEW e \in S
    PROVE  /\ Elements(Append(s, e)) = Elements(s) \cup {e}
           /\ s # <<>> => Elements(s) = Elements(Tail(s)) \cup {Head(s)}
  <1>1. Elements(Append(s, e)) = Elements(s) \cup {e}
    <2>1. /\ \A i \in DOMAIN s : i \in DOMAIN Append(s, e) /\ Append(s, e)[i] = s[i]
          /\ Len(s) + 1 \in DOMAIN Append(s, e) /\ Append(s, e)[Len(s) + 1] = e
          /\ \A i \in DOMAIN Append(s, e) : i \in DOMAIN s \/ i = Len(s) + 1
      OBVIOUS
    <2> QED BY <2>1 DEF Elements
  <1>2. ASSUME s # <<>> PROVE Elements(s) = Elements(Tail(s)) \cup {Head(s)}
    <2>1. /\ \A i \in DOMAIN Tail(s) : i + 1 \in DOMAIN s /\ Tail(s)[i] = s[i + 1]
          /\ \A i \in DOMAIN s : i = 1 \/ (i - 1 \in DOMAIN Tail(s) /\ s[i] = Tail(s)[i - 1])
          /\ 1 \in DOMAIN s /\ s[1] = Head(s)
      BY <1>2
    <2>2. ASSUME NEW x \in Elements(s) PROVE x \in Elements(Tail(s)) \cup {Head(s)}
      <3>1. PICK i \in DOMAIN s : x = s[i]
        BY DEF Elements
      <3> QED BY <2>1, <3>1 DEF Elements
    <2>3. ASSUME NEW x \in Elements(Tail(s)) PROVE x \in Elements(s)
      <3>1. PICK i \in DOMAIN Tail(s) : x = Tail(s)[i]
        BY DEF Elements
      <3> QED BY <2>1, <3>1 DEF Elements
    <2>4. Head(s) \in Elements(s)
      BY <2>1 DEF Elements
    <2> QED BY <2>2, <2>3, <2>4
  <1> QED BY <1>1, <1>2

\* An insert keeps the table and leaves a row for every key of the batch.
LEMMA InsertPersists ==
    ASSUME NEW table, NEW batch \in Seq(Updates)
    PROVE  /\ table \subseteq InsertIgnore(table, batch)
           /\ \A u \in Elements(batch) :
                 \E r \in InsertIgnore(table, batch) : RowKey[r] = RowKey[u]
  <1>1. table \subseteq InsertIgnore(table, batch)
    BY DEF InsertIgnore
  <1>2. ASSUME NEW u \in Elements(batch)
        PROVE  \E r \in InsertIgnore(table, batch) : RowKey[r] = RowKey[u]
    <2>1. CASE \E r \in table : RowKey[r] = RowKey[u]
      BY <1>1, <2>1
    <2>2. CASE \A r \in table : RowKey[r] # RowKey[u]
      <3> DEFINE T == {i \in DOMAIN batch : RowKey[batch[i]] = RowKey[u]}
      <3>1. T \in SUBSET Nat /\ T # {}
        BY DEF Elements
      <3>2. PICK j \in T : \A i \in T : j <= i
        BY <3>1, LeastNatural
      <3>3. \A k \in 1..j - 1 : RowKey[batch[k]] # RowKey[batch[j]]
        BY <3>2
      <3>4. batch[j] \in InsertIgnore(table, batch)
        <4>1. j \in DOMAIN batch /\ RowKey[batch[j]] = RowKey[u]
          BY <3>2
        <4>2. \A r \in table : RowKey[r] # RowKey[batch[j]]
          BY <2>2, <4>1
        <4> QED BY <3>3, <4>1, <4>2, Zenon DEF InsertIgnore
      <3> QED BY <3>2, <3>4
    <2> QED BY <2>1, <2>2
  <1> QED BY <1>1, <1>2

\* A batch that waits for its connection to be closed has been given up already.
GivenUp == worker \in {"close", "finalClose"} => Elements(buffer) \subseteq failed

\* Where a promised reading can be, whoever is there to take it on.
OnItsWay ==
    \A u \in Readable(promised) :
        \/ u \in Elements(queue)
        \/ u \in Elements(buffer) /\ worker # "gone"
        \/ u \in Lost
        \/ Persisted(u)

LossInv == TypeOK /\ GivenUp /\ OnItsWay

\* A flush that ends with its batch written or given up loses nothing.
LEMMA EndFlushLosesNothing ==
    ASSUME LossInv, EndFlush, failed \subseteq failed', rows \subseteq rows',
           \A u \in Readable(Elements(buffer)) : u \in failed' \/ Persisted(u)'
    PROVE  GivenUp' /\ OnItsWay'
  <1>1. UNCHANGED <<promised, evicted, queue>> /\ buffer' = <<>>
        /\ worker' \in {"get", "gone"}
    BY DEF EndFlush, hist, ResumeWorker
  <1>2. GivenUp'
    BY <1>1 DEF GivenUp
  <1>3. \A u : Persisted(u) => Persisted(u)'
    BY DEF Persisted
  <1>4. ASSUME NEW u \in Readable(promised')
        PROVE  u \in Elements(queue') \/ u \in Lost' \/ Persisted(u)'
    <2>1. u \in Readable(promised) /\ u \in Readable({u})
      BY <1>1, <1>4 DEF Readable
    <2>2. \/ u \in Elements(queue) \/ u \in Elements(buffer) \/ u \in Lost \/ Persisted(u)
      BY <2>1 DEF LossInv, OnItsWay
    <2>3. CASE u \in Elements(buffer)
      BY <2>1, <2>3 DEF Readable, Lost
    <2>4. CASE u \in Lost
      BY <1>1, <2>4 DEF Lost
    <2> QED BY <1>1, <1>3, <2>2, <2>3, <2>4
  <1> QED BY <1>2, <1>4 DEF OnItsWay

\* A step that takes nothing out of the queue, the buffer, the table or the losses and
\* does not end the worker loses nothing.
LEMMA KeepingStep ==
    ASSUME LossInv, promised' = promised, Elements(queue) \subseteq Elements(queue'),
           Elements(buffer) \subseteq Elements(buffer'), rows \subseteq rows',
           Lost \subseteq Lost', worker' = "gone" => worker = "gone" \/ buffer = <<>>
    PROVE  OnItsWay'
  <1>1. \A u : Persisted(u) => Persisted(u)'
    BY DEF Persisted
  <1>2. buffer = <<>> => Elements(buffer) = {}
    BY DEF Elements
  <1> QED BY <1>1, <1>2 DEF LossInv, OnItsWay, Readable

\* Every step of the worker keeps every reading on its way, or accounts for it.
LEMMA WorkerLosesNothing ==
    ASSUME LossInv, Worker PROVE GivenUp' /\ OnItsWay'
  <1> USE DEF feed, q, work, ctl, db, hist
  <1>0. /\ queue \in Seq(Updates) /\ buffer \in Seq(Updates)
        /\ Elements(buffer) \subseteq Updates
    BY ElementsTyped DEF LossInv, TypeOK
  <1>1. CASE GetItem
    <2> DEFINE u == Head(queue)
    <2>1. /\ worker = "get" /\ worker' \in {"get", "flush"}
          /\ UNCHANGED <<promised, rows, failed, evicted>>
          /\ queue # <<>> /\ queue' = Tail(queue)
          /\ buffer' = IF Kind[u] = "invalid" THEN buffer ELSE Append(buffer, u)
      BY <1>1 DEF GetItem, FlushOrGet
    <2>2. u \in Updates /\ Elements(queue) = Elements(queue') \cup {u}
      BY <1>0, <2>1, QueueOps, ElementsOfQueue
    <2>3. Elements(buffer') = Elements(buffer) \cup (IF Kind[u] = "invalid" THEN {} ELSE {u})
      BY <1>0, <2>1, <2>2, ElementsOfQueue
    <2>4. OnItsWay'
      BY <2>1, <2>2, <2>3 DEF LossInv, OnItsWay, Readable, Lost, Persisted
    <2>5. GivenUp'
      BY <2>1 DEF GivenUp
    <2> QED BY <2>4, <2>5
  <1>2. CASE GetTimesOut
    <2>1. /\ worker' \in {"get", "flush"}
          /\ UNCHANGED <<promised, queue, buffer, rows, failed, evicted>>
      BY <1>2 DEF GetTimesOut, FlushOrGet
    <2> QED BY <2>1, KeepingStep DEF GivenUp, Lost
  <1>3. CASE FlushWritten
    <2>1. rows \subseteq rows' /\ UNCHANGED failed
          /\ \A u \in Elements(buffer) : Persisted(u)'
      BY <1>0, <1>3, InsertPersists DEF FlushWritten, Persisted
    <2> QED BY <1>3, <2>1, EndFlushLosesNothing DEF FlushWritten, Readable
  <1>4. CASE FlushRefused
    <2>1. rows' = rows /\ failed' = failed \cup Elements(buffer)
      BY <1>4 DEF FlushRefused
    <2> QED BY <1>4, <2>1, EndFlushLosesNothing DEF FlushRefused, Readable
  <1>5. CASE FlushLosesConnection
    <2>1. /\ worker' \in {"close", "finalClose"}
          /\ failed' = failed \cup Elements(buffer)
          /\ UNCHANGED <<promised, queue, buffer, evicted>>
      BY <1>5 DEF FlushLosesConnection
    <2>2. rows \subseteq rows'
      BY <1>0, <1>5, InsertPersists DEF FlushLosesConnection, MaybeInserted
    <2>3. Lost \subseteq Lost'
      BY <2>1 DEF Lost
    <2> QED BY <2>1, <2>2, <2>3, KeepingStep DEF GivenUp
  <1>6. CASE ConnectionClosed
    <2>1. Elements(buffer) \subseteq failed /\ UNCHANGED <<rows, failed>>
      BY <1>6 DEF ConnectionClosed, Closing, LossInv, GivenUp
    <2> QED BY <1>6, <2>1, EndFlushLosesNothing DEF ConnectionClosed, Readable
  <1>7. CASE ConnectionCloseFails
    <2>1. /\ Elements(buffer) \subseteq failed /\ worker' \in {"get", "gone"}
          /\ UNCHANGED <<promised, queue, buffer, rows, failed, evicted>>
      BY <1>7 DEF ConnectionCloseFails, Closing, ResumeWorker, LossInv, GivenUp
    <2>2. OnItsWay'
      BY <2>1 DEF LossInv, OnItsWay, Readable, Lost, Persisted
    <2> QED BY <2>1, <2>2 DEF GivenUp
  <1>8. CASE CancelledInGet
    <2>1. /\ worker' = IF buffer # <<>> \/ pending > 0 THEN "finalFlush" ELSE "gone"
          /\ UNCHANGED <<promised, queue, buffer, rows, failed, evicted>>
      BY <1>8 DEF CancelledInGet
    <2>2. worker' \in {"finalFlush", "gone"} /\ (worker' = "gone" => buffer = <<>>)
      BY <2>1
    <2> QED BY <2>1, <2>2, KeepingStep DEF GivenUp, Lost
  <1>9. CASE CancelledInFlush
    <2>1. /\ worker' = "finalFlush" /\ UNCHANGED <<promised, queue, buffer, failed, evicted>>
      BY <1>9 DEF CancelledInFlush
    <2>2. rows \subseteq rows'
      BY <1>0, <1>9, InsertPersists DEF CancelledInFlush, MaybeInserted
    <2> QED BY <2>1, <2>2, KeepingStep DEF GivenUp, Lost
  <1> QED BY <1>1, <1>2, <1>3, <1>4, <1>5, <1>6, <1>7, <1>8, <1>9 DEF Worker, Flush

\* So does a producer callback: what it drops is recorded as dropped.
LEMMA CallbackLosesNothing ==
    ASSUME LossInv, OnDataReceived PROVE GivenUp' /\ OnItsWay'
  <1> USE DEF feed, q, work, ctl, db, hist
  <1> DEFINE u == Head(scheduled)
  <1>1. /\ queue \in Seq(Updates) /\ evicted \in Seq(Updates) /\ u \in Updates
        /\ Len(queue) \in Nat
    BY QueueOps DEF LossInv, TypeOK, OnDataReceived
  <1>2. UNCHANGED <<buffer, worker, rows, failed>>
        /\ promised' \subseteq promised \cup {u}
    BY DEF OnDataReceived
  <1>3. GivenUp'
    BY <1>2 DEF LossInv, GivenUp
  <1>4. CASE Len(queue) = QueueSize
    <2>1. queue # <<>>
      BY <1>4, IngestionParameters DEF IngestionParameters
    <2>2. /\ Head(queue) \in Updates /\ Tail(queue) \in Seq(Updates)
          /\ queue' = Append(Tail(queue), u) /\ evicted' = Append(evicted, Head(queue))
      BY <1>1, <1>4, <2>1, QueueOps DEF OnDataReceived
    <2>3. Elements(queue') = Elements(Tail(queue)) \cup {u}
      <3> HIDE DEF u
      <3>1. \A s \in Seq(Updates), e \in Updates : Elements(Append(s, e)) = Elements(s) \cup {e}
        BY ElementsOfQueue
      <3>2. Elements(Append(Tail(queue), u)) = Elements(Tail(queue)) \cup {u}
        BY <1>1, <2>2, <3>1, Zenon
      <3> QED BY <2>2, <3>2
    <2>4. Elements(queue) = Elements(Tail(queue)) \cup {Head(queue)}
      BY <1>1, <2>1, ElementsOfQueue
    <2>5. Elements(evicted') = Elements(evicted) \cup {Head(queue)}
      BY <1>1, <2>2, ElementsOfQueue
    <2> QED BY <1>2, <1>3, <2>3, <2>4, <2>5 DEF LossInv, OnItsWay, Readable, Lost, Persisted
  <1>5. CASE Len(queue) # QueueSize
    <2>1. queue' = Append(queue, u) /\ evicted' = evicted
      BY <1>5 DEF OnDataReceived
    <2>2. Elements(queue') = Elements(queue) \cup {u}
      BY <1>1, <2>1, ElementsOfQueue
    <2> QED BY <1>2, <1>3, <2>1, <2>2 DEF LossInv, OnItsWay, Readable, Lost, Persisted
  <1> QED BY <1>4, <1>5

\* The other steps move no reading.
LEMMA OthersLoseNothing ==
    ASSUME LossInv, Sdk \/ IntervalPasses \/ Connecting \/ Signal \/ Stopping \/ DrainTimesOut
                    \/ UNCHANGED vars
    PROVE  GivenUp' /\ OnItsWay'
  <1> USE DEF feed, q, work, ctl, db, hist
  <1>1. UNCHANGED <<promised, queue, buffer, rows, failed, evicted>>
    BY DEF Sdk, ReceiveUpdate, HandOver, IntervalPasses, Connecting, Start, NoChannels, Connect,
           ConnectFails, BackoffExpires, Signal, Stopping, Disconnect, CancelWorker, Stop,
           DrainTimesOut, vars
  <1>2. worker' = worker \/ worker' = "get"
    BY DEF Sdk, ReceiveUpdate, HandOver, IntervalPasses, Connecting, Start, NoChannels, Connect,
           ConnectFails, BackoffExpires, Signal, Stopping, Disconnect, CancelWorker, Stop,
           DrainTimesOut, vars
  <1> QED BY <1>1, <1>2, KeepingStep DEF LossInv, GivenUp, Lost

\* The invariant that OnItsWay needs holds in every reachable state.
LEMMA LossInvariant == Spec => []LossInv
  <1>1. Init => LossInv
    BY InitTyped DEF Init, LossInv, GivenUp, OnItsWay, Readable
  <1>2. LossInv /\ [Next]_vars => LossInv'
    BY StepTyped, WorkerLosesNothing, CallbackLosesNothing, OthersLoseNothing
    DEF LossInv, Next
  <1> QED BY <1>1, <1>2, PTL DEF Spec

\* The table changes by inserting the worker's buffer, once or not at all.
LEMMA RowsStep ==
    [Next]_vars => rows' = rows \/ rows' = InsertIgnore(rows, buffer)
  <1> SUFFICES ASSUME [Next]_vars, rows' # rows PROVE rows' = InsertIgnore(rows, buffer)
    OBVIOUS
  <1> USE DEF db
  <1>1. ~(Sdk \/ OnDataReceived \/ IntervalPasses \/ UNCHANGED vars)
    BY DEF Sdk, ReceiveUpdate, HandOver, OnDataReceived, IntervalPasses, vars
  <1>2. ~(Connecting \/ Signal \/ DrainTimesOut \/ Stopping)
    BY DEF Connecting, Start, NoChannels, Connect, ConnectFails, BackoffExpires,
           Signal, DrainTimesOut, Stopping, Disconnect, CancelWorker, Stop
  <1>3. ~(GetItem \/ GetTimesOut \/ FlushRefused \/ ConnectionClosed
            \/ ConnectionCloseFails \/ CancelledInGet)
    BY DEF GetItem, GetTimesOut, FlushRefused, ConnectionClosed, ConnectionCloseFails,
           CancelledInGet
  <1>4. FlushWritten \/ FlushLosesConnection \/ CancelledInFlush
    BY <1>1, <1>2, <1>3 DEF Next, Worker, Flush
  <1> QED
    BY <1>4 DEF FlushWritten, FlushLosesConnection, CancelledInFlush, MaybeInserted

=============================================================================
