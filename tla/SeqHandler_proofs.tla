-------------------------- MODULE SeqHandler_proofs --------------------------
(***************************************************************************)
(* Proofs about SeqHandler: its types, that no event is posted twice or,   *)
(* until close() joins in, out of order, and that close() loses no event   *)
(* but the one the worker held when the join gave it up.                   *)
(***************************************************************************)
EXTENDS SeqHandler, TLAPS

Queued == {queue[i] : i \in DOMAIN queue}

\* Where an event is: being sent by the worker or by close(), if anywhere.
InHand == {hand, closing} \ {None}

\* A worker that sends holds an event.
Holding == worker = "send" => hand # None

\* Events wait in the order they were logged, and every event that is anywhere was.
QueueSorted == \A i, j \in DOMAIN queue : i < j => queue[i] < queue[j]

Logged == \A e \in Queued \cup InHand \cup Posted : e < nextEvent

\* An event is in one place: waiting, in one of the two hands, or posted.
OnePlace ==
    /\ Queued \cap (InHand \cup Posted) = {}
    /\ InHand \cap Posted = {}
    /\ hand # None => hand # closing

PostedOnce == \A i, j \in DOMAIN posted : i < j => posted[i] # posted[j]

\* Until close() joins in, what is posted is older than what the worker holds, and that
\* is older than what waits.
OldestFirst ==
    closer = "open" =>
        /\ \A i, j \in DOMAIN posted : i < j => posted[i] < posted[j]
        /\ \A e \in Posted : \A f \in InHand \cup Queued : e < f
        /\ \A e \in InHand : \A f \in Queued : e < f

\* An accepted event waits, is in a hand or is posted; once close() has drained the
\* queue none waits.
Kept == accepted \subseteq Queued \cup InHand \cup Posted

Drained == closer \in {"join", "closed", "exited"} => accepted \cap Queued = {}

\* close() gives the worker up, or the worker has ended.
JoinEnds ==
    closer \in {"closed", "exited"} /\ ~joinTimedOut => worker \in {"ended", "absent"}

-----------------------------------------------------------------------------
(* Sequences and the sets of their elements *)

Elems(s) == {s[i] : i \in DOMAIN s}

\* What a sequence holds after Append (Emit and the two sends).
LEMMA AppendElems ==
    ASSUME NEW S, NEW s \in Seq(S), NEW e
    PROVE  Elems(Append(s, e)) = Elems(s) \cup {e}
<1> DEFINE a == Append(s, e)
           n == Len(s) + 1
<1>1. DOMAIN s = 1..Len(s) /\ DOMAIN a = 1..n /\ Len(s) \in Nat
  OBVIOUS
<1>2. \A i \in DOMAIN s : a[i] = s[i]
  OBVIOUS
<1>3. a[n] = e
  OBVIOUS
<1>4. n \in DOMAIN a /\ \A i \in DOMAIN a : i \in DOMAIN s \/ i = n
  BY <1>1
<1>5. \A i \in DOMAIN s : i \in DOMAIN a
  BY <1>1
<1> QED
  BY <1>2, <1>3, <1>4, <1>5 DEF Elems

\* What the head and the tail of a sequence hold (Get and DrainOne).
LEMMA HeadTailElems ==
    ASSUME NEW S, NEW s \in Seq(S), s # <<>>
    PROVE  /\ Head(s) \in S /\ Tail(s) \in Seq(S) /\ Len(Tail(s)) = Len(s) - 1
           /\ Elems(s) = {Head(s)} \cup Elems(Tail(s))
           /\ \A i \in DOMAIN Tail(s) : i + 1 \in DOMAIN s /\ Tail(s)[i] = s[i + 1]
<1> DEFINE t == Tail(s)
<1>1. /\ Len(s) \in Nat \ {0} /\ DOMAIN s = 1..Len(s) /\ t \in Seq(S)
      /\ Len(t) = Len(s) - 1 /\ DOMAIN t = 1..(Len(s) - 1)
  OBVIOUS
<1>2. Head(s) = s[1] /\ s[1] \in S
  BY <1>1
<1>3. \A i \in DOMAIN t : i + 1 \in DOMAIN s /\ t[i] = s[i + 1]
  BY <1>1
<1>4. \A i \in DOMAIN s : i = 1 \/ (i - 1 \in DOMAIN t /\ t[i - 1] = s[i])
  BY <1>1
<1>5. Elems(s) = {s[1]} \cup Elems(t)
  <2>1. ASSUME NEW x \in Elems(s)
        PROVE  x \in {s[1]} \cup Elems(t)
    BY <1>4 DEF Elems
  <2>2. ASSUME NEW x \in {s[1]} \cup Elems(t)
        PROVE  x \in Elems(s)
    BY <1>1, <1>3 DEF Elems
  <2> QED
    BY <2>1, <2>2
<1> QED
  BY <1>1, <1>2, <1>3, <1>5

-----------------------------------------------------------------------------
(* The types *)

TypesHold == TypeOK /\ Holding

\* A step keeps every variable of its type, and the hands in step with the program
\* counters.
LEMMA TypesStep ==
    ASSUME TypesHold, [Next]_vars
    PROVE  TypesHold'
<1> USE HandlerParameters DEF TypesHold, TypeOK, Holding, Events, None
<1>1. CASE Emit
  <2>1. nextEvent \in Events
    <3>1. nextEvent \in 1..MaxEvents + 1 /\ nextEvent <= MaxEvents
      BY <1>1 DEF Emit
    <3> QED
      BY <3>1
  <2>2. CASE Len(queue) < QueueSize
    <3>1. queue' \in Seq(Events) /\ Len(queue') <= QueueSize
      <4>1. queue' = Append(queue, nextEvent) /\ queue \in Seq(Events)
        BY <1>1, <2>2 DEF Emit
      <4>2. Len(queue') = Len(queue) + 1 /\ queue' \in Seq(Events)
        BY <4>1, <2>1
      <4>3. Len(queue) \in Nat
        BY <4>1
      <4> QED
        BY <4>2, <4>3, <2>2
    <3>2. accepted' \in SUBSET Events
      <4>1. accepted' \in {accepted, accepted \cup {nextEvent}}
        BY <1>1, <2>2 DEF Emit
      <4> QED
        BY <4>1, <2>1
    <3>3. nextEvent' \in 1..MaxEvents + 1
      BY <1>1 DEF Emit
    <3> QED
      BY <1>1, <3>1, <3>2, <3>3 DEF Emit
  <2>3. CASE ~(Len(queue) < QueueSize)
    <3>1. nextEvent' \in 1..MaxEvents + 1
      BY <1>1 DEF Emit
    <3>2. UNCHANGED <<queue, accepted, stopEvent, worker, hand, closer, closing,
                      joinTimedOut, posted>>
      BY <1>1, <2>3 DEF Emit
    <3> QED
      BY <3>1, <3>2
  <2> QED
    BY <2>2, <2>3
<1>2. CASE CheckStop
  BY <1>2 DEF CheckStop
<1>3. CASE Get
  BY <1>3, HeadTailElems DEF Get
<1>4. CASE GetTimesOut
  BY <1>4 DEF GetTimesOut
<1>5. CASE WorkerSends
  BY <1>5 DEF WorkerSends
<1>6. CASE Close
  BY <1>6 DEF Close
<1>7. CASE DrainOne
  BY <1>7, HeadTailElems DEF DrainOne
<1>8. CASE CloserSends
  BY <1>8 DEF CloserSends
<1>9. CASE DrainEnds
  BY <1>9 DEF DrainEnds
<1>10. CASE WorkerJoined
  BY <1>10 DEF WorkerJoined
<1>11. CASE JoinTimesOut
  BY <1>11 DEF JoinTimesOut
<1>12. CASE Exit
  BY <1>12 DEF Exit
<1>13. CASE UNCHANGED vars
  BY <1>13 DEF vars
<1> HIDE HandlerParameters DEF TypesHold, TypeOK, Holding, Events, None
<1> QED
  BY <1>1, <1>2, <1>3, <1>4, <1>5, <1>6, <1>7, <1>8, <1>9, <1>10, <1>11, <1>12, <1>13
     DEF Next, Worker, Closer

LEMMA TypesInit ==
    ASSUME Init
    PROVE  TypesHold
<1>1. nextEvent \in 1..MaxEvents + 1
  BY HandlerParameters DEF Init
<1>2. queue \in Seq(Events) /\ Len(queue) <= QueueSize /\ posted \in Seq(Events)
  BY HandlerParameters DEF Init
<1> QED
  BY <1>1, <1>2 DEF Init, TypesHold, TypeOK, Holding, None

\* The queue never holds more than its maxsize, and every variable keeps its type.
THEOREM TypeCorrect == Spec => []TypeOK
<1>1. TypesHold => TypeOK
  BY DEF TypesHold
<1> QED
  BY TypesInit, TypesStep, <1>1, PTL DEF Spec

-----------------------------------------------------------------------------
(* Where the events are *)

Places == <<queue, hand, closing, posted>>

DataInv ==
    QueueSorted /\ Logged /\ OnePlace /\ PostedOnce /\ OldestFirst /\ Kept

\* Events are positive numbers, wherever they are.
LEMMA EventsAreNumbers ==
    ASSUME TypesHold
    PROVE  /\ Queued = Elems(queue) /\ Posted = Elems(posted)
           /\ Queued \subseteq Events /\ InHand \subseteq Events /\ Posted \subseteq Events
           /\ Events \subseteq Nat \ {0} /\ nextEvent \in Nat \ {0}
<1>1. queue \in Seq(Events) /\ posted \in Seq(Events)
  BY DEF TypesHold, TypeOK
<1>2. Queued \subseteq Events /\ Posted \subseteq Events
  BY <1>1 DEF Queued, Posted
<1>3. InHand \subseteq Events
  BY DEF TypesHold, TypeOK, InHand
<1>4. Events \subseteq Nat \ {0} /\ nextEvent \in Nat \ {0}
  BY HandlerParameters DEF Events, TypesHold, TypeOK
<1> QED
  BY <1>2, <1>3, <1>4 DEF Queued, Posted, Elems

\* The head of the sorted queue is older than what is left, which stays sorted.
LEMMA HeadIsOldest ==
    ASSUME TypesHold, QueueSorted, queue # <<>>
    PROVE  /\ Queued = {Head(queue)} \cup Elems(Tail(queue))
           /\ \A e \in Elems(Tail(queue)) : Head(queue) < e
           /\ \A i, j \in DOMAIN Tail(queue) : i < j => Tail(queue)[i] < Tail(queue)[j]
<1>1. queue \in Seq(Events)
  BY DEF TypesHold, TypeOK
<1>2. /\ Elems(queue) = {Head(queue)} \cup Elems(Tail(queue))
      /\ \A i \in DOMAIN Tail(queue) :
            i + 1 \in DOMAIN queue /\ Tail(queue)[i] = queue[i + 1]
  BY <1>1, HeadTailElems
<1>3. /\ DOMAIN Tail(queue) \subseteq Nat \ {0} /\ 1 \in DOMAIN queue
      /\ Head(queue) = queue[1]
  BY <1>1
<1>4. \A i, j \in DOMAIN Tail(queue) : i < j => i + 1 < j + 1
  BY <1>3
<1>5. \A i, j \in DOMAIN Tail(queue) : i < j => Tail(queue)[i] < Tail(queue)[j]
  BY <1>2, <1>4 DEF QueueSorted
<1>6. ASSUME NEW e \in Elems(Tail(queue))
      PROVE  Head(queue) < e
  <2>1. PICK i \in DOMAIN Tail(queue) : e = Tail(queue)[i]
    BY <1>6 DEF Elems
  <2>2. e = queue[i + 1] /\ i + 1 \in DOMAIN queue /\ 1 < i + 1
    BY <1>2, <1>3, <2>1
  <2> QED
    BY <1>3, <2>2 DEF QueueSorted
<1> QED
  BY <1>2, <1>5, <1>6 DEF Queued, Elems

\* An event that was not posted before is posted: still once each, and in order if it
\* is newer than all before it.
LEMMA PostOne ==
    ASSUME TypesHold, PostedOnce, NEW e \in Events, e \notin Posted,
           posted' = Append(posted, e)
    PROVE  /\ PostedOnce'
           /\ Posted' = Posted \cup {e}
           /\ (/\ \A i, j \in DOMAIN posted : i < j => posted[i] < posted[j]
               /\ \A f \in Posted : f < e)
              => \A i, j \in DOMAIN posted' : i < j => posted'[i] < posted'[j]
<1>1. posted \in Seq(Events)
  BY DEF TypesHold, TypeOK
<1>2. Posted' = Posted \cup {e}
  BY <1>1, AppendElems DEF Posted, Elems
<1> DEFINE n == Len(posted) + 1
<1>3. /\ DOMAIN posted = 1..Len(posted) /\ DOMAIN posted' = 1..n /\ Len(posted) \in Nat
      /\ \A i \in DOMAIN posted : posted'[i] = posted[i]
      /\ posted'[n] = e
  BY <1>1
<1> HIDE DEF n
<1>4. \A i, j \in DOMAIN posted' :
         i < j => \/ i \in DOMAIN posted /\ j \in DOMAIN posted
                  \/ i \in DOMAIN posted /\ j = n
  BY <1>3 DEF n
<1>5. \A i \in DOMAIN posted : posted[i] \in Posted
  BY DEF Posted
<1>6. PostedOnce'
  <2> SUFFICES ASSUME NEW i \in DOMAIN posted', NEW j \in DOMAIN posted', i < j
               PROVE  posted'[i] # posted'[j]
    BY DEF PostedOnce
  <2>1. CASE i \in DOMAIN posted /\ j \in DOMAIN posted
    BY <2>1, <1>3 DEF PostedOnce
  <2>2. CASE i \in DOMAIN posted /\ j = n
    BY <2>2, <1>3, <1>5
  <2> QED
    BY <1>4, <2>1, <2>2
<1>7. ASSUME \A i, j \in DOMAIN posted : i < j => posted[i] < posted[j],
             \A f \in Posted : f < e,
             NEW i \in DOMAIN posted', NEW j \in DOMAIN posted', i < j
      PROVE  posted'[i] < posted'[j]
  <2>1. CASE i \in DOMAIN posted /\ j \in DOMAIN posted
    BY <2>1, <1>3, <1>7
  <2>2. CASE i \in DOMAIN posted /\ j = n
    BY <2>2, <1>3, <1>5, <1>7
  <2> QED
    BY <1>4, <1>7, <2>1, <2>2
<1> QED
  BY <1>2, <1>6, <1>7

\* An event is accepted: it is newer than any other.
LEMMA EmitKeeps ==
    ASSUME TypesHold, DataInv, Emit
    PROVE  DataInv'
<1>1. /\ Queued = Elems(queue) /\ Queued \subseteq Events /\ InHand \subseteq Events
      /\ Posted \subseteq Events /\ Events \subseteq Nat \ {0} /\ nextEvent \in Nat \ {0}
  BY EventsAreNumbers
<1>2. /\ UNCHANGED <<hand, closing, posted, closer>> /\ nextEvent' = nextEvent + 1
      /\ InHand' = InHand /\ Posted' = Posted
  BY DEF Emit, InHand, Posted
<1>3. PostedOnce'
  BY <1>2 DEF DataInv, PostedOnce
<1>4. CASE Len(queue) < QueueSize
  <2>1. queue \in Seq(Events) /\ queue' = Append(queue, nextEvent)
    BY <1>4 DEF Emit, TypesHold, TypeOK
  <2>2. Queued' = Queued \cup {nextEvent}
    BY <2>1, AppendElems DEF Queued, Elems
  <2>3. Logged'
    BY <1>1, <1>2, <2>2 DEF DataInv, Logged
  <2>4. OnePlace'
    BY <1>1, <1>2, <2>2 DEF DataInv, OnePlace, Logged
  <2>5. OldestFirst'
    BY <1>1, <1>2, <2>2 DEF DataInv, OldestFirst, Logged
  <2>6. Kept'
    BY <1>2, <1>4, <2>2 DEF Emit, DataInv, Kept
  <2>7. QueueSorted'
    <3> DEFINE n == Len(queue) + 1
    <3>1. /\ DOMAIN queue = 1..Len(queue) /\ DOMAIN queue' = 1..n /\ Len(queue) \in Nat
          /\ \A i \in DOMAIN queue : queue'[i] = queue[i]
          /\ queue'[n] = nextEvent
      BY <2>1
    <3> HIDE DEF n
    <3>2. \A i, j \in DOMAIN queue' :
             i < j => \/ i \in DOMAIN queue /\ j \in DOMAIN queue
                      \/ i \in DOMAIN queue /\ j = n
      BY <3>1 DEF n
    <3>3. \A i \in DOMAIN queue : queue[i] < nextEvent
      BY DEF DataInv, Logged, Queued
    <3> SUFFICES ASSUME NEW i \in DOMAIN queue', NEW j \in DOMAIN queue', i < j
                 PROVE  queue'[i] < queue'[j]
      BY DEF QueueSorted
    <3>4. CASE i \in DOMAIN queue /\ j \in DOMAIN queue
      BY <3>1, <3>4 DEF DataInv, QueueSorted
    <3>5. CASE i \in DOMAIN queue /\ j = n
      BY <3>1, <3>3, <3>5
    <3> QED
      BY <3>2, <3>4, <3>5
  <2> QED
    BY <1>3, <2>3, <2>4, <2>5, <2>6, <2>7 DEF DataInv
<1>5. CASE ~(Len(queue) < QueueSize)
  <2>1. UNCHANGED <<queue, accepted>> /\ Queued' = Queued
    BY <1>5 DEF Emit, Queued
  <2>2. Logged'
    BY <1>1, <1>2, <2>1 DEF DataInv, Logged
  <2> QED
    BY <1>2, <1>3, <2>1, <2>2 DEF DataInv, QueueSorted, OnePlace, OldestFirst, Kept
<1> QED
  BY <1>4, <1>5

\* The worker or close() takes the head of the queue in hand.
LEMMA TakeKeeps ==
    ASSUME TypesHold, DataInv, Get \/ DrainOne
    PROVE  DataInv'
<1> DEFINE h == Head(queue)
           rest == Elems(Tail(queue))
<1>1. /\ Queued \subseteq Events /\ InHand \subseteq Events /\ Posted \subseteq Events
      /\ Events \subseteq Nat \ {0} /\ nextEvent \in Nat \ {0}
  BY EventsAreNumbers
<1>2. queue # <<>> /\ queue' = Tail(queue)
      /\ UNCHANGED <<nextEvent, posted, accepted>> /\ Posted' = Posted
  BY DEF Get, DrainOne, Posted
<1>3. /\ Queued = {h} \cup rest /\ Queued' = rest
      /\ \A e \in rest : h < e
      /\ QueueSorted'
  <2>1. /\ Queued = {h} \cup rest /\ \A e \in rest : h < e
        /\ \A i, j \in DOMAIN Tail(queue) : i < j => Tail(queue)[i] < Tail(queue)[j]
    BY <1>2, HeadIsOldest DEF DataInv
  <2>2. Queued' = rest
    BY <1>2 DEF Queued, Elems
  <2> QED
    BY <1>2, <2>1, <2>2 DEF QueueSorted
<1> HIDE DEF h, rest
<1>4. /\ h \in Events /\ h \in Queued /\ h \notin rest
  BY <1>1, <1>3
<1>5. InHand' = InHand \cup {h}
  <2>1. CASE Get
    BY <2>1, <1>1, <1>4 DEF Get, TypesHold, TypeOK, InHand, None, h
  <2>2. CASE DrainOne
    BY <2>2, <1>1, <1>4 DEF DrainOne, TypesHold, TypeOK, InHand, None, h
  <2> QED
    BY <2>1, <2>2
<1>6. hand' # None => hand' # closing'
  <2>1. CASE Get
    BY <2>1, <1>4 DEF Get, DataInv, OnePlace, InHand, None, h
  <2>2. CASE DrainOne
    BY <2>2, <1>4 DEF DrainOne, DataInv, OnePlace, InHand, None, h
  <2> QED
    BY <2>1, <2>2
<1>7. Logged' /\ Kept' /\ PostedOnce'
  BY <1>2, <1>3, <1>5 DEF DataInv, Logged, Kept, PostedOnce
<1>8. OnePlace'
  BY <1>2, <1>3, <1>4, <1>5, <1>6 DEF DataInv, OnePlace
<1>9. OldestFirst'
  <2>1. CASE Get
    <3>1. closer' = closer
      BY <2>1 DEF Get
    <3>2. closer = "open" => InHand = {}
      BY <2>1 DEF Get, TypesHold, TypeOK, InHand
    <3> QED
      BY <1>2, <1>3, <1>5, <3>1, <3>2 DEF DataInv, OldestFirst
  <2>2. CASE DrainOne
    BY <2>2 DEF DrainOne, OldestFirst
  <2> QED
    BY <2>1, <2>2
<1> QED
  BY <1>3, <1>7, <1>8, <1>9 DEF DataInv

\* What was in a hand is posted.
LEMMA SendKeeps ==
    ASSUME TypesHold, DataInv, WorkerSends \/ CloserSends
    PROVE  DataInv'
<1>1. /\ Queued \subseteq Events /\ InHand \subseteq Events /\ Posted \subseteq Events
      /\ Events \subseteq Nat \ {0} /\ nextEvent \in Nat \ {0}
  BY EventsAreNumbers
<1>2. UNCHANGED <<nextEvent, queue, accepted>> /\ Queued' = Queued
  BY DEF WorkerSends, CloserSends, Queued
<1>3. PICK e : /\ e \in InHand /\ posted' = Append(posted, e)
               /\ InHand = InHand' \cup {e} /\ e \notin InHand'
               /\ hand' = None \/ closing' = None
               /\ closer' = "open" => closer = "open" /\ InHand' = {}
  <2>1. CASE WorkerSends
    <3>1. hand \in InHand /\ closing # hand
      BY <2>1 DEF WorkerSends, TypesHold, Holding, InHand, DataInv, OnePlace
    <3>2. InHand' = {closing} \ {None} /\ hand' = None
      BY <2>1 DEF WorkerSends, InHand
    <3>3. closer = "open" => closing = None
      BY DEF TypesHold, TypeOK
    <3> QED
      BY <2>1, <3>1, <3>2, <3>3 DEF WorkerSends, InHand
  <2>2. CASE CloserSends
    <3>1. closing \in InHand /\ closing # hand
      BY <2>2 DEF CloserSends, TypesHold, TypeOK, InHand, DataInv, OnePlace
    <3>2. InHand' = {hand} \ {None} /\ closing' = None /\ closer' = "drain"
      BY <2>2 DEF CloserSends, InHand
    <3> QED
      BY <2>2, <3>1, <3>2 DEF CloserSends, InHand
  <2> QED
    BY <2>1, <2>2
<1>4. e \in Events /\ e \notin Posted
  BY <1>1, <1>3 DEF DataInv, OnePlace
<1>5. /\ PostedOnce' /\ Posted' = Posted \cup {e}
      /\ (/\ \A i, j \in DOMAIN posted : i < j => posted[i] < posted[j]
          /\ \A f \in Posted : f < e)
         => \A i, j \in DOMAIN posted' : i < j => posted'[i] < posted'[j]
  BY <1>3, <1>4, PostOne DEF DataInv
<1>6. Logged' /\ Kept' /\ QueueSorted'
  BY <1>2, <1>3, <1>5 DEF DataInv, Logged, Kept, QueueSorted
<1>7. OnePlace'
  <2>1. hand' # None => hand' # closing'
    BY <1>3
  <2>2. /\ Queued' \cap (InHand' \cup Posted') = {} /\ InHand' \cap Posted' = {}
    BY <1>2, <1>3, <1>5 DEF DataInv, OnePlace
  <2> QED
    BY <2>1, <2>2 DEF OnePlace
<1>8. OldestFirst'
  <2> SUFFICES ASSUME closer' = "open"
               PROVE  /\ \A i, j \in DOMAIN posted' : i < j => posted'[i] < posted'[j]
                      /\ \A x \in Posted' : \A y \in InHand' \cup Queued' : x < y
                      /\ \A x \in InHand' : \A y \in Queued' : x < y
    BY DEF OldestFirst
  <2>1. closer = "open" /\ InHand' = {}
    BY <1>3
  <2>2. /\ \A i, j \in DOMAIN posted : i < j => posted[i] < posted[j]
        /\ \A x \in Posted : \A y \in InHand \cup Queued : x < y
        /\ \A x \in InHand : \A y \in Queued : x < y
    BY <2>1 DEF DataInv, OldestFirst
  <2> QED
    BY <1>2, <1>3, <1>5, <2>1, <2>2
<1> QED
  BY <1>5, <1>6, <1>7, <1>8 DEF DataInv

\* The other steps move no event, and none reopens the handler.
LEMMA OthersKeep ==
    ASSUME TypesHold, DataInv,
           \/ CheckStop \/ GetTimesOut \/ Close \/ DrainEnds \/ WorkerJoined
           \/ JoinTimesOut \/ Exit \/ UNCHANGED vars
    PROVE  DataInv' /\ Queued' = Queued /\ accepted' = accepted
<1>1. /\ UNCHANGED <<nextEvent, queue, hand, closing, posted, accepted>>
      /\ closer' = "open" => closer = "open"
  BY DEF CheckStop, GetTimesOut, Close, DrainEnds, WorkerJoined, JoinTimesOut, Exit, vars
<1>2. Queued' = Queued /\ InHand' = InHand /\ Posted' = Posted
  BY <1>1 DEF Queued, InHand, Posted
<1> QED
  BY <1>1, <1>2 DEF DataInv, QueueSorted, Logged, OnePlace, PostedOnce, OldestFirst, Kept

LEMMA DataStep ==
    ASSUME TypesHold, DataInv, [Next]_vars
    PROVE  DataInv'
BY EmitKeeps, TakeKeeps, SendKeeps, OthersKeep DEF Next, Worker, Closer

-----------------------------------------------------------------------------
(* close() *)

CloseInv == Drained /\ JoinEnds

\* The queue close() found is empty when it joins the worker, and what is logged later
\* is not accepted; a worker that has ended, or was never there, stays so.
LEMMA CloseStep ==
    ASSUME TypesHold, DataInv, CloseInv, [Next]_vars
    PROVE  CloseInv'
<1>1. CASE Emit
  <2>1. accepted \cap {nextEvent} = {}
    <3>1. \A e \in accepted : e < nextEvent
      BY DEF DataInv, Kept, Logged
    <3>2. nextEvent \in Nat
      BY EventsAreNumbers
    <3> QED
      BY <3>1, <3>2
  <2>2. closer # "open" => accepted' = accepted /\ Queued' \subseteq Queued \cup {nextEvent}
    <3>1. CASE Len(queue) < QueueSize
      <4>1. queue \in Seq(Events) /\ queue' = Append(queue, nextEvent)
        BY <1>1, <3>1 DEF Emit, TypesHold, TypeOK
      <4> QED
        BY <1>1, <3>1, <4>1, AppendElems DEF Emit, Queued, Elems
    <3>2. CASE ~(Len(queue) < QueueSize)
      BY <1>1, <3>2 DEF Emit, Queued
    <3> QED
      BY <3>1, <3>2
  <2>3. UNCHANGED <<closer, joinTimedOut, worker>>
    BY <1>1 DEF Emit
  <2> QED
    BY <2>1, <2>2, <2>3 DEF CloseInv, Drained, JoinEnds
<1>2. CASE Get
  <2>1. Queued' \subseteq Queued
    BY <1>2, HeadIsOldest DEF Get, DataInv, Queued, Elems
  <2> QED
    BY <1>2, <2>1 DEF Get, CloseInv, Drained, JoinEnds
<1>3. CASE WorkerSends
  BY <1>3 DEF WorkerSends, CloseInv, Drained, JoinEnds, Queued
<1>4. CASE DrainOne
  BY <1>4 DEF DrainOne, CloseInv, Drained, JoinEnds
<1>5. CASE CloserSends
  BY <1>5 DEF CloserSends, CloseInv, Drained, JoinEnds
<1>6. CASE DrainEnds
  <2>1. Queued' = {}
    BY <1>6 DEF DrainEnds, Queued
  <2> QED
    BY <1>6, <2>1 DEF DrainEnds, CloseInv, Drained, JoinEnds
<1>7. CASE \/ CheckStop \/ GetTimesOut \/ Close \/ WorkerJoined \/ JoinTimesOut \/ Exit
           \/ UNCHANGED vars
  <2>1. Queued' = Queued /\ accepted' = accepted
    BY <1>7, OthersKeep
  <2>2. closer' \in {"join", "closed", "exited"} => closer \in {"join", "closed", "exited"}
    BY <1>7 DEF CheckStop, GetTimesOut, Close, WorkerJoined, JoinTimesOut, Exit, vars
  <2>3. JoinEnds'
    BY <1>7 DEF CheckStop, GetTimesOut, Close, WorkerJoined, JoinTimesOut, Exit, vars,
                CloseInv, JoinEnds
  <2> QED
    BY <2>1, <2>2, <2>3 DEF CloseInv, Drained
<1> QED
  BY <1>1, <1>2, <1>3, <1>4, <1>5, <1>6, <1>7 DEF Next, Worker, Closer

LEMMA DataInit ==
    ASSUME Init
    PROVE  DataInv /\ CloseInv
<1>1. Queued = {} /\ Posted = {} /\ InHand = {}
  BY DEF Init, Queued, Posted, InHand
<1> QED
  BY <1>1 DEF Init, DataInv, CloseInv, QueueSorted, Logged, OnePlace, PostedOnce,
              OldestFirst, Kept, Drained, JoinEnds

LEMMA HandlerInvariant == Spec => [](TypesHold /\ DataInv /\ CloseInv)
BY TypesInit, DataInit, TypesStep, DataStep, CloseStep, PTL DEF Spec

\* The worker and close() never post one event both, and until close() starts the events
\* reach Seq in the order they were logged.
THEOREM PostedInOrder == Spec => []PostedOnceInOrder
<1>1. DataInv => PostedOnceInOrder
  BY DEF DataInv, PostedOnce, OldestFirst, PostedOnceInOrder
<1> QED
  BY HandlerInvariant, <1>1, PTL

\* Every event accepted before close() has been posted when close() is through, but for
\* the one a worker given up by the join held: an accepted event waits, is in a hand or is
\* posted; the queue was drained, close() holds nothing, and a worker that has ended
\* neither.
THEOREM CloseLosesNothing == Spec => []NothingLostAtClose
<1>1. ASSUME TypesHold, DataInv, CloseInv
      PROVE  NothingLostAtClose
  <2> SUFFICES ASSUME closer \in {"closed", "exited"}, NEW e \in accepted \ Posted
               PROVE  joinTimedOut /\ e = hand
    BY DEF NothingLostAtClose
  <2>1. closing = None
    BY <1>1 DEF TypesHold, TypeOK
  <2>2. e = hand /\ hand # None
    BY <1>1, <2>1 DEF CloseInv, Drained, DataInv, Kept, InHand
  <2>3. joinTimedOut
    BY <1>1, <2>2 DEF TypesHold, TypeOK, CloseInv, JoinEnds
  <2> QED
    BY <2>2, <2>3
<1> QED
  BY HandlerInvariant, <1>1, PTL
=============================================================================
