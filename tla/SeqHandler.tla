----------------------------- MODULE SeqHandler -----------------------------
(***************************************************************************)
(* SeqHandler of apps/core/logging.py, the development log handler: a      *)
(* bounded queue.Queue between the threads that log and a daemon thread    *)
(* that posts the events to Seq, and a close() that posts what is left.    *)
(*                                                                         *)
(* Events are numbered in the order they are logged.  logging calls emit() *)
(* and, at shutdown, close() under the handler's lock, so emit() is one    *)
(* step and cannot interleave with close(); the worker thread takes no     *)
(* lock.  A post ends or fails within its timeout; either way the event is *)
(* done with (a failure is printed).                                       *)
(***************************************************************************)
EXTENDS Integers, Sequences

CONSTANTS
    MaxEvents,      \* bound: how many events are logged
    QueueSize       \* maxsize of the queue

Events == 1..MaxEvents

ASSUME HandlerParameters == MaxEvents \in Nat /\ QueueSize \in Nat \ {0}

None == 0

VARIABLES
    nextEvent,      \* the next event somebody logs
    queue,          \* self.queue
    stopEvent,      \* self._stop_event
    worker,         \* where the worker thread stands
    hand,           \* the event it took and has not posted yet
    closer,         \* where close() stands; "open" before, "closed" after
    closing,        \* the event close() took and has not posted yet
    joinTimedOut,   \* the join gave the worker up
    posted,         \* history: the events posted, in order
    accepted        \* history: the events put in the queue before close()

vars == <<nextEvent, queue, stopEvent, worker, hand, closer, closing, joinTimedOut,
          posted, accepted>>

TypeOK ==
    /\ nextEvent \in 1..MaxEvents + 1
    /\ queue \in Seq(Events) /\ Len(queue) <= QueueSize
    /\ stopEvent \in BOOLEAN
    /\ worker \in {"check", "get", "send", "ended", "absent", "killed"}
    /\ hand \in {None} \cup Events
    /\ closer \in {"open", "drain", "send", "join", "closed", "exited"}
    /\ closing \in {None} \cup Events
    /\ joinTimedOut \in BOOLEAN
    /\ posted \in Seq(Events)
    /\ accepted \in SUBSET Events
    /\ hand # None => worker \in {"send", "killed"}
    /\ closing # None <=> closer = "send"

\* __init__ starts the worker; a process forked later has the handler but not the thread.
Init ==
    /\ nextEvent = 1 /\ queue = <<>> /\ stopEvent = FALSE
    /\ worker \in {"check", "absent"}
    /\ hand = None /\ closing = None
    /\ closer = "open" /\ joinTimedOut = FALSE
    /\ posted = <<>> /\ accepted = {}

LockFree == closer \in {"open", "closed"}

-----------------------------------------------------------------------------
\* Mutant of Emit: the queue has no maxsize.
MutantUnbounded ==
    /\ LockFree
    /\ nextEvent <= MaxEvents
    /\ nextEvent' = nextEvent + 1
    /\ queue' = Append(queue, nextEvent)
    /\ accepted' = IF closer = "open" THEN accepted \cup {nextEvent} ELSE accepted
    /\ UNCHANGED <<stopEvent, worker, hand, closer, closing, joinTimedOut, posted>>

\* A thread logs: put_nowait, or the event is dropped with a line on stderr.  Nothing
\* tells emit() that the handler is closed.
Emit ==
    /\ LockFree
    /\ nextEvent <= MaxEvents
    /\ nextEvent' = nextEvent + 1
    /\ IF Len(queue) < QueueSize
       THEN /\ queue' = Append(queue, nextEvent)
            /\ accepted' = IF closer = "open" THEN accepted \cup {nextEvent} ELSE accepted
       ELSE UNCHANGED <<queue, accepted>>
    /\ UNCHANGED <<stopEvent, worker, hand, closer, closing, joinTimedOut, posted>>

-----------------------------------------------------------------------------
(* The worker thread                                                       *)

CheckStop ==
    /\ worker = "check"
    /\ worker' = IF stopEvent THEN "ended" ELSE "get"
    /\ UNCHANGED <<nextEvent, queue, stopEvent, hand, closer, closing, joinTimedOut,
                   posted, accepted>>

\* Mutant of Get: the newest event is taken.
MutantGetNewest ==
    /\ worker = "get"
    /\ queue # <<>>
    /\ hand' = queue[Len(queue)]
    /\ queue' = SubSeq(queue, 1, Len(queue) - 1)
    /\ worker' = "send"
    /\ UNCHANGED <<nextEvent, stopEvent, closer, closing, joinTimedOut, posted, accepted>>

Get ==
    /\ worker = "get"
    /\ queue # <<>>
    /\ hand' = Head(queue)
    /\ queue' = Tail(queue)
    /\ worker' = "send"
    /\ UNCHANGED <<nextEvent, stopEvent, closer, closing, joinTimedOut, posted, accepted>>

\* Mutant of GetTimesOut: an empty queue ends the thread.
MutantEndOnEmpty ==
    /\ worker = "get"
    /\ queue = <<>>
    /\ worker' = "ended"
    /\ UNCHANGED <<nextEvent, queue, stopEvent, hand, closer, closing, joinTimedOut,
                   posted, accepted>>

\* 0.2 seconds without an event
GetTimesOut ==
    /\ worker = "get"
    /\ queue = <<>>
    /\ worker' = "check"
    /\ UNCHANGED <<nextEvent, queue, stopEvent, hand, closer, closing, joinTimedOut,
                   posted, accepted>>

WorkerSends ==
    /\ worker = "send"
    /\ posted' = Append(posted, hand)
    /\ hand' = None
    /\ worker' = "check"
    /\ UNCHANGED <<nextEvent, queue, stopEvent, closer, closing, joinTimedOut, accepted>>

-----------------------------------------------------------------------------
(* close()                                                                 *)

\* Mutant of Close: the worker is stopped without draining the queue.
MutantNoDrain ==
    /\ closer = "open"
    /\ closer' = "join"
    /\ stopEvent' = TRUE
    /\ UNCHANGED <<nextEvent, queue, worker, hand, closing, joinTimedOut, posted, accepted>>

Close ==
    /\ closer = "open"
    /\ closer' = "drain"
    /\ UNCHANGED <<nextEvent, queue, stopEvent, worker, hand, closing, joinTimedOut,
                   posted, accepted>>

DrainOne ==
    /\ closer = "drain"
    /\ queue # <<>>
    /\ closing' = Head(queue)
    /\ queue' = Tail(queue)
    /\ closer' = "send"
    /\ UNCHANGED <<nextEvent, stopEvent, worker, hand, joinTimedOut, posted, accepted>>

CloserSends ==
    /\ closer = "send"
    /\ posted' = Append(posted, closing)
    /\ closing' = None
    /\ closer' = "drain"
    /\ UNCHANGED <<nextEvent, queue, stopEvent, worker, hand, joinTimedOut, accepted>>

\* Mutant of DrainEnds: the loop goes on when the queue is empty.
MutantDrainForEver ==
    /\ closer = "drain"
    /\ queue = <<>>
    /\ stopEvent' = TRUE
    /\ UNCHANGED <<nextEvent, queue, worker, hand, closer, closing, joinTimedOut, posted, accepted>>

DrainEnds ==
    /\ closer = "drain"
    /\ queue = <<>>
    /\ stopEvent' = TRUE
    /\ closer' = "join"
    /\ UNCHANGED <<nextEvent, queue, worker, hand, closing, joinTimedOut, posted, accepted>>

WorkerJoined ==
    /\ closer = "join"
    /\ worker \in {"ended", "absent"}
    /\ closer' = "closed"
    /\ UNCHANGED <<nextEvent, queue, stopEvent, worker, hand, closing, joinTimedOut,
                   posted, accepted>>

\* The worker is still posting, or has not woken up, a second later.
JoinTimesOut ==
    /\ closer = "join"
    /\ worker \notin {"ended", "absent"}
    /\ joinTimedOut' = TRUE
    /\ closer' = "closed"
    /\ UNCHANGED <<nextEvent, queue, stopEvent, worker, hand, closing, posted, accepted>>

\* The process ends, and the daemon thread with it.
Exit ==
    /\ closer = "closed"
    /\ closer' = "exited"
    /\ worker' = IF worker \in {"ended", "absent"} THEN worker ELSE "killed"
    /\ UNCHANGED <<nextEvent, queue, stopEvent, hand, closing, joinTimedOut,
                   posted, accepted>>

-----------------------------------------------------------------------------
Worker == CheckStop \/ Get \/ GetTimesOut \/ WorkerSends

Closer == DrainOne \/ CloserSends \/ DrainEnds \/ WorkerJoined \/ JoinTimesOut

Next == Emit \/ Worker \/ Close \/ Closer \/ Exit

Spec == Init /\ [][Next]_vars

\* Both threads are scheduled and every post comes back; nothing makes anybody log,
\* close or exit.
FairSpec == Spec /\ WF_vars(Worker) /\ WF_vars(Closer)

-----------------------------------------------------------------------------
(* Properties                                                              *)

Posted == {posted[i] : i \in DOMAIN posted}

\* "events captured right before process exit still reach Seq": once close() is through,
\* every event accepted before it was posted, except at most the one the worker held
\* when the join gave it up.
NothingLostAtClose ==
    closer \in {"closed", "exited"} =>
        \A e \in accepted \ Posted : joinTimedOut /\ e = hand

\* No event is posted twice, although close() and the worker empty one queue; until
\* close() joins in they are posted in the order they were logged.
PostedOnceInOrder ==
    \A i, j \in DOMAIN posted :
        i < j => /\ posted[i] # posted[j]
                 /\ closer = "open" => posted[i] < posted[j]

\* An accepted event does not stay in the queue for ever where there is a worker thread:
\* it is posted, unless the process ends before.
EventsShipped ==
    \A e \in Events :
        e \in accepted /\ worker # "absent" ~> (e \in Posted \/ closer = "exited")

\* close() ends, whatever the worker is doing, and however much was queued.
CloseEnds == closer = "drain" ~> closer \in {"closed", "exited"}
=============================================================================
