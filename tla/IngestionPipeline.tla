------------------------- MODULE IngestionPipeline -------------------------
(***************************************************************************)
(* The long-running process of                                             *)
(* apps/telemetry_ingestion/management/commands/run_lightstreamer.py.      *)
(*                                                                         *)
(* Three parties share one bounded asyncio.Queue:                          *)
(*   - the Lightstreamer SDK thread (SubListener.onItemUpdate), which only *)
(*     schedules the producer callback on the event loop;                  *)
(*   - run_async: connect loop, signal, drain, cancellation;               *)
(*   - ingestion_worker: pull, validate, enrich, buffer, flush_buffer.     *)
(* The last two and the producer callbacks run on one event loop, so a     *)
(* step here is what one of them does between two awaits.                  *)
(*                                                                         *)
(* Updates are numbered in the order the feed sends them.  RowKey is the   *)
(* (channel, timestamp) the enricher gives an update; two updates have the *)
(* same one when a snapshot is broadcast again after a reconnect.  Time is *)
(* not modelled: a timer may fire whenever it is armed.                    *)
(***************************************************************************)
EXTENDS Integers, Sequences, FiniteSets

CONSTANTS
    MaxUpdates,     \* bound: how many updates the feed sends
    RowKey,         \* (channel, timestamp) of an update
    Kind,           \* "ok", "invalid" (fails validation), "poison" (aborts its batch)
    QueueSize,      \* maxsize of the queue
    BufferSize,     \* MAX_BUFFER_SIZE
    MaxDbFaults     \* bound: how many flushes meet an OperationalError

Updates == 1..MaxUpdates

ASSUME IngestionParameters ==
    /\ MaxUpdates \in Nat /\ QueueSize \in Nat \ {0} /\ BufferSize \in Nat \ {0}
    /\ MaxDbFaults \in Nat
    /\ Kind \in [Updates -> {"ok", "invalid", "poison"}]
    /\ DOMAIN RowKey = Updates

VARIABLES
    clientUp,       \* client.connect() done, client.disconnect() not yet
    nextUpdate,     \* the next update of the feed
    handing,        \* the update onItemUpdate is working on, 0 if none
    scheduled,      \* producer callbacks waiting for their turn on the loop
    queue,          \* self.queue
    unfinished,     \* its count of put items not yet task_done
    buffer, pending,    \* the worker's buffer and pending_queue_count
    flushDue,       \* MAX_FLUSH_INTERVAL has passed since last_flush_time
    worker,         \* where ingestion_worker is suspended
    cancelled,      \* worker_task.cancel() was called and is not delivered yet
    main,           \* where run_async is suspended
    shutdown,       \* shutdown_event
    dbFaults,       \* OperationalErrors so far
    rows,           \* the updates whose reading is a row of the table
    evicted,        \* history: updates dropped on overflow, in order
    failed,         \* history: updates of batches that were logged and given up
    promised,       \* history: updates put in the queue before the client disconnected
    closeFailed,    \* history: close_old_connections raised
    timedOut        \* the drain ran into its 10 seconds

feed == <<clientUp, nextUpdate, handing, scheduled>>
q    == <<queue, unfinished>>
work == <<buffer, pending, flushDue, worker>>
ctl  == <<cancelled, main, shutdown, timedOut>>
db   == <<dbFaults, rows, failed>>
hist == <<evicted, promised, closeFailed>>
vars == <<feed, q, work, ctl, db, hist>>

TypeOK ==
    /\ clientUp \in BOOLEAN
    /\ nextUpdate \in 1..MaxUpdates + 1
    /\ handing \in 0..MaxUpdates
    /\ scheduled \in Seq(Updates)
    /\ queue \in Seq(Updates) /\ Len(queue) <= QueueSize
    /\ unfinished \in Nat
    /\ buffer \in Seq(Updates)
    /\ pending \in Nat
    /\ flushDue \in BOOLEAN
    /\ worker \in {"none", "get", "flush", "close", "finalFlush", "finalClose", "gone"}
    /\ cancelled \in BOOLEAN
    /\ main \in {"start", "connect", "wait", "backoff", "join", "cancel", "await", "stopped"}
    /\ shutdown \in BOOLEAN
    /\ dbFaults \in 0..MaxDbFaults
    /\ rows \in SUBSET Updates
    /\ evicted \in Seq(Updates)
    /\ failed \in SUBSET Updates
    /\ promised \in SUBSET Updates
    /\ closeFailed \in BOOLEAN
    /\ timedOut \in BOOLEAN

Init ==
    /\ clientUp = FALSE /\ nextUpdate = 1 /\ handing = 0 /\ scheduled = <<>>
    /\ queue = <<>> /\ unfinished = 0
    /\ buffer = <<>> /\ pending = 0 /\ flushDue = FALSE /\ worker = "none"
    /\ cancelled = FALSE /\ main = "start" /\ shutdown = FALSE /\ timedOut = FALSE
    /\ dbFaults = 0 /\ rows = {} /\ failed = {}
    /\ evicted = <<>> /\ promised = {} /\ closeFailed = FALSE

Elements(s) == {s[i] : i \in DOMAIN s}

-----------------------------------------------------------------------------
(* The SDK thread                                                          *)

\* The feed delivers an update to onItemUpdate while the client is connected.
ReceiveUpdate ==
    /\ clientUp
    /\ handing = 0
    /\ nextUpdate <= MaxUpdates
    /\ handing' = nextUpdate
    /\ nextUpdate' = nextUpdate + 1
    /\ UNCHANGED <<clientUp, scheduled, q, work, ctl, db, hist>>

\* run_coroutine_threadsafe, or a dropped update when the loop is closed.  The
\* SDK thread may get here after disconnect() returned on the loop's thread.
HandOver ==
    /\ handing # 0
    /\ scheduled' = IF main = "stopped" THEN scheduled ELSE Append(scheduled, handing)
    /\ handing' = 0
    /\ UNCHANGED <<clientUp, nextUpdate, q, work, ctl, db, hist>>

-----------------------------------------------------------------------------
(* The producer callback                                                   *)

Running == main \in {"start", "connect", "wait", "backoff"}

\* Mutant of OnDataReceived: a full queue drops the newest message instead.
MutantDropNewest ==
    /\ scheduled # <<>>
    /\ main # "stopped"
    /\ LET u == Head(scheduled)
           full == Len(queue) = QueueSize
       IN  /\ queue' = IF full THEN queue ELSE Append(queue, u)
           /\ evicted' = IF full THEN Append(evicted, u) ELSE evicted
           /\ promised' = IF Running THEN promised \cup {u} ELSE promised
    /\ unfinished' = unfinished + 1
    /\ scheduled' = Tail(scheduled)
    /\ UNCHANGED <<clientUp, nextUpdate, handing, work, ctl, db, closeFailed>>

\* Mutant of OnDataReceived: the queue has no maxsize.
MutantUnbounded ==
    /\ scheduled # <<>>
    /\ main # "stopped"
    /\ queue' = Append(queue, Head(scheduled))
    /\ promised' = IF Running THEN promised \cup {Head(scheduled)} ELSE promised
    /\ unfinished' = unfinished + 1
    /\ scheduled' = Tail(scheduled)
    /\ UNCHANGED <<clientUp, nextUpdate, handing, evicted, work, ctl, db, closeFailed>>

\* on_data_received: put_nowait; when full, get_nowait the oldest and put again.
\* The dropped message is not acknowledged, so unfinished grows all the same.
OnDataReceived ==
    /\ scheduled # <<>>
    /\ main # "stopped"
    /\ LET u == Head(scheduled)
           full == Len(queue) = QueueSize
       IN  /\ queue' = Append(IF full THEN Tail(queue) ELSE queue, u)
           /\ evicted' = IF full THEN Append(evicted, Head(queue)) ELSE evicted
           /\ promised' = IF Running THEN promised \cup {u} ELSE promised
    /\ unfinished' = unfinished + 1
    /\ scheduled' = Tail(scheduled)
    /\ UNCHANGED <<clientUp, nextUpdate, handing, work, ctl, db, closeFailed>>

-----------------------------------------------------------------------------
(* The worker                                                              *)

\* MAX_FLUSH_INTERVAL passes.
IntervalPasses ==
    /\ ~flushDue
    /\ worker \notin {"none", "gone"}
    /\ flushDue' = TRUE
    /\ UNCHANGED <<feed, q, buffer, pending, worker, ctl, db, hist>>

\* Mutant of ShouldFlush: only a full buffer is flushed.
MutantSizeOnly(b, n) == Len(b) >= BufferSize

ShouldFlush(b, n) == Len(b) >= BufferSize \/ (n > 0 /\ flushDue)

\* What the end of the loop body does with the buffer: start a flush, which
\* takes the time of the check as the new last_flush_time, or go round again.
FlushOrGet(b, n) ==
    IF ShouldFlush(b, n)
    THEN worker' = "flush" /\ flushDue' = FALSE
    ELSE worker' = "get" /\ flushDue' = flushDue

\* The worker pulls one item; an invalid one is counted but not buffered.
GetItem ==
    /\ worker = "get"
    /\ ~cancelled
    /\ queue # <<>>
    /\ queue' = Tail(queue)
    /\ buffer' = IF Kind[Head(queue)] = "invalid" THEN buffer
                                                  ELSE Append(buffer, Head(queue))
    /\ pending' = pending + 1
    /\ FlushOrGet(buffer', pending')
    /\ UNCHANGED <<unfinished, feed, ctl, db, hist>>

\* 100 ms without an item; the flush condition is checked all the same.
GetTimesOut ==
    /\ worker = "get"
    /\ ~cancelled
    /\ queue = <<>>
    /\ ShouldFlush(buffer, pending)
    /\ FlushOrGet(buffer, pending)
    /\ UNCHANGED <<feed, q, buffer, pending, ctl, db, hist>>

\* abulk_create(ignore_conflicts=True): of the readings with one key the first
\* one stays, in the table as within the batch.
InsertIgnore(table, batch) ==
    table \cup
      {batch[i] : i \in {j \in DOMAIN batch :
          /\ \A u \in table : RowKey[u] # RowKey[batch[j]]
          /\ \A k \in 1..j - 1 : RowKey[batch[k]] # RowKey[batch[j]]}}

Poisoned(batch) == \E i \in DOMAIN batch : Kind[batch[i]] = "poison"

\* task_done() n times; one call too many raises ValueError, which is logged.
AfterAck(n) == IF unfinished > n THEN unfinished - n ELSE 0

\* Mutant of Acknowledge: one task_done() per buffered reading.
MutantAckBuffered ==
    /\ unfinished' = AfterAck(Len(buffer))
    /\ main' = IF main = "join" /\ unfinished' = 0 THEN "cancel" ELSE main

\* The finally block: acknowledge the pulled items and, when none is left, wake
\* up the drain that waits in queue.join().
Acknowledge ==
    /\ unfinished' = AfterAck(pending)
    /\ main' = IF main = "join" /\ unfinished' = 0 THEN "cancel" ELSE main

\* Mutant of ResumeWorker: the break after the final flush is missing.
MutantLoopAfterFinal == worker' = "get"

\* The worker loops after a flush and ends after the final one.
ResumeWorker ==
    worker' = IF worker \in {"flush", "close"} THEN "get" ELSE "gone"

\* The flush returns: buffer = [], pending_queue_count = 0.
EndFlush ==
    /\ Acknowledge
    /\ ResumeWorker
    /\ buffer' = <<>>
    /\ pending' = 0
    /\ UNCHANGED <<flushDue, queue, cancelled, shutdown, timedOut, feed, hist>>

\* flush_buffer goes on; once it is cancelled, CancelledInFlush does.
Flushing ==
    \/ worker = "finalFlush"
    \/ worker = "flush" /\ (cancelled => buffer = <<>>)

\* The batch is written (an empty one is not).
FlushWritten ==
    /\ Flushing
    /\ ~Poisoned(buffer)
    /\ rows' = InsertIgnore(rows, buffer)
    /\ EndFlush
    /\ UNCHANGED <<dbFaults, failed>>

\* An insert whose outcome the worker does not learn.
MaybeInserted(table, batch) ==
    {table} \cup (IF Poisoned(batch) THEN {} ELSE {InsertIgnore(table, batch)})

\* One reading the database refuses aborts the whole batch: except Exception
FlushRefused ==
    /\ Flushing
    /\ Poisoned(buffer)
    /\ failed' = failed \cup Elements(buffer)
    /\ EndFlush
    /\ UNCHANGED <<dbFaults, rows>>

\* OperationalError, before or after the rows were committed: the worker awaits
\* close_old_connections; the batch will not be tried again.
FlushLosesConnection ==
    /\ Flushing
    /\ buffer # <<>>
    /\ dbFaults < MaxDbFaults
    /\ dbFaults' = dbFaults + 1
    /\ rows' \in MaybeInserted(rows, buffer)
    /\ failed' = failed \cup Elements(buffer)
    /\ worker' = IF worker = "flush" THEN "close" ELSE "finalClose"
    /\ UNCHANGED <<feed, q, buffer, pending, flushDue, ctl, hist>>

Closing == worker = "finalClose" \/ (worker = "close" /\ ~cancelled)

ConnectionClosed ==
    /\ Closing
    /\ EndFlush
    /\ UNCHANGED db

\* close_old_connections raises: the finally block still acknowledges, but the
\* exception skips the reset of buffer and pending_queue_count.
ConnectionCloseFails ==
    /\ Closing
    /\ Acknowledge
    /\ ResumeWorker
    /\ flushDue' \in BOOLEAN
    /\ closeFailed' = TRUE
    /\ UNCHANGED <<buffer, pending, queue, cancelled, shutdown, timedOut, feed, db,
                   evicted, promised>>

\* Mutant of CancelledInGet: the worker ends without the final flush.
MutantNoFinalFlush ==
    /\ cancelled
    /\ worker = "get"
    /\ cancelled' = FALSE
    /\ worker' = "gone"
    /\ UNCHANGED <<feed, q, buffer, pending, flushDue, main, shutdown, timedOut, db, hist>>

\* CancelledError inside queue.get(): final flush unless there is nothing to flush.
CancelledInGet ==
    /\ cancelled
    /\ worker = "get"
    /\ cancelled' = FALSE
    /\ worker' = IF buffer # <<>> \/ pending > 0 THEN "finalFlush" ELSE "gone"
    /\ UNCHANGED <<feed, q, buffer, pending, flushDue, main, shutdown, timedOut, db, hist>>

\* CancelledError inside flush_buffer: its finally block acknowledges, the insert
\* in the executor's thread may or may not be done, and the same buffer goes into
\* the final flush with the same count.
CancelledInFlush ==
    /\ cancelled
    /\ \/ worker = "flush" /\ buffer # <<>>
       \/ worker = "close"
    /\ cancelled' = FALSE
    /\ unfinished' = AfterAck(pending)
    /\ rows' \in MaybeInserted(rows, buffer)
    /\ worker' = "finalFlush"
    /\ UNCHANGED <<feed, queue, buffer, pending, flushDue, main, shutdown, timedOut,
                   dbFaults, failed, hist>>

-----------------------------------------------------------------------------
(* run_async                                                               *)

\* load_channel_map found channels: the worker task is created.
Start ==
    /\ main = "start"
    /\ worker' = "get"
    /\ main' = "connect"
    /\ UNCHANGED <<feed, q, buffer, pending, flushDue, cancelled, shutdown, timedOut, db, hist>>

\* "Please seed channels first."
NoChannels ==
    /\ main = "start"
    /\ main' = "stopped"
    /\ UNCHANGED <<feed, q, work, cancelled, shutdown, timedOut, db, hist>>

Connect ==
    /\ main = "connect"
    /\ ~shutdown
    /\ clientUp' = TRUE
    /\ main' = "wait"
    /\ UNCHANGED <<nextUpdate, handing, scheduled, q, work, cancelled, shutdown, timedOut, db, hist>>

ConnectFails ==
    /\ main = "connect"
    /\ ~shutdown
    /\ main' = "backoff"
    /\ UNCHANGED <<feed, q, work, cancelled, shutdown, timedOut, db, hist>>

BackoffExpires ==
    /\ main = "backoff"
    /\ ~shutdown
    /\ main' = "connect"
    /\ UNCHANGED <<feed, q, work, cancelled, shutdown, timedOut, db, hist>>

\* SIGINT or SIGTERM
Signal ==
    /\ main \in {"connect", "wait", "backoff"}
    /\ ~shutdown
    /\ shutdown' = TRUE
    /\ UNCHANGED <<feed, q, work, cancelled, main, timedOut, db, hist>>

\* Mutant of Disconnect: the worker is cancelled without draining the queue.
MutantNoDrain ==
    /\ shutdown
    /\ main \in {"connect", "wait", "backoff"}
    /\ clientUp' = FALSE
    /\ main' = "await"
    /\ cancelled' = TRUE
    /\ UNCHANGED <<nextUpdate, handing, scheduled, q, work, shutdown, timedOut, db, hist>>

\* The connect loop ends, the client is disconnected, and the drain starts if the
\* queue holds anything; otherwise the worker is cancelled at once.
Disconnect ==
    /\ shutdown
    /\ main \in {"connect", "wait", "backoff"}
    /\ clientUp' = FALSE
    /\ IF queue # <<>> /\ unfinished > 0
       THEN main' = "join" /\ cancelled' = cancelled
       ELSE main' = "await" /\ cancelled' = TRUE
    /\ UNCHANGED <<nextUpdate, handing, scheduled, q, work, shutdown, timedOut, db, hist>>

\* The drain's 10 seconds are over.
DrainTimesOut ==
    /\ main = "join"
    /\ main' = "cancel"
    /\ timedOut' = TRUE
    /\ UNCHANGED <<feed, q, work, cancelled, shutdown, db, hist>>

CancelWorker ==
    /\ main = "cancel"
    /\ main' = "await"
    /\ cancelled' = TRUE
    /\ UNCHANGED <<feed, q, work, shutdown, timedOut, db, hist>>

\* Mutant of Stop: the cancelled worker_task is not awaited.
MutantNotAwaited ==
    /\ main = "await"
    /\ main' = "stopped"
    /\ UNCHANGED <<feed, q, work, cancelled, shutdown, timedOut, db, hist>>

\* await worker_task, then asyncio.run closes the loop.
Stop ==
    /\ main = "await"
    /\ worker = "gone"
    /\ main' = "stopped"
    /\ UNCHANGED <<feed, q, work, cancelled, shutdown, timedOut, db, hist>>

-----------------------------------------------------------------------------
Sdk == ReceiveUpdate \/ HandOver

Flush ==
    \/ FlushWritten \/ FlushRefused \/ FlushLosesConnection
    \/ ConnectionClosed \/ ConnectionCloseFails

Worker == GetItem \/ GetTimesOut \/ Flush \/ CancelledInGet \/ CancelledInFlush

Connecting == Start \/ NoChannels \/ Connect \/ ConnectFails \/ BackoffExpires

Stopping == Disconnect \/ CancelWorker \/ Stop

Next ==
    \/ Sdk \/ OnDataReceived \/ IntervalPasses \/ Worker
    \/ Connecting \/ Signal \/ Stopping \/ DrainTimesOut

Spec == Init /\ [][Next]_vars

\* The event loop runs every task that can run and its timers fire.  Nothing
\* makes the feed send, the connection succeed or a signal arrive.
FairSpec ==
    /\ Spec
    /\ WF_vars(OnDataReceived)
    /\ WF_vars(IntervalPasses)
    /\ WF_vars(Worker)
    /\ WF_vars(Stopping)
    /\ WF_vars(DrainTimesOut)

-----------------------------------------------------------------------------
(* Properties                                                              *)

Persisted(u) == \E r \in rows : RowKey[r] = RowKey[u]

Lost == Elements(evicted) \cup failed

Readable(S) == {u \in S : Kind[u] = "ok"}

\* More items were acknowledged than the worker has pulled: what was put, less what is
\* still queued or was dropped on overflow, is what was pulled.
AckedTwice == closeFailed /\ unfinished < Len(queue) + Len(evicted)

\* A reading that was taken into the queue while the client was connected is in the
\* table, was given up with a log line (oldest dropped on overflow, batch failed), or is
\* with a live worker, in the queue or the buffer.  A worker that has ended leaves one in
\* the queue only if the drain logged its timeout, or if a raising close_old_connections
\* made it acknowledge items twice: then join() returns early, and what is still queued is
\* lost without a word.  No other interleaving of callbacks, flushes, drain and
\* cancellation loses a reading.
NoUnexplainedLoss ==
    \A u \in Readable(promised) :
        \/ u \in Elements(queue) /\ (worker # "gone" \/ timedOut \/ AckedTwice)
        \/ u \in Elements(buffer) /\ worker # "gone"
        \/ u \in Lost
        \/ Persisted(u)

\* FR-ING-001's "no lost messages on restart": after a shutdown whose drain did not
\* time out, every reading queued before the client was disconnected is in the
\* table, unless it was dropped on overflow or its batch failed.
OrderlyStop ==
    main = "stopped" /\ ~timedOut /\ ~closeFailed =>
        \A u \in Readable(promised) : u \in Lost \/ Persisted(u)

\* The unfinished count of the queue is what is in it, plus what the worker holds,
\* plus one for every message dropped on overflow, until the worker is cancelled.
\* (A raising close_old_connections acknowledges the same items again.)
AckBalance ==
    ~closeFailed /\ worker \notin {"finalFlush", "finalClose", "gone"} =>
        unfinished = Len(queue) + pending + Len(evicted)

\* ADR-008: the drain never waits for items that nobody holds any more.
DrainNotStuck == ~(main = "join" /\ queue = <<>> /\ pending = 0)

\* The drain waits in vain only after an overflow, whose dropped messages are never
\* acknowledged: otherwise somebody holds an item and will wake it up.
OnlyOverflowStallsDrain ==
    ~closeFailed /\ main = "join" /\ queue = <<>> /\ pending = 0 => evicted # <<>>

\* ADR-008: what is dropped on overflow is older than everything still queued.
FreshestSurvive ==
    \A i \in DOMAIN evicted, j \in DOMAIN queue : evicted[i] < queue[j]

\* A signal always brings the process down, whatever the worker is doing.
ShutdownCompletes == shutdown ~> main = "stopped"

\* While the process runs, a queued reading does not stay behind for ever.
UpdatesSettle ==
    \A u \in Updates :
        u \in Readable(promised) ~> (u \in Lost \/ Persisted(u) \/ main = "stopped")

Ledger == INSTANCE ReadingLedger WITH
    Readings <- Readable(Updates),
    taken <- Readable(promised),
    stored <- {u \in Readable(promised) : Persisted(u)},
    lost <- Readable(promised) \cap Lost,
    phase <- IF Running THEN "open" ELSE IF main = "stopped" THEN "stopped" ELSE "draining",
    hurried <- timedOut \/ closeFailed

\* The pipeline keeps the promise of the ledger: whatever the queue, the buffer and the
\* tasks do, a step of run_async, the worker or a callback takes over at most one reading
\* (none after the disconnect), never takes back a stored or a given-up one, and the
\* process ends with every reading settled unless the drain was cut short.
ImplementsLedger == Ledger!Spec
=============================================================================
