----------------------------- MODULE PeeBotTask -----------------------------
(***************************************************************************)
(* run_peebot_processor of apps/event_processors/tasks.py: the messages    *)
(* Celery Beat publishes, the worker processes that run them (acks_late,   *)
(* retry on OperationalError), and the steps of one run on the database -  *)
(* load the ProcessorState row, query the readings from the cursor on,     *)
(* analyze, create the DetectedEvent, post, save the whole row back.       *)
(*                                                                         *)
(* Several runs may overlap: Beat does not wait for the previous one, and  *)
(* nothing locks the ProcessorState row between load and save.  Posting is *)
(* one step here; SocialPosting models it.  Analyze is FillDetector's.     *)
(*                                                                         *)
(* Readings are identified with their timestamps, all later than 0; cursor *)
(* 0 stands for NULL.  Level maps the timestamps of the channel's readings *)
(* to tank levels.                                                         *)
(***************************************************************************)
EXTENDS FillDetector

CONSTANTS
    Workers,        \* Celery worker processes
    Level,          \* timestamp of a reading -> tank level
    Window,         \* window_minutes
    Overlap,        \* the 30 seconds the query goes back behind the cursor
    BeatPeriod,     \* the beat schedule
    MaxRetries,     \* max_retries of the task
    MaxLag,         \* how late a reading may be stored
    MaxBacklog,     \* bound: messages waiting in the broker
    MaxFaults,      \* bound: errors and crashes
    MaxTime         \* bound of the clock

Times == DOMAIN Level

ASSUME TaskParameters ==
    /\ IsFiniteSet(Workers)
    /\ Times \subseteq 1..MaxTime
    /\ Level \in [Times -> Int]
    /\ Window \in Nat /\ Overlap \in Nat /\ BeatPeriod \in Nat \ {0}
    /\ MaxRetries \in Nat /\ MaxLag \in Nat /\ MaxBacklog \in Nat
    /\ MaxFaults \in Nat /\ MaxTime \in Nat

VARIABLES
    now,            \* timezone.now()
    store,          \* timestamps of the TelemetryReading rows of the channel
    nextBeat,       \* when Beat is due
    messages,       \* waiting messages by number of retries
    row,            \* the ProcessorState row: cursor and last_run_at
    events,         \* DetectedEvent rows, in order of creation
    pc, retries,    \* per worker: step of the run, retries of its message
    loaded,         \* per worker: the cursor of the row it loaded
    batch, found,   \* per worker: the readings queried and what analyze() made of them
    faults,         \* errors and crashes so far
    analysed        \* history: the queries of the runs that saved the cursor

run  == <<pc, retries, loaded, batch, found>>
vars == <<now, store, nextBeat, messages, row, events, run, faults, analysed>>

Steps == {"idle", "load", "query", "create", "post", "save"}

\* What a run detects, and what one query returned.
Fill  == [detectedAt: Times, windowEnd: Times, netDelta: Int, confidence: 0..100]
Batch == [since: Int, got: SUBSET Times]

TypeOK ==
    /\ now \in 0..MaxTime
    /\ store \in SUBSET Times
    /\ nextBeat \in 0..MaxTime + BeatPeriod
    /\ messages \in [0..MaxRetries -> 0..MaxBacklog + MaxFaults]
    /\ row \in [cursor: {0} \cup Times, lastRun: 0..MaxTime]
    /\ events \in Seq(Fill)
    /\ pc \in [Workers -> Steps]
    /\ retries \in [Workers -> 0..MaxRetries]
    /\ loaded \in [Workers -> {0} \cup Times]
    /\ batch \in [Workers -> Batch]
    /\ found \in [Workers -> Fill \cup {NoDetection}]
    /\ faults \in 0..MaxFaults
    /\ analysed \subseteq [batch: Batch, found: Fill \cup {NoDetection}]

NoBatch == [since |-> 0, got |-> {}]

Init ==
    /\ now = 0 /\ store = {} /\ nextBeat = 0
    /\ messages = [r \in 0..MaxRetries |-> 0]
    /\ row = [cursor |-> 0, lastRun |-> 0]
    /\ events = <<>>
    /\ pc = [w \in Workers |-> "idle"]
    /\ retries = [w \in Workers |-> 0]
    /\ loaded = [w \in Workers |-> 0]
    /\ batch = [w \in Workers |-> NoBatch]
    /\ found = [w \in Workers |-> NoDetection]
    /\ faults = 0 /\ analysed = {}

-----------------------------------------------------------------------------
(* Time, telemetry and the schedule                                        *)

\* Every reading that is MaxLag old has been stored before time goes on.
Tick ==
    /\ now < MaxTime
    /\ \A t \in Times : t <= now - MaxLag => t \in store
    /\ now' = now + 1
    /\ UNCHANGED <<store, nextBeat, messages, row, events, run, faults, analysed>>

\* The ingestion pipeline stores a reading.
StoreReading(t) ==
    /\ t <= now
    /\ t \notin store
    /\ store' = store \cup {t}
    /\ UNCHANGED <<now, nextBeat, messages, row, events, run, faults, analysed>>

Backlog == messages[0]

\* Beat publishes a message, whether or not the last one was consumed.
Beat ==
    /\ now >= nextBeat
    /\ Backlog < MaxBacklog
    /\ nextBeat' = now + BeatPeriod
    /\ messages' = [messages EXCEPT ![0] = @ + 1]
    /\ UNCHANGED <<now, store, row, events, run, faults, analysed>>

-----------------------------------------------------------------------------
(* A run.  It ends by forgetting its local variables.                      *)

Goto(w, step) == pc' = [pc EXCEPT ![w] = step]

EndRun(w) ==
    /\ Goto(w, "idle")
    /\ retries' = [retries EXCEPT ![w] = 0]
    /\ loaded' = [loaded EXCEPT ![w] = 0]
    /\ batch' = [batch EXCEPT ![w] = NoBatch]
    /\ found' = [found EXCEPT ![w] = NoDetection]

\* The worker takes a message; with acks_late it is acknowledged when the run ends.
Take(w, r) ==
    /\ pc[w] = "idle"
    /\ messages[r] > 0
    /\ messages' = [messages EXCEPT ![r] = @ - 1]
    /\ retries' = [retries EXCEPT ![w] = r]
    /\ Goto(w, "load")
    /\ UNCHANGED <<now, store, nextBeat, row, events, loaded, batch, found, faults, analysed>>

\* load_state: a copy of the row, which is created when there is none.
LoadState(w) ==
    /\ pc[w] = "load"
    /\ loaded' = [loaded EXCEPT ![w] = row.cursor]
    /\ Goto(w, "query")
    /\ UNCHANGED <<now, store, nextBeat, messages, row, events, retries, batch, found,
                   faults, analysed>>

\* The cursor counts unless it is NULL or older than the observation window.
UsesCursor(cursor) == cursor > 0 /\ cursor > now - Window

\* Mutant of QueryFrom: the query starts at the cursor.
MutantNoOverlap(cursor) == IF UsesCursor(cursor) THEN cursor ELSE now - Window

\* Where the query starts: the overlap behind the cursor, or the observation window.
QueryFrom(cursor) == IF UsesCursor(cursor) THEN cursor - Overlap ELSE now - Window

\* From where on a query without a usable cursor looks; one with a cursor skips nothing.
Since(cursor) == IF UsesCursor(cursor) THEN 0 ELSE QueryFrom(cursor)

\* The k-th of a set of timestamps.
Nth(S, k) == CHOOSE t \in S : Cardinality({u \in S : u < t}) = k - 1

InOrder(S) ==
    [k \in 1..Cardinality(S) |-> [ts |-> Nth(S, k), value |-> Level[Nth(S, k)]]]

\* The rows the query returns.
Fetched(from) == {t \in store : from <= t /\ t <= now}

\* Mutant of QueryReadings: the cursor is saved without the event.
MutantSkipEvent(w) ==
    /\ pc[w] = "query"
    /\ LET from == QueryFrom(loaded[w])
           got  == Fetched(from)
       IN  /\ batch' = [batch EXCEPT ![w] = [since |-> Since(loaded[w]), got |-> got]]
           /\ found' = [found EXCEPT ![w] = Analyze(InOrder(got))]
           /\ Goto(w, "save")
    /\ UNCHANGED <<now, store, nextBeat, messages, row, events, retries, loaded, faults,
                   analysed>>

\* _query_readings and analyze.  Nothing is awaited between the query's answer and
\* the decision what to do with it.  (\E over singletons: TLC evaluates each once.)
QueryReadings(w) ==
    /\ pc[w] = "query"
    /\ \E from \in {QueryFrom(loaded[w])} : \E got \in {Fetched(from)} :
       \E readings \in {InOrder(got)} : \E seen \in {Analyze(readings)} :
           /\ batch' = [batch EXCEPT ![w] = [since |-> Since(loaded[w]), got |-> got]]
           /\ found' = [found EXCEPT ![w] = seen]
           /\ Goto(w, IF seen = NoDetection THEN "save" ELSE "create")
    /\ UNCHANGED <<now, store, nextBeat, messages, row, events, retries, loaded, faults,
                   analysed>>

\* _create_detected_event: always a new row.
CreateEvent(w) ==
    /\ pc[w] = "create"
    /\ events' = Append(events, found[w])
    /\ Goto(w, "post")
    /\ UNCHANGED <<now, store, nextBeat, messages, row, retries, loaded, batch, found,
                   faults, analysed>>

\* _try_post_to_bluesky, which raises nothing, whatever comes of it.
TryPost(w) ==
    /\ pc[w] = "post"
    /\ Goto(w, "save")
    /\ UNCHANGED <<now, store, nextBeat, messages, row, events, retries, loaded, batch,
                   found, faults, analysed>>

Latest(S) == CHOOSE t \in S : \A u \in S : u <= t

\* Mutant of NewCursor: the cursor is set to the start of the detected fill.
MutantCursorAtFill(w) ==
    IF batch[w].got = {} THEN loaded[w]
    ELSE IF found[w] = NoDetection THEN Latest(batch[w].got) ELSE found[w].detectedAt

\* Mutant of NewCursor: the cursor is set to the time of the run.
MutantCursorAtNow(w) == IF batch[w].got = {} THEN loaded[w] ELSE now

\* The cursor a run saves: the newest reading it queried, or the one it loaded.
NewCursor(w) == IF batch[w].got = {} THEN loaded[w] ELSE Latest(batch[w].got)

\* update_state_cursor: asave() writes every column, the loaded ones included.
SaveState(w) ==
    /\ pc[w] = "save"
    /\ row' = [cursor |-> NewCursor(w), lastRun |-> now]
    /\ analysed' = analysed \cup {[batch |-> batch[w], found |-> found[w]]}
    /\ EndRun(w)
    /\ UNCHANGED <<now, store, nextBeat, messages, events, faults>>

-----------------------------------------------------------------------------
(* Errors, retries and crashes                                             *)

Fault == faults < MaxFaults /\ faults' = faults + 1

\* OperationalError: the task raises, Celery publishes the message again with one
\* more retry, until max_retries.
RetryRun(w) ==
    /\ Fault
    /\ messages' = IF retries[w] < MaxRetries
                   THEN [messages EXCEPT ![retries[w] + 1] = @ + 1]
                   ELSE messages
    /\ EndRun(w)

\* A statement fails and has no effect.
OperationalFault(w) ==
    /\ pc[w] \in {"load", "query", "create", "save"}
    /\ RetryRun(w)
    /\ UNCHANGED <<now, store, nextBeat, row, events, analysed>>

\* The connection breaks after the commit.
CreateThenFault(w) ==
    /\ pc[w] = "create"
    /\ events' = Append(events, found[w])
    /\ RetryRun(w)
    /\ UNCHANGED <<now, store, nextBeat, row, analysed>>

SaveThenFault(w) ==
    /\ pc[w] = "save"
    /\ row' = [cursor |-> NewCursor(w), lastRun |-> now]
    /\ analysed' = analysed \cup {[batch |-> batch[w], found |-> found[w]]}
    /\ RetryRun(w)
    /\ UNCHANGED <<now, store, nextBeat, events>>

\* Any other exception: logged, last_run_at saved if that works and the state was
\* loaded, and the run counts as done.
OtherError(w) ==
    /\ pc[w] \in {"load", "query", "create", "save"}
    /\ Fault
    /\ row' \in {row} \cup (IF pc[w] = "load" THEN {} ELSE {[row EXCEPT !.lastRun = now]})
    /\ EndRun(w)
    /\ UNCHANGED <<now, store, nextBeat, messages, events, analysed>>

\* The time limit strikes, or the worker dies and the unacknowledged message is
\* delivered again.
Killed(w) ==
    /\ pc[w] # "idle"
    /\ Fault
    /\ messages' \in {messages, [messages EXCEPT ![retries[w]] = @ + 1]}
    /\ EndRun(w)
    /\ UNCHANGED <<now, store, nextBeat, row, events, analysed>>

-----------------------------------------------------------------------------
Step(w) ==
    \/ \E r \in 0..MaxRetries : Take(w, r)
    \/ LoadState(w) \/ QueryReadings(w) \/ CreateEvent(w) \/ TryPost(w) \/ SaveState(w)

Breaks(w) ==
    \/ OperationalFault(w) \/ CreateThenFault(w) \/ SaveThenFault(w)
    \/ OtherError(w) \/ Killed(w)

Next ==
    \/ Tick
    \/ \E t \in Times : StoreReading(t)
    \/ Beat
    \/ \E w \in Workers : Step(w) \/ Breaks(w)

Spec == Init /\ [][Next]_vars

-----------------------------------------------------------------------------
(* Properties                                                              *)

\* A saved run queried both readings, or one of them was already older than the
\* observation window when a run without a usable cursor looked.
Together(i, j) ==
    \E a \in analysed :
        \/ i \in a.batch.got /\ j \in a.batch.got
        \/ i < a.batch.since

\* The overlap closes the seams between runs: any two readings at most a detection
\* window apart (less the lag of the feed) that the cursor has passed by more than the
\* lag were analyzed together, whatever runs overlapped, failed, were retried or saved
\* a stale cursor.
NoSplitWindow ==
    \A i, j \in store :
        i <= j /\ j - i <= Overlap - MaxLag /\ j + MaxLag < row.cursor => Together(i, j)

\* No crash, error or retry loses a detection: a run saves the cursor only after the
\* event it found is in the table.
DetectionNotLost ==
    \A a \in analysed :
        a.found # NoDetection => \E k \in DOMAIN events : events[k] = a.found

\* Nothing locks the ProcessorState row between load and save, so a run that another
\* one's save has overtaken puts the cursor back, which repeats work.  Only such a run
\* does, and it never goes back behind the cursor it loaded itself, in whatever order
\* messages, retries, redeliveries and late readings arrive.
OnlyOvertakenRunsRewind ==
    [][row'.cursor < row.cursor =>
           \E w \in Workers : pc[w] = "save" /\ loaded[w] <= row'.cursor]_vars

\* ADR-010: advancing the cursor to the latest reading "naturally prevents
\* re-detection".
NoFillDetectedTwice ==
    \A k, l \in DOMAIN events :
        events[k].detectedAt = events[l].detectedAt => k = l
=============================================================================
