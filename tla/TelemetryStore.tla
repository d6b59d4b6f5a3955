--------------------------- MODULE TelemetryStore ---------------------------
(***************************************************************************)
(* What ends up in the tables of apps/telemetry_storage: the feed of the   *)
(* target channel, sent in MERGE mode as the fields that changed, taken by *)
(* run_lightstreamer through its validator and enricher; the debug view    *)
(* that injects readings; and seed_channels, which runs whenever the web   *)
(* container starts, interrupted or not, and decides which channels the    *)
(* ingestion process loads when it starts.                                 *)
(*                                                                         *)
(* The queue, the batches and the shutdown of the process are              *)
(* IngestionPipeline's; here the pipeline is a bounded inbox that a crash  *)
(* empties and a failed write shortens.                                    *)
(***************************************************************************)
EXTENDS Enricher, Sequences, FiniteSets

CONSTANTS
    Channels,       \* the channels of the table
    Target,         \* target_active_pui
    SeedOrder,      \* the symbols of PUIList.xml, in order
    Values,
    MeasureTimes,   \* times at which the station may measure
    InjectTimes,    \* timestamps debugging clients send
    Clients,        \* concurrent requests to the injection view
    Debug,          \* settings.DEBUG
    Lags,           \* how far the ingestion host's clock may lag
    MaxInbox,       \* maxsize of the queue
    MaxFails,       \* bound on interrupted seedings
    StartTime, MaxTime, \* bounds on time
    None

ASSUME StoreParameters ==
    /\ Target \in Channels
    /\ SeedOrder \in Seq(Channels)
    /\ \E i \in DOMAIN SeedOrder : SeedOrder[i] = Target
    /\ Values \subseteq Int /\ MeasureTimes \subseteq Int /\ InjectTimes \subseteq Int
    /\ Debug \in BOOLEAN
    /\ Lags \subseteq Int
    /\ MaxInbox \in Nat \ {0} /\ MaxFails \in Nat
    /\ StartTime \in Int /\ MaxTime \in Int /\ StartTime <= MaxTime
    /\ None \notin [at : Int, value : Int]

\* The calendar reaches back to every measurement and to the year before any clock's:
\* datetime's years begin with 1.
ASSUME CalendarCovers ==
    /\ LastYear >= 1
    /\ \A t \in MeasureTimes : YearStart[0] <= t
    /\ \A lag \in Lags : YearStart[1] <= StartTime - lag

VARIABLES
    now,
    current,        \* the feed's latest measurement
    sent,           \* the one it sent last in this subscription
    valued,         \* history: the one whose update last carried the Value field
    gap,            \* history: an update was lost since the last snapshot
    proc,           \* the ingestion process: "up" or "down"
    map,            \* channel_map: the channels active when it started
    inbox,          \* updates received and not yet written
    rows,           \* TelemetryReading of the target channel, with history: by and src
    misdated,       \* history: the measurements given another time, with the clock then
    table,          \* TelemetryChannel: "absent", "active" or "deleted" (deleted_at set)
    toSeed,         \* what the running seeding has left to upsert
    fails,          \* seedings interrupted
    client          \* injection requests: "idle", or "found" the channel

feed == <<current, sent, valued, gap>>
ingestion == <<proc, map, inbox>>
store == <<rows, misdated>>
seeding == <<table, toSeed, fails>>
vars == <<now, feed, ingestion, store, seeding, client>>

Measurement == [at : MeasureTimes, value : Values]

\* One item update: the fields getChangedFields() returns, and what it is about.
Update == [hours : Int \cup {NoField}, value : Values \cup {NoField}, src : Measurement]

Row == [at : Int, value : Values, by : {"feed", "client"}, src : Measurement \cup {None}]

TypeOK ==
    /\ now \in StartTime..MaxTime
    /\ current \in Measurement \cup {None}
    /\ sent \in Measurement \cup {None}
    /\ valued \in Measurement \cup {None}
    /\ gap \in BOOLEAN
    /\ proc \in {"up", "down"}
    /\ map \subseteq Channels /\ (proc = "up" <=> map # {})
    /\ inbox \in Seq(Update) /\ Len(inbox) <= MaxInbox
    /\ rows \subseteq Row
    /\ misdated \subseteq Measurement \X Int
    /\ table \in [Channels -> {"absent", "active", "deleted"}]
    /\ toSeed \in Seq(Channels)
    /\ fails \in 0..MaxFails
    /\ client \in [Clients -> {"idle", "found"}]

\* TelemetryChannel.objects, the manager that hides soft-deleted rows.
ActiveChannels == {c \in Channels : table[c] = "active"}

\* A new database, or one an earlier deployment left behind.
Init ==
    /\ now = StartTime
    /\ current = None /\ sent = None /\ valued = None /\ gap = FALSE
    /\ proc = "down" /\ map = {} /\ inbox = <<>>
    /\ rows = {} /\ misdated = {}
    /\ table \in [Channels -> {"absent", "active", "deleted"}]
    /\ toSeed = <<>> /\ fails = 0
    /\ client = [c \in Clients |-> "idle"]

-----------------------------------------------------------------------------
(* The feed *)

Tick ==
    /\ now < MaxTime
    /\ now' = now + 1
    /\ UNCHANGED <<feed, ingestion, store, seeding, client>>

\* The station measures; the feed keeps the latest measurement of the item.  ADR-011
\* takes a (channel, timestamp) pair to be one measurement.
Measure ==
    /\ \E m \in Measurement :
        /\ m.at <= now
        /\ current # None => current.at < m.at
        /\ current' = m
    /\ UNCHANGED <<now, sent, valued, gap, ingestion, store, seeding, client>>

\* The fields that differ from the update before; all of them in the snapshot.
Delta(m) ==
    [hours |-> Hours(m.at),
     value |-> IF sent # None /\ sent.value = m.value THEN NoField ELSE m.value,
     src   |-> m]

\* A new session of the SDK: the feed will send a snapshot (setRequestedSnapshot).
Reconnect ==
    /\ proc = "up"
    /\ sent' = None
    /\ UNCHANGED <<now, current, valued, gap, ingestion, store, seeding, client>>

-----------------------------------------------------------------------------
(* The ingestion process *)

\* Mutant of Start: the subscription asks for no snapshot.
MutantNoSnapshot ==
    /\ proc = "down"
    /\ ActiveChannels # {}
    /\ proc' = "up" /\ map' = ActiveChannels
    /\ sent' = current
    /\ UNCHANGED <<now, current, valued, gap, inbox, store, seeding, client>>

\* load_channel_map and connect().  Without channels the process exits at once, and its
\* container's restart policy starts it again.
Start ==
    /\ proc = "down"
    /\ ActiveChannels # {}
    /\ proc' = "up" /\ map' = ActiveChannels
    /\ sent' = None
    /\ UNCHANGED <<now, current, valued, gap, inbox, store, seeding, client>>

\* It is killed, or stopped without time to drain.
Crash ==
    /\ proc = "up"
    /\ proc' = "down" /\ map' = {} /\ inbox' = <<>>
    /\ UNCHANGED <<now, feed, store, seeding, client>>

\* Mutant of Enqueue: no limit.
MutantUnbounded(u) == Append(inbox, u)

\* on_data_received: a full queue drops its oldest update.
Enqueue(u) == Append(IF Len(inbox) = MaxInbox THEN Tail(inbox) ELSE inbox, u)

\* validate_payload: Value is required, TimeStamp is not.
Valid(u) == u.value # NoField

\* onItemUpdate schedules on_data_received.  The server merges measurements it had no
\* time to send.
Receive ==
    /\ proc = "up" /\ Target \in map
    /\ current # None /\ sent # current
    /\ inbox' = Enqueue(Delta(current))
    /\ gap' = (sent # None /\ (gap \/ Len(inbox) = MaxInbox))
    /\ valued' = IF Valid(Delta(current)) THEN current ELSE valued
    /\ sent' = current
    /\ UNCHANGED <<now, current, proc, map, store, seeding, client>>

Taken(ts) == \E r \in rows : r.at = ts

\* Mutant of Insert: no unique constraint.
MutantNoConstraint(ts, value, by, src) ==
    rows' = rows \cup {[at |-> ts, value |-> value, by |-> by, src |-> src]}

\* INSERT under unique_channel_timestamp: a row of that time stays as it is, whether the
\* conflict is ignored (abulk_create) or answered with 409 (create_reading).
Insert(ts, value, by, src) ==
    rows' = IF Taken(ts) THEN rows
            ELSE rows \cup {[at |-> ts, value |-> value, by |-> by, src |-> src]}

\* The worker drops an update that is not valid; enrich() dates the others by the host's
\* clock, and flush_buffer inserts them.
Process ==
    /\ proc = "up" /\ inbox # <<>>
    /\ inbox' = Tail(inbox)
    /\ LET u == Head(inbox) IN
         \/ /\ ~Valid(u)
            /\ UNCHANGED store
         \/ /\ Valid(u)
            /\ \E lag \in Lags :
                 LET ts == Enrich(u.hours, now - lag) IN
                   /\ Insert(ts, u.value, "feed", u.src)
                   /\ misdated' = IF ts = u.src.at THEN misdated
                                  ELSE misdated \cup {<<u.src, now - lag>>}
    /\ UNCHANGED <<now, feed, proc, map, seeding, client>>

\* The flush fails: flush_buffer logs the error and drops the readings.
FlushFails ==
    /\ proc = "up" /\ inbox # <<>>
    /\ inbox' = Tail(inbox)
    /\ gap' = TRUE
    /\ UNCHANGED <<now, current, sent, valued, proc, map, store, seeding, client>>

-----------------------------------------------------------------------------
(* Seeding and injection *)

BeginSeed ==
    /\ toSeed = <<>>
    /\ toSeed' = SeedOrder
    /\ UNCHANGED <<now, feed, ingestion, store, table, fails, client>>

\* Mutant of SeedOne: rows that exist are left alone.
MutantCreateOnly ==
    /\ toSeed # <<>>
    /\ LET c == Head(toSeed) IN
         table' = IF table[c] # "absent" THEN table
                  ELSE [table EXCEPT ![c] = IF c = Target THEN "active" ELSE "deleted"]
    /\ toSeed' = Tail(toSeed)
    /\ UNCHANGED <<now, feed, ingestion, store, fails, client>>

\* update_or_create of one symbol, a transaction of its own.
SeedOne ==
    /\ toSeed # <<>>
    /\ LET c == Head(toSeed) IN
         table' = [table EXCEPT ![c] = IF c = Target THEN "active" ELSE "deleted"]
    /\ toSeed' = Tail(toSeed)
    /\ UNCHANGED <<now, feed, ingestion, store, fails, client>>

\* An exception or the end of the container; the symbols before it stay seeded.
SeedFails ==
    /\ toSeed # <<>> /\ fails < MaxFails
    /\ toSeed' = <<>> /\ fails' = fails + 1
    /\ UNCHANGED <<now, feed, ingestion, store, table, client>>

\* InjectTelemetryView.post, in debug mode only, finds the channel (or answers 404) ...
Lookup(c) ==
    /\ Debug
    /\ client[c] = "idle" /\ Target \in ActiveChannels
    /\ client' = [client EXCEPT ![c] = "found"]
    /\ UNCHANGED <<now, feed, ingestion, store, seeding>>

\* ... and then creates the reading.
Create(c) ==
    /\ client[c] = "found"
    /\ \E ts \in InjectTimes, v \in Values : Insert(ts, v, "client", None)
    /\ client' = [client EXCEPT ![c] = "idle"]
    /\ UNCHANGED <<now, feed, ingestion, misdated, seeding>>

Next ==
    \/ Tick \/ Measure \/ Reconnect
    \/ Start \/ Crash \/ Receive \/ Process \/ FlushFails
    \/ BeginSeed \/ SeedOne \/ SeedFails
    \/ \E c \in Clients : Lookup(c) \/ Create(c)

\* Containers are restarted (restart: unless-stopped): the web container seeds, the
\* ingestion container starts its process.
Fairness == WF_vars(Start) /\ WF_vars(BeginSeed) /\ WF_vars(SeedOne)

Spec == Init /\ [][Next]_vars /\ Fairness

-----------------------------------------------------------------------------
(* Properties *)

Misdated(m) == \E d \in misdated : d[1] = m

\* A row from the feed carries the time of its measurement, unless the measurement was
\* not datable by the clock that processed it (REQ-ENR-002, REQ-ENR-004).
TimestampsAreTrue ==
    /\ \A d \in misdated : ~Datable(d[1].at, d[2])
    /\ \A r \in rows : r.by = "feed" /\ r.at # r.src.at => Misdated(r.src)

\* Snapshots broadcast again, readings injected meanwhile: a time has one row, and so has
\* a measurement that was never misdated (ADR-011).
OneRowPerKey ==
    \A r, q \in rows :
        \/ r = q
        \/ r.at # q.at /\ (r.src = None \/ r.src # q.src \/ Misdated(r.src))

Settled ==
    proc = "up" /\ Target \in map /\ current # None /\ sent = current /\ inbox = <<>>

\* The store catches up with the feed although updates come as deltas and those without
\* a Value are dropped: with nothing under way and no update lost since the last snapshot,
\* the newest row from the feed is the one that brought the current value, unless an
\* injected reading already had its time.  Crashes, reconnections and a change of value
\* while the process was down do not spoil it.
StoreCatchesUp ==
    Settled /\ ~gap /\ misdated = {} =>
        /\ \E r \in rows : r.at = valued.at /\ (r.by = "feed" => r.value = current.value)
        /\ \A r \in rows : r.by = "feed" => r.at <= valued.at

\* Whatever the tables hold, provided no channel is active yet, the seeding that runs
\* beside the restarts of the ingestion process brings it up on the target channel, time
\* and again.  (A process that finds another channel active subscribes to that one, until
\* it is restarted.)
IngestionComesUp ==
    ActiveChannels = {} => []<>(proc = "up" /\ Target \in map)
=============================================================================
