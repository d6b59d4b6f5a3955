--------------------------- MODULE SocialPosting ---------------------------
(***************************************************************************)
(* _try_post_to_bluesky of apps/event_processors/tasks.py with the         *)
(* services it calls: BlueskyClient (cooldown, login, send, SocialPost     *)
(* records) and JokeGenerator (bounded retries of the LLM call).           *)
(*                                                                         *)
(* Every Celery worker process runs it for the event its task has just     *)
(* created.  Workers share only the SocialPost table and the Bluesky       *)
(* account: nothing is locked between the cooldown query and the record    *)
(* that makes the next query fail, so each await is a step of its own.     *)
(***************************************************************************)
EXTENDS Integers, Sequences, FiniteSets

CONSTANTS
    Workers,        \* Celery worker processes
    Events,         \* detected events to post about
    NoEvent,        \* a value that is not an event
    Cooldown,       \* cooldown_minutes
    MaxRetries,     \* max_retries of the joke generator
    Faults,         \* of "recordFails", "lostReply", "crash": what may happen
    MaxTime         \* bound of the clock

ASSUME PostingParameters ==
    /\ NoEvent \notin Events
    /\ Cooldown \in Nat /\ MaxRetries \in Nat \ {0} /\ MaxTime \in Nat
    /\ Faults \subseteq {"recordFails", "lostReply", "crash"}

VARIABLES
    now,            \* timezone.now()
    dryRun,         \* SOCIAL_DRY_RUN
    pc, event,      \* where each worker's attempt stands, and its event
    attempt,        \* failed LLM calls of the attempt so far
    known,          \* history: the events with a SUCCESS record at the attempt's last check
    untried,        \* events no attempt was started for
    posts,          \* SocialPost rows, in order of creation
    published       \* what went out on the Bluesky account, in order

vars == <<now, dryRun, pc, event, attempt, known, untried, posts, published>>

Steps == {"idle", "dry", "check", "generate", "login", "recheck", "send", "record", "fail"}

Post == [event: Events, status: {"SUCCESS", "FAILED"}, postedAt: 0..MaxTime, dry: BOOLEAN]

Publication == [event: Events, by: Workers, at: 0..MaxTime, known: SUBSET Events]

TypeOK ==
    /\ now \in 0..MaxTime
    /\ dryRun \in BOOLEAN
    /\ pc \in [Workers -> Steps]
    /\ event \in [Workers -> Events \cup {NoEvent}]
    /\ \A w \in Workers : pc[w] # "idle" => event[w] \in Events
    /\ attempt \in [Workers -> 0..MaxRetries]
    /\ known \in [Workers -> SUBSET Events]
    /\ untried \in SUBSET Events
    /\ posts \in Seq(Post)
    /\ published \in Seq(Publication)

Init ==
    /\ now = 0
    /\ dryRun \in BOOLEAN
    /\ pc = [w \in Workers |-> "idle"]
    /\ event = [w \in Workers |-> NoEvent]
    /\ attempt = [w \in Workers |-> 0]
    /\ known = [w \in Workers |-> {}]
    /\ untried = Events
    /\ posts = <<>>
    /\ published = <<>>

\* Mutant of InCooldown: a record as old as the cooldown does not count.
MutantExclusive ==
    \E i \in DOMAIN posts :
        posts[i].status = "SUCCESS" /\ posts[i].postedAt > now - Cooldown

\* check_cooldown's query: a SUCCESS record not older than the cooldown.
InCooldown ==
    \E i \in DOMAIN posts :
        posts[i].status = "SUCCESS" /\ posts[i].postedAt >= now - Cooldown

Recorded == {posts[i].event : i \in {k \in DOMAIN posts : posts[k].status = "SUCCESS"}}

Goto(w, step) ==
    /\ pc' = [pc EXCEPT ![w] = step]
    /\ event' = IF step = "idle" THEN [event EXCEPT ![w] = NoEvent] ELSE event
    /\ UNCHANGED <<now, dryRun>>

\* The attempt ends here.
GiveUp(w) ==
    /\ Goto(w, "idle")
    /\ attempt' = [attempt EXCEPT ![w] = 0]
    /\ known' = [known EXCEPT ![w] = {}]
    /\ UNCHANGED <<untried, posts, published>>

-----------------------------------------------------------------------------
\* Time passes, whatever the workers wait for.
Tick ==
    /\ now < MaxTime
    /\ now' = now + 1
    /\ UNCHANGED <<dryRun, pc, event, attempt, known, untried, posts, published>>

\* A task that created an event tries to post about it, once.
Begin(w, e) ==
    /\ pc[w] = "idle"
    /\ e \in untried
    /\ untried' = untried \ {e}
    /\ event' = [event EXCEPT ![w] = e]
    /\ pc' = [pc EXCEPT ![w] = IF dryRun THEN "dry" ELSE "check"]
    /\ UNCHANGED <<now, dryRun, attempt, known, posts, published>>

\* The dry run writes a SUCCESS record and sends nothing ...
DryRunRecord(w) ==
    /\ pc[w] = "dry"
    /\ posts' = Append(posts, [event |-> event[w], status |-> "SUCCESS",
                               postedAt |-> now, dry |-> TRUE])
    /\ Goto(w, "idle")
    /\ UNCHANGED <<attempt, known, untried, published>>

\* ... or fails to write it, and reports success all the same.
DryRunRecordFails(w) == pc[w] = "dry" /\ GiveUp(w)

\* Credentials are missing, or the query of the cooldown check fails.
CannotCheck(w) == pc[w] \in {"check", "recheck"} /\ GiveUp(w)

CooldownActive(w) == pc[w] \in {"check", "recheck"} /\ InCooldown /\ GiveUp(w)

CooldownOver(w) ==
    /\ pc[w] = "check"
    /\ ~InCooldown
    /\ Goto(w, "generate")
    /\ UNCHANGED <<attempt, known, untried, posts, published>>

-----------------------------------------------------------------------------
(* JokeGenerator.generate                                                  *)

JokeArrives(w) ==
    /\ pc[w] = "generate"
    /\ attempt' = [attempt EXCEPT ![w] = 0]
    /\ Goto(w, "login")
    /\ UNCHANGED <<known, untried, posts, published>>

\* An empty answer is not retried; a missing API key or a failing close of the
\* LLM client end the attempt too.
NoJoke(w) == pc[w] = "generate" /\ GiveUp(w)

\* Mutant of JokeCallFails: after the last call the loop starts over.
MutantRetryForever(w) ==
    /\ pc[w] = "generate"
    /\ attempt' = [attempt EXCEPT ![w] = IF @ + 1 < MaxRetries THEN @ + 1 ELSE 0]
    /\ Goto(w, "generate")
    /\ UNCHANGED <<known, untried, posts, published>>

\* Mutant of JokeCallFails: the number of calls is not limited.
MutantNoRetryLimit(w) ==
    /\ pc[w] = "generate"
    /\ attempt' = [attempt EXCEPT ![w] = @ + 1]
    /\ Goto(w, "generate")
    /\ UNCHANGED <<known, untried, posts, published>>

\* The call raises: sleep and try again, max_retries calls in all.
JokeCallFails(w) ==
    /\ pc[w] = "generate"
    /\ LET again == attempt[w] + 1 < MaxRetries
       IN  /\ attempt' = [attempt EXCEPT ![w] = IF again THEN @ + 1 ELSE 0]
           /\ Goto(w, IF again THEN "generate" ELSE "idle")
    /\ UNCHANGED <<known, untried, posts, published>>

-----------------------------------------------------------------------------
(* BlueskyClient.post                                                      *)

Login(w) ==
    /\ pc[w] = "login"
    /\ Goto(w, "recheck")
    /\ UNCHANGED <<attempt, known, untried, posts, published>>

LoginFails(w) == pc[w] = "login" /\ GiveUp(w)

\* Mutant of Recheck: post() does not check the cooldown again.
MutantNoRecheck(w) ==
    /\ pc[w] = "recheck"
    /\ known' = [known EXCEPT ![w] = Recorded]
    /\ Goto(w, "send")
    /\ UNCHANGED <<attempt, untried, posts, published>>

Recheck(w) ==
    /\ pc[w] = "recheck"
    /\ ~InCooldown
    /\ known' = [known EXCEPT ![w] = Recorded]
    /\ Goto(w, "send")
    /\ UNCHANGED <<attempt, untried, posts, published>>

Publish(w) ==
    /\ known' = [known EXCEPT ![w] = {}]
    /\ published' = Append(published, [event |-> event[w], by |-> w, at |-> now,
                                    known |-> known[w]])

\* send_post returns a URI.
Send(w) ==
    /\ pc[w] = "send"
    /\ Publish(w)
    /\ Goto(w, "record")
    /\ UNCHANGED <<attempt, untried, posts>>

\* Mutant of SendRefused: the answer is not looked at.
MutantIgnoreAnswer(w) ==
    /\ pc[w] = "send"
    /\ Goto(w, "record")
    /\ known' = [known EXCEPT ![w] = {}]
    /\ UNCHANGED <<attempt, untried, posts, published>>

\* The API refuses the post.
SendRefused(w) ==
    /\ pc[w] = "send"
    /\ Goto(w, "fail")
    /\ known' = [known EXCEPT ![w] = {}]
    /\ UNCHANGED <<attempt, untried, posts, published>>

\* The post goes out, but the client sees an error or an answer without a URI.
SendReplyLost(w) ==
    /\ "lostReply" \in Faults
    /\ pc[w] = "send"
    /\ Publish(w)
    /\ Goto(w, "fail")
    /\ UNCHANGED <<attempt, untried, posts>>

\* Mutant of RecordSuccess: the record keeps status FAILED and no posted_at.
MutantRecordFailed(w) ==
    /\ pc[w] = "record"
    /\ posts' = Append(posts, [event |-> event[w], status |-> "FAILED",
                               postedAt |-> 0, dry |-> FALSE])
    /\ Goto(w, "idle")
    /\ UNCHANGED <<attempt, known, untried, published>>

RecordSuccess(w) ==
    /\ pc[w] = "record"
    /\ posts' = Append(posts, [event |-> event[w], status |-> "SUCCESS",
                               postedAt |-> now, dry |-> FALSE])
    /\ Goto(w, "idle")
    /\ UNCHANGED <<attempt, known, untried, published>>

\* The INSERT of the SUCCESS record fails: the generic handler records a FAILED
\* post, although the post is out.
RecordSuccessFails(w) ==
    /\ "recordFails" \in Faults
    /\ pc[w] = "record"
    /\ Goto(w, "fail")
    /\ UNCHANGED <<attempt, known, untried, posts, published>>

\* _create_failed_post (posted_at is NULL), then BlueskyClientError or None
RecordFailure(w) ==
    /\ pc[w] = "fail"
    /\ posts' = Append(posts, [event |-> event[w], status |-> "FAILED",
                               postedAt |-> 0, dry |-> FALSE])
    /\ Goto(w, "idle")
    /\ UNCHANGED <<attempt, known, untried, published>>

\* ... which may fail as well; the task swallows whatever comes out of post().
RecordFailureFails(w) == pc[w] = "fail" /\ GiveUp(w)

\* The worker process is killed.
Crash(w) == "crash" \in Faults /\ pc[w] # "idle" /\ GiveUp(w)

-----------------------------------------------------------------------------
Step(w) ==
    \/ DryRunRecord(w) \/ DryRunRecordFails(w)
    \/ CannotCheck(w) \/ CooldownActive(w) \/ CooldownOver(w)
    \/ JokeArrives(w) \/ NoJoke(w) \/ JokeCallFails(w)
    \/ Login(w) \/ LoginFails(w) \/ Recheck(w)
    \/ Send(w) \/ SendRefused(w) \/ SendReplyLost(w)
    \/ RecordSuccess(w) \/ RecordSuccessFails(w)
    \/ RecordFailure(w) \/ RecordFailureFails(w)

Next ==
    \/ Tick
    \/ \E w \in Workers : Step(w) \/ Crash(w)
    \/ \E w \in Workers, e \in Events : Begin(w, e)

Spec == Init /\ [][Next]_vars

\* Every external call of an attempt returns or fails in the end.
FairSpec == Spec /\ \A w \in Workers : WF_vars(Step(w))

-----------------------------------------------------------------------------
(* Properties                                                              *)

\* As long as nothing goes wrong between a post and its record, one worker never
\* publishes twice within the cooldown, however its steps interleave with those of
\* other workers and with the clock.
CooldownPerWorker ==
    Faults = {} =>
        \A i, j \in DOMAIN published :
            i < j /\ published[i].by = published[j].by =>
                published[j].at - published[i].at > Cooldown

\* A SUCCESS record means that the event's post went out, not later than posted_at;
\* without faults a FAILED one means that it did not.  With SOCIAL_DRY_RUN there are
\* records of success, all of them marked, and nothing is out.
RecordsAreTrue ==
    \A p \in {posts[i] : i \in DOMAIN posts} :
        LET out == {k \in DOMAIN published : published[k].event = p.event}
        IN  /\ p.status = "SUCCESS" /\ ~p.dry =>
                   \E k \in out : published[k].at <= p.postedAt
            /\ p.status = "FAILED" /\ Faults = {} => out = {}
            /\ p.dry \/ dryRun => p.dry /\ dryRun /\ published = <<>>

\* A publication counts when its record is there or still to be written.
Counts(k) ==
    \/ published[k].event \in Recorded
    \/ pc[published[k].by] = "record" /\ event[published[k].by] = published[k].event

\* The second of two posts within the cooldown has one of two excuses.  The first was
\* torn: its reply was lost, its SUCCESS record failed or its worker was killed, so that
\* no record of it exists or will - and then the same worker may do it alone.  Or the two
\* raced: another worker's check came before the first one's record.
OnlyRacesAndTornPostsBreakCooldown ==
    \A i, j \in DOMAIN published :
        i < j /\ published[j].at - published[i].at <= Cooldown =>
            \/ ~Counts(i)
            \/ /\ published[i].by # published[j].by
               /\ published[i].event \notin published[j].known

Gate == INSTANCE CooldownGate WITH
    Authors <- Workers,
    Topics <- Events,
    MayTear <- Faults # {},
    clock <- now,
    log <- [k \in DOMAIN published |->
               [by |-> published[k].by, topic |-> published[k].event,
                at |-> published[k].at, counts |-> Counts(k)]]

\* Whatever fails in between - calls that raise, replies that are lost, records that are
\* not written, killed workers - an attempt does no more than the gate allows: a worker
\* publishes only when no post of its own that counts is within the cooldown, and a post
\* stops counting only when its own record is not written.
ImplementsGate == Gate!Spec

\* An attempt ends, and with it the task: the LLM is called at most max_retries times.
AttemptsEnd == \A w \in Workers : pc[w] # "idle" ~> pc[w] = "idle"

\* "Enforces a 30-minute cooldown between posts" (bluesky_client.py:39).
CooldownBetweenPosts ==
    \A i, j \in DOMAIN published :
        i < j => published[j].at - published[i].at >= Cooldown
=============================================================================
