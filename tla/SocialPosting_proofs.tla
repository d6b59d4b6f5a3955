------------------------ MODULE SocialPosting_proofs ------------------------
(***************************************************************************)
(* Proofs about SocialPosting, for every number of workers and events and  *)
(* every cooldown: typing; one worker keeps the cooldown; records tell the *)
(* truth; only a race or a post without its record breaks the cooldown;    *)
(* and posting implements CooldownGate.                                    *)
(***************************************************************************)
EXTENDS SocialPosting, TLAPS

\* A SUCCESS record, not older than the publication, stands for it.
Covered(i) ==
    \E k \in DOMAIN posts :
        posts[k].status = "SUCCESS" /\ posts[k].postedAt >= published[i].at

NoneFromTheFuture == \A i \in DOMAIN published : published[i].at <= now

\* The only window in which a publication is not covered is its own "record" step.
PublicationsCovered ==
    \A i \in DOMAIN published : Covered(i) \/ pc[published[i].by] = "record"

\* A worker cleared to send has nothing of its own left within the cooldown.
ClearedToSend ==
    \A w \in Workers : pc[w] = "send" =>
        \A i \in DOMAIN published :
            published[i].by = w => published[i].at < now - Cooldown

CooldownInv ==
    /\ TypeOK
    /\ NoneFromTheFuture /\ PublicationsCovered /\ ClearedToSend
    /\ \A i, j \in DOMAIN published :
          i < j /\ published[i].by = published[j].by =>
              published[j].at - published[i].at > Cooldown

-----------------------------------------------------------------------------
\* A row appended to a table of rows: the others keep their places.
LEMMA AppendRow ==
    ASSUME NEW S, NEW s \in Seq(S), NEW e \in S
    PROVE  /\ Append(s, e) \in Seq(S)
           /\ DOMAIN s \subseteq DOMAIN Append(s, e)
           /\ DOMAIN Append(s, e) = DOMAIN s \cup {Len(s) + 1}
           /\ Len(s) + 1 \notin DOMAIN s
           /\ \A i \in DOMAIN s : i < Len(s) + 1 /\ Append(s, e)[i] = s[i]
           /\ Append(s, e)[Len(s) + 1] = e
  OBVIOUS

\* What typing says of the fields of the rows and publications.
LEMMA TypedRows ==
    ASSUME TypeOK
    PROVE  /\ \A i \in DOMAIN published :
                 /\ published[i] \in Publication
                 /\ published[i].by \in Workers /\ published[i].at \in Int
           /\ \A k \in DOMAIN posts : posts[k] \in Post /\ posts[k].postedAt \in Int
  <1>1. published \in Seq(Publication) /\ posts \in Seq(Post)
    BY DEF TypeOK
  <1>2. \A p \in Publication : p.by \in Workers /\ p.at \in Int
    BY DEF Publication
  <1>3. \A p \in Post : p.postedAt \in Int
    BY DEF Post
  <1>4. \A i \in DOMAIN published : published[i] \in Publication
    BY <1>1
  <1>5. \A k \in DOMAIN posts : posts[k] \in Post
    BY <1>1
  <1> QED BY <1>2, <1>3, <1>4, <1>5

\* The initial state is typed.
LEMMA InitTyped == Init => TypeOK
  BY PostingParameters DEF Init, TypeOK, Steps, PostingParameters

\* Every step keeps the types: an attempt never leaves the rows, the counter or the
\* history outside their domains.
LEMMA StepTyped == TypeOK /\ [Next]_vars => TypeOK'
  <1> SUFFICES ASSUME TypeOK, [Next]_vars PROVE TypeOK'
    OBVIOUS
  <1> USE PostingParameters DEF PostingParameters, TypeOK, Steps
  <1>1. CASE UNCHANGED vars
    BY <1>1 DEF vars
  <1>2. CASE Tick
    BY <1>2 DEF Tick
  <1>3. ASSUME NEW w \in Workers, Step(w) \/ Crash(w) PROVE TypeOK'
    <2> USE DEF Goto
    <2>1. ASSUME GiveUp(w) PROVE TypeOK'
      BY <2>1 DEF GiveUp
    <2>2. CASE DryRunRecord(w)
      <3>1. [event |-> event[w], status |-> "SUCCESS", postedAt |-> now, dry |-> TRUE] \in Post
        BY <2>2 DEF DryRunRecord, Post
      <3> QED BY <2>2, <3>1 DEF DryRunRecord
    <2>3. CASE RecordSuccess(w)
      <3>1. [event |-> event[w], status |-> "SUCCESS", postedAt |-> now, dry |-> FALSE] \in Post
        BY <2>3 DEF RecordSuccess, Post
      <3> QED BY <2>3, <3>1 DEF RecordSuccess
    <2>4. CASE RecordFailure(w)
      <3>1. [event |-> event[w], status |-> "FAILED", postedAt |-> 0, dry |-> FALSE] \in Post
        BY <2>4 DEF RecordFailure, Post
      <3> QED BY <2>4, <3>1 DEF RecordFailure
    <2>5. CASE Send(w) \/ SendReplyLost(w)
      <3> DEFINE p == [event |-> event[w], by |-> w, at |-> now, known |-> known[w]]
      <3>0. pc[w] = "send" /\ Publish(w) /\ (Goto(w, "record") \/ Goto(w, "fail"))
            /\ UNCHANGED <<attempt, untried, posts>>
        BY <2>5 DEF Send, SendReplyLost
      <3>1. p \in Publication
        <4>1. event[w] \in Events /\ known[w] \in SUBSET Events
          BY <3>0
        <4> QED BY <4>1 DEF Publication
      <3> HIDE DEF p
      <3>2. published' \in Seq(Publication)
        <4>1. published' = Append(published, p)
          BY <3>0 DEF Publish, p
        <4> QED BY <3>1, <4>1
      <3>3. known' \in [Workers -> SUBSET Events]
        BY <3>0 DEF Publish
      <3> QED BY <3>0, <3>2, <3>3
    <2>6. CASE CooldownOver(w) \/ Login(w)
      BY <2>6 DEF CooldownOver, Login
    <2>7. CASE Recheck(w)
      <3>1. Recorded \subseteq Events
        <4>1. \A k \in DOMAIN posts : posts[k] \in Post
          OBVIOUS
        <4> QED BY <4>1 DEF Recorded, Post
      <3>2. known' \in [Workers -> SUBSET Events]
        BY <2>7, <3>1 DEF Recheck
      <3> QED BY <2>7, <3>2 DEF Recheck
    <2>8. CASE SendRefused(w) \/ RecordSuccessFails(w)
      BY <2>8 DEF SendRefused, RecordSuccessFails
    <2>9. CASE JokeArrives(w) \/ JokeCallFails(w)
      <3>1. attempt' \in [Workers -> 0..MaxRetries]
        BY <2>9 DEF JokeArrives, JokeCallFails
      <3>2. /\ pc[w] = "generate"
            /\ Goto(w, "login") \/ Goto(w, "generate") \/ Goto(w, "idle")
            /\ UNCHANGED <<known, untried, posts, published>>
        <4>1. CASE JokeArrives(w)
          BY <4>1 DEF JokeArrives
        <4>2. CASE JokeCallFails(w)
          BY <4>2 DEF JokeCallFails
        <4> QED BY <2>9, <4>1, <4>2
      <3> QED BY <3>1, <3>2
    <2> QED
      BY <1>3, <2>1, <2>2, <2>3, <2>4, <2>5, <2>6, <2>7, <2>8, <2>9
      DEF Step, Crash, DryRunRecordFails, CannotCheck, CooldownActive, NoJoke, LoginFails,
          RecordFailureFails
  <1>4. ASSUME NEW w \in Workers, NEW e \in Events, Begin(w, e) PROVE TypeOK'
    BY <1>4 DEF Begin
  <1> QED BY <1>1, <1>2, <1>3, <1>4 DEF Next

\* Type correctness, for every number of workers, events and retries.
THEOREM TypeCorrect == Spec => []TypeOK
  <1>1. Init => TypeOK
    BY InitTyped
  <1>2. TypeOK /\ [Next]_vars => TypeOK'
    BY StepTyped
  <1> QED BY <1>1, <1>2, PTL DEF Spec

-----------------------------------------------------------------------------
\* A step that leaves the clock, the rows and the publications alone, takes no worker
\* out of "record" and none into "send", keeps the cooldown.
LEMMA QuietStep ==
    ASSUME CooldownInv, TypeOK', UNCHANGED <<now, posts, published>>,
           \A w \in Workers : pc[w] = "record" => pc'[w] = "record",
           \A w \in Workers : pc'[w] = "send" => pc[w] = "send"
    PROVE  CooldownInv'
  <1>1. \A i \in DOMAIN published : published[i].by \in Workers
    BY TypedRows DEF CooldownInv
  <1>2. NoneFromTheFuture' /\ ClearedToSend'
    BY DEF CooldownInv, NoneFromTheFuture, ClearedToSend
  <1>3. PublicationsCovered'
    BY <1>1 DEF CooldownInv, PublicationsCovered, Covered
  <1> QED BY <1>2, <1>3 DEF CooldownInv

\* The clock only makes publications older.
LEMMA TickKeepsCooldown ==
    ASSUME CooldownInv, TypeOK', Tick PROVE CooldownInv'
  <1>1. \A i \in DOMAIN published : published[i] \in Publication /\ published[i].at \in Int
    BY TypedRows DEF CooldownInv
  <1>2. now \in Int /\ now' = now + 1 /\ Cooldown \in Nat
        /\ UNCHANGED <<pc, posts, published>>
    BY PostingParameters DEF Tick, CooldownInv, TypeOK, PostingParameters
  <1>3. NoneFromTheFuture'
    BY <1>1, <1>2 DEF CooldownInv, NoneFromTheFuture
  <1>4. ClearedToSend'
    BY <1>1, <1>2 DEF CooldownInv, ClearedToSend
  <1>5. PublicationsCovered'
    BY <1>2 DEF CooldownInv, PublicationsCovered, Covered
  <1> QED BY <1>2, <1>3, <1>4, <1>5 DEF CooldownInv

\* A new record covers at least what was covered; a SUCCESS one covers everything.
LEMMA RecordKeepsCooldown ==
    ASSUME CooldownInv, TypeOK', NEW w \in Workers, NEW p \in Post,
           posts' = Append(posts, p), pc' = [pc EXCEPT ![w] = "idle"],
           UNCHANGED <<now, published>>,
           pc[w] = "record" => p.status = "SUCCESS" /\ p.postedAt = now
    PROVE  CooldownInv'
  <1>1. /\ pc \in [Workers -> Steps] /\ posts \in Seq(Post)
        /\ \A i \in DOMAIN published : published[i].by \in Workers
    BY TypedRows DEF CooldownInv, TypeOK
  <1>2. NoneFromTheFuture' /\ ClearedToSend'
    BY <1>1 DEF CooldownInv, NoneFromTheFuture, ClearedToSend
  <1>3. ASSUME NEW i \in DOMAIN published PROVE Covered(i)' \/ pc'[published[i].by] = "record"
    <2>1. /\ DOMAIN posts \subseteq DOMAIN posts' /\ Len(posts) + 1 \in DOMAIN posts'
          /\ \A k \in DOMAIN posts : posts'[k] = posts[k]
          /\ posts'[Len(posts) + 1] = p
      BY <1>1, AppendRow
    <2>2. CASE Covered(i)
      BY <2>1, <2>2 DEF Covered
    <2>3. CASE pc[published[i].by] = "record" /\ published[i].by # w
      BY <1>1, <2>3
    <2>4. CASE pc[w] = "record"
      <3>1. now >= published[i].at
        <4>1. now \in Int /\ published[i].at \in Int
          BY TypedRows DEF CooldownInv, TypeOK
        <4> QED BY <4>1 DEF CooldownInv, NoneFromTheFuture
      <3> QED BY <2>1, <2>4, <3>1 DEF Covered
    <2> QED BY <2>2, <2>3, <2>4 DEF CooldownInv, PublicationsCovered
  <1>4. PublicationsCovered'
    BY <1>3 DEF PublicationsCovered
  <1> QED BY <1>2, <1>4 DEF CooldownInv

\* The second check of the cooldown sees a record for everything the worker published.
LEMMA RecheckClears ==
    ASSUME CooldownInv, TypeOK', NEW w \in Workers, Recheck(w) PROVE CooldownInv'
  <1>1. /\ pc \in [Workers -> Steps] /\ now \in Int /\ Cooldown \in Nat
        /\ pc[w] = "recheck" /\ pc' = [pc EXCEPT ![w] = "send"]
        /\ UNCHANGED <<now, posts, published>>
    BY PostingParameters DEF CooldownInv, TypeOK, Recheck, Goto, PostingParameters
  <1>2. \A i \in DOMAIN published : published[i].by \in Workers /\ published[i].at \in Int
    BY TypedRows DEF CooldownInv
  <1>3. \A k \in DOMAIN posts : posts[k].postedAt \in Int
    BY TypedRows DEF CooldownInv
  <1>4. ASSUME NEW i \in DOMAIN published, published[i].by = w
        PROVE  published[i].at < now - Cooldown
    <2>1. Covered(i)
      BY <1>1, <1>4 DEF CooldownInv, PublicationsCovered
    <2>2. PICK k \in DOMAIN posts :
              posts[k].status = "SUCCESS" /\ posts[k].postedAt >= published[i].at
      BY <2>1 DEF Covered
    <2>3. ~(posts[k].postedAt >= now - Cooldown)
      BY <2>2 DEF Recheck, InCooldown
    <2> QED BY <1>1, <1>2, <1>3, <2>2, <2>3
  <1>5. ClearedToSend'
    BY <1>1, <1>4 DEF CooldownInv, ClearedToSend
  <1>6. NoneFromTheFuture'
    BY <1>1 DEF CooldownInv, NoneFromTheFuture
  <1>7. PublicationsCovered'
    BY <1>1, <1>2 DEF CooldownInv, PublicationsCovered, Covered
  <1> QED BY <1>1, <1>5, <1>6, <1>7 DEF CooldownInv

\* A publication that is not lost leaves its worker in "record".
LEMMA SendKeepsCooldown ==
    ASSUME CooldownInv, TypeOK', NEW w \in Workers, Send(w) PROVE CooldownInv'
  <1> DEFINE p == [event |-> event[w], by |-> w, at |-> now, known |-> known[w]]
             n == Len(published) + 1
  <1>1. /\ pc \in [Workers -> Steps] /\ now \in Int /\ Cooldown \in Nat
        /\ pc[w] = "send" /\ pc' = [pc EXCEPT ![w] = "record"]
        /\ published \in Seq(Publication) /\ published' = Append(published, p)
        /\ UNCHANGED <<now, posts>>
    BY PostingParameters
    DEF CooldownInv, TypeOK, Send, Publish, Goto, PostingParameters
  <1>2. \A i \in DOMAIN published : published[i].by \in Workers /\ published[i].at \in Int
    BY TypedRows DEF CooldownInv
  <1>3. p \in Publication /\ p.by = w /\ p.at = now
    <2>1. event[w] \in Events /\ known[w] \in SUBSET Events /\ now \in 0..MaxTime
      BY <1>1 DEF CooldownInv, TypeOK
    <2> QED BY <2>1 DEF Publication
  <1> HIDE DEF p
  <1>4. /\ DOMAIN published' = DOMAIN published \cup {n} /\ n \notin DOMAIN published
        /\ \A i \in DOMAIN published : i < n /\ published'[i] = published[i]
        /\ published'[n] = p
    BY <1>1, <1>3, AppendRow
  <1>a. DOMAIN published \subseteq Int /\ n \in Int
    BY <1>1
  <1> HIDE DEF n
  <1>5. NoneFromTheFuture'
    BY <1>1, <1>3, <1>4 DEF CooldownInv, NoneFromTheFuture
  <1>6. ClearedToSend'
    BY <1>1, <1>3, <1>4 DEF CooldownInv, ClearedToSend
  <1>7. PublicationsCovered'
    <2>1. ASSUME NEW i \in DOMAIN published, Covered(i) PROVE Covered(i)'
      BY <1>1, <1>4, <2>1 DEF Covered
    <2>2. ASSUME NEW i \in DOMAIN published, pc[published[i].by] = "record"
          PROVE  pc'[published'[i].by] = "record"
      BY <1>1, <1>2, <1>4, <2>2
    <2>3. pc'[published'[n].by] = "record"
      BY <1>1, <1>3, <1>4
    <2> QED BY <1>4, <2>1, <2>2, <2>3 DEF CooldownInv, PublicationsCovered
  <1>8. ASSUME NEW i \in DOMAIN published', NEW j \in DOMAIN published',
               i < j, published'[i].by = published'[j].by
        PROVE  published'[j].at - published'[i].at > Cooldown
    <2>1. CASE i \in DOMAIN published /\ j \in DOMAIN published
      BY <1>4, <1>8, <2>1 DEF CooldownInv
    <2>2. CASE i \in DOMAIN published /\ j = n
      <3>1. published[i].by = w
        BY <1>3, <1>4, <1>8, <2>2
      <3>2. published[i].at < now - Cooldown
        BY <1>1, <2>2, <3>1 DEF CooldownInv, ClearedToSend
      <3> QED BY <1>1, <1>2, <1>3, <1>4, <2>2, <3>2
    <2>3. i \in DOMAIN published
      BY <1>4, <1>8, <1>a
    <2> QED BY <1>4, <2>1, <2>2, <2>3
  <1> QED BY <1>5, <1>6, <1>7, <1>8 DEF CooldownInv

\* Without faults every step keeps the cooldown invariant.
LEMMA StepKeepsCooldown ==
    ASSUME Faults = {}, CooldownInv, [Next]_vars PROVE CooldownInv'
  <1>1. TypeOK'
    BY StepTyped DEF CooldownInv
  <1>2. pc \in [Workers -> Steps] /\ now \in 0..MaxTime
    BY DEF CooldownInv, TypeOK
  <1>3. CASE UNCHANGED vars
    BY <1>1, <1>3, QuietStep DEF vars
  <1>4. CASE Tick
    BY <1>1, <1>4, TickKeepsCooldown
  <1>5. ASSUME NEW w \in Workers, NEW e \in Events, Begin(w, e) PROVE CooldownInv'
    <2>1. /\ UNCHANGED <<now, posts, published>>
          /\ \A v \in Workers : pc[v] = "record" => pc'[v] = "record"
          /\ \A v \in Workers : pc'[v] = "send" => pc[v] = "send"
      BY <1>2, <1>5 DEF Begin
    <2> QED BY <1>1, <2>1, QuietStep
  <1>6. ASSUME NEW w \in Workers, Step(w) \/ Crash(w) PROVE CooldownInv'
    <2>1. ASSUME UNCHANGED <<now, posts, published>>, pc[w] # "record",
                 NEW s \in Steps \ {"send"}, pc' = [pc EXCEPT ![w] = s]
          PROVE  CooldownInv'
      BY <1>1, <1>2, <2>1, QuietStep
    <2>2. CASE DryRunRecord(w)
      <3> DEFINE p == [event |-> event[w], status |-> "SUCCESS", postedAt |-> now, dry |-> TRUE]
      <3>1. p \in Post
        BY <2>2 DEF DryRunRecord, Post, CooldownInv, TypeOK
      <3> QED BY <1>1, <2>2, <3>1, RecordKeepsCooldown DEF DryRunRecord, Goto
    <2>3. CASE RecordSuccess(w)
      <3> DEFINE p == [event |-> event[w], status |-> "SUCCESS", postedAt |-> now, dry |-> FALSE]
      <3>1. p \in Post
        BY <2>3 DEF RecordSuccess, Post, CooldownInv, TypeOK
      <3> QED BY <1>1, <2>3, <3>1, RecordKeepsCooldown DEF RecordSuccess, Goto
    <2>4. CASE RecordFailure(w)
      <3> DEFINE p == [event |-> event[w], status |-> "FAILED", postedAt |-> 0, dry |-> FALSE]
      <3>1. p \in Post
        BY <2>4, PostingParameters
        DEF RecordFailure, Post, CooldownInv, TypeOK, PostingParameters
      <3> QED BY <1>1, <2>4, <3>1, RecordKeepsCooldown DEF RecordFailure, Goto
    <2>5. CASE Recheck(w)
      BY <1>1, <2>5, RecheckClears
    <2>6. CASE Send(w)
      BY <1>1, <2>6, SendKeepsCooldown
    <2>7. ~SendReplyLost(w) /\ ~RecordSuccessFails(w) /\ ~Crash(w)
      BY Faults = {} DEF SendReplyLost, RecordSuccessFails, Crash
    <2>8. CASE GiveUp(w) /\ pc[w] # "record"
      BY <2>1, <2>8 DEF GiveUp, Goto, Steps
    <2>9. CASE CooldownOver(w) \/ Login(w) \/ SendRefused(w)
      BY <2>1, <2>9 DEF CooldownOver, Login, SendRefused, Goto, Steps
    <2>10. CASE JokeArrives(w)
      BY <2>1, <2>10 DEF JokeArrives, Goto, Steps
    <2>11. CASE JokeCallFails(w)
      BY <2>1, <2>11 DEF JokeCallFails, Goto, Steps
    <2> QED
      BY <1>6, <2>2, <2>3, <2>4, <2>5, <2>6, <2>7, <2>8, <2>9, <2>10, <2>11
      DEF Step, DryRunRecordFails, CannotCheck, CooldownActive, NoJoke, LoginFails,
          RecordFailureFails
  <1> QED BY <1>3, <1>4, <1>5, <1>6 DEF Next

\* One worker never publishes twice within the cooldown, for every number of workers
\* and events and every cooldown, if nothing fails between a post and its record.
THEOREM CooldownHolds == Spec => []CooldownPerWorker
  <1>1. CASE Faults = {}
    <2>1. Init => CooldownInv
      BY InitTyped DEF Init, CooldownInv, NoneFromTheFuture, PublicationsCovered, ClearedToSend
    <2>2. CooldownInv /\ [Next]_vars => CooldownInv'
      BY <1>1, StepKeepsCooldown
    <2>3. CooldownInv => CooldownPerWorker
      BY DEF CooldownInv, CooldownPerWorker
    <2> QED BY <2>1, <2>2, <2>3, PTL DEF Spec
  <1>2. CASE Faults # {}
    <2>1. CooldownPerWorker
      BY <1>2 DEF CooldownPerWorker
    <2> QED BY <2>1, PTL
  <1> QED BY <1>1, <1>2

-----------------------------------------------------------------------------
(* Records and publications: each event is tried once, so a record belongs *)
(* to one publication, and the account and the table can be compared.      *)

Out == {published[i].event : i \in DOMAIN published}
Noted == {posts[k].event : k \in DOMAIN posts}

\* The steps of an attempt before the post goes out.
Unsent == {"dry", "check", "generate", "login", "recheck", "send"}

\* An event is the matter of one attempt, which publishes and records it at most once.
TriedOnce ==
    /\ \A w \in Workers : pc[w] # "idle" => event[w] \notin untried \cup Noted
    /\ \A v, w \in Workers :
          pc[v] # "idle" /\ pc[w] # "idle" /\ event[v] = event[w] => v = w
    /\ (Out \cup Noted) \cap untried = {}
    /\ \A w \in Workers : pc[w] \in Unsent => event[w] \notin Out
    /\ \A i, j \in DOMAIN published : published[i].event = published[j].event => i = j

\* A worker about to write a SUCCESS record has just published that event.
Recording ==
    \A w \in Workers : pc[w] = "record" =>
        \E i \in DOMAIN published :
            /\ published[i].event = event[w] /\ published[i].by = w
            /\ \A j \in DOMAIN published : i < j => published[j].by # w

\* Without faults an attempt that records a failure has not published.
Refused == \A w \in Workers : pc[w] = "fail" /\ Faults = {} => event[w] \notin Out

\* With SOCIAL_DRY_RUN nothing goes out, and only then are there dry records.
DryRuns ==
    /\ dryRun => published = <<>> /\ \A w \in Workers : pc[w] \in {"idle", "dry"}
    /\ ~dryRun => \A w \in Workers : pc[w] # "dry"
    /\ \A k \in DOMAIN posts : posts[k].dry = dryRun

-----------------------------------------------------------------------------
(* What a step of a worker may be.                                         *)

\* The attempt goes on, or ends, without touching the table or the account.
Goes(w, step) ==
    /\ pc' = [pc EXCEPT ![w] = step]
    /\ event' = IF step = "idle" THEN [event EXCEPT ![w] = NoEvent] ELSE event
    /\ known' = known \/ known' = [known EXCEPT ![w] = {}]
    /\ UNCHANGED <<now, dryRun, untried, posts, published>>

Proceeds(w) ==
    \/ pc[w] \notin {"idle", "record"} /\ Goes(w, "idle")
    \/ pc[w] = "record" /\ Faults # {} /\ (Goes(w, "idle") \/ Goes(w, "fail"))
    \/ pc[w] = "check" /\ Goes(w, "generate")
    \/ pc[w] = "generate" /\ (Goes(w, "generate") \/ Goes(w, "login"))
    \/ pc[w] = "login" /\ Goes(w, "recheck")
    \/ pc[w] = "send" /\ Goes(w, "fail")

\* A post goes out.
Announces(w, step) ==
    /\ pc[w] = "send"
    /\ step = "record" \/ (step = "fail" /\ Faults # {})
    /\ Publish(w)
    /\ pc' = [pc EXCEPT ![w] = step]
    /\ UNCHANGED <<now, dryRun, event, untried, posts>>

\* A record is written, and the attempt ends.
Notes(w, p) ==
    /\ p \in Post /\ p.event = event[w]
    /\ \/ pc[w] = "dry" /\ p.status = "SUCCESS" /\ p.dry
       \/ pc[w] = "record" /\ p.status = "SUCCESS" /\ ~p.dry /\ p.postedAt = now
       \/ pc[w] = "fail" /\ p.status = "FAILED" /\ ~p.dry
    /\ posts' = Append(posts, p)
    /\ pc' = [pc EXCEPT ![w] = "idle"]
    /\ event' = [event EXCEPT ![w] = NoEvent]
    /\ UNCHANGED <<now, dryRun, known, untried, published>>

\* Every step of a worker is of one of these kinds.
LEMMA StepKinds ==
    ASSUME TypeOK, NEW w \in Workers, Step(w) \/ Crash(w)
    PROVE  \/ Proceeds(w) \/ Recheck(w)
           \/ Announces(w, "record") \/ Announces(w, "fail")
           \/ \E p \in Post : Notes(w, p)
  <1>0. now \in 0..MaxTime /\ 0 \in 0..MaxTime /\ (pc[w] # "idle" => event[w] \in Events)
    BY PostingParameters DEF TypeOK, PostingParameters
  <1>1. CASE DryRunRecord(w)
    <2> DEFINE p == [event |-> event[w], status |-> "SUCCESS", postedAt |-> now, dry |-> TRUE]
    <2>1. p \in Post
      BY <1>0, <1>1 DEF DryRunRecord, Post
    <2>2. Notes(w, p)
      BY <1>1, <2>1 DEF DryRunRecord, Goto, Notes
    <2> HIDE DEF p
    <2> QED BY <2>1, <2>2
  <1>2. CASE RecordSuccess(w)
    <2> DEFINE p == [event |-> event[w], status |-> "SUCCESS", postedAt |-> now, dry |-> FALSE]
    <2>1. p \in Post
      BY <1>0, <1>2 DEF RecordSuccess, Post
    <2>2. Notes(w, p)
      BY <1>2, <2>1 DEF RecordSuccess, Goto, Notes
    <2> HIDE DEF p
    <2> QED BY <2>1, <2>2
  <1>3. CASE RecordFailure(w)
    <2> DEFINE p == [event |-> event[w], status |-> "FAILED", postedAt |-> 0, dry |-> FALSE]
    <2>1. p \in Post
      BY <1>0, <1>3 DEF RecordFailure, Post
    <2>2. Notes(w, p)
      BY <1>3, <2>1 DEF RecordFailure, Goto, Notes
    <2> HIDE DEF p
    <2> QED BY <2>1, <2>2
  <1>4. CASE Send(w)
    BY <1>4 DEF Send, Goto, Announces
  <1>5. CASE SendReplyLost(w)
    BY <1>5 DEF SendReplyLost, Goto, Announces
  <1>6. CASE GiveUp(w) /\ pc[w] # "idle" /\ (pc[w] = "record" => Faults # {})
    BY <1>6 DEF GiveUp, Goto, Goes, Proceeds
  <1>7. CASE CooldownOver(w) \/ Login(w)
    BY <1>7 DEF CooldownOver, Login, Goto, Goes, Proceeds
  <1>8. CASE JokeArrives(w) \/ JokeCallFails(w)
    BY <1>8 DEF JokeArrives, JokeCallFails, Goto, Goes, Proceeds
  <1>9. CASE SendRefused(w) \/ RecordSuccessFails(w)
    BY <1>9 DEF SendRefused, RecordSuccessFails, Goto, Goes, Proceeds
  <1>10. CASE Crash(w)
    BY <1>6, <1>10 DEF Crash
  <1>11. CASE DryRunRecordFails(w) \/ CannotCheck(w) \/ CooldownActive(w) \/ NoJoke(w)
              \/ LoginFails(w) \/ RecordFailureFails(w)
    BY <1>6, <1>11 DEF DryRunRecordFails, CannotCheck, CooldownActive, NoJoke, LoginFails,
                       RecordFailureFails
  <1> QED
    BY <1>1, <1>2, <1>3, <1>4, <1>5, <1>7, <1>8, <1>9, <1>10, <1>11 DEF Step

\* What a new record adds to the table.
LEMMA NotedBy ==
    ASSUME TypeOK, NEW w \in Workers, NEW p \in Post, Notes(w, p)
    PROVE  /\ Noted' = Noted \cup {event[w]}
           /\ Recorded' = Recorded \cup (IF p.status = "SUCCESS" THEN {event[w]} ELSE {})
           /\ DOMAIN posts' = DOMAIN posts \cup {Len(posts) + 1}
           /\ \A k \in DOMAIN posts : k # Len(posts) + 1 /\ posts'[k] = posts[k]
           /\ posts'[Len(posts) + 1] = p
  <1>1. posts \in Seq(Post) /\ posts' = Append(posts, p) /\ p.event = event[w]
    BY DEF TypeOK, Notes
  <1>2. /\ DOMAIN posts' = DOMAIN posts \cup {Len(posts) + 1}
        /\ Len(posts) + 1 \notin DOMAIN posts
        /\ \A k \in DOMAIN posts : posts'[k] = posts[k]
        /\ posts'[Len(posts) + 1] = p
    BY <1>1, AppendRow
  <1> QED BY <1>1, <1>2 DEF Noted, Recorded

\* What a publication adds to the account.
LEMMA OutBy ==
    ASSUME TypeOK, NEW w \in Workers, NEW s, Announces(w, s)
    PROVE  LET n == Len(published) + 1
           IN  /\ Out' = Out \cup {event[w]}
               /\ DOMAIN published' = DOMAIN published \cup {n}
               /\ n \in Int /\ DOMAIN published \subseteq Int
               /\ \A i \in DOMAIN published : i < n /\ published'[i] = published[i]
               /\ n \notin DOMAIN published
               /\ published'[n].event = event[w] /\ published'[n].by = w
               /\ published'[n].at = now /\ published'[n].known = known[w]
  <1> DEFINE p == [event |-> event[w], by |-> w, at |-> now, known |-> known[w]]
             n == Len(published) + 1
  <1>1. published \in Seq(Publication) /\ published' = Append(published, p)
    BY DEF TypeOK, Announces, Publish
  <1>2. p \in Publication
    <2>1. event[w] \in Events /\ known[w] \in SUBSET Events /\ now \in 0..MaxTime
      BY DEF TypeOK, Announces
    <2> QED BY <2>1 DEF Publication
  <1>3. p.event = event[w] /\ p.by = w /\ p.at = now /\ p.known = known[w]
    OBVIOUS
  <1>4. DOMAIN published \subseteq Int /\ n \in Int
    BY <1>1
  <1> HIDE DEF p
  <1>5. /\ DOMAIN published' = DOMAIN published \cup {n} /\ n \notin DOMAIN published
        /\ \A i \in DOMAIN published : i < n /\ published'[i] = published[i]
        /\ published'[n] = p
    BY <1>1, <1>2, AppendRow
  <1> HIDE DEF n
  <1>6. Out' = Out \cup {event[w]}
    BY <1>3, <1>5 DEF Out
  <1> QED BY <1>3, <1>4, <1>5, <1>6 DEF n

\* Steps that touch neither the rows nor the publications.
LEMMA SetsUnmoved ==
    /\ published' = published => Out' = Out
    /\ posts' = posts => Noted' = Noted /\ Recorded' = Recorded
  BY DEF Out, Noted, Recorded

\* Every step keeps each event a matter of one attempt.
LEMMA TriedOnceStep ==
    ASSUME TypeOK, TriedOnce, [Next]_vars PROVE TriedOnce'
  <1>0. /\ pc \in [Workers -> Steps] /\ event \in [Workers -> Events \cup {NoEvent}]
        /\ NoEvent \notin Events /\ \A w \in Workers : pc[w] # "idle" => event[w] \in Events
    BY PostingParameters DEF TypeOK, PostingParameters
  <1>1. CASE Tick \/ UNCHANGED vars
    BY <1>1, SetsUnmoved DEF Tick, vars, TriedOnce
  <1>2. ASSUME NEW w \in Workers, NEW e \in Events, Begin(w, e) PROVE TriedOnce'
    <2>1. /\ e \in untried /\ untried' = untried \ {e} /\ pc[w] = "idle"
          /\ event' = [event EXCEPT ![w] = e]
          /\ pc' = [pc EXCEPT ![w] = IF dryRun THEN "dry" ELSE "check"]
          /\ UNCHANGED <<posts, published>> /\ Out' = Out /\ Noted' = Noted
      BY <1>2, SetsUnmoved DEF Begin
    <2>2. e \notin Out \cup Noted /\ \A v \in Workers : pc[v] # "idle" => event[v] # e
      BY <2>1 DEF TriedOnce
    <2> QED BY <1>0, <2>1, <2>2 DEF TriedOnce, Unsent
  <1>3. ASSUME NEW w \in Workers, NEW s \in Steps, Goes(w, s), pc[w] # "idle",
               s \in Unsent => pc[w] \in Unsent
        PROVE  TriedOnce'
    <2>1. /\ pc' = [pc EXCEPT ![w] = s] /\ UNCHANGED <<untried, posts, published>>
          /\ Out' = Out /\ Noted' = Noted
          /\ \A v \in Workers : pc'[v] # "idle" => pc[v] # "idle" /\ event'[v] = event[v]
      BY <1>0, <1>3, SetsUnmoved DEF Goes
    <2>2. \A v \in Workers : pc'[v] \in Unsent => pc[v] \in Unsent /\ event'[v] = event[v]
      BY <1>0, <1>3, <2>1 DEF Unsent
    <2> QED BY <2>1, <2>2 DEF TriedOnce
  <1>4. ASSUME NEW w \in Workers, Proceeds(w) PROVE TriedOnce'
    BY <1>3, <1>4 DEF Proceeds, Steps, Unsent
  <1>5. ASSUME NEW w \in Workers, Recheck(w) PROVE TriedOnce'
    BY <1>0, <1>5, SetsUnmoved DEF Recheck, Goto, TriedOnce, Unsent
  <1>6. ASSUME NEW w \in Workers, NEW s \in {"record", "fail"}, Announces(w, s)
        PROVE  TriedOnce'
    <2>1. /\ pc[w] = "send" /\ pc' = [pc EXCEPT ![w] = s]
          /\ UNCHANGED <<event, untried, posts>> /\ Noted' = Noted
      BY <1>6, SetsUnmoved DEF Announces
    <2>2. event[w] \notin Out \cup untried
      BY <2>1 DEF TriedOnce, Unsent
    <2>3. \A v \in Workers : pc'[v] \in Unsent => v # w /\ pc[v] \in Unsent /\ event[v] # event[w]
      BY <1>0, <1>6, <2>1 DEF TriedOnce, Unsent
    <2>4. Out' = Out \cup {event[w]}
      BY <1>6, OutBy
    <2>5. \A i, j \in DOMAIN published' : published'[i].event = published'[j].event => i = j
      <3>1. \A i \in DOMAIN published : published[i].event # event[w]
        BY <2>2 DEF Out
      <3> QED BY <1>6, <3>1, OutBy DEF TriedOnce
    <2>6. \A v \in Workers : pc'[v] # "idle" => pc[v] # "idle"
      BY <1>0, <2>1
    <2> QED BY <2>1, <2>2, <2>3, <2>4, <2>5, <2>6 DEF TriedOnce
  <1>7. ASSUME NEW w \in Workers, NEW p \in Post, Notes(w, p) PROVE TriedOnce'
    <2>1. /\ pc[w] # "idle" /\ pc' = [pc EXCEPT ![w] = "idle"]
          /\ event' = [event EXCEPT ![w] = NoEvent]
          /\ UNCHANGED <<untried, published>> /\ Out' = Out
      BY <1>7, SetsUnmoved DEF Notes
    <2>2. Noted' = Noted \cup {event[w]}
      BY <1>7, NotedBy
    <2>3. \A v \in Workers : pc'[v] # "idle" =>
              pc[v] # "idle" /\ v # w /\ event'[v] = event[v] /\ pc'[v] = pc[v]
      BY <1>0, <2>1
    <2>4. \A v \in Workers : pc'[v] \in Unsent => pc'[v] # "idle"
      BY DEF Unsent
    <2> QED BY <2>1, <2>2, <2>3, <2>4 DEF TriedOnce
  <1> QED BY <1>1, <1>2, <1>4, <1>5, <1>6, <1>7, StepKinds DEF Next

\* Every step keeps a worker about to write its SUCCESS record matched with its post.
LEMMA RecordingStep ==
    ASSUME TypeOK, Recording, [Next]_vars PROVE Recording'
  <1>0. pc \in [Workers -> Steps] /\ event \in [Workers -> Events \cup {NoEvent}]
    BY DEF TypeOK
  <1>1. ASSUME UNCHANGED published,
               \A v \in Workers : pc'[v] = "record" => pc[v] = "record" /\ event'[v] = event[v]
        PROVE  Recording'
    BY <1>1 DEF Recording
  <1>2. CASE Tick \/ UNCHANGED vars
    BY <1>1, <1>2 DEF Tick, vars
  <1>3. ASSUME NEW w \in Workers, NEW e \in Events, Begin(w, e) PROVE Recording'
    BY <1>0, <1>1, <1>3 DEF Begin
  <1>4. ASSUME NEW w \in Workers, NEW s \in Steps \ {"record"}, Goes(w, s) PROVE Recording'
    BY <1>0, <1>1, <1>4 DEF Goes
  <1>5. ASSUME NEW w \in Workers, Proceeds(w) PROVE Recording'
    BY <1>4, <1>5 DEF Proceeds, Steps
  <1>6. ASSUME NEW w \in Workers, Recheck(w) PROVE Recording'
    BY <1>0, <1>1, <1>6 DEF Recheck, Goto
  <1>7. ASSUME NEW w \in Workers, NEW s \in {"record", "fail"}, Announces(w, s)
        PROVE  Recording'
    <2> DEFINE n == Len(published) + 1
    <2>1. /\ pc[w] = "send" /\ pc' = [pc EXCEPT ![w] = s] /\ event' = event
      BY <1>7 DEF Announces
    <2>2. /\ DOMAIN published' = DOMAIN published \cup {n}
          /\ n \in Int /\ DOMAIN published \subseteq Int
          /\ \A i \in DOMAIN published : i < n /\ published'[i] = published[i]
          /\ published'[n].event = event[w] /\ published'[n].by = w
      BY <1>7, OutBy
    <2> HIDE DEF n
    <2> SUFFICES ASSUME NEW v \in Workers, pc'[v] = "record"
                 PROVE  \E i \in DOMAIN published' :
                            /\ published'[i].event = event'[v] /\ published'[i].by = v
                            /\ \A j \in DOMAIN published' : i < j => published'[j].by # v
      BY DEF Recording
    <2>3. CASE v = w
      <3>1. \A j \in DOMAIN published' : ~(n < j)
        BY <2>2
      <3> QED BY <2>1, <2>2, <2>3, <3>1
    <2>4. CASE v # w
      <3>1. pc[v] = "record"
        BY <1>0, <2>1, <2>4
      <3>2. PICK i \in DOMAIN published :
                /\ published[i].event = event[v] /\ published[i].by = v
                /\ \A j \in DOMAIN published : i < j => published[j].by # v
        BY <3>1 DEF Recording
      <3> QED BY <2>1, <2>2, <2>4, <3>2
    <2> QED BY <2>3, <2>4
  <1>8. ASSUME NEW w \in Workers, NEW p \in Post, Notes(w, p) PROVE Recording'
    BY <1>0, <1>1, <1>8 DEF Notes
  <1> QED BY <1>2, <1>3, <1>5, <1>6, <1>7, <1>8, StepKinds DEF Next

\* A refusal by the API is the only way to "fail" without faults.
LEMMA RefusedStep ==
    ASSUME TypeOK, TriedOnce, Refused, [Next]_vars PROVE Refused'
  <1>0. pc \in [Workers -> Steps] /\ event \in [Workers -> Events \cup {NoEvent}]
    BY DEF TypeOK
  <1>1. ASSUME UNCHANGED published,
               \A v \in Workers : pc'[v] = "fail" =>
                   pc[v] \in {"send", "fail"} /\ event'[v] = event[v]
        PROVE  Refused'
    BY <1>1, SetsUnmoved DEF Refused, TriedOnce, Unsent
  <1>2. CASE Faults # {}
    BY <1>2 DEF Refused
  <1>3. CASE Faults = {}
    <2>1. CASE Tick \/ UNCHANGED vars
      BY <1>1, <2>1 DEF Tick, vars
    <2>2. ASSUME NEW w \in Workers, NEW e \in Events, Begin(w, e) PROVE Refused'
      BY <1>0, <1>1, <2>2 DEF Begin
    <2>3. ASSUME NEW w \in Workers, Proceeds(w) PROVE Refused'
      BY <1>0, <1>1, <1>3, <2>3 DEF Proceeds, Goes
    <2>4. ASSUME NEW w \in Workers, Recheck(w) PROVE Refused'
      BY <1>0, <1>1, <2>4 DEF Recheck, Goto
    <2>5. ASSUME NEW w \in Workers, NEW s \in {"record", "fail"}, Announces(w, s)
          PROVE  Refused'
      <3>1. /\ pc[w] = "send" /\ pc' = [pc EXCEPT ![w] = "record"] /\ event' = event
            /\ Out' = Out \cup {event[w]}
        BY <1>3, <2>5, OutBy DEF Announces
      <3>2. \A v \in Workers : pc'[v] = "fail" => pc[v] = "fail" /\ event[v] # event[w]
        BY <1>0, <3>1 DEF TriedOnce
      <3> QED BY <3>1, <3>2 DEF Refused
    <2>6. ASSUME NEW w \in Workers, NEW p \in Post, Notes(w, p) PROVE Refused'
      BY <1>0, <1>1, <2>6 DEF Notes
    <2> QED BY <2>1, <2>2, <2>3, <2>4, <2>5, <2>6, StepKinds DEF Next
  <1> QED BY <1>2, <1>3

\* A dry run stays one: its workers end with a record, and no other worker writes a dry one.
LEMMA DryRunsStep ==
    ASSUME TypeOK, DryRuns, [Next]_vars PROVE DryRuns'
  <1>0. pc \in [Workers -> Steps] /\ dryRun \in BOOLEAN
    BY DEF TypeOK
  <1>1. CASE Tick \/ UNCHANGED vars
    BY <1>1 DEF Tick, vars, DryRuns
  <1>2. ASSUME NEW w \in Workers, NEW e \in Events, Begin(w, e) PROVE DryRuns'
    BY <1>0, <1>2 DEF Begin, DryRuns
  <1>3. ASSUME NEW w \in Workers, Proceeds(w) PROVE DryRuns'
    BY <1>0, <1>3 DEF Proceeds, Goes, DryRuns
  <1>4. ASSUME NEW w \in Workers, Recheck(w) PROVE DryRuns'
    BY <1>0, <1>4 DEF Recheck, Goto, DryRuns
  <1>5. ASSUME NEW w \in Workers, NEW s \in {"record", "fail"}, Announces(w, s) PROVE DryRuns'
    <2>1. /\ pc[w] = "send" /\ pc' = [pc EXCEPT ![w] = s] /\ UNCHANGED <<dryRun, posts>>
      BY <1>5 DEF Announces
    <2>2. ~dryRun
      BY <2>1 DEF DryRuns
    <2> QED BY <1>0, <2>1, <2>2 DEF DryRuns
  <1>6. ASSUME NEW w \in Workers, NEW p \in Post, Notes(w, p) PROVE DryRuns'
    <2>1. /\ pc' = [pc EXCEPT ![w] = "idle"] /\ UNCHANGED <<dryRun, published>>
          /\ \/ pc[w] = "dry" /\ p.dry
             \/ pc[w] \in {"record", "fail"} /\ ~p.dry
      BY <1>6 DEF Notes
    <2>2. p.dry = dryRun
      <3>1. p.dry \in BOOLEAN
        BY DEF Post
      <3> QED BY <1>0, <2>1, <3>1 DEF DryRuns
    <2>3. \A k \in DOMAIN posts' : posts'[k].dry = dryRun
      BY <1>6, <2>2, NotedBy DEF DryRuns
    <2> QED BY <1>0, <2>1, <2>3 DEF DryRuns
  <1> QED BY <1>1, <1>2, <1>3, <1>4, <1>5, <1>6, StepKinds DEF Next

\* A record of success is not older than the publication it stands for.
RecordedAfter ==
    \A k \in DOMAIN posts, i \in DOMAIN published :
        posts[k].status = "SUCCESS" /\ posts[k].event = published[i].event =>
            published[i].at <= posts[k].postedAt

\* RecordsAreTrue without its part on dry runs.
RecordsMatch ==
    \A k \in DOMAIN posts :
        /\ posts[k].status = "SUCCESS" /\ ~posts[k].dry =>
              \E i \in DOMAIN published :
                  published[i].event = posts[k].event /\ published[i].at <= posts[k].postedAt
        /\ posts[k].status = "FAILED" /\ Faults = {} => posts[k].event \notin Out

RecordInv ==
    /\ TypeOK /\ TriedOnce /\ Recording /\ Refused /\ DryRuns
    /\ NoneFromTheFuture /\ RecordedAfter /\ RecordsMatch

\* Publications are made at the present time.
LEMMA FutureStep ==
    ASSUME TypeOK, NoneFromTheFuture, [Next]_vars PROVE NoneFromTheFuture'
  <1>0. now \in Int /\ \A i \in DOMAIN published : published[i].at \in Int
    BY TypedRows DEF TypeOK
  <1>1. CASE Tick \/ UNCHANGED vars
    BY <1>0, <1>1 DEF Tick, vars, NoneFromTheFuture
  <1>2. ASSUME NEW w \in Workers, NEW s \in {"record", "fail"}, Announces(w, s)
        PROVE  NoneFromTheFuture'
    <2>1. now' = now
      BY <1>2 DEF Announces
    <2> QED BY <1>0, <1>2, <2>1, OutBy DEF NoneFromTheFuture
  <1>3. ASSUME UNCHANGED <<now, published>> PROVE NoneFromTheFuture'
    BY <1>3 DEF NoneFromTheFuture
  <1>4. ASSUME NEW w \in Workers, NEW e \in Events, Begin(w, e) PROVE NoneFromTheFuture'
    BY <1>3, <1>4 DEF Begin
  <1>5. ASSUME NEW w \in Workers, Proceeds(w) \/ Recheck(w) \/ \E p \in Post : Notes(w, p)
        PROVE  NoneFromTheFuture'
    BY <1>3, <1>5 DEF Proceeds, Goes, Recheck, Goto, Notes
  <1> QED BY <1>1, <1>2, <1>4, <1>5, StepKinds DEF Next

\* Every step keeps the table in agreement with the account.
LEMMA RecordsStep ==
    ASSUME RecordInv, [Next]_vars PROVE RecordedAfter' /\ RecordsMatch'
  <1>0. /\ TypeOK /\ TriedOnce /\ Recording /\ Refused /\ NoneFromTheFuture
        /\ RecordedAfter /\ RecordsMatch
    BY DEF RecordInv
  <1>1. ASSUME UNCHANGED <<posts, published>> PROVE RecordedAfter' /\ RecordsMatch'
    BY <1>0, <1>1, SetsUnmoved DEF RecordedAfter, RecordsMatch
  <1>2. CASE Tick \/ UNCHANGED vars
    BY <1>1, <1>2 DEF Tick, vars
  <1>3. ASSUME NEW w \in Workers, NEW e \in Events, Begin(w, e)
        PROVE  RecordedAfter' /\ RecordsMatch'
    BY <1>1, <1>3 DEF Begin
  <1>4. ASSUME NEW w \in Workers, Proceeds(w) \/ Recheck(w)
        PROVE  RecordedAfter' /\ RecordsMatch'
    BY <1>1, <1>4 DEF Proceeds, Goes, Recheck, Goto
  <1>5. ASSUME NEW w \in Workers, NEW s \in {"record", "fail"}, Announces(w, s)
        PROVE  RecordedAfter' /\ RecordsMatch'
    <2> DEFINE n == Len(published) + 1
    <2>1. /\ UNCHANGED posts /\ Out' = Out \cup {event[w]}
          /\ DOMAIN published' = DOMAIN published \cup {n}
          /\ \A i \in DOMAIN published : published'[i] = published[i]
          /\ published'[n].event = event[w]
      BY <1>0, <1>5, OutBy DEF Announces
    <2> HIDE DEF n
    <2>2. \A k \in DOMAIN posts : posts[k].event # event[w]
      <3>1. pc[w] # "idle"
        BY <1>5 DEF Announces
      <3> QED BY <1>0, <3>1 DEF TriedOnce, Noted
    <2>3. RecordedAfter'
      BY <1>0, <2>1, <2>2 DEF RecordedAfter
    <2>4. RecordsMatch'
      BY <1>0, <2>1, <2>2 DEF RecordsMatch
    <2> QED BY <2>3, <2>4
  <1>6. ASSUME NEW w \in Workers, NEW p \in Post, Notes(w, p)
        PROVE  RecordedAfter' /\ RecordsMatch'
    <2> DEFINE m == Len(posts) + 1
    <2>1. /\ DOMAIN posts' = DOMAIN posts \cup {m}
          /\ \A k \in DOMAIN posts : posts'[k] = posts[k]
          /\ posts'[m] = p
      BY <1>0, <1>6, NotedBy
    <2> HIDE DEF m
    <2>2. /\ UNCHANGED published /\ Out' = Out /\ p.event = event[w]
      BY <1>6, SetsUnmoved DEF Notes
    <2>3. ASSUME p.status = "SUCCESS", NEW i \in DOMAIN published, published[i].event = p.event
          PROVE  published[i].at <= p.postedAt
      <3>1. CASE pc[w] = "record"
        <4>1. p.postedAt = now
          BY <1>6, <3>1 DEF Notes
        <4> QED BY <1>0, <4>1 DEF NoneFromTheFuture
      <3>2. CASE pc[w] = "dry"
        <4>1. event[w] \notin Out
          BY <1>0, <3>2 DEF TriedOnce, Unsent
        <4> QED BY <2>2, <2>3, <4>1 DEF Out
      <3> QED BY <1>6, <2>3, <3>1, <3>2 DEF Notes
    <2>4. ASSUME p.status = "SUCCESS", ~p.dry
          PROVE  \E i \in DOMAIN published :
                     published[i].event = p.event /\ published[i].at <= p.postedAt
      <3>1. pc[w] = "record"
        BY <1>6, <2>4 DEF Notes
      <3>2. PICK i \in DOMAIN published : published[i].event = event[w]
        BY <1>0, <3>1 DEF Recording
      <3> QED BY <2>2, <2>3, <2>4, <3>2
    <2>5. ASSUME p.status = "FAILED", Faults = {} PROVE p.event \notin Out
      <3>1. pc[w] = "fail"
        BY <1>6, <2>5 DEF Notes
      <3> QED BY <1>0, <2>2, <2>5, <3>1 DEF Refused
    <2>6. RecordedAfter'
      BY <1>0, <2>1, <2>2, <2>3 DEF RecordedAfter
    <2>7. RecordsMatch'
      BY <1>0, <2>1, <2>2, <2>4, <2>5 DEF RecordsMatch
    <2> QED BY <2>6, <2>7
  <1> QED BY <1>0, <1>2, <1>3, <1>4, <1>5, <1>6, StepKinds DEF Next

\* The invariant that the truth of the records rests on.
LEMMA RecordInvariant == Spec => []RecordInv
  <1>1. Init => RecordInv
    <2> SUFFICES ASSUME Init PROVE RecordInv
      OBVIOUS
    <2>1. TypeOK
      BY InitTyped
    <2>2. /\ Out = {} /\ Noted = {} /\ DOMAIN published = {} /\ DOMAIN posts = {}
          /\ \A w \in Workers : pc[w] = "idle"
      BY DEF Init, Out, Noted
    <2>3. TriedOnce
      BY <2>2 DEF TriedOnce, Unsent
    <2> QED BY <2>1, <2>2, <2>3
            DEF RecordInv, Init, Recording, Refused, DryRuns, NoneFromTheFuture,
                RecordedAfter, RecordsMatch
  <1>2. RecordInv /\ [Next]_vars => RecordInv'
    <2> SUFFICES ASSUME RecordInv, [Next]_vars PROVE RecordInv'
      OBVIOUS
    <2> QED BY StepTyped, TriedOnceStep, RecordingStep, RefusedStep, DryRunsStep, FutureStep,
               RecordsStep DEF RecordInv
  <1> QED BY <1>1, <1>2, PTL DEF Spec

\* The SocialPost table tells the truth about the account, for every number of workers,
\* events and retries and whatever fails: a success was published, not later than its
\* posted_at; without faults a failure was not; a dry run publishes nothing.
THEOREM RecordsTrue == Spec => []RecordsAreTrue
  <1>1. RecordInv => RecordsAreTrue
    <2> SUFFICES ASSUME RecordInv, NEW k \in DOMAIN posts
                 PROVE  LET p == posts[k]
                            out == {i \in DOMAIN published : published[i].event = p.event}
                        IN  /\ p.status = "SUCCESS" /\ ~p.dry =>
                                   \E i \in out : published[i].at <= p.postedAt
                            /\ p.status = "FAILED" /\ Faults = {} => out = {}
                            /\ p.dry \/ dryRun => p.dry /\ dryRun /\ published = <<>>
      BY DEF RecordsAreTrue
    <2>1. posts[k].dry = dryRun /\ (dryRun => published = <<>>)
      BY DEF RecordInv, DryRuns
    <2> QED BY <2>1 DEF RecordInv, RecordsMatch, Out
  <1> QED BY <1>1, RecordInvariant, PTL

-----------------------------------------------------------------------------
(* What the second check of the cooldown knows.                            *)

KnownRecorded == \A w \in Workers : known[w] \subseteq Recorded

\* From its second check to its post, what a worker knew of and what it has itself on
\* record is older than the cooldown.
ClearedOf ==
    \A w \in Workers, i \in DOMAIN published :
        pc[w] = "send" /\ (\/ published[i].event \in known[w]
                           \/ published[i].by = w /\ published[i].event \in Recorded) =>
            published[i].at < now - Cooldown

RaceInv == RecordInv /\ KnownRecorded /\ ClearedOf

\* Records are not taken back.
LEMMA RecordedGrows ==
    ASSUME TypeOK, [Next]_vars PROVE Recorded \subseteq Recorded'
  <1>1. CASE UNCHANGED posts
    BY <1>1, SetsUnmoved
  <1>2. ASSUME NEW w \in Workers, NEW p \in Post, Notes(w, p) PROVE Recorded \subseteq Recorded'
    BY <1>2, NotedBy
  <1>3. CASE Tick \/ UNCHANGED vars
    BY <1>1, <1>3 DEF Tick, vars
  <1>4. ASSUME NEW w \in Workers, NEW e \in Events, Begin(w, e) PROVE Recorded \subseteq Recorded'
    BY <1>1, <1>4 DEF Begin
  <1>5. ASSUME NEW w \in Workers,
               Proceeds(w) \/ Recheck(w) \/ Announces(w, "record") \/ Announces(w, "fail")
        PROVE  Recorded \subseteq Recorded'
    BY <1>1, <1>5 DEF Proceeds, Goes, Recheck, Announces
  <1> QED BY <1>2, <1>3, <1>4, <1>5, StepKinds DEF Next

\* What is known was recorded when it was read.
LEMMA KnownStep ==
    ASSUME TypeOK, KnownRecorded, [Next]_vars PROVE KnownRecorded'
  <1>0. known \in [Workers -> SUBSET Events] /\ Recorded \subseteq Recorded'
    BY RecordedGrows DEF TypeOK
  <1>1. CASE UNCHANGED known
    BY <1>0, <1>1 DEF KnownRecorded
  <1>2. ASSUME NEW w \in Workers, known' = [known EXCEPT ![w] = {}] PROVE KnownRecorded'
    BY <1>0, <1>2 DEF KnownRecorded
  <1>3. ASSUME NEW w \in Workers, Recheck(w) PROVE KnownRecorded'
    BY <1>0, <1>3 DEF Recheck, KnownRecorded
  <1>4. CASE Tick \/ UNCHANGED vars
    BY <1>1, <1>4 DEF Tick, vars
  <1>5. ASSUME NEW w \in Workers, NEW e \in Events, Begin(w, e) PROVE KnownRecorded'
    BY <1>1, <1>5 DEF Begin
  <1>6. ASSUME NEW w \in Workers,
               \/ Proceeds(w) \/ Announces(w, "record") \/ Announces(w, "fail")
               \/ \E p \in Post : Notes(w, p)
        PROVE  KnownRecorded'
    BY <1>1, <1>2, <1>6 DEF Proceeds, Goes, Announces, Publish, Notes
  <1> QED BY <1>3, <1>4, <1>5, <1>6, StepKinds DEF Next

\* A SUCCESS record of an event seen by the check is older than the cooldown, and so is
\* the publication before it.
LEMMA RecheckClearsRecorded ==
    ASSUME RecordInv, ~InCooldown, NEW i \in DOMAIN published, published[i].event \in Recorded
    PROVE  published[i].at < now - Cooldown
  <1>1. PICK k \in DOMAIN posts : posts[k].status = "SUCCESS" /\ posts[k].event = published[i].event
    BY DEF Recorded
  <1>2. published[i].at <= posts[k].postedAt
    BY <1>1 DEF RecordInv, RecordedAfter
  <1>3. ~(posts[k].postedAt >= now - Cooldown)
    BY <1>1 DEF InCooldown
  <1>4. published[i].at \in Int /\ posts[k].postedAt \in Int
    BY TypedRows DEF RecordInv
  <1>5. now \in Int /\ Cooldown \in Int
    BY PostingParameters DEF RecordInv, TypeOK, PostingParameters
  <1> QED BY <1>2, <1>3, <1>4, <1>5

\* Nothing that happens between the second check and the send makes it wrong: another
\* worker publishes and records only what was neither known nor the worker's own.
LEMMA ClearedStep ==
    ASSUME RaceInv, [Next]_vars PROVE ClearedOf'
  <1>0. /\ RecordInv /\ TypeOK /\ TriedOnce /\ Recording /\ KnownRecorded /\ ClearedOf
        /\ pc \in [Workers -> Steps] /\ known \in [Workers -> SUBSET Events]
        /\ now \in Int /\ Cooldown \in Int
    BY PostingParameters DEF RaceInv, RecordInv, TypeOK, PostingParameters
  <1>a. \A i \in DOMAIN published : published[i].at \in Int
    BY <1>0, TypedRows
  <1>1. ASSUME UNCHANGED <<posts, published>>, now' = now \/ now' = now + 1,
               \A v \in Workers : pc'[v] = "send" => pc[v] = "send" /\ known'[v] = known[v]
        PROVE  ClearedOf'
    BY <1>0, <1>a, <1>1, SetsUnmoved DEF ClearedOf
  <1>2. CASE Tick \/ UNCHANGED vars
    BY <1>1, <1>2 DEF Tick, vars
  <1>3. ASSUME NEW w \in Workers, NEW e \in Events, Begin(w, e) PROVE ClearedOf'
    <2>1. \A v \in Workers : pc'[v] = "send" => pc[v] = "send"
      BY <1>0, <1>3 DEF Begin
    <2> QED BY <1>1, <1>3, <2>1 DEF Begin
  <1>4. ASSUME NEW w \in Workers, NEW s \in Steps \ {"send"}, Goes(w, s) PROVE ClearedOf'
    <2>1. \A v \in Workers : pc'[v] = "send" => v # w /\ pc[v] = "send"
      BY <1>0, <1>4 DEF Goes
    <2>2. \A v \in Workers : v # w => known'[v] = known[v]
      BY <1>0, <1>4 DEF Goes
    <2> QED BY <1>1, <1>4, <2>1, <2>2 DEF Goes
  <1>5. ASSUME NEW w \in Workers, Proceeds(w) PROVE ClearedOf'
    BY <1>4, <1>5 DEF Proceeds, Steps
  <1>6. ASSUME NEW w \in Workers, Recheck(w) PROVE ClearedOf'
    <2>1. /\ ~InCooldown /\ UNCHANGED <<now, posts, published>> /\ Recorded' = Recorded
          /\ pc' = [pc EXCEPT ![w] = "send"] /\ known' = [known EXCEPT ![w] = Recorded]
      BY <1>6, SetsUnmoved DEF Recheck, Goto
    <2>2. \A i \in DOMAIN published :
              published[i].event \in Recorded => published[i].at < now - Cooldown
      BY <1>0, <2>1, RecheckClearsRecorded
    <2>3. \A v \in Workers : known'[v] \subseteq Recorded
      BY <1>0, <2>1 DEF KnownRecorded
    <2> QED BY <2>1, <2>2, <2>3 DEF ClearedOf
  <1>7. ASSUME NEW w \in Workers, NEW s \in {"record", "fail"}, Announces(w, s)
        PROVE  ClearedOf'
    <2> DEFINE n == Len(published) + 1
    <2>1. /\ pc[w] = "send" /\ pc' = [pc EXCEPT ![w] = s] /\ UNCHANGED <<now, posts>>
          /\ known' = [known EXCEPT ![w] = {}] /\ Recorded' = Recorded
      BY <1>7, SetsUnmoved DEF Announces, Publish
    <2>2. /\ DOMAIN published' = DOMAIN published \cup {n}
          /\ \A i \in DOMAIN published : published'[i] = published[i]
          /\ published'[n].event = event[w] /\ published'[n].by = w
      BY <1>0, <1>7, OutBy
    <2> HIDE DEF n
    <2>3. event[w] \notin Recorded
      <3>1. event[w] \notin Noted /\ Recorded \subseteq Noted
        BY <1>0, <2>1 DEF TriedOnce, Noted, Recorded
      <3> QED BY <3>1
    <2>4. \A v \in Workers : pc'[v] = "send" =>
              v # w /\ pc[v] = "send" /\ known'[v] = known[v] /\ event[w] \notin known[v]
      BY <1>0, <2>1, <2>3 DEF KnownRecorded
    <2> QED BY <1>0, <2>1, <2>2, <2>4 DEF ClearedOf
  <1>8. ASSUME NEW w \in Workers, NEW p \in Post, Notes(w, p) PROVE ClearedOf'
    <2>1. /\ pc' = [pc EXCEPT ![w] = "idle"] /\ pc[w] \in {"dry", "record", "fail"}
          /\ UNCHANGED <<now, known, published>>
          /\ pc[w] = "fail" => p.status = "FAILED"
      BY <1>8 DEF Notes
    <2>2. Recorded' \subseteq Recorded \cup {event[w]}
          /\ (pc[w] = "fail" => Recorded' = Recorded)
      BY <1>0, <1>8, <2>1, NotedBy
    <2> SUFFICES ASSUME NEW v \in Workers, NEW i \in DOMAIN published, pc'[v] = "send",
                        \/ published[i].event \in known[v]
                        \/ published[i].by = v /\ published[i].event \in Recorded'
                 PROVE  published[i].at < now - Cooldown
      BY <2>1 DEF ClearedOf
    <2>3. pc[v] = "send" /\ v # w
      BY <1>0, <2>1
    <2>4. CASE published[i].event = event[w] /\ published[i].by = v
      <3>1. CASE pc[w] = "dry"
        BY <1>0, <2>4, <3>1 DEF TriedOnce, Unsent, Out
      <3>2. CASE pc[w] = "record"
        BY <1>0, <2>3, <2>4, <3>2 DEF Recording, TriedOnce
      <3>3. CASE pc[w] = "fail"
        BY <1>0, <2>2, <2>3, <3>3 DEF ClearedOf
      <3> QED BY <2>1, <3>1, <3>2, <3>3
    <2> QED BY <1>0, <2>2, <2>3, <2>4 DEF ClearedOf
  <1> QED BY <1>0, <1>2, <1>3, <1>5, <1>6, <1>7, <1>8, StepKinds DEF Next

\* The invariant that the cooldown across workers rests on.
LEMMA RaceInvariant == Spec => []RaceInv
  <1>1. Init => KnownRecorded /\ ClearedOf
    BY DEF Init, KnownRecorded, ClearedOf
  <1>2. RaceInv /\ [Next]_vars /\ RecordInv' => RaceInv'
    <2>1. RaceInv => TypeOK /\ KnownRecorded
      BY DEF RaceInv, RecordInv
    <2> QED BY <2>1, KnownStep, ClearedStep DEF RaceInv
  <1> QED BY <1>1, <1>2, RecordInvariant, PTL DEF RaceInv, Spec

-----------------------------------------------------------------------------
(* The gate.                                                               *)

\* What the gate sees of the account.
Entry(k) == [by |-> published[k].by, topic |-> published[k].event,
             at |-> published[k].at, counts |-> Counts(k)]

GateLog == [k \in DOMAIN published |-> Entry(k)]

LEMMA CountsBoolean == ASSUME NEW k PROVE Counts(k) \in BOOLEAN /\ Counts(k)' \in BOOLEAN
  BY DEF Counts

\* A step that publishes nothing and changes the standing of no post does not show.
LEMMA SameLog ==
    ASSUME UNCHANGED published, \A k \in DOMAIN published : Counts(k)' <=> Counts(k)
    PROVE  GateLog' = GateLog
  <1>1. \A k \in DOMAIN published : Counts(k)' = Counts(k)
    BY CountsBoolean
  <1>2. \A k \in DOMAIN published : Entry(k)' = Entry(k)
    BY <1>1 DEF Entry
  <1> QED BY <1>2, Zenon DEF GateLog

\* A step that leaves the records and the workers about to write one alone.
LEMMA StandingKept ==
    ASSUME TypeOK, UNCHANGED <<posts, published>>,
           \A v \in Workers : pc'[v] = "record" <=> pc[v] = "record",
           \A v \in Workers : pc[v] = "record" => event'[v] = event[v]
    PROVE  GateLog' = GateLog
  <1>1. \A k \in DOMAIN published : published[k].by \in Workers
    BY TypedRows
  <1>2. \A k \in DOMAIN published : Counts(k)' <=> Counts(k)
    BY <1>1, SetsUnmoved DEF Counts
  <1> QED BY <1>2, SameLog

\* A worker that is cleared to send has nothing that counts within the cooldown.
LEMMA ClearedByGate ==
    ASSUME RaceInv, NEW w \in Workers, pc[w] = "send", NEW k \in DOMAIN published,
           published[k].by = w, Counts(k)
    PROVE  now - published[k].at > Cooldown
  <1>1. published[k].event \in Recorded
    BY DEF Counts
  <1>2. published[k].at < now - Cooldown
    BY <1>1 DEF RaceInv, ClearedOf
  <1>3. published[k].at \in Int /\ now \in Int /\ Cooldown \in Int
    BY TypedRows, PostingParameters DEF RaceInv, RecordInv, TypeOK, PostingParameters
  <1> QED BY <1>2, <1>3

\* A publication appends an entry, which counts if its record is still to come.
LEMMA LogGrows ==
    ASSUME RaceInv, NEW w \in Workers, NEW s \in {"record", "fail"}, Announces(w, s)
    PROVE  GateLog' = Append(GateLog, [by |-> w, topic |-> event[w], at |-> now,
                                       counts |-> s = "record"])
  <1>n. PICK n : n = Len(published) + 1
    OBVIOUS
  <1> DEFINE e == [by |-> w, topic |-> event[w], at |-> now, counts |-> s = "record"]
  <1>0. TypeOK /\ TriedOnce /\ pc \in [Workers -> Steps] /\ published \in Seq(Publication)
    BY DEF RaceInv, RecordInv, TypeOK
  <1>1. /\ DOMAIN published' = DOMAIN published \cup {n}
        /\ n \notin DOMAIN published
        /\ \A i \in DOMAIN published : published'[i] = published[i]
        /\ published'[n].event = event[w] /\ published'[n].by = w /\ published'[n].at = now
    BY <1>0, <1>n, OutBy
  <1>2. /\ pc[w] = "send" /\ pc' = [pc EXCEPT ![w] = s] /\ event' = event
        /\ Recorded' = Recorded
    BY SetsUnmoved DEF Announces
  <1>a. DOMAIN published = 1..Len(published) /\ Len(published) \in Nat
    BY <1>0
  <1>3. event[w] \notin Out /\ event[w] \notin Recorded
    <2>1. Recorded \subseteq Noted
      BY DEF Recorded, Noted
    <2> QED BY <1>0, <1>2, <2>1 DEF TriedOnce, Unsent
  <1>4. \A k \in DOMAIN published : Entry(k)' = Entry(k)
    <2> SUFFICES ASSUME NEW k \in DOMAIN published PROVE Entry(k)' = Entry(k)
      OBVIOUS
    <2>1. published[k].event # event[w] /\ published[k].by \in Workers
      BY <1>0, <1>3, TypedRows DEF Out
    <2>2. Counts(k)' <=> Counts(k)
      BY <1>0, <1>1, <1>2, <2>1 DEF Counts
    <2>3. Counts(k)' = Counts(k)
      BY <2>2, CountsBoolean
    <2> QED BY <1>1, <2>3 DEF Entry
  <1>5. Entry(n)' = e
    <2>1. pc'[w] = s
      BY <1>0, <1>2
    <2>2. Counts(n)' <=> s = "record"
      BY <1>0, <1>1, <1>2, <1>3, <2>1 DEF Counts
    <2>3. Counts(n)' = (s = "record")
      BY <2>2, CountsBoolean
    <2>4. Entry(n)' = [by |-> w, topic |-> event[w], at |-> now, counts |-> Counts(n)']
      BY <1>1 DEF Entry
    <2> QED BY <2>3, <2>4
  <1> HIDE DEF e
  <1>6. GateLog' = [k \in DOMAIN published \cup {n} |-> IF k = n THEN e ELSE Entry(k)]
    <2>1. \A k \in DOMAIN published \cup {n} : Entry(k)' = IF k = n THEN e ELSE Entry(k)
      BY <1>1, <1>4, <1>5
    <2> QED BY <1>1, <2>1, Zenon DEF GateLog
  <1>7. Append(GateLog, e) = [k \in DOMAIN published \cup {n} |-> IF k = n THEN e ELSE Entry(k)]
    <2> DEFINE S == {Entry(k) : k \in DOMAIN published} \cup {e}
    <2>1. GateLog \in [1..Len(published) -> S] /\ Len(published) \in Nat
      BY <1>a DEF GateLog
    <2> HIDE DEF S
    <2>2. GateLog \in Seq(S) /\ Len(GateLog) = Len(published) /\ DOMAIN GateLog = DOMAIN published
      BY <1>a, <2>1
    <2>3. e \in S
      BY DEF S
    <2>4. /\ Append(GateLog, e) \in Seq(S) /\ DOMAIN Append(GateLog, e) = DOMAIN published \cup {n}
          /\ \A k \in DOMAIN published : Append(GateLog, e)[k] = GateLog[k]
          /\ Append(GateLog, e)[n] = e
      BY <1>n, <2>2, <2>3, AppendRow
    <2>5. \A k \in DOMAIN published : GateLog[k] = Entry(k)
      BY DEF GateLog
    <2>6. Append(GateLog, e) \in [DOMAIN Append(GateLog, e) -> S]
      <3>1. \A t \in Seq(S) : t \in [1..Len(t) -> S] /\ DOMAIN t = 1..Len(t)
        OBVIOUS
      <3> QED BY <2>4, <3>1
    <2> QED BY <1>1, <2>4, <2>5, <2>6
  <1> QED BY <1>6, <1>7 DEF e

\* An entry whose standing changes.
LEMMA TornEntry ==
    ASSUME NEW b, NEW t, NEW a, NEW c,
           NEW e, e = [by |-> b, topic |-> t, at |-> a, counts |-> c], NEW d
    PROVE  [e EXCEPT !.counts = d] = [by |-> b, topic |-> t, at |-> a, counts |-> d]
  OBVIOUS

\* A worker that loses its record tears its own last post, and no other.
LEMMA TearingStep ==
    ASSUME RaceInv, NEW w \in Workers, NEW s \in {"idle", "fail"}, pc[w] = "record", Goes(w, s)
    PROVE  \E k \in DOMAIN published :
               /\ Entry(k).by = w /\ Entry(k).counts
               /\ \A l \in DOMAIN published : k < l => Entry(l).by # w
               /\ GateLog' = [GateLog EXCEPT ![k].counts = FALSE]
  <1>0. /\ TypeOK /\ TriedOnce /\ Recording /\ pc \in [Workers -> Steps]
        /\ event \in [Workers -> Events \cup {NoEvent}]
    BY DEF RaceInv, RecordInv, TypeOK
  <1>1. PICK k \in DOMAIN published :
            /\ published[k].event = event[w] /\ published[k].by = w
            /\ \A l \in DOMAIN published : k < l => published[l].by # w
    BY <1>0 DEF Recording
  <1>2. /\ pc' = [pc EXCEPT ![w] = s] /\ published' = published /\ Recorded' = Recorded
        /\ \A v \in Workers : v # w => event'[v] = event[v]
    BY <1>0, SetsUnmoved DEF Goes
  <1>3. event[w] \notin Recorded
    <2>1. Recorded \subseteq Noted
      BY DEF Recorded, Noted
    <2> QED BY <1>0, <2>1 DEF TriedOnce
  <1>4. Counts(k) /\ ~Counts(k)'
    BY <1>0, <1>1, <1>2, <1>3 DEF Counts
  <1>5. Counts(k)' = FALSE /\ Entry(k)' = [Entry(k) EXCEPT !.counts = FALSE]
    <2>1. Counts(k)' = FALSE
      BY <1>4, CountsBoolean
    <2>2. Entry(k)' = [by |-> published[k].by, topic |-> published[k].event,
                       at |-> published[k].at, counts |-> FALSE]
      BY <1>2, <2>1 DEF Entry
    <2>3. Entry(k) = [by |-> published[k].by, topic |-> published[k].event,
                      at |-> published[k].at, counts |-> Counts(k)]
      BY DEF Entry
    <2>4. \A d : [Entry(k) EXCEPT !.counts = d]
                  = [by |-> published[k].by, topic |-> published[k].event,
                     at |-> published[k].at, counts |-> d]
      BY <2>3, TornEntry
    <2>5. [Entry(k) EXCEPT !.counts = FALSE]
              = [by |-> published[k].by, topic |-> published[k].event,
                 at |-> published[k].at, counts |-> FALSE]
      BY <2>4, Zenon
    <2> QED BY <2>1, <2>2, <2>5, Zenon
  <1>6. \A j \in DOMAIN published : j # k => Entry(j)' = Entry(j)
    <2> SUFFICES ASSUME NEW j \in DOMAIN published, j # k PROVE Entry(j)' = Entry(j)
      OBVIOUS
    <2>1. published[j].event # event[w] /\ published[j].by \in Workers
      BY <1>0, <1>1, TypedRows DEF TriedOnce
    <2>2. Counts(j)' <=> Counts(j)
      BY <1>0, <1>2, <2>1 DEF Counts
    <2>3. Counts(j)' = Counts(j)
      BY <2>2, CountsBoolean
    <2> QED BY <1>2, <2>3 DEF Entry
  <1>7. GateLog' = [GateLog EXCEPT ![k].counts = FALSE]
    <2>1. GateLog[k] = Entry(k) /\ DOMAIN GateLog = DOMAIN published
      BY DEF GateLog
    <2>2. GateLog' = [j \in DOMAIN published |-> IF j = k THEN [Entry(k) EXCEPT !.counts = FALSE]
                                                         ELSE Entry(j)]
      <3>1. \A j \in DOMAIN published :
                Entry(j)' = IF j = k THEN [Entry(k) EXCEPT !.counts = FALSE] ELSE Entry(j)
        BY <1>5, <1>6
      <3> QED BY <1>2, <3>1, Zenon DEF GateLog
    <2> QED BY <2>1, <2>2 DEF GateLog
  <1>8. Entry(k).by = w /\ Entry(k).counts
    <2>1. Counts(k) = TRUE
      BY <1>4, CountsBoolean
    <2> QED BY <1>1, <2>1 DEF Entry
  <1>9. \A l \in DOMAIN published : Entry(l).by = published[l].by
    BY DEF Entry
  <1> QED BY <1>1, <1>7, <1>8, <1>9

\* A record counts what already counted: the post it stands for.
LEMMA RecordingIsQuiet ==
    ASSUME RaceInv, NEW w \in Workers, NEW p \in Post, Notes(w, p)
    PROVE  GateLog' = GateLog
  <1>0. /\ TypeOK /\ TriedOnce /\ Recording /\ DryRuns /\ Refused /\ pc \in [Workers -> Steps]
        /\ event \in [Workers -> Events \cup {NoEvent}]
    BY DEF RaceInv, RecordInv, TypeOK
  <1>1. /\ UNCHANGED published /\ pc' = [pc EXCEPT ![w] = "idle"]
        /\ event' = [event EXCEPT ![w] = NoEvent]
        /\ pc[w] \in {"dry", "record", "fail"} /\ (pc[w] = "fail" => p.status = "FAILED")
        /\ pc[w] = "record" => p.status = "SUCCESS"
    BY DEF Notes
  <1>2. Recorded' = Recorded \cup (IF p.status = "SUCCESS" THEN {event[w]} ELSE {})
    BY <1>0, NotedBy
  <1>3. CASE pc[w] = "dry"
    <2>1. DOMAIN published = {}
      BY <1>0, <1>3 DEF DryRuns
    <2> QED BY <1>1, <2>1, SameLog
  <1>4. CASE pc[w] = "record"
    <2> SUFFICES ASSUME NEW k \in DOMAIN published PROVE Counts(k)' <=> Counts(k)
      BY <1>1, SameLog
    <2>1. published[k].by \in Workers
      BY <1>0, TypedRows
    <2>2. CASE published[k].event = event[w]
      <3>1. published[k].by = w
        BY <1>0, <1>4, <2>2 DEF Recording, TriedOnce
      <3> QED BY <1>1, <1>2, <1>4, <2>2, <3>1 DEF Counts
    <2>3. CASE published[k].event # event[w]
      BY <1>0, <1>1, <1>2, <2>1, <2>3 DEF Counts
    <2> QED BY <2>2, <2>3
  <1>5. CASE pc[w] = "fail"
    <2> SUFFICES ASSUME NEW k \in DOMAIN published PROVE Counts(k)' <=> Counts(k)
      BY <1>1, SameLog
    <2>1. published[k].by \in Workers
      BY <1>0, TypedRows
    <2>2. Recorded' = Recorded
      BY <1>1, <1>2, <1>5
    <2> QED BY <1>0, <1>1, <1>5, <2>1, <2>2 DEF Counts
  <1> QED BY <1>1, <1>3, <1>4, <1>5

\* Every step of the workers is a step of the gate, or invisible to it.
LEMMA GateStep ==
    ASSUME RaceInv, [Next]_vars
    PROVE  [Gate!Next]_(Gate!vars)
  <1>0. TypeOK /\ pc \in [Workers -> Steps] /\ now \in Int /\ published \in Seq(Publication)
    BY DEF RaceInv, RecordInv, TypeOK
  <1>a. DOMAIN published = 1..Len(published) /\ Len(published) \in Nat
        /\ \A w \in Workers : pc[w] # "idle" => event[w] \in Events
    BY <1>0 DEF TypeOK
  <1>1. ASSUME now' = now, GateLog' = GateLog PROVE UNCHANGED Gate!vars
    BY <1>1 DEF Gate!vars, GateLog, Entry
  <1>2. CASE Tick
    <2>1. GateLog' = GateLog
      BY <1>0, <1>2, StandingKept DEF Tick
    <2>2. now' > now
      BY <1>0, <1>2 DEF Tick
    <2> QED BY <2>1, <2>2 DEF Gate!Next, Gate!Tick, GateLog, Entry
  <1>3. CASE UNCHANGED vars
    <2>1. GateLog' = GateLog
      BY <1>0, <1>3, StandingKept DEF vars
    <2> QED BY <1>1, <1>3, <2>1 DEF vars
  <1>4. ASSUME NEW w \in Workers, NEW e \in Events, Begin(w, e) PROVE UNCHANGED Gate!vars
    <2>1. GateLog' = GateLog
      <3>1. event \in [Workers -> Events \cup {NoEvent}]
        BY <1>0 DEF TypeOK
      <3> QED BY <1>0, <1>4, <3>1, StandingKept DEF Begin
    <2> QED BY <1>1, <1>4, <2>1 DEF Begin
  <1>5. ASSUME NEW w \in Workers, Recheck(w) PROVE UNCHANGED Gate!vars
    <2>1. GateLog' = GateLog
      BY <1>0, <1>5, StandingKept DEF Recheck, Goto
    <2> QED BY <1>1, <1>5, <2>1 DEF Recheck, Goto
  <1>6. ASSUME NEW w \in Workers, NEW s \in Steps \ {"record"}, Goes(w, s), pc[w] # "record"
        PROVE  UNCHANGED Gate!vars
    <2>1. GateLog' = GateLog
      <3>1. event \in [Workers -> Events \cup {NoEvent}]
        BY <1>0 DEF TypeOK
      <3>2. \A v \in Workers : (pc'[v] = "record" <=> pc[v] = "record")
                               /\ (pc[v] = "record" => event'[v] = event[v])
        BY <1>0, <1>6, <3>1 DEF Goes
      <3> QED BY <1>0, <1>6, <3>2, StandingKept DEF Goes
    <2> QED BY <1>1, <1>6, <2>1 DEF Goes
  <1>7. ASSUME NEW w \in Workers, NEW s \in {"idle", "fail"}, pc[w] = "record", Goes(w, s),
               Faults # {}
        PROVE  Gate!Next
    <2>1. PICK k \in DOMAIN published :
               /\ Entry(k).by = w /\ Entry(k).counts
               /\ \A l \in DOMAIN published : k < l => Entry(l).by # w
               /\ GateLog' = [GateLog EXCEPT ![k].counts = FALSE]
      BY <1>7, TearingStep
    <2>2. /\ DOMAIN GateLog = 1..Len(published) /\ Len(GateLog) = Len(published)
          /\ \A l \in DOMAIN published : GateLog[l] = Entry(l)
      <3>1. GateLog \in Seq({Entry(l) : l \in DOMAIN published})
        BY <1>a DEF GateLog
      <3> QED BY <1>a, <3>1 DEF GateLog
    <2>3. now' = now
      BY <1>7 DEF Goes
    <2>4. \A l \in k + 1..Len(GateLog) : l \in DOMAIN published /\ k < l
      BY <1>a, <2>2
    <2>5. /\ k \in DOMAIN GateLog /\ GateLog[k].by = w /\ GateLog[k].counts
          /\ \A l \in k + 1..Len(GateLog) : GateLog[l].by # w
      BY <1>a, <2>1, <2>2, <2>4
    <2>6. Gate!Tear(w)
      BY <2>1, <2>3, <2>5 DEF Gate!Tear, GateLog, Entry
    <2> QED BY <1>7, <2>6 DEF Gate!Next
  <1>8. ASSUME NEW w \in Workers, NEW s \in {"record", "fail"}, Announces(w, s)
        PROVE  Gate!Next
    <2>1. GateLog' = Append(GateLog, [by |-> w, topic |-> event[w], at |-> now,
                                      counts |-> s = "record"])
      BY <1>8, LogGrows
    <2>2. /\ pc[w] = "send" /\ event[w] \in Events /\ now' = now /\ (s = "fail" => Faults # {})
      BY <1>a, <1>8 DEF Announces
    <2>3. \A k \in DOMAIN published :
              published[k].by = w /\ Counts(k) => now - published[k].at > Cooldown
      BY <2>2, ClearedByGate
    <2>4. Gate!Cleared(w)
      BY <2>3 DEF Gate!Cleared
    <2>5. CASE s = "record"
      <3>1. Gate!Announce(w, event[w], TRUE)
        BY <2>1, <2>2, <2>4, <2>5 DEF Gate!Announce, GateLog, Entry
      <3> QED BY <2>2, <3>1 DEF Gate!Next
    <2>6. CASE s = "fail"
      <3>1. Gate!Announce(w, event[w], FALSE)
        BY <2>1, <2>2, <2>4, <2>6 DEF Gate!Announce, GateLog, Entry
      <3> QED BY <2>2, <2>6, <3>1 DEF Gate!Next
    <2> QED BY <2>5, <2>6
  <1>9. ASSUME NEW w \in Workers, NEW p \in Post, Notes(w, p) PROVE UNCHANGED Gate!vars
    BY <1>1, <1>9, RecordingIsQuiet DEF Notes
  <1>10. ASSUME NEW w \in Workers, Proceeds(w) PROVE Gate!Next \/ UNCHANGED Gate!vars
    BY <1>6, <1>7, <1>10 DEF Proceeds, Steps
  <1> QED
    BY <1>0, <1>2, <1>3, <1>4, <1>5, <1>8, <1>9, <1>10, StepKinds DEF Next

\* The workers implement the gate, for every number of workers, events and retries, every
\* cooldown and every combination of faults: a worker publishes only when no post of its
\* own that counts is within the cooldown, and only its last one can stop counting.
THEOREM GateImplemented == Spec => ImplementsGate
  <1>1. Init => Gate!Init
    BY DEF Init, Gate!Init
  <1>2. RaceInv /\ [Next]_vars => [Gate!Next]_(Gate!vars)
    BY GateStep
  <1> QED BY <1>1, <1>2, RaceInvariant, PTL DEF Spec, Gate!Spec, ImplementsGate
-----------------------------------------------------------------------------
(* What breaks the cooldown.                                               *)

\* A publication that does not count never counts again.
LEMMA StandingNeverReturns ==
    ASSUME RaceInv, [Next]_vars, NEW k \in DOMAIN published, Counts(k)'
    PROVE  Counts(k)
  <1>0. /\ TypeOK /\ TriedOnce /\ pc \in [Workers -> Steps]
        /\ event \in [Workers -> Events \cup {NoEvent}]
        /\ published[k].by \in Workers
    BY TypedRows DEF RaceInv, RecordInv, TypeOK
  <1>1. ASSUME UNCHANGED published, GateLog' = GateLog PROVE Counts(k)
    <2>1. GateLog'[k] = Entry(k)' /\ GateLog[k] = Entry(k)
      BY <1>1 DEF GateLog
    <2>2. Entry(k)'.counts = Counts(k)' /\ Entry(k).counts = Counts(k)
      BY DEF Entry
    <2> QED BY <1>1, <2>1, <2>2
  <1>2. CASE Tick \/ UNCHANGED vars
    BY <1>0, <1>1, <1>2, StandingKept DEF Tick, vars
  <1>3. ASSUME NEW w \in Workers, NEW e \in Events, Begin(w, e) PROVE Counts(k)
    BY <1>0, <1>1, <1>3, StandingKept DEF Begin
  <1>4. ASSUME NEW w \in Workers, Recheck(w) PROVE Counts(k)
    BY <1>0, <1>1, <1>4, StandingKept DEF Recheck, Goto
  <1>5. ASSUME NEW w \in Workers, NEW s \in Steps \ {"record"}, Goes(w, s) PROVE Counts(k)
    BY <1>0, <1>5, SetsUnmoved DEF Goes, Counts
  <1>6. ASSUME NEW w \in Workers, NEW p \in Post, Notes(w, p) PROVE Counts(k)
    BY <1>1, <1>6, RecordingIsQuiet DEF Notes
  <1>7. ASSUME NEW w \in Workers, NEW s \in {"record", "fail"}, Announces(w, s)
        PROVE  Counts(k)
    <2>1. /\ pc[w] = "send" /\ pc' = [pc EXCEPT ![w] = s] /\ event' = event
          /\ Recorded' = Recorded /\ published'[k] = published[k]
      BY <1>0, <1>7, SetsUnmoved, OutBy DEF Announces
    <2>2. published[k].event # event[w]
      BY <1>0, <2>1 DEF TriedOnce, Unsent, Out
    <2> QED BY <1>0, <2>1, <2>2 DEF Counts
  <1>8. ASSUME NEW w \in Workers, Proceeds(w) PROVE Counts(k)
    BY <1>5, <1>8 DEF Proceeds, Steps
  <1> QED BY <1>0, <1>2, <1>3, <1>4, <1>6, <1>7, <1>8, StepKinds DEF Next

\* A publication within the cooldown of one that counts is a race.
LEMMA ExcusesStep ==
    ASSUME RaceInv, OnlyRacesAndTornPostsBreakCooldown, [Next]_vars
    PROVE  OnlyRacesAndTornPostsBreakCooldown'
  <1>0. TypeOK /\ ClearedOf /\ now \in Int /\ Cooldown \in Int
    BY PostingParameters DEF RaceInv, RecordInv, TypeOK, PostingParameters
  <1>1. CASE UNCHANGED published
    <2> SUFFICES ASSUME NEW i \in DOMAIN published, NEW j \in DOMAIN published, i < j,
                        published[j].at - published[i].at <= Cooldown, Counts(i)'
                 PROVE  /\ published[i].by # published[j].by
                        /\ published[i].event \notin published[j].known
      BY <1>1 DEF OnlyRacesAndTornPostsBreakCooldown
    <2>1. Counts(i)
      BY StandingNeverReturns
    <2> QED BY <2>1 DEF OnlyRacesAndTornPostsBreakCooldown
  <1>2. ASSUME NEW w \in Workers, NEW s \in {"record", "fail"}, Announces(w, s)
        PROVE  OnlyRacesAndTornPostsBreakCooldown'
    <2> DEFINE n == Len(published) + 1
    <2>1. /\ DOMAIN published' = DOMAIN published \cup {n}
          /\ n \in Int /\ DOMAIN published \subseteq Int
          /\ \A i \in DOMAIN published : i < n /\ published'[i] = published[i]
          /\ published'[n].at = now /\ published'[n].known = known[w]
          /\ published'[n].by = w
      BY <1>0, <1>2, OutBy
    <2>2. pc[w] = "send" /\ \A i \in DOMAIN published : published[i].at \in Int
      BY <1>0, <1>2, TypedRows DEF Announces
    <2> HIDE DEF n
    <2> SUFFICES ASSUME NEW i \in DOMAIN published', NEW j \in DOMAIN published', i < j,
                        published'[j].at - published'[i].at <= Cooldown, Counts(i)'
                 PROVE  /\ published'[i].by # published'[j].by
                        /\ published'[i].event \notin published'[j].known
      BY DEF OnlyRacesAndTornPostsBreakCooldown
    <2>3. i \in DOMAIN published
      BY <2>1
    <2>4. Counts(i)
      BY <2>3, StandingNeverReturns
    <2>5. CASE j \in DOMAIN published
      BY <2>1, <2>3, <2>4, <2>5 DEF OnlyRacesAndTornPostsBreakCooldown
    <2>6. CASE j = n
      <3>1. ~(published[i].at < now - Cooldown) /\ ~(now - published[i].at > Cooldown)
        BY <1>0, <2>1, <2>2, <2>3, <2>6
      <3>2. published[i].by # w
        BY <2>2, <2>3, <2>4, <3>1, ClearedByGate
      <3>3. published[i].event \notin known[w]
        BY <1>0, <2>2, <2>3, <3>1 DEF ClearedOf
      <3> QED BY <2>1, <2>3, <2>6, <3>2, <3>3
    <2> QED BY <2>1, <2>5, <2>6
  <1>3. ASSUME NEW w \in Workers, Proceeds(w) \/ Recheck(w) \/ \E p \in Post : Notes(w, p)
        PROVE  OnlyRacesAndTornPostsBreakCooldown'
    BY <1>1, <1>3 DEF Proceeds, Goes, Recheck, Notes
  <1>4. ASSUME NEW w \in Workers, NEW e \in Events, Begin(w, e)
        PROVE  OnlyRacesAndTornPostsBreakCooldown'
    BY <1>1, <1>4 DEF Begin
  <1>5. CASE Tick \/ UNCHANGED vars
    BY <1>1, <1>5 DEF Tick, vars
  <1> QED BY <1>0, <1>2, <1>3, <1>4, <1>5, StepKinds DEF Next

\* Of two posts within the cooldown the first has no record, and never gets one, or it was
\* another worker's whose record came after the second one's check: for every number of
\* workers and events, every cooldown, and whatever fails.
THEOREM CooldownExcuses == Spec => []OnlyRacesAndTornPostsBreakCooldown
  <1>1. Init => OnlyRacesAndTornPostsBreakCooldown
    BY DEF Init, OnlyRacesAndTornPostsBreakCooldown
  <1> QED BY <1>1, ExcusesStep, RaceInvariant, PTL DEF Spec
=============================================================================
