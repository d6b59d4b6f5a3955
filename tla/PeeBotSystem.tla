---------------------------- MODULE PeeBotSystem ----------------------------
(***************************************************************************)
(* The PeeBot task together with what its posting step promises: PeeBotTask *)
(* for the runs, CooldownGate for the announcements.  A run whose worker   *)
(* is killed after the post went out and before its record is written      *)
(* leaves an announcement nobody counts, and with acks_late its message    *)
(* comes back: the repetition this module is about.  What two workers do   *)
(* to each other's cooldown is SocialPosting's.                            *)
(*                                                                         *)
(* A run lasts MaxRun at most: the worker is started with --time-limit,    *)
(* which kills it.                                                         *)
(***************************************************************************)
EXTENDS PeeBotTask

CONSTANTS
    Cooldown,       \* cooldown_minutes
    MaxRun          \* --time-limit of the worker

ASSUME SystemParameters == Cooldown \in Nat /\ MaxRun \in Nat

VARIABLES
    age,            \* per worker: how long its run has lasted
    posted          \* the announcements, as CooldownGate logs them

svars == <<vars, age, posted>>

Gate == INSTANCE CooldownGate WITH
    Authors <- Workers, Topics <- Times, MayTear <- TRUE, clock <- now, log <- posted

SystemTypeOK ==
    /\ TypeOK
    /\ age \in [Workers -> 0..MaxRun]
    /\ posted \in Seq([by: Workers, topic: Times, at: 0..MaxTime, counts: BOOLEAN])

SystemInit == Init /\ age = [w \in Workers |-> 0] /\ posted = <<>>

-----------------------------------------------------------------------------
\* Mutant of SystemTick: there is no time limit.
MutantNoTimeLimit ==
    /\ Tick
    /\ age' = [w \in Workers |-> IF pc[w] = "idle" THEN 0 ELSE age[w] + 1]
    /\ UNCHANGED posted

\* Time passes for the runs as well, until the time limit kills them.
SystemTick ==
    /\ Tick
    /\ \A w \in Workers : pc[w] # "idle" => age[w] < MaxRun
    /\ age' = [w \in Workers |-> IF pc[w] = "idle" THEN 0 ELSE age[w] + 1]
    /\ UNCHANGED posted

\* A step of a run that posts nothing; the age is that of the run.
Quietly(w, step) ==
    /\ step
    /\ age' = IF pc'[w] = "idle" THEN [age EXCEPT ![w] = 0] ELSE age
    /\ UNCHANGED posted

\* Mutant of PostAnnounces: the cooldown is not looked at.
MutantAlwaysPosts(w) ==
    /\ TryPost(w)
    /\ posted' = Append(posted, [by |-> w, topic |-> found[w].detectedAt, at |-> now,
                                 counts |-> TRUE])
    /\ UNCHANGED age

\* The posting step lets the gate through; its record may not be written.  (Otherwise
\* it posts nothing: the cooldown is active, a service fails, or there is no joke.)
PostAnnounces(w) ==
    /\ TryPost(w)
    /\ \E counts \in BOOLEAN : Gate!Announce(w, found[w].detectedAt, counts)
    /\ UNCHANGED age

\* The worker is killed between the post and its record.
KilledUnrecorded(w) ==
    /\ pc[w] = "post"
    /\ Killed(w)
    /\ Gate!Announce(w, found[w].detectedAt, FALSE)
    /\ age' = [age EXCEPT ![w] = 0]

SystemNext ==
    \/ SystemTick
    \/ Beat /\ UNCHANGED <<age, posted>>
    \/ \E t \in Times : StoreReading(t) /\ UNCHANGED <<age, posted>>
    \/ \E w \in Workers :
          \/ Quietly(w, Step(w)) \/ Quietly(w, Breaks(w))
          \/ PostAnnounces(w) \/ KilledUnrecorded(w)

SystemSpec == SystemInit /\ [][SystemNext]_svars

-----------------------------------------------------------------------------
(* Properties                                                              *)

\* A fill is analyzed, and may be announced, again only while it is in the observation
\* window or in the overlap behind a cursor that is.  If that, and a run, fit into the
\* cooldown, a worker repeats an announcement of its own only when that was torn, however
\* often its runs are killed, retried, redelivered, overtaken by another worker's or
\* repeated with a cursor that one put back.  (Two workers may announce one fill with no
\* torn post: each may look at the cooldown before the other's record is written.)
OwnRepeatsAreTorn ==
    Window + Overlap + MaxRun <= Cooldown =>
        \A k, l \in DOMAIN posted :
            /\ k < l
            /\ posted[k].by = posted[l].by
            /\ posted[k].topic = posted[l].topic
            => ~posted[k].counts
=============================================================================
