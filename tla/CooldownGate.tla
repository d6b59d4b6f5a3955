---------------------------- MODULE CooldownGate ----------------------------
(***************************************************************************)
(* What posting promises to the tasks that call it, without its steps: an  *)
(* author (a worker process) announces something only if none of its       *)
(* announcements that count is as young as the cooldown.  An announcement  *)
(* counts through its SUCCESS record; when the record is not written, or   *)
(* the reply that leads to it is lost, the announcement is torn: it is out *)
(* and nothing holds the next one back.                                    *)
(***************************************************************************)
EXTENDS Integers, Sequences

CONSTANTS
    Authors,
    Topics,         \* what there is to announce
    Cooldown,
    MayTear         \* whether an announcement may be torn

VARIABLES
    clock,
    log             \* the announcements, in order

vars == <<clock, log>>

Init == clock = 0 /\ log = <<>>

Tick == clock' > clock /\ UNCHANGED log

\* Nothing of the author's that counts is as young as the cooldown.
Cleared(a) ==
    \A k \in DOMAIN log :
        log[k].by = a /\ log[k].counts => clock - log[k].at > Cooldown

Announce(a, topic, counts) ==
    /\ Cleared(a)
    /\ log' = Append(log, [by |-> a, topic |-> topic, at |-> clock, counts |-> counts])
    /\ UNCHANGED clock

\* The record of the author's last announcement is not written.
Tear(a) ==
    /\ \E k \in DOMAIN log :
          /\ log[k].by = a /\ log[k].counts
          /\ \A l \in k + 1..Len(log) : log[l].by # a
          /\ log' = [log EXCEPT ![k].counts = FALSE]
    /\ UNCHANGED clock

Next ==
    \/ Tick
    \/ \E a \in Authors, topic \in Topics : Announce(a, topic, TRUE)
    \/ MayTear /\ \E a \in Authors, topic \in Topics : Announce(a, topic, FALSE)
    \/ MayTear /\ \E a \in Authors : Tear(a)

Spec == Init /\ [][Next]_vars
=============================================================================
