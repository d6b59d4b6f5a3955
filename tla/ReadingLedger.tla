--------------------------- MODULE ReadingLedger ---------------------------
(***************************************************************************)
(* What the ingestion process promises about the readings it takes over,   *)
(* whatever its queue, its buffer and its tasks do in between: a reading   *)
(* taken over is settled once it is a row of the table or was given up     *)
(* with a log line; nothing settled becomes unsettled; nothing is taken    *)
(* over after the client was disconnected; and the process stops with      *)
(* everything settled, unless it had to stop in a hurry.                   *)
(***************************************************************************)

CONSTANT Readings

VARIABLES
    taken,      \* readings put in the queue before the client disconnected
    stored,     \* those of them that have a row
    lost,       \* those of them that were given up
    phase,      \* "open", "draining" (client disconnected) or "stopped"
    hurried     \* the drain ran out of time, or was told it had nothing to wait for

vars == <<taken, stored, lost, phase, hurried>>

Unsettled == taken \ (stored \cup lost)

Init ==
    /\ taken = {} /\ stored = {} /\ lost = {}
    /\ phase = "open" /\ hurried = FALSE

\* One reading is taken over; a full queue gives up another one for it.  The new one
\* may have its row already, when the feed repeats itself.
Take ==
    /\ phase = "open"
    /\ \E r \in Readings \ taken, given \in SUBSET taken :
          /\ taken' = taken \cup {r}
          /\ lost' = lost \cup given
          /\ \A a, b \in given : a = b
          /\ stored' \in {stored, stored \cup {r}}
    /\ UNCHANGED <<phase, hurried>>

\* A batch gets its rows, or is given up, or both when nobody learns its outcome.
Settle ==
    /\ phase # "stopped"
    /\ \E written \in SUBSET taken, given \in SUBSET taken :
          /\ stored' = stored \cup written
          /\ lost' = lost \cup given
    /\ hurried' \in {hurried, TRUE}
    /\ UNCHANGED <<taken, phase>>

Drain ==
    /\ phase = "open"
    /\ phase' = "draining"
    /\ UNCHANGED <<taken, stored, lost, hurried>>

\* The process stops: only a hurried one leaves a reading unsettled.
Stop ==
    /\ phase # "stopped"
    /\ Unsettled = {} \/ hurried
    /\ phase' = "stopped"
    /\ UNCHANGED <<taken, stored, lost, hurried>>

Next == Take \/ Settle \/ Drain \/ Stop

Spec == Init /\ [][Next]_vars
=============================================================================
