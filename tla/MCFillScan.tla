----------------------------- MODULE MCFillScan -----------------------------
(***************************************************************************)
(* FillScan over every sequence of at most MaxLen readings at distinct     *)
(* times 0..MaxTime with levels 0..MaxLevel, in chronological order as     *)
(* _query_readings returns them, the short ones in reverse order too       *)
(* (analyze sorts), and one longer input, a steep fill that holds.         *)
(***************************************************************************)
EXTENDS FillScan

CONSTANTS MaxLen, MaxTime, MaxLevel

Increasing(n) ==
    {t \in [1..n -> 0..MaxTime] : \A i \in 1..n - 1 : t[i] < t[i + 1]}

InTimeOrder(n) ==
    {[i \in 1..n |-> [ts |-> t[i], value |-> v[i]]] :
        t \in Increasing(n), v \in [1..n -> 0..MaxLevel]}

Reversed(s) == [i \in DOMAIN s |-> s[Len(s) + 1 - i]]

SteepFill == [i \in 1..6 |-> [ts |-> i, value |-> IF i = 1 THEN 0 ELSE 6]]

MCInputs ==
    UNION {InTimeOrder(n) : n \in 0..MaxLen}
      \cup {Reversed(s) : s \in InTimeOrder(3)}
      \cup {SteepFill}
=============================================================================
