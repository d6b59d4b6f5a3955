-------------------------- MODULE MCSocialPosting --------------------------
(***************************************************************************)
(* SocialPosting on a few workers and events, which are interchangeable.   *)
(***************************************************************************)
EXTENDS SocialPosting, TLC

EventSymmetry == Permutations(Events)

BothSymmetries == Permutations(Events) \cup Permutations(Workers)
=============================================================================
