---------------------------- MODULE MCScorecards ----------------------------
(* Scorecards for TLC: scorecards and sessions are interchangeable. *)
EXTENDS Scorecards, TLC

Symmetry == Permutations(Cards) \cup Permutations(Sessions)
=============================================================================
