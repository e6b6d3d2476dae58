---------------------------- MODULE MCWatchSession ----------------------------
(* Model values for checking WatchSession with TLC.                             *)
EXTENDS WatchSession, TLC

CONSTANTS p1, p2, c1, c2

TwoPanes   == {p1, p2}
TwoSubmits == {c1, c2}
Symmetry   == Permutations(TwoPanes) \cup Permutations(TwoSubmits)
=============================================================================
