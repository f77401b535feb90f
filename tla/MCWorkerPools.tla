---------------------------- MODULE MCWorkerPools ----------------------------
(* Instances of WorkerPools for TLC. *)
EXTENDS WorkerPools, TLC

CONSTANTS s1, s2, c1, c2, p1, p2

TwoSearches == {s1, s2}
TwoControl == {c1, c2}
TwoParses == {p1, p2}
OneIsEndless == {s1}
=============================================================================
